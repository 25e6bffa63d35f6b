---------------------------- MODULE StableLaunch ----------------------------
(***************************************************************************)
(* The worker's unattended launch of stable canaries: cycles that gate on  *)
(* what is live, reserve a launch-ready snapshot under a lease, open the   *)
(* pair and record the launch.  Workers share the database only.  A step   *)
(* is one read or one transaction; a cycle may run in the production       *)
(* supervisor, which passes one timestamp to all of it, or in the launch   *)
(* loop, which reads the clock wherever it needs one.                      *)
(*                                                                         *)
(* Gates over market data, approvals and execution quality write nothing;  *)
(* each is an outcome its step may have.                                   *)
(***************************************************************************)
EXTENDS Integers, FiniteSets, FiniteSetsExt, Sequences

CONSTANTS
    Worker,             \* worker processes
    Snapshot,           \* launch-ready snapshots, each captured once
    Label,              \* routes
    LabelOf,            \* the label of a snapshot
    Owner,              \* uuids that leases are taken under
    None,
    Supervision,        \* whether cycles are supervised: a set of BOOLEANs
    ShadowModes,        \* the values stable_canary_launch_shadow_mode takes
    TTL, Retention,     \* stable_canary_launch_reservation_..._seconds
    MaxAge,             \* launch_ready_canary_max_snapshot_age_seconds
    MaxActive,          \* stable_canary_launch_max_active_live_executions
    MaxRoutes,          \* stable_canary_launch_max_routes_per_cycle
    Notional,           \* suggested_canary_notional of a snapshot's route
    MaxNotional,        \* stable_canary_launch_max_total_live_notional
    Cooldown,           \* stable_canary_launch_global_cooldown_seconds
    LabelCooldown,      \* stable_canary_launch_label_cooldown_seconds
    Window,             \* stable_canary_launch_recent_launch_window_seconds
    MaxLaunches,        \* stable_canary_launch_max_launches_per_window
    MaxLabelLaunches,   \* stable_canary_launch_max_label_launches_per_window
    MaxStall,           \* how long a clock reading may be in use
    MaxTime, MaxRecords \* bounds of the model

ASSUME SnapshotAssumption == LabelOf \in [Snapshot -> Label] /\ Notional \in [Snapshot -> Nat]
ASSUME ModesAssumption    == Supervision \subseteq BOOLEAN /\ ShadowModes \subseteq BOOLEAN
ASSUME NoneAssumption     == None \notin Owner \cup Snapshot \cup Int \cup [owner : Owner, at : Nat]
\* WorkerSettings requires retention >= ttl; a reading older than the
\* difference could reserve behind a reservation that retention removed.
ASSUME LeaseAssumption    == /\ TTL \in Nat \ {0} /\ Retention \in Nat /\ MaxStall \in Nat
                             /\ Retention >= TTL + MaxStall
ASSUME LimitsAssumption   == /\ MaxAge \in Nat /\ MaxActive \in Nat /\ MaxRoutes \in Nat \ {0}
                             /\ MaxNotional \in Nat /\ {Cooldown, Window, MaxLaunches} \subseteq Int
ASSUME BoundsAssumption   == MaxTime \in Nat /\ MaxRecords \in Nat

VARIABLES
    clock,
    captured,           \* captured_at of the snapshots
    ready,              \* launch_ready_canary_snapshots: the rows not deleted
    lease,              \* stable_canary_launch_reservations, by snapshot
    records,            \* stable_canary_launch_records; an id is an index
    opens,              \* the pairs opened, with what the stores say of them
    wk                  \* where each worker's cycle is, and its locals

vars == <<clock, captured, ready, lease, records, opens, wk>>

Lease  == [owner : Owner, at : Nat]
Record == [snap : Snapshot, status : {"launched", "shadowed"}, at : Nat]

\* An open is sent, then journaled as in flight (unobserved, then active until
\* it is settled) or as rejected.
Open == [owner : Owner, snap : Snapshot, at : Nat, supervised : BOOLEAN,
         state : {"sent", "unobserved", "active", "settled", "rejected"}]

PC == {"idle", "blocking", "records", "budget", "list", "select", "previous",
       "launch", "reserved", "open", "sent", "observe"}

Idle == [pc |-> "idle", supervised |-> FALSE, shadow |-> FALSE, start |-> 0, read |-> 0,
         limit |-> 0, launched |-> 0, exposure |-> {}, left |-> {}, snap |-> None, owner |-> None]

\* start is the timestamp of the cycle and read the latest time it has read: for
\* a supervised cycle, its timestamp throughout.
Cycle == [pc : PC, supervised : BOOLEAN, shadow : BOOLEAN, start : Nat, read : Nat,
          limit : Nat, launched : Nat, exposure : SUBSET (Owner \X Snapshot), left : SUBSET Snapshot,
          snap : Snapshot \cup {None}, owner : Owner \cup {None}]

Init ==
    /\ clock = 0
    /\ captured = [s \in Snapshot |-> None]
    /\ ready = {}
    /\ lease = [s \in Snapshot |-> None]
    /\ records = <<>>
    /\ opens = {}
    /\ wk = [w \in Worker |-> Idle]

-----------------------------------------------------------------------------
(* Reading the clock and the stores.                                       *)

\* A clock reading is used up to MaxStall after it was taken.
Readings == {t \in 0..clock : clock <= t + MaxStall}

\* now or _utc_now(): the timestamp of a supervised cycle may be of any age
Now(w) == IF wk[w].supervised THEN {wk[w].read} ELSE {t \in Readings : t >= wk[w].read}

Fresh(s, t) == /\ captured[s] # None
               /\ captured[s] <= t
               /\ t <= captured[s] + MaxAge

\* The rows of a label that latest may return: captured_at decides.
Latest(l) == {s \in ready : /\ LabelOf[s] = l
                            /\ \A r \in ready : LabelOf[r] = l => captured[r] <= captured[s]}

\* Live executions that block a launch and count against its budgets.
InFlight == {o \in opens : o.state \in {"unobserved", "active"}}

\* Mutant: the executions that block are not taken off the limit.
RouteLimitMutant(blocking) ==
    LET left == IF blocking > MaxActive THEN 0 ELSE MaxActive
    IN  IF left < MaxRoutes THEN left ELSE MaxRoutes

RouteLimit(blocking) ==
    LET left == IF MaxActive = 0 THEN (IF blocking = 0 THEN 1 ELSE 0) ELSE MaxActive - blocking
    IN  IF left < MaxRoutes THEN left ELSE MaxRoutes

\* The records a worker's mode counts.
Effective(w) == {i \in DOMAIN records : wk[w].shadow \/ records[i].status = "launched"}

OfLabel(S, l) == {i \in S : LabelOf[records[i].snap] = l}

\* Mutant: the tolerance is a second.
CoolingMutant(S, seconds, t) == \E i \in S : /\ \A j \in S : records[j].at <= records[i].at
                                             /\ t - records[i].at + 1 < seconds

\* The latest of a set of records is younger than a cooldown.
Cooling(S, seconds, t) == \E i \in S : /\ \A j \in S : records[j].at <= records[i].at
                                       /\ t - records[i].at < seconds

Capped(S, limit, t) == Cardinality({i \in S : records[i].at >= t - Window}) >= limit

GlobalGate(w, t) == /\ ~Cooling(Effective(w), Cooldown, t)
                    /\ ~Capped(Effective(w), MaxLaunches, t)

LabelGate(w, l, t) == /\ GlobalGate(w, t)
                      /\ ~Cooling(OfLabel(Effective(w), l), LabelCooldown, t)
                      /\ ~Capped(OfLabel(Effective(w), l), MaxLabelLaunches, t)

\* What opens add to the exposure: an owner is one open's.
Exposed(os) == {<<o.owner, o.snap>> : o \in os}

Total(exposure) == MapThenSumSet(LAMBDA e : Notional[e[2]], exposure)

WithinBudget(exposure, s) == Total(exposure) + Notional[s] <= MaxNotional

-----------------------------------------------------------------------------
(* The gates of a cycle.                                                   *)

EndCycle(w) == wk' = [wk EXCEPT ![w] = Idle]

StartCycle(w) ==
    /\ wk[w].pc = "idle"
    /\ \E supervised \in Supervision, shadow \in ShadowModes :
          wk' = [wk EXCEPT ![w] = [Idle EXCEPT !.pc = "blocking", !.supervised = supervised,
                                               !.shadow = shadow, !.start = clock, !.read = clock]]
    /\ UNCHANGED <<clock, captured, ready, lease, records, opens>>

\* Mutant: no lower bound on what is left of the limit.
CheckBlockingMutant(w) ==
    /\ wk[w].pc = "blocking"
    /\ LET limit == RouteLimit(Cardinality(InFlight))
       IN  \/ limit # 0 /\ wk' = [wk EXCEPT ![w].pc = "records", ![w].limit = limit]
           \/ limit = 0 /\ EndCycle(w)
    /\ UNCHANGED <<clock, captured, ready, lease, records, opens>>

CheckBlocking(w) ==
    /\ wk[w].pc = "blocking"
    /\ LET limit == RouteLimit(Cardinality(InFlight))
       IN  \/ limit > 0 /\ wk' = [wk EXCEPT ![w].pc = "records", ![w].limit = limit]
           \/ limit <= 0 /\ EndCycle(w)
    /\ UNCHANGED <<clock, captured, ready, lease, records, opens>>

CheckRecords(w) ==
    /\ wk[w].pc = "records"
    /\ \/ GlobalGate(w, wk[w].read) /\ wk' = [wk EXCEPT ![w].pc = "budget"]
       \/ ~GlobalGate(w, wk[w].read) /\ EndCycle(w)
    /\ UNCHANGED <<clock, captured, ready, lease, records, opens>>

\* Mutant: executions not observed yet are not counted.
ReadBudgetMutant(w) ==
    /\ wk[w].pc = "budget"
    /\ wk' = [wk EXCEPT ![w].pc = "list",
                        ![w].exposure = Exposed({o \in InFlight : o.state = "active"})]
    /\ UNCHANGED <<clock, captured, ready, lease, records, opens>>

ReadBudget(w) ==
    /\ wk[w].pc = "budget"
    /\ wk' = [wk EXCEPT ![w].pc = "list",
                        ![w].exposure = Exposed(InFlight)]
    /\ UNCHANGED <<clock, captured, ready, lease, records, opens>>

\* Any of the fresh latest snapshots may be stable.
ListCandidates(w) ==
    /\ wk[w].pc = "list"
    /\ \E t \in Now(w) :
          \E stable \in SUBSET {s \in ready : s \in Latest(LabelOf[s]) /\ Fresh(s, t)} :
             wk' = [wk EXCEPT ![w].pc = "select", ![w].read = t, ![w].left = stable]
    /\ UNCHANGED <<clock, captured, ready, lease, records, opens>>

-----------------------------------------------------------------------------
(* The gates of a candidate.  Candidates are tried in the order of their   *)
(* rank, which is any order here.                                          *)

\* What a cycle that has launched checks again.
MayGoOn(w, t) == wk[w].launched > 0 => GlobalGate(w, t)

FreshLatest(l, t) == \E s \in Latest(l) : Fresh(s, t)

TakeCandidate(w) ==
    /\ wk[w].pc = "select"
    /\ \E s \in wk[w].left, t \in Now(w) :
          /\ MayGoOn(w, t)
          /\ FreshLatest(LabelOf[s], t)
          /\ LabelGate(w, LabelOf[s], t)
          /\ wk' = [wk EXCEPT ![w].pc = "previous", ![w].read = t,
                              ![w].snap = s, ![w].left = @ \ {s}]
    /\ UNCHANGED <<clock, captured, ready, lease, records, opens>>

\* A gate on the snapshot, its approval or its label fails.
SkipCandidate(w) ==
    /\ wk[w].pc = "select"
    /\ \E s \in wk[w].left, t \in Now(w) :
          /\ MayGoOn(w, t)
          /\ FreshLatest(LabelOf[s], t) \/ wk[w].launched = 0
          /\ wk' = [wk EXCEPT ![w].read = t, ![w].left = @ \ {s}]
    /\ UNCHANGED <<clock, captured, ready, lease, records, opens>>

\* After a launch the global gates, or a stale snapshot, end the cycle.
StopAfterLaunch(w) ==
    /\ wk[w].pc = "select"
    /\ wk[w].launched > 0
    /\ \E s \in wk[w].left, t \in Now(w) : ~(GlobalGate(w, t) /\ FreshLatest(LabelOf[s], t))
    /\ EndCycle(w)
    /\ UNCHANGED <<clock, captured, ready, lease, records, opens>>

NoCandidateLeft(w) ==
    /\ wk[w].pc = "select"
    /\ wk[w].left = {}
    /\ EndCycle(w)
    /\ UNCHANGED <<clock, captured, ready, lease, records, opens>>

\* latest_for_snapshot
PreviousLaunch(s) ==
    LET mine == {i \in DOMAIN records : records[i].snap = s}
    IN  {i \in mine : \A j \in mine : \/ records[j].at < records[i].at
                                      \/ records[j].at = records[i].at /\ j <= i}

Launchable(w, s) ==
    \A i \in PreviousLaunch(s) : records[i].status = "shadowed" /\ ~wk[w].shadow

CheckPrevious(w) ==
    /\ wk[w].pc = "previous"
    /\ \/ /\ Launchable(w, wk[w].snap)
          /\ WithinBudget(wk[w].exposure, wk[w].snap)
          /\ wk' = [wk EXCEPT ![w].pc = "launch"]
       \/ wk' = [wk EXCEPT ![w].pc = "select"]  \* or a cost gate fails
    /\ UNCHANGED <<clock, captured, ready, lease, records, opens>>

ShadowLaunch(w) ==
    /\ wk[w].pc = "launch"
    /\ wk[w].shadow
    /\ Len(records) < MaxRecords
    /\ records' = Append(records, [snap |-> wk[w].snap, status |-> "shadowed", at |-> wk[w].start])
    /\ EndCycle(w)
    /\ UNCHANGED <<clock, captured, ready, lease, opens>>

\* The label's snapshots are deleted, or the store fails to.
PreflightFails(w) ==
    /\ wk[w].pc = "launch"
    /\ ~wk[w].shadow
    /\ ready' \in {ready, {s \in ready : LabelOf[s] # LabelOf[wk[w].snap]}}
    /\ wk' = [wk EXCEPT ![w].pc = "select"]
    /\ UNCHANGED <<clock, captured, lease, records, opens>>

-----------------------------------------------------------------------------
(* Reservation, open and record.                                           *)

RowsAfterRetention(t) ==
    [s \in Snapshot |-> IF lease[s] # None /\ lease[s].at < t - Retention THEN None ELSE lease[s]]

\* Mutant: a reservation is gone at the end of its TTL, not after it.
HeldMutant(s, t) == lease[s] # None /\ lease[s].at > t - TTL

\* The row is in the way of a reservation at t.
Held(s, t) == lease[s] # None /\ lease[s].at >= t - TTL

InUse == {o.owner : o \in opens} \cup {wk[w].owner : w \in Worker}
             \cup {lease[s].owner : s \in {r \in Snapshot : lease[r] # None}}

\* reserve_snapshot_launch, under a new uuid
Reserve(w) ==
    /\ wk[w].pc = "launch"
    /\ ~wk[w].shadow
    /\ LET s == wk[w].snap
       IN  \E t \in Now(w) \cap Readings, owner \in Owner \ InUse :
              \/ /\ ~Held(s, t)
                 /\ lease' = [RowsAfterRetention(t) EXCEPT ![s] = [owner |-> owner, at |-> t]]
                 /\ wk' = [wk EXCEPT ![w].pc = "reserved", ![w].read = t, ![w].owner = owner]
              \/ /\ Held(s, t)
                 /\ lease' = RowsAfterRetention(t)
                 /\ wk' = [wk EXCEPT ![w].pc = "select", ![w].read = t]
    /\ UNCHANGED <<clock, captured, ready, records, opens>>

\* Approval, balances, confirmation or readiness fail with 409 or an error.
PreparationFails(w) ==
    /\ wk[w].pc = "reserved"
    /\ EndCycle(w)
    /\ UNCHANGED <<clock, captured, ready, lease, records, opens>>

\* Mutant: any reservation of the snapshot is renewed.
OwnsMutant(w, t) == LET row == lease[wk[w].snap]
                    IN  row # None /\ row.at > t - TTL

\* renew_snapshot_launch_reservation, before the open is submitted
Owns(w, t) == LET row == lease[wk[w].snap]
              IN  row # None /\ row.owner = wk[w].owner /\ row.at > t - TTL

Renew(w) ==
    /\ wk[w].pc = "reserved"
    /\ \E t \in Now(w) :
          \/ /\ Owns(w, t)
             /\ lease' = [lease EXCEPT ![wk[w].snap].at = t]
             /\ wk' = [wk EXCEPT ![w].pc = "open", ![w].read = t]
          \/ /\ ~Owns(w, t)
             /\ EndCycle(w)
             /\ UNCHANGED lease
    /\ UNCHANGED <<clock, captured, ready, records, opens>>

\* The two legs are handed to the venues.
Submit(w) ==
    /\ wk[w].pc = "open"
    /\ opens' = opens \cup {[owner |-> wk[w].owner, snap |-> wk[w].snap, at |-> wk[w].read,
                             supervised |-> wk[w].supervised, state |-> "sent"]}
    /\ wk' = [wk EXCEPT ![w].pc = "sent"]
    /\ UNCHANGED <<clock, captured, ready, lease, records>>

SubmissionRefused(w) ==
    /\ wk[w].pc = "open"
    /\ EndCycle(w)
    /\ UNCHANGED <<clock, captured, ready, lease, records, opens>>

MoveTo(o, state) == opens' = (opens \ {o}) \cup {[o EXCEPT !.state = state]}

\* The journal entry is in flight (submitted or partial) or rejected.
Journal(w) ==
    /\ wk[w].pc = "sent"
    /\ \E o \in opens, state \in {"unobserved", "rejected"} :
          /\ o.owner = wk[w].owner
          /\ MoveTo(o, state)
    /\ wk' = [wk EXCEPT ![w].pc = "observe"]
    /\ UNCHANGED <<clock, captured, ready, lease, records>>

\* The lifecycle or the monitor observes the pair; settled is closed or unfilled.
Observe ==
    /\ \E o \in opens, state \in {"active", "settled"} :
          /\ o.state \in {"unobserved", "active"}
          /\ o.state # state
          /\ MoveTo(o, state)
    /\ UNCHANGED <<clock, captured, ready, lease, records, wk>>

\* The rest of the lifecycle (polling, cleanup, close, balances) raises: a 409
\* counts as a skip, anything else fails the cycle, and neither is recorded.
\* A 404, after which the cycle would go on, is not among what it raises.
LifecycleRaises(w) ==
    /\ wk[w].pc = "observe"
    /\ EndCycle(w)
    /\ UNCHANGED <<clock, captured, ready, lease, records, opens>>

RecordLaunch(w) ==
    /\ wk[w].pc = "observe"
    /\ \E o \in opens : o.owner = wk[w].owner /\ o.state # "unobserved"
    /\ \E t \in Now(w) :
          /\ records' = Append(records, [snap |-> wk[w].snap, status |-> "launched", at |-> t])
          /\ \/ /\ wk[w].launched + 1 >= wk[w].limit
                /\ EndCycle(w)
             \/ /\ wk[w].launched + 1 < wk[w].limit
                /\ wk' = [wk EXCEPT ![w].pc = "select", ![w].read = t,
                                    ![w].launched = @ + 1, ![w].owner = None,
                                    ![w].exposure = @ \cup {<<wk[w].owner, wk[w].snap>>}]
    /\ UNCHANGED <<clock, captured, ready, lease, opens>>

-----------------------------------------------------------------------------
(* Around the workers.                                                     *)

\* The process dies or is restarted.
Crash(w) ==
    /\ wk[w].pc # "idle"
    /\ EndCycle(w)
    /\ UNCHANGED <<clock, captured, ready, lease, records, opens>>

\* cache_launch_ready_canaries_once appends a snapshot, with the timestamp its
\* cycle began at.
CacheSnapshot(s) ==
    /\ captured[s] = None
    /\ \E t \in Readings : captured' = [captured EXCEPT ![s] = t]
    /\ ready' = ready \cup {s}
    /\ UNCHANGED <<clock, lease, records, opens, wk>>

Tick ==
    /\ clock < MaxTime
    /\ clock' = clock + 1
    /\ UNCHANGED <<captured, ready, lease, records, opens, wk>>

Step(w) ==
    \/ StartCycle(w) \/ CheckBlocking(w) \/ CheckRecords(w) \/ ReadBudget(w)
    \/ ListCandidates(w) \/ TakeCandidate(w) \/ SkipCandidate(w) \/ StopAfterLaunch(w)
    \/ NoCandidateLeft(w) \/ CheckPrevious(w) \/ ShadowLaunch(w) \/ PreflightFails(w)
    \/ Reserve(w) \/ PreparationFails(w) \/ Renew(w) \/ Submit(w) \/ SubmissionRefused(w)
    \/ Journal(w) \/ LifecycleRaises(w) \/ RecordLaunch(w) \/ Crash(w)

Next == Observe \/ Tick \/ (\E s \in Snapshot : CacheSnapshot(s)) \/ (\E w \in Worker : Step(w))

Spec == Init /\ [][Next]_vars

-----------------------------------------------------------------------------
(* Properties.                                                             *)

\* Types of the stores and of the cycles.
TypeOK ==
    /\ clock \in Nat
    /\ captured \in [Snapshot -> Nat \cup {None}]
    /\ ready \subseteq Snapshot
    /\ lease \in [Snapshot -> Lease \cup {None}]
    /\ records \in Seq(Record)
    /\ opens \subseteq Open /\ IsFiniteSet(opens)
    /\ wk \in [Worker -> Cycle]

\* Two opens of one snapshot by different leases were renewed more than a TTL
\* apart, however the workers stall, crash or share timestamps
\* (reserve_snapshot_launch, renew_snapshot_launch_reservation).
LeasesApart ==
    \A a, b \in opens : a.snap = b.snap /\ a.owner # b.owner =>
        a.at > b.at + TTL \/ b.at > a.at + TTL

\* Nothing releases a reservation and a failed launch is not recorded; what
\* keeps a snapshot from being opened twice by supervised cycles is that it is
\* stale before its reservation is (both are 300 seconds by default).
SupervisedLaunchesOnce ==
    MaxAge <= TTL => \A a, b \in opens : a.supervised /\ b.supervised /\ a.snap = b.snap => a = b

\* For one worker: the limit on active live executions holds although a cycle
\* reads them once and may launch several routes, and launches that fail after
\* the open are neither counted nor recorded.
ActiveWithinLimit == Cardinality(InFlight) <= (IF MaxActive = 0 THEN 1 ELSE MaxActive)

\* For one worker: the total live notional stays within its budget.
NotionalWithinBudget == Total(Exposed(InFlight)) <= MaxNotional

\* For one worker: no window holds more recorded launches than the cap, and no
\* two launches are recorded within the cooldown.
LaunchRateWithinCap ==
    LET launched == {i \in DOMAIN records : records[i].status = "launched"}
    IN  \A i \in launched :
            LET since(t) == {j \in launched : j < i /\ records[j].at >= t}
            IN  /\ Cardinality(since(records[i].at - Window)) < MaxLaunches
                /\ since(records[i].at - Cooldown + 1) = {}
=============================================================================
