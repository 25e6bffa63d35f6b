------------------------- MODULE LaunchReadyPipeline -------------------------
(***************************************************************************)
(* From a route approval to a launch, for one label and its routes: the    *)
(* operator approves routes and promotes proposals, a scan keeps the       *)
(* approved canary that the market offers, a cache keeps those that are    *)
(* ready for launch, and a launch takes a cached one that has stayed the   *)
(* same.  The scan, the cache, the launcher and the API are processes of   *)
(* their own that meet in the stores; each may stop at any step.  The      *)
(* supervisor runs scan, cache and launch one after the other and judges   *)
(* every age by the moment it started.                                     *)
(*                                                                         *)
(* Snapshots carry their age instead of captured_at.  What the gates on    *)
(* edge, break-even and liquidity decide is left open.  The reservations   *)
(* and limits of a launch are StableLaunch's.                              *)
(***************************************************************************)
EXTENDS Integers, Sequences, FiniteSets

CONSTANTS
    Routes,         \* routes of the label; they differ in their fee profiles
    None,           \* no approval, no snapshot
    Caps,           \* max_live_notional of an approval
    Sizes,          \* what the market and canary_max_notional suggest
    Launchers,      \* some of "supervisor", "loop" and "api"
    MaxAge,         \* launch_ready_canary_max_snapshot_age_seconds
    MinCount,       \* stable_launch_ready_min_snapshot_count
    MinStable,      \* stable_launch_ready_min_stable_seconds
    Keep,           \* launch-ready snapshots that are looked at (20 in the code)
    MaxCycle,       \* bound: ticks that a cycle or a request takes
    Overlaps        \* bound: which pairs of processes may be under way at once

Least(a, b) == IF a < b THEN a ELSE b

\* The two that run launch_latest_stable_canary_once.
Worker == {"supervisor", "loop"}

\* Ages at and above these are not told apart: of an approved snapshot, of a
\* launch-ready one, and of an outage.
Horizon       == 2 * MaxAge + MaxCycle + 1
ReadyHorizon  == MaxAge + MaxCycle + MinStable
OutageHorizon == MaxAge + MaxCycle + 1

ASSUME PipelineAssumption ==
    /\ Caps \subseteq Nat \ {0} /\ Sizes \subseteq Nat \ {0}
    /\ None \notin Caps /\ Launchers \subseteq Worker \cup {"api"}
    /\ MaxAge \in Nat /\ MinCount \in Nat \ {0} /\ MinStable \in Nat \ {0}
    /\ Keep \in Nat /\ Keep >= MinCount /\ MaxCycle \in Nat
    /\ Overlaps \subseteq SUBSET {"scan", "cache", "promo", "launch"}

VARIABLES
    approval,       \* the cap of a route that is approved
    outage,         \* ticks since the venues were ready; 0 while they are
    down,           \* the venues are not ready
    latest,         \* the latest approved-canary snapshot
    ready,          \* launch-ready snapshots, newest first
    source,         \* age of the approved snapshot in the newest one
    scan, cache,    \* the two workers' cycles
    promo,          \* a promotion by the API
    launch          \* a launch, or a supervisor's cycle that gets to it

cached == <<ready, source>>
stores == <<approval, latest, cached>>
venues == <<outage, down>>
vars   == <<stores, venues, scan, cache, promo, launch>>

-----------------------------------------------------------------------------
(* Snapshots.                                                              *)

\* What counts as a change: the route, the candidate's size, the approval's cap.
Payload == [route : Routes, size : Nat, cap : Caps]

\* An approved snapshot.  One that a launch-ready snapshot contains is known by
\* its captured_at (its id in the code) and may have a newer payload.
Approved == [age : 0..Horizon, of : Payload]

LaunchReady == [age : 0..ReadyHorizon, of : Payload]

ASSUME NoneAssumption == None \notin Approved \cup LaunchReady \cup Payload

\* Latest unless something was captured after it; of two at once the later
\* insert is.
Latest(s) == IF latest # None /\ latest.age < s.age THEN latest ELSE s

\* Mutant: in the order of insertion.
AppendReadyMutant(s, from) ==
    /\ ready' = SubSeq(<<s>> \o ready, 1, Least(Keep, Len(ready) + 1))
    /\ source' = from

\* In the order of captured_at, then of insertion, after the n that are newer;
\* the newest Keep of them.
AppendReady(s, from) ==
    \E n \in 0..Len(ready) :
       /\ \A i \in 1..Len(ready) : ready[i].age < s.age <=> i <= n
       /\ ready' = [i \in 1..Least(Keep, Len(ready) + 1) |->
                      IF i <= n THEN ready[i] ELSE IF i = n + 1 THEN s ELSE ready[i - 1]]
       /\ source' = IF n > 0 THEN source ELSE from

\* delete_label, unless that fails
DropReady == (ready' = <<>> /\ source' = 0) \/ UNCHANGED cached

\* With the approval of now and no more than it allows.
Capped(of) == [route |-> of.route, size |-> Least(of.size, approval[of.route]),
               cap |-> approval[of.route]]

-----------------------------------------------------------------------------
(* Stability.                                                              *)

\* How many snapshots, from the newest one, have its payload.
Chain ==
    LET same(n) == \A i \in 1..n : ready[i].of = ready[1].of
    IN  CHOOSE n \in 0..Len(ready) : same(n) /\ (n < Len(ready) => ~same(n + 1))

\* Mutant: only a snapshot of the future is refused.
UsableMutant(ago) == ready # <<>> /\ ready[1].age >= ago

\* The newest snapshot as seen that long ago: neither of the future nor stale.
Usable(ago) == ready # <<>> /\ ready[1].age >= ago /\ ready[1].age - ago <= MaxAge

Stable(ago) ==
    IF Usable(ago) /\ Chain >= MinCount /\ ready[Chain].age - ready[1].age >= MinStable
    THEN ready[1] ELSE None

-----------------------------------------------------------------------------
(* States.                                                                 *)

NoScan   == [pc |-> "idle", age |-> 0, todo |-> {}, best |-> None]
NoCache  == [pc |-> "idle", age |-> 0, pick |-> None]
NoPromo  == [pc |-> "idle", age |-> 0, of |-> None]
NoLaunch == [pc |-> "idle", age |-> 0, by |-> None, pick |-> None, chosen |-> None]

TypeOK ==
    /\ approval \in [Routes -> Caps \cup {None}]
    /\ outage \in 0..OutageHorizon /\ down \in BOOLEAN
    /\ latest \in Approved \cup {None}
    /\ ready \in Seq(LaunchReady) /\ Len(ready) <= Keep
    /\ \A i \in 1..(Len(ready) - 1) : ready[i].age <= ready[i + 1].age
    /\ source \in 0..Horizon
    /\ scan \in [pc : {"idle", "scan"}, age : 0..MaxCycle,
                 todo : SUBSET (Routes \X Caps), best : Payload \cup {None}]
    /\ cache \in [pc : {"idle", "read", "probe"}, age : 0..MaxCycle,
                  pick : Approved \cup {None}]
    /\ promo \in [pc : {"idle", "probe", "approve", "append"}, age : 0..MaxCycle,
                  of : Payload \cup {None}]
    /\ launch \in [pc : {"idle", "waiting", "picked", "selected", "checked", "launched"},
                   age : 0..MaxCycle, by : Launchers \cup {None},
                   pick : Approved \cup {None}, chosen : Approved \cup {None}]

Init ==
    /\ approval = [r \in Routes |-> None]
    /\ outage = 0 /\ down = FALSE
    /\ latest = None /\ ready = <<>> /\ source = 0
    /\ scan = NoScan /\ cache = NoCache /\ promo = NoPromo /\ launch = NoLaunch

-----------------------------------------------------------------------------
(* The approved-canary scan.                                               *)

Process == [scan |-> scan, cache |-> cache, promo |-> promo, launch |-> launch]

MayStart(p) ==
    LET busy == {q \in DOMAIN Process : Process[q].pc # "idle"}
    IN  p \notin busy /\ (busy = {} \/ busy \cup {p} \in Overlaps)

\* How long ago a scan or a cache cycle that begins was stamped: now, or when
\* the supervisor's cycle that it is part of started.
Stamps == {0} \cup (IF launch.pc = "waiting" THEN {launch.age} ELSE {})

ApprovedRoutes == {r \in Routes : approval[r] # None}

\* The routes and caps that are approved when the cycle starts.
ScanStart ==
    /\ MayStart("scan") /\ ApprovedRoutes # {}
    /\ \E age \in Stamps :
          scan' = [NoScan EXCEPT !.pc = "scan", !.age = age,
                                 !.todo = {<<r, approval[r]>> : r \in ApprovedRoutes}]
    /\ UNCHANGED <<stores, venues, cache, promo, launch>>

\* The market has no match for the route, or its scan fails or times out.
ScanMisses ==
    /\ scan.pc = "scan"
    /\ \E listed \in scan.todo : scan' = [scan EXCEPT !.todo = @ \ {listed}]
    /\ UNCHANGED <<stores, venues, cache, promo, launch>>

\* A match of the best rank: capped by the approval of now, kept with the
\* approval that was listed.
ScanMatches ==
    /\ scan.pc = "scan"
    /\ \E listed \in scan.todo, suggested \in Sizes :
          /\ approval[listed[1]] # None
          /\ scan' = [scan EXCEPT
                !.todo = @ \ {listed},
                !.best = [route |-> listed[1], cap |-> listed[2],
                          size |-> Least(suggested, approval[listed[1]])]]
    /\ UNCHANGED <<stores, venues, cache, promo, launch>>

\* Stamped with the start of the cycle.
ScanStores ==
    /\ scan.pc = "scan" /\ scan.todo = {}
    /\ latest' = IF scan.best = None THEN latest
                                     ELSE Latest([age |-> scan.age, of |-> scan.best])
    /\ scan' = NoScan
    /\ UNCHANGED <<approval, cached, venues, cache, promo, launch>>

ScanStops ==
    /\ scan.pc # "idle"
    /\ scan' = NoScan
    /\ UNCHANGED <<stores, venues, cache, promo, launch>>

-----------------------------------------------------------------------------
(* The launch-ready cache.                                                 *)

CacheStart ==
    /\ MayStart("cache") /\ ApprovedRoutes # {}
    /\ \E age \in Stamps : cache' = [NoCache EXCEPT !.pc = "read", !.age = age]
    /\ UNCHANGED <<stores, venues, scan, promo, launch>>

\* Mutant: the age of the approved snapshot is not checked.
ReadableMutant == latest # None /\ approval[latest.of.route] # None

\* Not stale when the cycle started, and still approved.
Readable ==
    /\ latest # None /\ latest.age - cache.age <= MaxAge
    /\ approval[latest.of.route] # None

CacheReads ==
    /\ cache.pc = "read" /\ Readable
    /\ cache' = [cache EXCEPT !.pc = "probe",
                              !.pick = [age |-> latest.age, of |-> Capped(latest.of)]]
    /\ UNCHANGED <<stores, venues, scan, promo, launch>>

\* Nothing is readable, or the automation gate refuses it.
CacheSkips ==
    /\ cache.pc = "read"
    /\ cache' = NoCache
    /\ UNCHANGED <<stores, venues, scan, promo, launch>>

\* The live-execution preflight fails.
CacheDrops ==
    /\ cache.pc = "read" /\ Readable
    /\ DropReady
    /\ cache' = NoCache
    /\ UNCHANGED <<approval, latest, venues, scan, promo, launch>>

\* Mutant: the system state is probed and not looked at.
CacheAppendsMutant ==
    /\ cache.pc = "probe"
    /\ AppendReady([age |-> cache.age, of |-> cache.pick.of], cache.pick.age)
    /\ cache' = NoCache
    /\ UNCHANGED <<approval, latest, venues, scan, promo, launch>>

CacheAppends ==
    /\ cache.pc = "probe" /\ ~down
    /\ AppendReady([age |-> cache.age, of |-> cache.pick.of], cache.pick.age)
    /\ cache' = NoCache
    /\ UNCHANGED <<approval, latest, venues, scan, promo, launch>>

\* What was cached stays.
CacheFindsVenueDown ==
    /\ cache.pc = "probe" /\ down
    /\ cache' = NoCache
    /\ UNCHANGED <<stores, venues, scan, promo, launch>>

CacheStops ==
    /\ cache.pc # "idle"
    /\ cache' = NoCache
    /\ UNCHANGED <<stores, venues, scan, promo, launch>>

-----------------------------------------------------------------------------
(* The operator and the API.                                               *)

\* A route is approved, gets another cap, or is disabled.
UpsertApproval ==
    /\ \E r \in Routes, cap \in Caps \cup {None} : approval' = [approval EXCEPT ![r] = cap]
    /\ UNCHANGED <<latest, cached, venues, scan, cache, promo, launch>>

\* A proposal is scanned again: for approve-refresh-and-cache-launch-ready, or
\* for approve-and-refresh.
PromotionStarts ==
    /\ MayStart("promo")
    /\ \E r \in Routes, cap \in Caps, suggested \in Sizes, next \in {"probe", "approve"} :
          promo' = [NoPromo EXCEPT
             !.pc = next, !.of = [route |-> r, size |-> Least(suggested, cap), cap |-> cap]]
    /\ UNCHANGED <<stores, venues, scan, cache, launch>>

Promoted == [age |-> promo.age, of |-> promo.of]

\* _persist_launch_ready_promotion_atomically
PromotionCaches ==
    /\ promo.pc = "probe" /\ ~down
    /\ approval' = [approval EXCEPT ![promo.of.route] = promo.of.cap]
    /\ latest' = Latest(Promoted)
    /\ AppendReady(Promoted, promo.age)
    /\ promo' = NoPromo
    /\ UNCHANGED <<venues, scan, cache, launch>>

PromotionApproves ==
    /\ promo.pc = "approve"
    /\ approval' = [approval EXCEPT ![promo.of.route] = promo.of.cap]
    /\ promo' = [promo EXCEPT !.pc = "append"]
    /\ UNCHANGED <<latest, cached, venues, scan, cache, launch>>

PromotionAppends ==
    /\ promo.pc = "append"
    /\ latest' = Latest(Promoted)
    /\ promo' = NoPromo
    /\ UNCHANGED <<approval, cached, venues, scan, cache, launch>>

\* A gate, a venue that is not ready, an error, or a process that dies.
PromotionFails ==
    /\ promo.pc # "idle"
    /\ promo' = NoPromo
    /\ UNCHANGED <<stores, venues, scan, cache, launch>>

-----------------------------------------------------------------------------
(* The launch.                                                             *)

\* The supervisor's cycle, from its start: system state, scan and cache first.
SupervisorStarts ==
    /\ MayStart("launch") /\ "supervisor" \in Launchers
    /\ launch' = [NoLaunch EXCEPT !.pc = "waiting", !.by = "supervisor"]
    /\ UNCHANGED <<stores, venues, scan, cache, promo>>

\* The moment by which a launch judges ages: the start of the supervisor's
\* cycle, the present for the others, which read the clock each time.
Ago == IF launch.by = "supervisor" THEN launch.age ELSE 0

Found == [age |-> source, of |-> ready[1].of]

\* A stable snapshot, as the supervisor's cycle finds it, ...
SupervisorPicks ==
    /\ launch.pc = "waiting" /\ Stable(Ago) # None
    /\ launch' = [launch EXCEPT !.pc = "picked", !.pick = Found]
    /\ UNCHANGED <<stores, venues, scan, cache, promo>>

\* ... as the launch loop ranks it, or as the API finds it.
LaunchPicks ==
    /\ MayStart("launch") /\ Stable(0) # None
    /\ \E who \in Launchers \ {"supervisor"} :
          launch' = [NoLaunch EXCEPT !.pc = "picked", !.by = who, !.pick = Found]
    /\ UNCHANGED <<stores, venues, scan, cache, promo>>

\* Mutant: the worker takes the newest snapshot as the API does.
LaunchSelectsMutant ==
    /\ launch.pc = "picked"
    /\ Usable(Ago) /\ approval[ready[1].of.route] # None
    /\ launch' = [launch EXCEPT
          !.pc = IF launch.by \in Worker THEN "selected" ELSE "checked",
          !.chosen = [age |-> source, of |-> Capped(ready[1].of)]]
    /\ UNCHANGED <<stores, venues, scan, cache, promo>>

\* _select_latest_launch_ready_canary_snapshot: the newest snapshot again.
LaunchSelects ==
    /\ launch.pc = "picked"
    /\ Usable(Ago) /\ approval[ready[1].of.route] # None
    /\ launch.by \in Worker => ready[1].of = launch.pick.of
    /\ launch' = [launch EXCEPT
          !.pc = IF launch.by \in Worker THEN "selected" ELSE "checked",
          !.chosen = [age |-> source, of |-> Capped(ready[1].of)]]
    /\ UNCHANGED <<stores, venues, scan, cache, promo>>

\* The worker: no newer approved snapshot than the stable one's ...
LaunchKeeps ==
    /\ launch.pc = "selected" /\ latest # None
    /\ latest.age = launch.pick.age /\ launch.chosen.age = launch.pick.age
    /\ launch' = [launch EXCEPT !.pc = "checked"]
    /\ UNCHANGED <<stores, venues, scan, cache, promo>>

\* ... or one that changes nothing, which is launched instead.
LaunchReplaces ==
    /\ launch.pc = "selected" /\ latest # None
    /\ latest.age # launch.pick.age /\ latest.of = launch.pick.of
    /\ approval[latest.of.route] # None
    /\ launch' = [launch EXCEPT !.pc = "checked",
                                !.chosen = [age |-> latest.age, of |-> Capped(latest.of)]]
    /\ UNCHANGED <<stores, venues, scan, cache, promo>>

\* The worker's preflight fails.
LaunchDrops ==
    /\ launch.pc = "checked" /\ launch.by \in Worker
    /\ DropReady
    /\ launch' = NoLaunch
    /\ UNCHANGED <<approval, latest, venues, scan, cache, promo>>

\* require_live_approval, before anything is sent
LaunchPasses ==
    /\ launch.pc = "checked"
    /\ approval[launch.chosen.of.route] # None
    /\ launch.chosen.of.size <= approval[launch.chosen.of.route]
    /\ launch' = [launch EXCEPT !.pc = "launched"]
    /\ UNCHANGED <<stores, venues, scan, cache, promo>>

\* A check or a guard refuses the snapshot, the launch is over, or it dies.
LaunchEnds ==
    /\ launch.pc # "idle"
    /\ launch' = NoLaunch
    /\ UNCHANGED <<stores, venues, scan, cache, promo>>

-----------------------------------------------------------------------------
(* Time and the venues.                                                    *)

VenuesChange ==
    /\ down' = ~down
    /\ outage' = 0
    /\ UNCHANGED <<stores, scan, cache, promo, launch>>

Aged(s, horizon) == IF s = None THEN None ELSE [s EXCEPT !.age = Least(horizon, @ + 1)]

Running(cycle) == IF cycle.pc = "idle" THEN cycle ELSE [cycle EXCEPT !.age = @ + 1]

Tick ==
    /\ \A cycle \in {scan, cache, promo, launch} : cycle.age < MaxCycle
    /\ launch.pc # "launched"
    /\ latest' = Aged(latest, Horizon)
    /\ ready' = [i \in 1..Len(ready) |-> Aged(ready[i], ReadyHorizon)]
    /\ source' = IF ready = <<>> THEN 0 ELSE Least(Horizon, source + 1)
    /\ outage' = IF down THEN Least(OutageHorizon, outage + 1) ELSE 0
    /\ scan' = Running(scan) /\ promo' = Running(promo)
    /\ cache' = [Running(cache) EXCEPT !.pick = Aged(@, Horizon)]
    /\ launch' = [Running(launch) EXCEPT !.pick = Aged(@, Horizon),
                                       !.chosen = Aged(@, Horizon)]
    /\ UNCHANGED <<approval, down>>

ScanStep  == ScanStart \/ ScanMisses \/ ScanMatches \/ ScanStores
CacheStep == CacheStart \/ CacheReads \/ CacheSkips \/ CacheDrops \/ CacheAppends
                \/ CacheFindsVenueDown
PromoStep == PromotionStarts \/ PromotionCaches \/ PromotionApproves \/ PromotionAppends
                \/ PromotionFails
LaunchStep == SupervisorStarts \/ SupervisorPicks \/ LaunchPicks \/ LaunchSelects \/ LaunchKeeps \/ LaunchReplaces
                 \/ LaunchPasses \/ LaunchDrops \/ LaunchEnds

Next ==
    \/ ScanStep \/ ScanStops \/ CacheStep \/ CacheStops
    \/ UpsertApproval \/ PromoStep \/ LaunchStep
    \/ VenuesChange \/ Tick

Spec == Init /\ [][Next]_vars

-----------------------------------------------------------------------------
(* Properties.                                                             *)

\* What a launch relies on was seen lately: when it began, or the supervisor's
\* cycle that it is part of, the venues had been ready within the age limit of
\* a launch-ready snapshot, and the market was seen within twice that, however
\* the ages of the two stores add up and whatever failed in between.  The
\* supervisor's cycle counts from its start: it judges by it until the end
\* (run_production_supervisor_cycle_once, cache_launch_ready_canaries_once,
\* launch_latest_stable_canary_once).
LaunchIsFresh ==
    launch.pc = "launched" =>
        /\ outage <= MaxAge + launch.age
        /\ launch.chosen.age <= 2 * MaxAge + launch.age

\* What is launched is the stable route, and no more of it than was stable,
\* although the cache, the scan and the operator go on between the choice of
\* the snapshot and its launch.
LaunchedIsStable ==
    /\ launch.chosen.of.route = launch.pick.of.route
    /\ launch.chosen.of.size <= launch.pick.of.size
LaunchIsStable == launch.pc = "launched" /\ launch.by \in Worker => LaunchedIsStable

\* The same of the API's launch: "require stable launch-ready state before
\* launch" (docs/deploy/render.md).
ApiLaunchIsStable == launch.pc = "launched" /\ launch.by = "api" => LaunchedIsStable
=============================================================================
