---------------------- MODULE LaunchReadyPipelineProofs ----------------------
(***************************************************************************)
(* Proofs about LaunchReadyPipeline, for any routes, caps, ages and        *)
(* bounds: types, that a launch rests on what was seen lately, and that    *)
(* the worker launches what was stable.                                    *)
(***************************************************************************)
EXTENDS LaunchReadyPipeline, TLAPS

LEMMA Constants ==
    /\ \A cap \in Caps : cap \in Nat /\ cap # None
    /\ \A size \in Sizes : size \in Nat
    /\ MaxAge \in Nat /\ MaxCycle \in Nat
    /\ Keep \in Nat /\ Keep > 0 /\ MinStable \in Nat /\ MinStable > 0
    /\ Horizon \in Nat /\ MaxCycle <= Horizon
    /\ ReadyHorizon \in Nat /\ ReadyHorizon > MaxAge + MaxCycle
    /\ OutageHorizon \in Nat
BY PipelineAssumption DEF Horizon, ReadyHorizon, OutageHorizon

\* A launch that has picked a snapshot.
Launching == launch.pc \notin {"idle", "waiting"}
HasChosen == launch.pc \in {"selected", "checked", "launched"}

\* What a cycle or a request holds while it is at work.
Holds ==
    /\ cache.pc = "probe" => cache.pick # None
    /\ promo.pc # "idle" => promo.of # None
    /\ Launching => launch.pick # None
    /\ HasChosen => launch.chosen # None

\* The venues were ready when a snapshot was stored, or later.  A launch counts
\* from the start of the supervisor's cycle if it is part of one.
ReadySince ==
    /\ ~down => outage = 0
    /\ \A i \in 1..Len(ready) : ready[i].age < ReadyHorizon => outage <= ready[i].age
    /\ Launching => outage <= MaxAge + launch.age

\* An approved snapshot was not stale when a launch-ready one was made of it.
SourceFresh ==
    /\ ready # <<>> /\ ready[1].age < ReadyHorizon => source <= ready[1].age + MaxAge
    /\ cache.pc = "probe" => cache.pick.age <= cache.age + MaxAge
    /\ Launching => launch.pick.age <= 2 * MaxAge + launch.age
    /\ HasChosen => launch.chosen.age <= 2 * MaxAge + launch.age

\* The latest approved snapshot is not older than one that was taken.
LatestIsNewest ==
    /\ ready # <<>> => latest # None /\ latest.age <= source
    /\ cache.pc = "probe" => latest # None /\ latest.age <= cache.pick.age
    /\ Launching => latest # None /\ latest.age <= launch.pick.age

\* The worker keeps to what was stable from the moment it selects a snapshot.
SelectedIsStable == HasChosen /\ launch.by \in Worker => LaunchedIsStable

IInv == TypeOK /\ Holds /\ ReadySince /\ SourceFresh /\ LatestIsNewest /\ SelectedIsStable

-----------------------------------------------------------------------------
(* Snapshots.                                                              *)

\* What the approval caps is no larger than before, and is a payload.
LEMMA CappedType ==
    ASSUME TypeOK, NEW of \in Payload, approval[of.route] # None
    PROVE  /\ Capped(of) \in Payload
           /\ Capped(of).route = of.route /\ Capped(of).size <= of.size
<1>1. approval[of.route] \in Caps /\ of.size \in Nat
    BY NoneAssumption DEF TypeOK, Payload
<1>2. Least(of.size, approval[of.route]) \in Nat /\ Least(of.size, approval[of.route]) <= of.size
    BY <1>1, Constants DEF Least
<1>. QED BY <1>1, <1>2 DEF Capped, Payload

\* The latest of a stored snapshot and a new one.
LEMMA LatestType ==
    ASSUME TypeOK, NEW s \in Approved
    PROVE  /\ Latest(s) \in Approved /\ Latest(s).age <= s.age
           /\ latest # None => Latest(s).age <= latest.age
BY DEF TypeOK, Latest, Approved

\* A snapshot that grows older.
LEMMA AgedType ==
    ASSUME NEW horizon \in Nat, NEW T, NEW s \in [age : 0..horizon, of : T], s # None
    PROVE  /\ Aged(s, horizon) \in [age : 0..horizon, of : T]
           /\ Aged(s, horizon).of = s.of
           /\ s.age <= Aged(s, horizon).age /\ Aged(s, horizon).age <= s.age + 1
           /\ Aged(s, horizon).age < horizon => Aged(s, horizon).age = s.age + 1
BY DEF Aged, Least

\* A stored snapshot takes its place in the list, and may push out the oldest.
LEMMA AppendReadyType ==
    ASSUME TypeOK, NEW s \in LaunchReady, NEW from \in 0..Horizon, AppendReady(s, from)
    PROVE  /\ ready' \in Seq(LaunchReady) /\ Len(ready') \in 1..Keep
           /\ \A i \in 1..(Len(ready') - 1) : ready'[i].age <= ready'[i + 1].age
           /\ source' \in 0..Horizon
           /\ \A i \in 1..Len(ready') :
                 ready'[i] = s \/ \E j \in 1..Len(ready) : ready'[i] = ready[j]
           /\ \/ ready'[1] = s /\ source' = from
              \/ ready # <<>> /\ ready'[1] = ready[1] /\ source' = source
<1>1. PICK n \in 0..Len(ready) :
         /\ \A i \in 1..Len(ready) : ready[i].age < s.age <=> i <= n
         /\ ready' = [i \in 1..Least(Keep, Len(ready) + 1) |->
                        IF i <= n THEN ready[i] ELSE IF i = n + 1 THEN s ELSE ready[i - 1]]
         /\ source' = IF n > 0 THEN source ELSE from
    BY DEF AppendReady
<1>. DEFINE k == Least(Keep, Len(ready) + 1)
<1>2. /\ ready \in Seq(LaunchReady) /\ Len(ready) \in Nat /\ source \in 0..Horizon
      /\ \A i \in 1..(Len(ready) - 1) : ready[i].age <= ready[i + 1].age
      /\ \A i \in 1..Len(ready) : ready[i] \in LaunchReady
    BY DEF TypeOK
<1>3. k \in 1..Keep /\ k <= Len(ready) + 1
    BY <1>2, Constants DEF Least
<1>. HIDE DEF k
<1>4. ready' = [i \in 1..k |->
                 IF i <= n THEN ready[i] ELSE IF i = n + 1 THEN s ELSE ready[i - 1]]
    BY <1>1 DEF k
<1>5. \A i \in 1..k : /\ i <= n => i \in 1..Len(ready) /\ ready'[i] = ready[i]
                      /\ i = n + 1 => ready'[i] = s
                      /\ i > n + 1 => i - 1 \in 1..Len(ready) /\ ready'[i] = ready[i - 1]
    BY <1>2, <1>3, <1>4
<1>6. \A i \in 1..k : ready'[i] = s \/ \E j \in 1..Len(ready) : ready'[i] = ready[j]
    <2>. SUFFICES ASSUME NEW i \in 1..k, i # n + 1
                  PROVE  \E j \in 1..Len(ready) : ready'[i] = ready[j]
        BY <1>5
    <2>1. CASE i <= n
        BY <2>1, <1>5
    <2>2. CASE i > n + 1
        BY <2>2, <1>5
    <2>. QED BY <2>1, <2>2, <1>1, <1>3
<1>7. ready' \in Seq(LaunchReady) /\ Len(ready') = k
    <2>1. \A i \in 1..k : ready'[i] \in LaunchReady
        BY <1>6, <1>2
    <2>2. ready' \in [1..k -> LaunchReady]
        BY <2>1, <1>4
    <2>. QED BY <2>2, <1>3, Constants
<1>8. \A i \in 1..(k - 1) : ready'[i].age <= ready'[i + 1].age
    <2>. SUFFICES ASSUME NEW i \in 1..(k - 1)
                  PROVE  ready'[i].age <= ready'[i + 1].age
        OBVIOUS
    <2>1. i \in 1..k /\ i + 1 \in 1..k
        BY <1>3, Constants
    <2>2. s.age \in 0..ReadyHorizon /\ \A j \in 1..Len(ready) : ready[j].age \in 0..ReadyHorizon
        BY <1>2 DEF LaunchReady
    <2>3. CASE i + 1 <= n
        <3>1. ready'[i] = ready[i] /\ ready'[i + 1] = ready[i + 1] /\ i \in 1..(Len(ready) - 1)
            BY <2>3, <2>1, <1>5, <1>2
        <3>. QED BY <3>1, <1>2
    <2>4. CASE i = n
        <3>1. ready'[i] = ready[i] /\ ready'[i + 1] = s /\ ready[i].age < s.age
            BY <2>4, <2>1, <1>5, <1>1
        <3>2. i \in 1..Len(ready)
            BY <2>4, <2>1, <1>5
        <3>. QED BY <3>1, <3>2, <2>2, Constants
    <2>5. CASE i = n + 1
        <3>1. ready'[i] = s /\ ready'[i + 1] = ready[i] /\ i \in 1..Len(ready)
            BY <2>5, <2>1, <1>5
        <3>2. ~(ready[i].age < s.age)
            BY <3>1, <1>1, <2>5
        <3>. QED BY <3>1, <3>2, <2>2, Constants
    <2>6. CASE i > n + 1
        <3>1. ready'[i] = ready[i - 1] /\ ready'[i + 1] = ready[i]
              /\ i - 1 \in 1..(Len(ready) - 1)
            BY <2>6, <2>1, <1>5, <1>2
        <3>2. ready[i - 1].age <= ready[(i - 1) + 1].age
            BY <3>1, <1>2
        <3>. QED BY <3>1, <3>2
    <2>. QED BY <2>3, <2>4, <2>5, <2>6, <1>1
<1>9. source' \in 0..Horizon
    BY <1>1, <1>2
<1>10. \/ ready'[1] = s /\ source' = from
       \/ ready # <<>> /\ ready'[1] = ready[1] /\ source' = source
    <2>1. CASE n = 0
        BY <2>1, <1>1, <1>3, <1>5, Constants
    <2>2. CASE n > 0
        <3>1. 1 \in 1..k /\ 1 <= n
            BY <2>2, <1>1, <1>3, Constants
        <3>2. ready'[1] = ready[1] /\ 1 \in 1..Len(ready)
            BY <3>1, <1>5
        <3>. QED BY <3>2, <2>2, <1>1
    <2>. QED BY <2>1, <2>2, <1>1
<1>. QED BY <1>3, <1>6, <1>7, <1>8, <1>9, <1>10

\* A failed preflight may drop the launch-ready snapshots.
LEMMA DropReadyType ==
    ASSUME TypeOK, DropReady
    PROVE  /\ ready' \in Seq(LaunchReady) /\ Len(ready') <= Keep
           /\ \A i \in 1..(Len(ready') - 1) : ready'[i].age <= ready'[i + 1].age
           /\ source' \in 0..Horizon
<1>1. CASE ready' = <<>> /\ source' = 0
    BY <1>1, Constants
<1>2. CASE UNCHANGED cached
    BY <1>2 DEF TypeOK, cached
<1>. QED BY <1>1, <1>2 DEF DropReady

\* Every snapshot and outage grows older with the clock.
LEMMA TickType ==
    ASSUME TypeOK, Tick
    PROVE  /\ ready' \in Seq(LaunchReady) /\ Len(ready') = Len(ready)
           /\ \A i \in 1..Len(ready) : /\ ready[i].age <= ready'[i].age
                                       /\ ready'[i].age < ReadyHorizon => ready'[i].age = ready[i].age + 1
           /\ \A i \in 1..(Len(ready) - 1) : ready'[i].age <= ready'[i + 1].age
           /\ source' \in 0..Horizon /\ source' <= source + 1
           /\ outage' \in 0..OutageHorizon /\ outage' <= outage + 1 /\ (~down => outage' = 0)
           /\ latest' = Aged(latest, Horizon)
<1>1. /\ ready \in Seq(LaunchReady) /\ Len(ready) \in Nat
      /\ \A i \in 1..Len(ready) : ready[i] \in LaunchReady
      /\ \A i \in 1..(Len(ready) - 1) : ready[i].age <= ready[i + 1].age
    BY DEF TypeOK
<1>2. ready' = [i \in 1..Len(ready) |-> Aged(ready[i], ReadyHorizon)]
    BY DEF Tick
<1>3. \A i \in 1..Len(ready) :
         /\ ready'[i] \in LaunchReady
         /\ ready'[i].age = IF ReadyHorizon < ready[i].age + 1 THEN ReadyHorizon ELSE ready[i].age + 1
         /\ ready[i].age \in 0..ReadyHorizon
    <2>. SUFFICES ASSUME NEW i \in 1..Len(ready)
                  PROVE  /\ ready'[i] \in LaunchReady
                         /\ ready'[i].age = IF ReadyHorizon < ready[i].age + 1 THEN ReadyHorizon
                                                                            ELSE ready[i].age + 1
                         /\ ready[i].age \in 0..ReadyHorizon
        OBVIOUS
    <2>1. ready[i] \in LaunchReady /\ ready[i] # None
        BY <1>1, NoneAssumption
    <2>2. ready'[i] = Aged(ready[i], ReadyHorizon)
        BY <1>2
    <2>3. Aged(ready[i], ReadyHorizon) \in LaunchReady
        BY <2>1, AgedType, Constants DEF LaunchReady
    <2>. QED BY <2>1, <2>2, <2>3 DEF Aged, Least, LaunchReady
<1>4. ready' \in Seq(LaunchReady) /\ Len(ready') = Len(ready)
    <2>1. ready' \in [1..Len(ready) -> LaunchReady]
        BY <1>2, <1>3
    <2>. QED BY <2>1, <1>1
<1>5. \A i \in 1..(Len(ready) - 1) : ready'[i].age <= ready'[i + 1].age
    BY <1>1, <1>3, Constants
<1>6. source' \in 0..Horizon /\ source' <= source + 1
    BY Constants DEF Tick, TypeOK, Least
<1>7. outage' \in 0..OutageHorizon /\ outage' <= outage + 1 /\ (~down => outage' = 0)
    BY Constants DEF Tick, TypeOK, Least
<1>8. \A i \in 1..Len(ready) : /\ ready[i].age <= ready'[i].age
                               /\ ready'[i].age < ReadyHorizon => ready'[i].age = ready[i].age + 1
    BY <1>3, Constants
<1>. QED BY <1>4, <1>5, <1>6, <1>7, <1>8 DEF Tick

\* An approved snapshot that grows older, if there is one.
LEMMA AgedApproved ==
    ASSUME NEW s \in Approved \cup {None}
    PROVE  /\ Aged(s, Horizon) \in Approved \cup {None}
           /\ s = None <=> Aged(s, Horizon) = None
           /\ s # None => /\ Aged(s, Horizon).of = s.of
                          /\ s.age \in Nat /\ Aged(s, Horizon).age \in Nat
                          /\ Aged(s, Horizon).age = Least(Horizon, s.age + 1)
<1>1. CASE s = None
    BY <1>1 DEF Aged
<1>2. CASE s # None
    <2>1. s \in Approved
        BY <1>2
    <2>2. Aged(s, Horizon) \in Approved /\ Aged(s, Horizon).of = s.of
        BY <2>1, <1>2, AgedType, Constants DEF Approved
    <2>3. Aged(s, Horizon).age = Least(Horizon, s.age + 1)
        BY <2>1, <1>2 DEF Aged, Approved
    <2>. QED BY <2>1, <2>2, <2>3, <1>2, NoneAssumption DEF Approved
<1>. QED BY <1>1, <1>2

-----------------------------------------------------------------------------
(* Types.                                                                  *)

ScanState == [pc : {"idle", "scan"}, age : 0..MaxCycle,
              todo : SUBSET (Routes \X Caps), best : Payload \cup {None}]
CacheState == [pc : {"idle", "read", "probe"}, age : 0..MaxCycle, pick : Approved \cup {None}]
PromoState == [pc : {"idle", "probe", "approve", "append"}, age : 0..MaxCycle,
               of : Payload \cup {None}]
LaunchState == [pc : {"idle", "waiting", "picked", "selected", "checked", "launched"},
                age : 0..MaxCycle, by : Launchers \cup {None},
                pick : Approved \cup {None}, chosen : Approved \cup {None}]
ReadyType == /\ ready \in Seq(LaunchReady) /\ Len(ready) <= Keep
             /\ \A i \in 1..(Len(ready) - 1) : ready[i].age <= ready[i + 1].age
             /\ source \in 0..Horizon
VenueType == outage \in 0..OutageHorizon /\ down \in BOOLEAN

\* The type invariant in parts, each disturbed by few actions.
TypeParts ==
    /\ approval \in [Routes -> Caps \cup {None}]
    /\ VenueType /\ latest \in Approved \cup {None} /\ ReadyType
    /\ scan \in ScanState /\ cache \in CacheState
    /\ promo \in PromoState /\ launch \in LaunchState

LEMMA TypeOKParts == TypeOK <=> TypeParts
BY DEF TypeOK, TypeParts, VenueType, ReadyType, ScanState, CacheState, PromoState, LaunchState

LEMMA TypeOKPartsNext == TypeOK' <=> TypeParts'
BY DEF TypeOK, TypeParts, VenueType, ReadyType, ScanState, CacheState, PromoState, LaunchState

\* A process that has nothing to do.
LEMMA IdleTypes ==
    /\ NoScan \in ScanState /\ NoCache \in CacheState
    /\ NoPromo \in PromoState /\ NoLaunch \in LaunchState
BY Constants DEF NoScan, NoCache, NoPromo, NoLaunch, ScanState, CacheState, PromoState, LaunchState

\* When a cycle was stamped is no longer ago than a cycle takes.
LEMMA StampsType == TypeOK => Stamps \subseteq 0..MaxCycle
BY Constants DEF Stamps, TypeOK

LEMMA TypeStep == TypeOK /\ Holds /\ [Next]_vars => TypeOK'
<1>. SUFFICES ASSUME TypeOK, TypeParts, Holds, [Next]_vars PROVE TypeParts'
    BY TypeOKParts, TypeOKPartsNext
<1>. USE IdleTypes, Constants DEF TypeParts, stores, venues, cached, VenueType
<1>1. CASE ScanStart
    <2>. DEFINE todo == {<<r, approval[r]>> : r \in ApprovedRoutes}
    <2>2. \A r \in ApprovedRoutes : r \in Routes /\ approval[r] \in Caps
        BY DEF ApprovedRoutes
    <2>3. todo \in SUBSET (Routes \X Caps)
        BY <2>2
    <2>4. PICK age \in Stamps : scan' = [NoScan EXCEPT !.pc = "scan", !.age = age, !.todo = todo]
        BY <1>1 DEF ScanStart
    <2>. HIDE DEF todo
    <2>1. scan' \in ScanState
        BY <2>3, <2>4, StampsType DEF NoScan, ScanState
    <2>. QED BY <1>1, <2>1 DEF ScanStart, ReadyType
<1>2. CASE ScanMisses
    <2>1. scan' \in ScanState
        BY <1>2 DEF ScanMisses, ScanState
    <2>. QED BY <1>2, <2>1 DEF ScanMisses, ReadyType
<1>3. CASE ScanMatches
    <2>1. PICK listed \in scan.todo, suggested \in Sizes :
             /\ approval[listed[1]] # None
             /\ scan' = [scan EXCEPT !.todo = @ \ {listed},
                           !.best = [route |-> listed[1], cap |-> listed[2],
                                     size |-> Least(suggested, approval[listed[1]])]]
        BY <1>3 DEF ScanMatches
    <2>2. listed[1] \in Routes /\ listed[2] \in Caps
        BY DEF ScanState
    <2>3. approval[listed[1]] \in Caps
        BY <2>1, <2>2
    <2>4. [route |-> listed[1], cap |-> listed[2],
           size |-> Least(suggested, approval[listed[1]])] \in Payload
        BY <2>2, <2>3 DEF Payload, Least
    <2>5. scan' \in ScanState
        BY <2>1, <2>4 DEF ScanState
    <2>. QED BY <1>3, <2>5 DEF ScanMatches, ReadyType
<1>4. CASE ScanStores
    <2>1. scan.best # None => Latest([age |-> scan.age, of |-> scan.best]) \in Approved
        BY <1>4, LatestType DEF ScanState, Approved
    <2>. QED BY <1>4, <2>1 DEF ScanStores, ReadyType
<1>5. CASE ScanStops
    BY <1>5 DEF ScanStops, ReadyType
<1>6. CASE CacheStart
    <2>1. cache' \in CacheState
        BY <1>6, StampsType DEF CacheStart, NoCache, CacheState
    <2>. QED BY <1>6, <2>1 DEF CacheStart, ReadyType
<1>7. CASE CacheReads
    <2>1. latest \in Approved /\ latest.of \in Payload /\ approval[latest.of.route] # None
        BY <1>7 DEF CacheReads, Readable, Approved
    <2>2. [age |-> latest.age, of |-> Capped(latest.of)] \in Approved
        BY <2>1, CappedType DEF Approved
    <2>3. cache' \in CacheState
        BY <1>7, <2>2 DEF CacheReads, CacheState
    <2>. QED BY <1>7, <2>3 DEF CacheReads, ReadyType
<1>8. CASE CacheSkips
    BY <1>8 DEF CacheSkips, ReadyType
<1>9. CASE CacheDrops
    <2>1. ReadyType'
        BY <1>9, DropReadyType DEF CacheDrops, ReadyType
    <2>. QED BY <1>9, <2>1 DEF CacheDrops
<1>10. CASE CacheAppends
    <2>1. cache.pick \in Approved
        BY <1>10 DEF CacheAppends, CacheState, Holds
    <2>2. /\ [age |-> cache.age, of |-> cache.pick.of] \in LaunchReady
          /\ cache.pick.age \in 0..Horizon
        BY <2>1 DEF Approved, LaunchReady, CacheState
    <2>3. ReadyType'
        BY <1>10, <2>2, AppendReadyType DEF CacheAppends, ReadyType
    <2>. QED BY <1>10, <2>3 DEF CacheAppends
<1>11. CASE CacheFindsVenueDown
    BY <1>11 DEF CacheFindsVenueDown, ReadyType
<1>12. CASE CacheStops
    BY <1>12 DEF CacheStops, ReadyType
<1>13. CASE UpsertApproval
    BY <1>13 DEF UpsertApproval, ReadyType
<1>14. CASE PromotionStarts
    <2>1. PICK r \in Routes, cap \in Caps, suggested \in Sizes, next \in {"probe", "approve"} :
             promo' = [NoPromo EXCEPT !.pc = next,
                         !.of = [route |-> r, size |-> Least(suggested, cap), cap |-> cap]]
        BY <1>14 DEF PromotionStarts
    <2>2. [route |-> r, size |-> Least(suggested, cap), cap |-> cap] \in Payload
        BY DEF Payload, Least
    <2>3. promo' \in PromoState
        BY <2>1, <2>2 DEF NoPromo, PromoState
    <2>. QED BY <1>14, <2>3 DEF PromotionStarts, ReadyType
<1>15. CASE PromotionCaches
    <2>1. promo.of \in Payload /\ promo.age \in 0..MaxCycle
        BY <1>15 DEF PromotionCaches, PromoState, Holds
    <2>2. promo.of.route \in Routes /\ promo.of.cap \in Caps
        BY <2>1 DEF Payload
    <2>3. Promoted \in Approved /\ Promoted \in LaunchReady /\ promo.age \in 0..Horizon
        BY <2>1 DEF Promoted, Approved, LaunchReady
    <2>4. Latest(Promoted) \in Approved
        BY <2>3, LatestType
    <2>5. ReadyType'
        BY <1>15, <2>3, AppendReadyType DEF PromotionCaches, ReadyType
    <2>. QED BY <1>15, <2>2, <2>4, <2>5 DEF PromotionCaches
<1>16. CASE PromotionApproves
    <2>1. promo.of \in Payload /\ promo.age \in 0..MaxCycle
        BY <1>16 DEF PromotionApproves, PromoState, Holds
    <2>2. promo.of.route \in Routes /\ promo.of.cap \in Caps
        BY <2>1 DEF Payload
    <2>3. promo' \in PromoState
        BY <1>16 DEF PromotionApproves, PromoState
    <2>. QED BY <1>16, <2>2, <2>3 DEF PromotionApproves, ReadyType
<1>17. CASE PromotionAppends
    <2>1. promo.of \in Payload /\ promo.age \in 0..MaxCycle
        BY <1>17 DEF PromotionAppends, PromoState, Holds
    <2>2. promo.of.route \in Routes /\ promo.of.cap \in Caps
        BY <2>1 DEF Payload
    <2>3. Latest(Promoted) \in Approved
        BY <2>1, LatestType DEF Promoted, Approved
    <2>. QED BY <1>17, <2>3 DEF PromotionAppends, ReadyType
<1>18. CASE PromotionFails
    BY <1>18 DEF PromotionFails, ReadyType
<1>19. CASE LaunchPicks \/ SupervisorPicks
    <2>1. ready # <<>>
        BY <1>19 DEF LaunchPicks, SupervisorPicks, Stable, Usable
    <2>2. ready[1] \in LaunchReady /\ ready[1].of \in Payload /\ source \in 0..Horizon
        <3>1. 1 \in 1..Len(ready)
            BY <2>1 DEF ReadyType
        <3>2. ready[1] \in LaunchReady
            BY <3>1 DEF ReadyType
        <3>. QED BY <3>2 DEF ReadyType, LaunchReady
    <2>3. Found \in Approved
        BY <2>2 DEF Found, Approved
    <2>4. launch' \in LaunchState
        BY <1>19, <2>3 DEF LaunchPicks, SupervisorPicks, NoLaunch, LaunchState
    <2>. QED BY <1>19, <2>4 DEF LaunchPicks, SupervisorPicks, ReadyType
<1>20. CASE LaunchSelects
    <2>1. ready # <<>> /\ approval[ready[1].of.route] # None
        BY <1>20 DEF LaunchSelects, Usable
    <2>2. ready[1] \in LaunchReady /\ ready[1].of \in Payload /\ source \in 0..Horizon
        <3>1. 1 \in 1..Len(ready)
            BY <2>1 DEF ReadyType
        <3>2. ready[1] \in LaunchReady
            BY <3>1 DEF ReadyType
        <3>. QED BY <3>2 DEF ReadyType, LaunchReady
    <2>3. [age |-> source, of |-> Capped(ready[1].of)] \in Approved
        BY <2>1, <2>2, CappedType DEF Approved
    <2>4. launch' \in LaunchState
        BY <1>20, <2>3 DEF LaunchSelects, LaunchState
    <2>. QED BY <1>20, <2>4 DEF LaunchSelects, ReadyType
<1>21. CASE LaunchKeeps
    <2>1. launch' \in LaunchState
        BY <1>21 DEF LaunchKeeps, LaunchState
    <2>. QED BY <1>21, <2>1 DEF LaunchKeeps, ReadyType
<1>22. CASE LaunchReplaces
    <2>1. latest \in Approved /\ latest.of \in Payload /\ approval[latest.of.route] # None
        BY <1>22 DEF LaunchReplaces, Approved
    <2>2. [age |-> latest.age, of |-> Capped(latest.of)] \in Approved
        BY <2>1, CappedType DEF Approved
    <2>3. launch' \in LaunchState
        BY <1>22, <2>2 DEF LaunchReplaces, LaunchState
    <2>. QED BY <1>22, <2>3 DEF LaunchReplaces, ReadyType
<1>23. CASE LaunchDrops
    <2>1. ReadyType'
        BY <1>23, DropReadyType DEF LaunchDrops, ReadyType
    <2>. QED BY <1>23, <2>1 DEF LaunchDrops
<1>24. CASE LaunchPasses
    <2>1. launch' \in LaunchState
        BY <1>24 DEF LaunchPasses, LaunchState
    <2>. QED BY <1>24, <2>1 DEF LaunchPasses, ReadyType
<1>25. CASE LaunchEnds
    BY <1>25 DEF LaunchEnds, ReadyType
<1>26. CASE VenuesChange
    BY <1>26 DEF VenuesChange, ReadyType
<1>27. CASE Tick
    <2>1. ReadyType' /\ VenueType'
        BY <1>27, TickType DEF Tick, ReadyType
    <2>2. latest' \in Approved \cup {None}
        BY <1>27, AgedApproved DEF Tick
    <2>. /\ scan.age < MaxCycle /\ cache.age < MaxCycle
         /\ promo.age < MaxCycle /\ launch.age < MaxCycle
        BY <1>27 DEF Tick
    <2>3. scan' \in ScanState /\ promo' \in PromoState
        <3>1. scan' \in ScanState
            <4>1. scan' = scan \/ scan' = [scan EXCEPT !.age = scan.age + 1]
                BY <1>27 DEF Tick, Running
            <4>2. scan.age \in 0..MaxCycle /\ scan.age + 1 \in 0..MaxCycle
                BY DEF ScanState
            <4>. QED BY <4>1, <4>2 DEF ScanState
        <3>2. promo' \in PromoState
            <4>1. promo' = promo \/ promo' = [promo EXCEPT !.age = promo.age + 1]
                BY <1>27 DEF Tick, Running
            <4>2. promo.age \in 0..MaxCycle /\ promo.age + 1 \in 0..MaxCycle
                BY DEF PromoState
            <4>. QED BY <4>1, <4>2 DEF PromoState
        <3>. QED BY <3>1, <3>2
    <2>4. cache' \in CacheState
        <3>1. Running(cache) \in CacheState /\ Running(cache).pick = cache.pick
            BY <1>27 DEF Tick, Running, CacheState
        <3>2. Aged(cache.pick, Horizon) \in Approved \cup {None}
            BY AgedApproved DEF CacheState
        <3>. QED BY <1>27, <3>1, <3>2 DEF Tick, CacheState
    <2>5. launch' \in LaunchState
        <3>1. /\ Running(launch) \in LaunchState
              /\ Running(launch).pick = launch.pick /\ Running(launch).chosen = launch.chosen
            BY DEF Running, LaunchState
        <3>2. Aged(launch.pick, Horizon) \in Approved \cup {None}
            BY AgedApproved DEF LaunchState
        <3>3. Aged(launch.chosen, Horizon) \in Approved \cup {None}
            BY AgedApproved DEF LaunchState
        <3>. QED BY <1>27, <3>1, <3>2, <3>3 DEF Tick, LaunchState
    <2>. QED BY <1>27, <2>1, <2>2, <2>3, <2>4, <2>5 DEF Tick
<1>28. CASE UNCHANGED vars
    BY <1>28 DEF vars, ReadyType
<1>29. CASE SupervisorStarts
    <2>1. launch' \in LaunchState
        BY <1>29 DEF SupervisorStarts, NoLaunch, LaunchState
    <2>. QED BY <1>29, <2>1 DEF SupervisorStarts, ReadyType
<1>. QED
    BY <1>1, <1>2, <1>3, <1>4, <1>5, <1>6, <1>7, <1>8, <1>9, <1>10, <1>11, <1>12, <1>13, <1>14,
       <1>15, <1>16, <1>17, <1>18, <1>19, <1>20, <1>21, <1>22, <1>23, <1>24, <1>25, <1>26, <1>27, <1>28, <1>29
       DEF Next, ScanStep, CacheStep, PromoStep, LaunchStep

-----------------------------------------------------------------------------
(* The invariant, process by process.                                      *)

\* What a newer approved snapshot leaves of what was known of the latest one.
LEMMA LatestKeeps ==
    ASSUME IInv, NEW s \in Approved, latest' = Latest(s), UNCHANGED <<cached, cache, launch>>
    PROVE  LatestIsNewest'
<1>1. latest' \in Approved /\ (latest # None => latest'.age <= latest.age)
    BY LatestType DEF IInv
<1>2. latest' # None /\ latest'.age \in Nat
    BY <1>1, NoneAssumption DEF Approved
<1>3. /\ source \in Int /\ (latest # None => latest.age \in Int)
      /\ cache.pc = "probe" => cache.pick.age \in Int
      /\ Launching => launch.pick.age \in Int
    BY DEF IInv, TypeOK, Approved, Holds
<1>. QED BY <1>1, <1>2, <1>3 DEF IInv, LatestIsNewest, Launching, cached

LEMMA ScanKeepsInv ==
    ASSUME IInv, TypeOK', ScanStep \/ ScanStops
    PROVE  IInv'
<1>1. UNCHANGED <<approval, ready, source, outage, down, cache, promo, launch>>
    BY DEF ScanStep, ScanStops, ScanStart, ScanMisses, ScanMatches, ScanStores, stores, venues, cached
<1>2. latest' = latest \/ \E s \in Approved : latest' = Latest(s)
    <2>1. scan.best # None => [age |-> scan.age, of |-> scan.best] \in Approved
        BY Constants DEF IInv, TypeOK, Approved
    <2>. QED BY <2>1 DEF ScanStep, ScanStops, ScanStart, ScanMisses, ScanMatches, ScanStores, stores, cached
<1>3. LatestIsNewest'
    <2>1. CASE latest' = latest
        BY <2>1, <1>1 DEF IInv, LatestIsNewest, Launching
    <2>2. CASE \E s \in Approved : latest' = Latest(s)
        BY <2>2, <1>1, LatestKeeps DEF cached
    <2>. QED BY <1>2, <2>1, <2>2
<1>4. Holds' /\ ReadySince' /\ SourceFresh' /\ SelectedIsStable'
    BY <1>1 DEF IInv, Holds, ReadySince, SourceFresh, SelectedIsStable, Launching, HasChosen,
                LaunchedIsStable
<1>. QED BY <1>3, <1>4 DEF IInv

\* A step that stores a launch-ready snapshot while the venues are ready.
LEMMA AppendKeeps ==
    ASSUME IInv, NEW s \in LaunchReady, NEW from \in 0..Horizon, AppendReady(s, from),
           ~down, UNCHANGED venues, from <= s.age + MaxAge
    PROVE  /\ \A i \in 1..Len(ready') : ready'[i].age < ReadyHorizon => outage' <= ready'[i].age
           /\ ready' # <<>> /\ (ready'[1].age < ReadyHorizon => source' <= ready'[1].age + MaxAge)
           /\ source' = from \/ (ready # <<>> /\ source' = source)
<1>1. outage = 0 /\ outage' = 0
    BY DEF IInv, ReadySince, venues
<1>2. \A i \in 1..Len(ready') : ready'[i].age \in Nat
    <2>1. ready' \in Seq(LaunchReady)
        BY AppendReadyType DEF IInv
    <2>2. \A i \in 1..Len(ready') : ready'[i] \in LaunchReady
        BY <2>1
    <2>. QED BY <2>2, Constants DEF LaunchReady
<1>3. Len(ready') \in 1..Keep /\ ready' \in Seq(LaunchReady)
    BY AppendReadyType DEF IInv
<1>4. ready' # <<>>
    BY <1>3
<1>5. \/ ready'[1] = s /\ source' = from
      \/ ready # <<>> /\ ready'[1] = ready[1] /\ source' = source
    BY AppendReadyType DEF IInv
<1>6. ready'[1].age < ReadyHorizon => source' <= ready'[1].age + MaxAge
    BY <1>5 DEF IInv, SourceFresh
<1>7. \A i \in 1..Len(ready') : outage' <= ready'[i].age
    BY <1>1, <1>2
<1>8. source' = from \/ (ready # <<>> /\ source' = source)
    BY <1>5
<1>. QED BY <1>4, <1>6, <1>7, <1>8

LEMMA CacheKeepsInv ==
    ASSUME IInv, TypeOK', CacheStep \/ CacheStops
    PROVE  IInv'
<1>1. UNCHANGED <<approval, latest, outage, down, scan, promo, launch>>
    BY DEF CacheStep, CacheStops, CacheStart, CacheReads, CacheSkips, CacheDrops, CacheAppends,
           CacheFindsVenueDown, stores, venues, cached
<1>2. CASE CacheReads
    <2>1. latest \in Approved /\ latest.of \in Payload /\ approval[latest.of.route] # None
        BY <1>2 DEF CacheReads, Readable, Approved, IInv, TypeOK
    <2>2. [age |-> latest.age, of |-> Capped(latest.of)] \in Approved
        BY <2>1, CappedType DEF Approved, IInv
    <2>3. /\ cache'.pick = [age |-> latest.age, of |-> Capped(latest.of)] /\ cache'.age = cache.age
          /\ UNCHANGED cached
        BY <1>2 DEF CacheReads, stores, IInv, TypeOK
    <2>4. latest # None /\ latest.age - cache.age <= MaxAge
        BY <1>2 DEF CacheReads, Readable
    <2>5. latest.age \in Nat /\ cache.age \in Nat
        BY <2>1 DEF Approved, IInv, TypeOK
    <2>6. cache'.pick # None
        BY <2>2, <2>3, NoneAssumption
    <2>. QED BY <1>1, <2>3, <2>4, <2>5, <2>6, Constants
             DEF IInv, Holds, ReadySince, SourceFresh, LatestIsNewest, SelectedIsStable,
                 Launching, HasChosen, LaunchedIsStable, cached
<1>3. CASE CacheAppends
    <2>1. cache.pc = "probe" /\ ~down /\ cache' = NoCache
          /\ AppendReady([age |-> cache.age, of |-> cache.pick.of], cache.pick.age)
        BY <1>3 DEF CacheAppends
    <2>2. cache.pick \in Approved
        BY <2>1 DEF IInv, TypeOK, Holds
    <2>3. /\ [age |-> cache.age, of |-> cache.pick.of] \in LaunchReady
          /\ cache.pick.age \in 0..Horizon /\ cache.pick.age <= cache.age + MaxAge
        BY <2>1, <2>2, Constants DEF Approved, LaunchReady, IInv, TypeOK, SourceFresh
    <2>4. /\ \A i \in 1..Len(ready') : ready'[i].age < ReadyHorizon => outage' <= ready'[i].age
          /\ ready'[1].age < ReadyHorizon => source' <= ready'[1].age + MaxAge
          /\ source' = cache.pick.age \/ (ready # <<>> /\ source' = source)
        BY <1>1, <2>1, <2>3, AppendKeeps DEF venues
    <2>5. cache'.pc = "idle"
        BY <2>1 DEF NoCache
    <2>. QED BY <1>1, <2>1, <2>4, <2>5
             DEF IInv, Holds, ReadySince, SourceFresh, LatestIsNewest, SelectedIsStable,
                 Launching, HasChosen, LaunchedIsStable
<1>4. CASE CacheStart \/ CacheSkips \/ CacheDrops \/ CacheFindsVenueDown \/ CacheStops
    <2>1. cache'.pc # "probe"
        <3>1. CASE CacheStart
            <4>1. PICK age \in Stamps : cache' = [NoCache EXCEPT !.pc = "read", !.age = age]
                BY <3>1 DEF CacheStart
            <4>. QED BY <4>1 DEF NoCache
        <3>. QED BY <1>4, <3>1 DEF CacheSkips, CacheDrops, CacheFindsVenueDown, CacheStops, NoCache
    <2>2. UNCHANGED cached \/ ready' = <<>>
        BY <1>4 DEF CacheStart, CacheSkips, CacheDrops, CacheFindsVenueDown, CacheStops, DropReady,
                    stores
    <2>. QED BY <1>1, <2>1, <2>2
             DEF IInv, Holds, ReadySince, SourceFresh, LatestIsNewest, SelectedIsStable,
                 Launching, HasChosen, LaunchedIsStable, cached
<1>. QED BY <1>2, <1>3, <1>4 DEF CacheStep

LEMMA PromoKeepsInv ==
    ASSUME IInv, TypeOK', PromoStep
    PROVE  IInv'
<1>1. UNCHANGED <<outage, down, scan, cache, launch>>
    BY DEF PromoStep, PromotionStarts, PromotionCaches, PromotionApproves, PromotionAppends,
           PromotionFails, stores, venues, cached
<1>2. promo.pc # "idle" => promo.of \in Payload /\ Promoted \in Approved /\ Promoted \in LaunchReady
    BY Constants DEF Promoted, Approved, LaunchReady, IInv, TypeOK, Holds
<1>3. promo'.pc # "idle" => promo'.of # None
    <2>1. CASE PromotionStarts
        <3>1. PICK r \in Routes, cap \in Caps, suggested \in Sizes, next \in {"probe", "approve"} :
                 promo' = [NoPromo EXCEPT !.pc = next,
                             !.of = [route |-> r, size |-> Least(suggested, cap), cap |-> cap]]
            BY <2>1 DEF PromotionStarts
        <3>2. [route |-> r, size |-> Least(suggested, cap), cap |-> cap] \in Payload
            BY Constants DEF Payload, Least
        <3>. QED BY <3>1, <3>2, NoneAssumption DEF NoPromo
    <2>2. CASE PromotionApproves
        BY <2>2, <1>2, NoneAssumption DEF PromotionApproves, IInv, TypeOK
    <2>3. CASE PromotionCaches \/ PromotionAppends \/ PromotionFails
        BY <2>3 DEF PromotionCaches, PromotionAppends, PromotionFails, NoPromo
    <2>. QED BY <2>1, <2>2, <2>3 DEF PromoStep
<1>4. CASE PromotionCaches
    <2>1. /\ promo.pc = "probe" /\ ~down /\ latest' = Latest(Promoted)
          /\ AppendReady(Promoted, promo.age)
        BY <1>4 DEF PromotionCaches
    <2>2. Promoted \in Approved /\ Promoted \in LaunchReady /\ promo.age \in 0..Horizon
          /\ Promoted.age = promo.age /\ promo.age <= Promoted.age + MaxAge
        BY <1>2, <2>1, Constants DEF Promoted, IInv, TypeOK
    <2>3. /\ \A i \in 1..Len(ready') : ready'[i].age < ReadyHorizon => outage' <= ready'[i].age
          /\ ready'[1].age < ReadyHorizon => source' <= ready'[1].age + MaxAge
          /\ source' = promo.age \/ (ready # <<>> /\ source' = source)
        BY <1>1, <2>1, <2>2, AppendKeeps DEF venues
    <2>4. /\ latest' \in Approved /\ latest'.age <= promo.age
          /\ latest # None => latest'.age <= latest.age
        BY <2>1, <2>2, LatestType DEF IInv
    <2>5. /\ source \in Int /\ (latest # None => latest.age \in Int)
          /\ latest'.age \in Int /\ latest' # None
          /\ cache.pc = "probe" => cache.pick.age \in Int
          /\ Launching => launch.pick.age \in Int
        BY <2>4, NoneAssumption DEF IInv, TypeOK, Approved, Holds
    <2>6. LatestIsNewest'
        BY <1>1, <2>3, <2>4, <2>5 DEF IInv, LatestIsNewest, Launching
    <2>. QED BY <1>1, <1>3, <2>3, <2>6
             DEF IInv, Holds, ReadySince, SourceFresh, SelectedIsStable,
                 Launching, HasChosen, LaunchedIsStable
<1>5. CASE ~PromotionCaches
    <2>1. UNCHANGED cached /\ (latest' = latest \/ (Promoted \in Approved /\ latest' = Latest(Promoted)))
        <3>1. CASE PromotionAppends
            BY <3>1, <1>2 DEF PromotionAppends
        <3>2. CASE PromotionStarts \/ PromotionApproves \/ PromotionFails
            BY <3>2 DEF PromotionStarts, PromotionApproves, PromotionFails, stores
        <3>. QED BY <3>1, <3>2, <1>5 DEF PromoStep
    <2>2. LatestIsNewest'
        <3>1. CASE latest' = latest
            BY <3>1, <2>1, <1>1 DEF IInv, LatestIsNewest, Launching, cached
        <3>2. CASE Promoted \in Approved /\ latest' = Latest(Promoted)
            BY <3>2, <2>1, <1>1, LatestKeeps
        <3>. QED BY <2>1, <3>1, <3>2
    <2>. QED BY <1>1, <1>3, <2>1, <2>2
             DEF IInv, Holds, ReadySince, SourceFresh, SelectedIsStable,
                 Launching, HasChosen, LaunchedIsStable, cached
<1>. QED BY <1>4, <1>5

LEMMA LaunchKeepsInv ==
    ASSUME IInv, TypeOK', LaunchStep
    PROVE  IInv'
<1>1. UNCHANGED <<approval, latest, outage, down, scan, cache, promo>>
    BY DEF LaunchStep, SupervisorStarts, SupervisorPicks, LaunchPicks, LaunchSelects, LaunchKeeps, LaunchReplaces, LaunchDrops,
           LaunchPasses, LaunchEnds, stores, venues, cached
<1>2. ASSUME \/ SupervisorStarts \/ SupervisorPicks \/ LaunchPicks \/ LaunchSelects
             \/ LaunchReplaces \/ LaunchKeeps \/ LaunchPasses \/ LaunchEnds
      PROVE  UNCHANGED cached
    BY <1>2 DEF SupervisorStarts, SupervisorPicks, LaunchPicks, LaunchSelects, LaunchKeeps,
                LaunchReplaces, LaunchPasses, LaunchEnds, stores
<1>3. ASSUME NEW ago \in 0..MaxCycle, Usable(ago)
      PROVE  /\ ready # <<>> /\ ready[1] \in LaunchReady /\ ready[1].of \in Payload
             /\ source \in Nat /\ source <= 2 * MaxAge + ago /\ outage <= MaxAge + ago
             /\ latest # None /\ latest.age <= source
    <2>1. ready # <<>> /\ ready[1].age - ago <= MaxAge
        BY <1>3 DEF Usable
    <2>2. 1 \in 1..Len(ready) /\ ready \in Seq(LaunchReady)
        BY <2>1 DEF IInv, TypeOK
    <2>3. ready[1] \in LaunchReady
        BY <2>2
    <2>4. ready[1].age \in Nat /\ ready[1].of \in Payload
        BY <2>3, Constants DEF LaunchReady
    <2>5. ready[1].age <= MaxAge + ago /\ ready[1].age < ReadyHorizon
        BY <2>1, <2>4, Constants
    <2>6. outage <= ready[1].age /\ source <= ready[1].age + MaxAge
        BY <2>1, <2>2, <2>5 DEF IInv, ReadySince, SourceFresh
    <2>7. source \in Nat /\ outage \in Nat
        BY Constants DEF IInv, TypeOK
    <2>8. latest # None /\ latest.age <= source
        BY <2>1 DEF IInv, LatestIsNewest
    <2>. QED BY <2>1, <2>3, <2>4, <2>5, <2>6, <2>7, <2>8, Constants
<1>9. Ago \in 0..MaxCycle /\ Ago <= launch.age
    BY Constants DEF Ago, IInv, TypeOK
<1>4. CASE LaunchPicks \/ SupervisorPicks
    <2>1. PICK ago \in 0..MaxCycle : Usable(ago) /\ ago <= launch'.age
        <3>1. CASE LaunchPicks
            BY <3>1, Constants DEF LaunchPicks, NoLaunch, Stable
        <3>2. CASE SupervisorPicks
            BY <3>2, <1>9 DEF SupervisorPicks, Stable, IInv, TypeOK
        <3>. QED BY <1>4, <3>1, <3>2
    <2>3. launch'.pc = "picked" /\ launch'.pick = Found /\ launch'.age \in Nat
        <3>1. launch'.pc = "picked" /\ launch'.pick = Found
            BY <1>4 DEF LaunchPicks, SupervisorPicks, NoLaunch, IInv, TypeOK
        <3>2. launch'.age \in Nat
            BY Constants DEF TypeOK
        <3>. QED BY <3>1, <3>2
    <2>4. Found \in Approved /\ Found.age = source
        BY <1>3, <2>1 DEF Found, IInv, TypeOK, Approved
    <2>5. Holds'
        BY <1>1, <2>3, <2>4, NoneAssumption DEF IInv, Holds, Launching, HasChosen
    <2>9. /\ source <= 2 * MaxAge + launch'.age /\ outage <= MaxAge + launch'.age
          /\ latest # None /\ latest.age <= source
        BY <1>3, <2>1, <2>3, Constants DEF IInv, TypeOK
    <2>6. ReadySince'
        BY <1>1, <1>2, <1>4, <2>9 DEF IInv, ReadySince, cached
    <2>7. SourceFresh'
        BY <1>1, <1>2, <1>4, <2>3, <2>4, <2>9 DEF IInv, SourceFresh, HasChosen, cached
    <2>8. LatestIsNewest' /\ SelectedIsStable'
        BY <1>1, <1>2, <1>4, <2>3, <2>4, <2>9
           DEF IInv, LatestIsNewest, SelectedIsStable, HasChosen, cached
    <2>. QED BY <2>5, <2>6, <2>7, <2>8 DEF IInv
<1>5. CASE LaunchSelects
    <2>1. /\ launch.pc = "picked" /\ Usable(Ago) /\ approval[ready[1].of.route] # None
          /\ launch.by \in Worker => ready[1].of = launch.pick.of
          /\ launch' = [launch EXCEPT
                !.pc = IF launch.by \in Worker THEN "selected" ELSE "checked",
                !.chosen = [age |-> source, of |-> Capped(ready[1].of)]]
        BY <1>5 DEF LaunchSelects
    <2>2. /\ launch'.pc \in {"selected", "checked"}
          /\ launch'.by = launch.by /\ launch'.age = launch.age /\ launch'.pick = launch.pick
          /\ launch'.chosen = [age |-> source, of |-> Capped(ready[1].of)]
        BY <2>1 DEF IInv, TypeOK
    <2>3. /\ Capped(ready[1].of) \in Payload
          /\ Capped(ready[1].of).route = ready[1].of.route
          /\ Capped(ready[1].of).size <= ready[1].of.size
        BY <1>3, <1>9, <2>1, CappedType DEF IInv
    <2>4. [age |-> source, of |-> Capped(ready[1].of)] \in Approved /\ launch.age \in Nat
        BY <2>3, Constants DEF IInv, TypeOK, Approved
    <2>9. source \in Nat /\ source <= 2 * MaxAge + launch.age
        BY <1>3, <1>9, <2>1, <2>4, Constants
    <2>5. Holds'
        BY <1>1, <2>1, <2>2, <2>4, NoneAssumption DEF IInv, Holds, Launching, HasChosen
    <2>6. ReadySince'
        BY <1>1, <1>2, <1>5, <2>1, <2>2 DEF IInv, ReadySince, Launching, cached
    <2>7. SourceFresh'
        BY <1>1, <1>2, <1>5, <2>1, <2>2, <2>4, <2>9
           DEF IInv, SourceFresh, Launching, HasChosen, cached
    <2>8. LatestIsNewest' /\ SelectedIsStable'
        BY <1>1, <1>2, <1>5, <2>1, <2>2, <2>3
           DEF IInv, LatestIsNewest, SelectedIsStable, Launching, HasChosen, LaunchedIsStable, cached
    <2>. QED BY <2>5, <2>6, <2>7, <2>8 DEF IInv
<1>6. CASE LaunchReplaces
    <2>1. /\ launch.pc = "selected" /\ latest # None /\ latest.of = launch.pick.of
          /\ approval[latest.of.route] # None
          /\ launch' = [launch EXCEPT !.pc = "checked",
                                      !.chosen = [age |-> latest.age, of |-> Capped(latest.of)]]
        BY <1>6 DEF LaunchReplaces
    <2>2. /\ launch'.pc = "checked"
          /\ launch'.by = launch.by /\ launch'.age = launch.age /\ launch'.pick = launch.pick
          /\ launch'.chosen = [age |-> latest.age, of |-> Capped(latest.of)]
        BY <2>1 DEF IInv, TypeOK
    <2>3. latest \in Approved /\ latest.of \in Payload /\ latest.age \in Nat
        BY <2>1 DEF IInv, TypeOK, Approved
    <2>4. /\ Capped(latest.of) \in Payload
          /\ Capped(latest.of).route = latest.of.route /\ Capped(latest.of).size <= latest.of.size
        BY <2>1, <2>3, CappedType DEF IInv
    <2>5. [age |-> latest.age, of |-> Capped(latest.of)] \in Approved
        BY <2>3, <2>4 DEF Approved
    <2>6. Holds'
        BY <1>1, <2>1, <2>2, <2>5, NoneAssumption DEF IInv, Holds, Launching, HasChosen
    <2>7. ReadySince'
        BY <1>1, <1>2, <1>6, <2>1, <2>2 DEF IInv, ReadySince, Launching, cached
    <2>8. launch.pick.age \in Nat /\ launch.age \in Nat /\ latest.age <= launch.pick.age
          /\ launch.pick.age <= 2 * MaxAge + launch.age
        BY <2>1, Constants DEF IInv, TypeOK, Holds, Approved, LatestIsNewest, SourceFresh, Launching
    <2>9. SourceFresh'
        BY <1>1, <1>2, <1>6, <2>1, <2>2, <2>3, <2>8, Constants
           DEF IInv, SourceFresh, Launching, HasChosen, cached
    <2>10. LatestIsNewest' /\ SelectedIsStable'
        BY <1>1, <1>2, <1>6, <2>1, <2>2, <2>4
           DEF IInv, LatestIsNewest, SelectedIsStable, Launching, HasChosen, LaunchedIsStable, cached
    <2>. QED BY <2>6, <2>7, <2>9, <2>10 DEF IInv
<1>7. CASE LaunchKeeps \/ LaunchPasses
    <2>1. HasChosen /\ launch'.pc \in {"checked", "launched"}
          /\ launch'.by = launch.by /\ launch'.age = launch.age
          /\ launch'.pick = launch.pick /\ launch'.chosen = launch.chosen
        BY <1>7 DEF LaunchKeeps, LaunchPasses, HasChosen, IInv, TypeOK
    <2>. QED BY <1>1, <1>2, <1>7, <2>1
             DEF IInv, Holds, ReadySince, SourceFresh, LatestIsNewest, SelectedIsStable,
                 Launching, HasChosen, LaunchedIsStable, cached
<1>8. CASE LaunchDrops \/ LaunchEnds \/ SupervisorStarts
    <2>1. launch'.pc \in {"idle", "waiting"}
        <3>1. CASE SupervisorStarts
            BY <3>1 DEF SupervisorStarts, NoLaunch
        <3>. QED BY <1>8, <3>1 DEF LaunchDrops, LaunchEnds, NoLaunch
    <2>2. UNCHANGED cached \/ ready' = <<>>
        BY <1>8, <1>2 DEF LaunchDrops, DropReady
    <2>. QED BY <1>1, <2>1, <2>2
             DEF IInv, Holds, ReadySince, SourceFresh, LatestIsNewest, SelectedIsStable,
                 Launching, HasChosen, cached
<1>. QED BY <1>4, <1>5, <1>6, <1>7, <1>8 DEF LaunchStep

\* The clock: what is at work and what it holds grow older together.
LEMMA TickKeepsInv ==
    ASSUME IInv, TypeOK', Tick
    PROVE  IInv'
<1>1. /\ Len(ready') = Len(ready) /\ (ready' # <<>> => ready # <<>> /\ 1 \in 1..Len(ready))
      /\ \A i \in 1..Len(ready) :
            /\ ready[i].age \in Nat /\ ready'[i].age \in Nat /\ ready[i].age <= ready'[i].age
            /\ ready'[i].age < ReadyHorizon => ready'[i].age = ready[i].age + 1
    <2>1. ready \in Seq(LaunchReady) /\ ready' \in Seq(LaunchReady) /\ Len(ready') = Len(ready)
        BY TickType DEF IInv, TypeOK
    <2>2. \A i \in 1..Len(ready) : ready[i] \in LaunchReady /\ ready'[i] \in LaunchReady
        BY <2>1
    <2>3. \A i \in 1..Len(ready) : ready[i].age \in Nat /\ ready'[i].age \in Nat
        BY <2>2, Constants DEF LaunchReady
    <2>4. ready' # <<>> => ready # <<>> /\ 1 \in 1..Len(ready)
        BY <2>1
    <2>. QED BY <2>1, <2>3, <2>4, TickType DEF IInv
<1>2. /\ source \in Nat /\ source' \in Nat /\ source' <= source + 1
      /\ outage \in Nat /\ outage' \in Nat /\ outage' <= outage + 1 /\ (~down => outage' = 0)
      /\ down' = down
    BY TickType, Constants DEF IInv, TypeOK, Tick
<1>3. /\ cache'.pc = cache.pc /\ cache'.pick = Aged(cache.pick, Horizon)
      /\ cache.pc = "probe" => cache'.age = cache.age + 1
    BY DEF Tick, Running, IInv, TypeOK
<1>4. /\ launch'.pc = launch.pc /\ launch'.by = launch.by
      /\ launch'.pick = Aged(launch.pick, Horizon) /\ launch'.chosen = Aged(launch.chosen, Horizon)
      /\ Launching => launch'.age = launch.age + 1
    BY DEF Tick, Running, IInv, TypeOK, Launching
<1>5. promo'.pc = promo.pc /\ promo'.of = promo.of
    BY DEF Tick, Running, IInv, TypeOK
<1>6. HasChosen => Launching
    BY DEF HasChosen, Launching
<1>7. cache.age \in Nat /\ launch.age \in Nat
    BY Constants DEF IInv, TypeOK
<1>8. cache.pc = "probe" =>
         /\ cache.pick # None /\ cache'.pick # None
         /\ cache.pick.age \in Nat /\ cache'.pick.age \in Nat
         /\ cache'.pick.age = Least(Horizon, cache.pick.age + 1)
    BY <1>3, AgedApproved DEF IInv, TypeOK, Holds
<1>9. Launching =>
         /\ launch.pick # None /\ launch'.pick # None
         /\ launch.pick.age \in Nat /\ launch'.pick.age \in Nat /\ launch'.pick.of = launch.pick.of
         /\ launch'.pick.age = Least(Horizon, launch.pick.age + 1)
    BY <1>4, AgedApproved DEF IInv, TypeOK, Holds
<1>10. HasChosen =>
         /\ launch.chosen # None /\ launch'.chosen # None
         /\ launch.chosen.age \in Nat /\ launch'.chosen.age \in Nat
         /\ launch'.chosen.of = launch.chosen.of
         /\ launch'.chosen.age = Least(Horizon, launch.chosen.age + 1)
    BY <1>4, AgedApproved DEF IInv, TypeOK, Holds
<1>11. latest # None =>
         /\ latest' # None /\ latest.age \in Nat /\ latest'.age \in Nat
         /\ latest'.age = Least(Horizon, latest.age + 1)
    BY AgedApproved DEF IInv, TypeOK, Tick
<1>12. source' = IF ready = <<>> THEN 0 ELSE Least(Horizon, source + 1)
    BY DEF Tick
<1>13. Holds'
    BY <1>3, <1>4, <1>5, <1>8, <1>9, <1>10 DEF IInv, Holds, Launching, HasChosen
<1>14. ReadySince'
    <2>1. ~down' => outage' = 0
        BY <1>2 DEF IInv, ReadySince
    <2>2. ASSUME NEW i \in 1..Len(ready'), ready'[i].age < ReadyHorizon
          PROVE  outage' <= ready'[i].age
        BY <1>1, <1>2, <2>2, Constants DEF IInv, ReadySince
    <2>3. Launching' => outage' <= MaxAge + launch'.age
        BY <1>2, <1>4, <1>7, Constants DEF IInv, ReadySince, Launching
    <2>. QED BY <2>1, <2>2, <2>3 DEF ReadySince
<1>15. SourceFresh'
    <2>1. ready' # <<>> /\ ready'[1].age < ReadyHorizon => source' <= ready'[1].age + MaxAge
        BY <1>1, <1>2, Constants DEF IInv, SourceFresh
    <2>2. cache'.pc = "probe" => cache'.pick.age <= cache'.age + MaxAge
        BY <1>3, <1>7, <1>8, Constants DEF IInv, SourceFresh, Least
    <2>3. Launching' => launch'.pick.age <= 2 * MaxAge + launch'.age
        BY <1>4, <1>7, <1>9, Constants DEF IInv, SourceFresh, Launching, Least
    <2>4. HasChosen' => launch'.chosen.age <= 2 * MaxAge + launch'.age
        BY <1>4, <1>6, <1>7, <1>10, Constants DEF IInv, SourceFresh, HasChosen, Least
    <2>. QED BY <2>1, <2>2, <2>3, <2>4 DEF SourceFresh
<1>16. LatestIsNewest'
    BY <1>1, <1>2, <1>3, <1>4, <1>8, <1>9, <1>11, <1>12, Constants
       DEF IInv, LatestIsNewest, Launching, Least
<1>17. SelectedIsStable'
    BY <1>4, <1>6, <1>9, <1>10 DEF IInv, SelectedIsStable, HasChosen, LaunchedIsStable
<1>. QED BY <1>13, <1>14, <1>15, <1>16, <1>17 DEF IInv

LEMMA InvStep == IInv /\ [Next]_vars => IInv'
<1>. SUFFICES ASSUME IInv, [Next]_vars PROVE IInv'
    OBVIOUS
<1>1. TypeOK'
    BY TypeStep DEF IInv
<1>2. CASE ScanStep \/ ScanStops
    BY <1>1, <1>2, ScanKeepsInv
<1>3. CASE CacheStep \/ CacheStops
    BY <1>1, <1>3, CacheKeepsInv
<1>4. CASE PromoStep
    BY <1>1, <1>4, PromoKeepsInv
<1>5. CASE LaunchStep
    BY <1>1, <1>5, LaunchKeepsInv
<1>6. CASE Tick
    BY <1>1, <1>6, TickKeepsInv
<1>7. CASE UpsertApproval \/ VenuesChange \/ UNCHANGED vars
    <2>1. UNCHANGED <<latest, ready, source, cache, promo, launch>>
        BY <1>7 DEF UpsertApproval, VenuesChange, vars, stores, cached
    <2>2. UNCHANGED venues \/ outage' = 0
        BY <1>7 DEF UpsertApproval, VenuesChange, vars
    <2>3. ReadySince'
        <3>1. CASE UNCHANGED venues
            BY <3>1, <2>1 DEF IInv, ReadySince, Launching, venues
        <3>2. CASE outage' = 0
            <4>1. ready \in Seq(LaunchReady) /\ launch.age \in Nat
                BY Constants DEF IInv, TypeOK
            <4>2. \A i \in 1..Len(ready) : ready[i] \in LaunchReady
                BY <4>1
            <4>3. \A i \in 1..Len(ready) : ready[i].age \in Nat
                BY <4>2, Constants DEF LaunchReady
            <4>. QED BY <3>2, <2>1, <4>1, <4>3, Constants DEF ReadySince, Launching
        <3>. QED BY <2>2, <3>1, <3>2
    <2>. QED BY <1>1, <2>1, <2>3
             DEF IInv, Holds, SourceFresh, LatestIsNewest, SelectedIsStable,
                 Launching, HasChosen, LaunchedIsStable
<1>. QED BY <1>2, <1>3, <1>4, <1>5, <1>6, <1>7 DEF Next

-----------------------------------------------------------------------------
(* The theorems.                                                           *)

LEMMA InvInit == Init => IInv
<1>. SUFFICES ASSUME Init PROVE IInv
    OBVIOUS
<1>1. TypeOK
    <2>1. ReadyType
        BY Constants DEF Init, ReadyType
    <2>2. VenueType
        <3>1. outage \in 0..OutageHorizon
            BY Constants DEF Init
        <3>2. down \in BOOLEAN
            BY Zenon DEF Init
        <3>. QED BY <3>1, <3>2 DEF VenueType
    <2>5. approval \in [Routes -> Caps \cup {None}]
        BY DEF Init
    <2>3. scan \in ScanState /\ cache \in CacheState /\ promo \in PromoState /\ launch \in LaunchState
        BY IdleTypes DEF Init
    <2>4. latest \in Approved \cup {None}
        BY DEF Init
    <2>. QED BY <2>1, <2>2, <2>3, <2>4, <2>5, TypeOKParts DEF TypeParts
<1>. QED BY <1>1 DEF Init, IInv, Holds, ReadySince, SourceFresh, LatestIsNewest, SelectedIsStable,
                 Launching, HasChosen, NoCache, NoPromo, NoLaunch

\* For any routes, caps, ages and bounds: what snapshots were made of, since
\* when the venues were ready, and what the worker holds on to.
THEOREM PipelineInvariant == Spec => []IInv
BY InvInit, InvStep, PTL DEF Spec

\* Approvals, snapshots and cycles keep their types, and the launch-ready
\* snapshots their order and number.
THEOREM TypeCorrect == Spec => []TypeOK
<1>1. IInv => TypeOK
    BY DEF IInv
<1>. QED BY <1>1, PipelineInvariant, PTL

\* Whatever is launched, the venues were ready within the age of a snapshot
\* before the launch began, or the supervisor's cycle that it is part of, and
\* the market was seen within twice that.
THEOREM FreshLaunch == Spec => []LaunchIsFresh
<1>1. IInv => LaunchIsFresh
    BY DEF IInv, LaunchIsFresh, ReadySince, SourceFresh, Launching, HasChosen
<1>. QED BY <1>1, PipelineInvariant, PTL

\* The worker launches the route that was stable, and no more of it.
THEOREM StableLaunched == Spec => []LaunchIsStable
<1>1. IInv => LaunchIsStable
    BY DEF IInv, LaunchIsStable, SelectedIsStable, HasChosen
<1>. QED BY <1>1, PipelineInvariant, PTL
=============================================================================
