---------------------------- MODULE MonitorProofs ----------------------------
(***************************************************************************)
(* Proofs about ExecutionMonitor, for any trades, settings and bounds.     *)
(***************************************************************************)
EXTENDS ExecutionMonitor, WellFoundedInduction, TLAPS

-----------------------------------------------------------------------------
(* The newest active execution.                                            *)

NatLess == {p \in Nat \X Nat : p[1] < p[2]}

LEMMA NatLessIsWellFounded == IsWellFoundedOn(NatLess, Nat)
  BY NatLessThanWellFounded DEF OpToRel, NatLess

LEMMA SetHasMaximum ==
  ASSUME NEW m \in Nat, NEW set \in SUBSET (1..m), set # {}
  PROVE  \E e \in set : \A f \in set : f <= e
  <1> DEFINE T == {m - e : e \in set}
  <1>0. PICK some \in set : TRUE
    OBVIOUS
  <1>1. T \subseteq Nat /\ m - some \in T
    OBVIOUS
  <1>2. PICK x \in T : \A y \in T : ~(<<y, x>> \in NatLess)
    <2>1. T # {}
      BY <1>1
    <2> QED
      BY <1>1, <2>1, NatLessIsWellFounded, WFMin
  <1>3. \A y \in T : ~(y < x)
    BY <1>1, <1>2 DEF NatLess
  <1>4. PICK e \in set : x = m - e
    OBVIOUS
  <1>5. ASSUME NEW f \in set PROVE f <= e
    <2>1. m - f \in T
      OBVIOUS
    <2>2. ~(m - f < m - e)
      BY <1>3, <1>4, <2>1
    <2> QED
      BY <2>2
  <1> QED
    BY <1>5

-----------------------------------------------------------------------------
(* The invariant.                                                          *)

Working == cycle.pc \notin {"idle", "next"}

\* What the cycle is given: at the time it listed the executions there was no
\* newer active one of the trade.
Listed(t, e) ==
    /\ t \in Trade /\ e \in Entries(t) /\ journal[t][e].at <= cycle.now
    /\ \A f \in Entries(t) : f > e /\ journal[t][f].active => journal[t][f].at >= cycle.now
WatchesListed ==
    /\ \A x \in cycle.todo : Listed(x[1], x[2])
    /\ Working => Listed(cycle.trade, cycle.entry)

ClockIsLatest ==
    /\ cycle.now <= clock
    /\ \A t \in Trade : Entries(t) # {} /\ \A e \in Entries(t) : journal[t][e].at <= clock

\* An observation is not older than the execution it is of.
SeenAfterSent ==
    \A t \in Trade : seen[t] # None =>
        seen[t].entry \in Entries(t) /\ seen[t].at >= journal[t][seen[t].entry].at

\* The observation of an alert is stored with it, and a cycle compares with an
\* observation that is not older than the latest alert.
AlertWasSeen ==
    \A t \in Trade : alert[t] # None => seen[t] # None /\ seen[t].at >= alert[t].at
PrevCoversAlert ==
    cycle.pc \in {"probe", "append"} /\ alert[cycle.trade] # None =>
        cycle.prev # None /\ cycle.prev.at >= alert[cycle.trade].at

SecondRowFollows == cycle.pc = "second_row" => check[cycle.trade] # None

MonitorInv ==
    /\ TypeOK /\ WatchesListed /\ ClockIsLatest /\ SeenAfterSent
    /\ AlertWasSeen /\ PrevCoversAlert /\ SecondRowFollows

-----------------------------------------------------------------------------
(* What the helpers give.                                                  *)

LEMMA EntryTypes ==
  ASSUME TypeOK, NEW t \in Trade
  PROVE  /\ Len(journal[t]) \in Nat /\ Entries(t) = 1..Len(journal[t])
         /\ \A e \in Entries(t) : journal[t][e] \in Execution /\ journal[t][e].at \in Nat
  <1>1. journal[t] \in Seq(Execution)
    BY DEF TypeOK
  <1>2. \A e \in Entries(t) : journal[t][e] \in Execution
    BY <1>1 DEF Entries
  <1>3. \A e \in Entries(t) : journal[t][e].at \in Nat
    BY <1>2 DEF Execution
  <1> QED
    BY <1>1, <1>2, <1>3 DEF Entries

LEMMA LatestActiveIsNewest ==
  ASSUME TypeOK, NEW t \in Trade
  PROVE  LET e == LatestActive(t)
         IN  /\ e \in Nat
             /\ e # 0 => /\ e \in Entries(t) /\ journal[t][e].active
                         /\ \A f \in Entries(t) : journal[t][f].active => f <= e
  <1> DEFINE active == {e \in Entries(t) : journal[t][e].active}
  <1>1. CASE active = {}
    BY <1>1 DEF LatestActive
  <1>2. CASE active # {}
    <2>1. \E e \in active : \A f \in active : f <= e
      <3>1. active \in SUBSET (1..Len(journal[t])) /\ Len(journal[t]) \in Nat
        BY EntryTypes
      <3> QED
        BY <1>2, <3>1, SetHasMaximum
    <2>2. LatestActive(t) = CHOOSE e \in active : \A f \in active : f <= e
      BY <1>2 DEF LatestActive
    <2>3. LatestActive(t) \in active /\ \A f \in active : f <= LatestActive(t)
      BY <2>1, <2>2
    <2> QED
      BY <2>3, EntryTypes
  <1> QED
    BY <1>1, <1>2

LEMMA ReadableStatus ==
  ASSUME NEW t, NEW e
  PROVE  Readable(t, e) \subseteq Status
  BY DEF Readable, ByPositions, Status

\* The journal only grows, by executions of the moment.
Grows ==
    /\ clock \in Nat /\ clock' \in Nat /\ clock <= clock'
    /\ \A t \in Trade : Entries(t) \subseteq Entries(t)'
    /\ \A t \in Trade : \A e \in Entries(t)' :
          IF e \in Entries(t) THEN journal'[t][e] = journal[t][e]
                              ELSE journal'[t][e].at = clock /\ clock' = clock

LEMMA AddedExecution ==
  ASSUME TypeOK, UNCHANGED clock, NEW t \in Trade, NEW kind \in {"open", "close", "cleanup"},
         NEW active \in BOOLEAN, AddExecution(t, kind, active)
  PROVE  journal' \in [Trade -> Seq(Execution)] /\ Grows
  <1> DEFINE new == [kind |-> kind, at |-> clock, active |-> active, partial |-> FALSE]
  <1>1. new \in Execution /\ new.at = clock
    BY DEF TypeOK, Execution
  <1>2. /\ journal' = [journal EXCEPT ![t] = Append(journal[t], new)]
        /\ \A u \in Trade : journal[u] \in Seq(Execution)
    BY DEF AddExecution, TypeOK
  <1>3. journal' \in [Trade -> Seq(Execution)]
    BY <1>1, <1>2 DEF TypeOK
  <1>4. ASSUME NEW u \in Trade
        PROVE  /\ Entries(u) \subseteq Entries(u)'
               /\ \A e \in Entries(u)' : IF e \in Entries(u) THEN journal'[u][e] = journal[u][e]
                                                            ELSE journal'[u][e].at = clock
    <2>1. CASE u = t
      <3>1. journal'[t] = Append(journal[t], new)
        BY <1>2 DEF TypeOK
      <3>2. /\ DOMAIN journal'[t] = DOMAIN journal[t] \cup {Len(journal[t]) + 1}
            /\ \A e \in DOMAIN journal[t] : journal'[t][e] = journal[t][e]
            /\ journal'[t][Len(journal[t]) + 1] = new
        BY <1>1, <1>2, <3>1
      <3> QED
        BY <1>1, <2>1, <3>2 DEF Entries
    <2>2. CASE u # t
      BY <1>2, <2>2 DEF TypeOK, Entries
    <2> QED
      BY <2>1, <2>2
  <1> QED
    BY <1>3, <1>4 DEF Grows, TypeOK

LEMMA SameJournal ==
  ASSUME TypeOK, journal' = journal, clock' \in Nat, clock <= clock'
  PROVE  Grows
  BY DEF TypeOK, Grows, Entries

\* A stored observation is the latest one or leaves it.
LEMMA StoredObservation ==
  ASSUME TypeOK, NEW t \in Trade, NEW e \in Nat \ {0}, NEW at \in Nat, NEW status \in Status,
         StoreObservation(t, e, at, status)
  PROVE  /\ seen' \in [Trade -> Observation \cup {None}]
         /\ \A u \in Trade : u # t => seen'[u] = seen[u]
         /\ seen'[t] \in Observation /\ seen'[t] # None /\ seen'[t].at >= at
         /\ seen[t] # None => seen[t] \in Observation /\ seen'[t].at >= seen[t].at
         /\ seen'[t] = seen[t] \/ (seen'[t].entry = e /\ seen'[t].at = at)
  <1> DEFINE new == [entry |-> e, at |-> at, status |-> status]
  <1>1. new \in Observation /\ new.entry = e /\ new.at = at
    BY DEF Observation
  <1>2. seen' = [seen EXCEPT ![t] = Latest(t, new)]
    BY DEF StoreObservation
  <1>3. seen[t] # None => seen[t] \in Observation /\ seen[t].at \in Nat
    BY DEF TypeOK, Observation
  <1>4. Latest(t, new) \in Observation
    BY <1>1, <1>3 DEF Latest
  <1>5. seen'[t] = Latest(t, new) /\ seen' \in [Trade -> Observation \cup {None}]
    BY <1>2, <1>4 DEF TypeOK
  <1>6. CASE seen[t] # None /\ seen[t].at > at
    BY <1>1, <1>2, <1>3, <1>4, <1>5, <1>6, NoneAssumption DEF Latest, TypeOK
  <1>7. CASE ~(seen[t] # None /\ seen[t].at > at)
    <2>1. seen'[t] = new
      BY <1>1, <1>5, <1>7 DEF Latest
    <2> QED
      BY <1>1, <1>2, <1>3, <1>5, <1>7, <2>1, NoneAssumption DEF TypeOK
  <1> QED
    BY <1>6, <1>7

-----------------------------------------------------------------------------
(* The steps.                                                              *)

\* Where the cycle goes on: what it watches was listed by it, at its time.
LEMMA KeepsWatching ==
  ASSUME MonitorInv, TypeOK', Grows, cycle'.now = cycle.now, cycle'.todo \subseteq cycle.todo,
         Working' => \/ Working /\ cycle'.trade = cycle.trade /\ cycle'.entry = cycle.entry
                     \/ <<cycle'.trade, cycle'.entry>> \in cycle.todo
  PROVE  WatchesListed' /\ ClockIsLatest'
  <1>1. cycle.now \in Nat /\ clock \in Nat /\ clock' \in Nat /\ cycle.now <= clock'
    BY DEF MonitorInv, ClockIsLatest, Grows, TypeOK, Cycle
  <1>2. \A t \in Trade : \A e \in Entries(t) : journal[t][e].at \in Nat /\ journal[t][e].at <= clock
    BY EntryTypes DEF MonitorInv, ClockIsLatest
  <1>3. ASSUME NEW t, NEW e, Listed(t, e) PROVE Listed(t, e)'
    <2>1. e \in Entries(t)' /\ journal'[t][e].at <= cycle'.now
      BY <1>3 DEF Listed, Grows
    <2>2. ASSUME NEW f \in Entries(t)', f > e, journal'[t][f].active
          PROVE  journal'[t][f].at >= cycle'.now
      BY <1>1, <1>3, <2>2 DEF Listed, Grows, MonitorInv, ClockIsLatest
    <2> QED
      BY <1>3, <2>1, <2>2 DEF Listed
  <1>4. WatchesListed'
    <2>1. \A x \in cycle'.todo : Listed(x[1], x[2])'
      BY <1>3 DEF MonitorInv, WatchesListed
    <2>2. Working' => Listed(cycle'.trade, cycle'.entry)
      BY DEF MonitorInv, WatchesListed
    <2>3. Working' => Listed(cycle.trade, cycle.entry)'
      BY <1>3, <2>2 DEF Listed, Entries
    <2> QED
      BY <2>1, <2>3 DEF WatchesListed
  <1>5. ClockIsLatest'
    <2>1. \A t \in Trade : Entries(t)' # {}
      BY DEF MonitorInv, ClockIsLatest, Grows
    <2>2. \A t \in Trade : \A e \in Entries(t)' : journal'[t][e].at <= clock'
      BY <1>1, <1>2 DEF Grows
    <2> QED
      BY <1>1, <2>1, <2>2 DEF ClockIsLatest
  <1> QED
    BY <1>4, <1>5

\* Observations stay with their executions; the alert is unchanged or stored
\* with the observation of the cycle.
LEMMA KeepsSeen ==
  ASSUME MonitorInv, Grows, seen' = seen
  PROVE  SeenAfterSent'
  BY DEF MonitorInv, SeenAfterSent, Grows

LEMMA StoresSeen ==
  ASSUME MonitorInv, Grows, NEW t \in Trade, NEW e \in Entries(t)', NEW at \in Nat, NEW status \in Status,
         StoreObservation(t, e, at, status), at >= journal'[t][e].at, e \in Nat \ {0}
  PROVE  /\ SeenAfterSent' /\ seen' \in [Trade -> Observation \cup {None}]
         /\ alert' = alert => AlertWasSeen'
         /\ seen'[t] # None /\ seen'[t].at >= at
         /\ \A u \in Trade : u # t => seen'[u] = seen[u]
         /\ seen[t] # None => seen'[t].at >= seen[t].at
  <1>1. TypeOK
    BY DEF MonitorInv
  <1>2. /\ seen' \in [Trade -> Observation \cup {None}]
        /\ \A u \in Trade : u # t => seen'[u] = seen[u]
        /\ seen'[t] \in Observation /\ seen'[t] # None /\ seen'[t].at >= at
        /\ seen[t] # None => seen[t] \in Observation /\ seen'[t].at >= seen[t].at
        /\ seen'[t] = seen[t] \/ (seen'[t].entry = e /\ seen'[t].at = at)
    BY <1>1, StoredObservation
  <1>3. SeenAfterSent'
    BY <1>2 DEF MonitorInv, SeenAfterSent, Grows
  <1>4. ASSUME alert' = alert PROVE AlertWasSeen'
    <2> SUFFICES ASSUME NEW u \in Trade, alert[u] # None
                 PROVE  seen'[u] # None /\ seen'[u].at >= alert[u].at
      BY <1>4 DEF AlertWasSeen
    <2>1. seen[u] # None /\ seen[u].at >= alert[u].at /\ alert[u].at \in Nat
      BY <1>1 DEF MonitorInv, AlertWasSeen, TypeOK, Alert
    <2>2. seen'[u] \in Observation /\ seen'[u].at \in Nat /\ seen[u].at \in Nat
      BY <1>1, <1>2, <2>1 DEF TypeOK, Observation
    <2> QED
      BY <1>2, <2>1, <2>2
  <1> QED
    BY <1>2, <1>3, <1>4

\* A step of the world or of the cycle that stores no observation or alert.
LEMMA QuietStep ==
  ASSUME MonitorInv, TypeOK', Grows, UNCHANGED <<seen, alert>>,
         cycle'.now = cycle.now, cycle'.todo \subseteq cycle.todo,
         Working' => \/ Working /\ cycle'.trade = cycle.trade /\ cycle'.entry = cycle.entry
                     \/ <<cycle'.trade, cycle'.entry>> \in cycle.todo,
         cycle'.pc \in {"probe", "append"} =>
            \/ cycle.pc \in {"probe", "append"} /\ cycle'.trade = cycle.trade /\ cycle'.prev = cycle.prev
            \/ cycle'.trade \in Trade /\ cycle'.prev = seen[cycle'.trade],
         cycle'.pc = "second_row" => check'[cycle'.trade] # None
  PROVE  MonitorInv'
  <1>1. SeenAfterSent' /\ AlertWasSeen'
    BY KeepsSeen DEF MonitorInv, AlertWasSeen
  <1>2. PrevCoversAlert' /\ SecondRowFollows'
    BY DEF MonitorInv, PrevCoversAlert, AlertWasSeen, SecondRowFollows
  <1> QED
    BY <1>1, <1>2, KeepsWatching DEF MonitorInv

\* A cycle that ends, however.
LEMMA IdleStep ==
  ASSUME MonitorInv, UNCHANGED <<world, seen, alert, check>>, cycle' = Idle
  PROVE  MonitorInv'
  <1>1. Idle.pc = "idle" /\ Idle.now = 0 /\ Idle.todo = {} /\ Idle \in Cycle
    BY DEF Idle, Cycle, Status
  <1>2. TypeOK' /\ Grows
    BY <1>1, SameJournal DEF MonitorInv, TypeOK, world
  <1> QED
    BY <1>1, <1>2, KeepsSeen DEF MonitorInv, WatchesListed, Working, ClockIsLatest, AlertWasSeen,
        PrevCoversAlert, SecondRowFollows, world, Grows, Entries

LEMMA SameCycle ==
  ASSUME MonitorInv, TypeOK', Grows, UNCHANGED <<seen, alert, check, cycle>>
  PROVE  MonitorInv'
  BY QuietStep DEF MonitorInv, Working, SecondRowFollows

LEMMA WorldStep ==
  ASSUME MonitorInv,
         Tick \/ \E t \in Trade : OtherExecutes(t) \/ LosePosition(t) \/ PublishSnapshot(t)
  PROVE  MonitorInv'
  <1>0. TypeOK
    BY DEF MonitorInv
  <1>1. UNCHANGED <<seen, alert, check, cycle>>
    BY DEF Tick, OtherExecutes, LosePosition, PublishSnapshot
  <1>2. CASE Tick
    <2>1. TypeOK'
      BY <1>0, <1>2 DEF Tick, TypeOK
    <2>2. Grows
      BY <1>0, <1>2, SameJournal DEF Tick, TypeOK
    <2> QED
      BY <1>1, <2>1, <2>2, SameCycle
  <1>3. ASSUME NEW t \in Trade, OtherExecutes(t) PROVE MonitorInv'
    <2>1. PICK kind \in {"close", "cleanup"}, active \in BOOLEAN, legs \in 0..held[t] :
             AddExecution(t, kind, active) /\ held' = [held EXCEPT ![t] = legs]
      BY <1>3 DEF OtherExecutes
    <2>2. journal' \in [Trade -> Seq(Execution)] /\ Grows
      BY <1>0, <1>3, <2>1, AddedExecution DEF OtherExecutes
    <2>3. legs \in 0..2
      BY <1>0 DEF TypeOK
    <2>4. TypeOK'
      BY <1>0, <1>3, <2>1, <2>2, <2>3 DEF OtherExecutes, TypeOK
    <2> QED
      BY <1>1, <2>2, <2>4, SameCycle
  <1>4. ASSUME NEW t \in Trade, LosePosition(t) \/ PublishSnapshot(t) PROVE MonitorInv'
    <2>1. TypeOK'
      BY <1>0, <1>4 DEF LosePosition, PublishSnapshot, TypeOK
    <2>2. Grows
      BY <1>0, <1>4, SameJournal DEF LosePosition, PublishSnapshot, TypeOK
    <2> QED
      BY <1>1, <2>1, <2>2, SameCycle
  <1> QED
    BY <1>2, <1>3, <1>4

\* An observation of the newest execution, in the world or by the poll of a
\* cleanup.
LEMMA NewestObserved ==
  ASSUME MonitorInv, NEW t \in Trade, NEW status \in Status, UNCHANGED <<world, alert, check>>,
         StoreObservation(t, Len(journal[t]), clock, status), cycle' \in Cycle,
         cycle'.now = cycle.now, cycle'.todo = cycle.todo,
         \/ cycle' = cycle
         \/ /\ Working /\ cycle'.pc \notin {"probe", "append", "second_row"}
            /\ cycle'.trade = cycle.trade /\ cycle'.entry = cycle.entry
  PROVE  MonitorInv'
  <1>0. TypeOK /\ UNCHANGED <<clock, journal, held, approved>>
    BY DEF MonitorInv, world
  <1>1. Grows
    BY <1>0, SameJournal DEF TypeOK
  <1>2. Len(journal[t]) \in Entries(t)' /\ Len(journal[t]) \in Nat \ {0}
        /\ clock \in Nat /\ clock >= journal'[t][Len(journal[t])].at
    <2>1. Len(journal[t]) \in Entries(t)
      BY <1>0, EntryTypes DEF MonitorInv, ClockIsLatest
    <2> QED
      BY <1>0, <2>1, EntryTypes DEF MonitorInv, ClockIsLatest, TypeOK, Entries
  <1>3. SeenAfterSent' /\ AlertWasSeen' /\ seen' \in [Trade -> Observation \cup {None}]
    BY <1>1, <1>2, StoresSeen
  <1>4. TypeOK'
    BY <1>0, <1>3 DEF TypeOK
  <1>5. WatchesListed' /\ ClockIsLatest'
    BY <1>1, <1>4, KeepsWatching DEF Working
  <1>6. PrevCoversAlert' /\ SecondRowFollows'
    BY DEF MonitorInv, PrevCoversAlert, SecondRowFollows
  <1> QED
    BY <1>3, <1>4, <1>5, <1>6 DEF MonitorInv

LEMMA OtherObservesStep ==
  ASSUME MonitorInv, NEW t \in Trade, OtherObserves(t)
  PROVE  MonitorInv'
  <1>1. PICK status \in Readable(t, Len(journal[t])) :
           StoreObservation(t, Len(journal[t]), clock, status)
    BY DEF OtherObserves
  <1>2. status \in Status /\ cycle \in Cycle
    BY <1>1, ReadableStatus DEF MonitorInv, TypeOK
  <1> QED
    BY <1>1, <1>2, NewestObserved DEF OtherObserves

\* The listing takes the newest active execution of each trade.
LEMMA StartCycleStep ==
  ASSUME MonitorInv, StartCycle
  PROVE  MonitorInv'
  <1>0. TypeOK /\ clock \in Nat
    BY DEF MonitorInv, TypeOK
  <1>1. UNCHANGED <<clock, journal, held, approved, seen, alert, check>>
    BY DEF StartCycle, world
  <1>2. PICK listed \in SUBSET Candidates(clock) :
           cycle' = [Idle EXCEPT !.pc = "next", !.now = clock,
                                 !.todo = {<<t, LatestActive(t)>> : t \in listed}]
    BY DEF StartCycle
  <1>3. \A t \in listed : t \in Trade /\ LatestActive(t) # 0 /\ LatestActive(t) \in Nat
    BY <1>0, LatestActiveIsNewest DEF Candidates
  <1>4. /\ cycle'.pc = "next" /\ cycle'.now = clock /\ cycle'.trade = None
        /\ cycle'.todo = {<<t, LatestActive(t)>> : t \in listed}
    BY <1>2 DEF Idle
  <1>5. cycle' \in Cycle
    <2>1. cycle' = [pc |-> "next", now |-> clock, todo |-> {<<t, LatestActive(t)>> : t \in listed},
                    trade |-> None, entry |-> 0, prev |-> None, status |-> "flat", legs |-> 0]
      BY <1>2 DEF Idle
    <2>2. {<<t, LatestActive(t)>> : t \in listed} \subseteq Trade \X Nat
      BY <1>3
    <2> QED
      BY <1>0, <2>1, <2>2 DEF Cycle, Status
  <1>6. TypeOK'
    BY <1>0, <1>1, <1>5 DEF TypeOK
  <1>7. ASSUME NEW t \in listed
        PROVE  Listed(t, LatestActive(t))'
    <2>0. PICK e : e = LatestActive(t)
      OBVIOUS
    <2>1. /\ t \in Trade /\ e \in Entries(t) /\ e \in Nat
          /\ \A f \in Entries(t) : journal[t][f].active => f <= e
      BY <1>0, <1>3, <2>0, LatestActiveIsNewest
    <2>2. Entries(t) \subseteq Nat
      BY <1>0, <2>1, EntryTypes
    <2>3. \A f \in Entries(t) : ~(f > e /\ journal[t][f].active)
      BY <2>1, <2>2
    <2>4. journal[t][e].at <= clock
      BY <2>1 DEF MonitorInv, ClockIsLatest
    <2>5. LatestActive(t)' = e
      BY <1>1, <2>0 DEF LatestActive, Entries
    <2> QED
      BY <1>1, <1>4, <2>1, <2>3, <2>4, <2>5 DEF Listed, Entries
  <1>8. WatchesListed'
    <2>1. \A t \in listed : LatestActive(t)' = LatestActive(t)
      BY <1>1 DEF LatestActive, Entries
    <2>2. ASSUME NEW x \in cycle'.todo PROVE Listed(x[1], x[2])'
      <3>1. PICK t \in listed : x = <<t, LatestActive(t)>>
        BY <1>4
      <3>2. x[1] = t /\ x[2] = LatestActive(t)
        BY <3>1
      <3> QED
        BY <1>1, <1>7, <2>1, <3>2 DEF Listed, Entries
    <2> QED
      BY <1>4, <2>2 DEF WatchesListed, Working
  <1>9. ClockIsLatest'
    BY <1>0, <1>1, <1>4 DEF MonitorInv, ClockIsLatest, Entries
  <1>10. SeenAfterSent' /\ AlertWasSeen'
    BY <1>1 DEF MonitorInv, SeenAfterSent, AlertWasSeen, Entries
  <1> QED
    BY <1>4, <1>6, <1>8, <1>9, <1>10 DEF MonitorInv, PrevCoversAlert, SecondRowFollows

\* The cycle moves on and nothing else changes.
LEMMA MovedCycle ==
  ASSUME MonitorInv, UNCHANGED <<world, seen, alert, check>>, cycle' \in Cycle,
         cycle'.now = cycle.now, cycle'.todo \subseteq cycle.todo,
         \/ cycle'.pc = "next"
         \/ /\ Working /\ cycle'.pc \notin {"probe", "second_row"}
            /\ cycle'.trade = cycle.trade /\ cycle'.entry = cycle.entry
            /\ cycle'.pc = "append" => cycle.pc = "probe" /\ cycle'.prev = cycle.prev
         \/ /\ cycle'.pc = "probe" /\ <<cycle'.trade, cycle'.entry>> \in cycle.todo
            /\ cycle'.prev = seen[cycle'.trade]
  PROVE  MonitorInv'
  <1>1. TypeOK /\ TypeOK' /\ Grows
    BY SameJournal DEF MonitorInv, TypeOK, world
  <1>2. cycle'.pc = "probe" => cycle'.trade \in Trade
    BY DEF MonitorInv, TypeOK, Cycle
  <1> QED
    BY <1>1, <1>2, QuietStep DEF Working

LEMMA LeftExecution ==
  ASSUME TypeOK, Leave
  PROVE  cycle' \in Cycle /\ cycle'.pc = "next" /\ cycle'.now = cycle.now /\ cycle'.todo = cycle.todo
  <1>1. cycle' = [pc |-> "next", now |-> cycle.now, todo |-> cycle.todo, trade |-> None,
                  entry |-> 0, prev |-> None, status |-> "flat", legs |-> 0]
    BY DEF Leave, Idle
  <1> QED
    BY <1>1 DEF TypeOK, Cycle, Status

LEMMA ReadingStep ==
  ASSUME MonitorInv, NextExecution \/ ProbeReads \/ ProbeBlocked \/ ProbeFails
  PROVE  MonitorInv'
  <1>0. TypeOK /\ cycle \in Cycle
    BY DEF MonitorInv, TypeOK
  <1>1. CASE NextExecution
    <2>1. PICK x \in cycle.todo :
             cycle' = [cycle EXCEPT !.pc = "probe", !.todo = @ \ {x}, !.trade = x[1],
                                    !.entry = x[2], !.prev = seen[x[1]]]
      BY <1>1 DEF NextExecution
    <2>2. x \in Trade \X Nat /\ x = <<x[1], x[2]>> /\ seen[x[1]] \in Observation \cup {None}
      BY <1>0 DEF Cycle, TypeOK
    <2>3. /\ cycle' \in Cycle /\ cycle'.pc = "probe" /\ cycle'.now = cycle.now
          /\ cycle'.todo \subseteq cycle.todo /\ cycle'.trade = x[1] /\ cycle'.entry = x[2]
          /\ cycle'.prev = seen[x[1]]
      BY <1>0, <2>1, <2>2 DEF Cycle
    <2> QED
      BY <1>1, <2>2, <2>3, MovedCycle DEF NextExecution
  <1>2. ASSUME NEW status \in Status, cycle.pc = "probe", Found(status),
               UNCHANGED <<world, seen, alert, check>>
        PROVE  MonitorInv'
    <2>1. cycle.trade \in Trade
      BY <1>2 DEF MonitorInv, WatchesListed, Working, Listed
    <2>2. held[cycle.trade] \in 0..2
      BY <1>0, <2>1 DEF TypeOK
    <2>3. /\ cycle' \in Cycle /\ cycle'.pc = "append" /\ cycle'.now = cycle.now
          /\ cycle'.todo = cycle.todo /\ cycle'.trade = cycle.trade
          /\ cycle'.entry = cycle.entry /\ cycle'.prev = cycle.prev
      <3>1. (IF status = "partial" THEN held[cycle.trade] ELSE 0) \in 0..2
        BY <2>2
      <3> QED
        BY <1>0, <1>2, <3>1 DEF Found, Cycle
    <2> QED
      BY <1>2, <2>3, MovedCycle DEF Working
  <1>3. CASE ProbeReads
    BY <1>2, <1>3, ReadableStatus DEF ProbeReads
  <1>4. CASE ProbeBlocked
    BY <1>2, <1>4 DEF ProbeBlocked, Status
  <1>5. CASE ProbeFails
    BY <1>0, <1>5, LeftExecution, MovedCycle DEF ProbeFails
  <1> QED
    BY <1>1, <1>3, <1>4, <1>5

\* What the transaction of the cycle stores: the observation always, the alert
\* when it is due.
LEMMA AppendedWithAlert ==
  ASSUME MonitorInv, AppendWithAlert
  PROVE  LET t == cycle.trade
         IN  /\ t \in Trade /\ cycle.entry \in Entries(t) /\ cycle.entry \in Nat \ {0}
             /\ cycle.now \in Nat /\ cycle.status \in Status
             /\ cycle.now >= journal[t][cycle.entry].at
             /\ UNCHANGED <<clock, journal, held, approved, check>>
             /\ StoreObservation(t, cycle.entry, cycle.now, cycle.status)
             /\ alert' \in [Trade -> Alert \cup {None}]
             /\ \A u \in Trade : u # t => alert'[u] = alert[u]
             /\ \/ alert'[t] = alert[t]
                \/ /\ ShouldAlert(cycle.prev, cycle.status, cycle.entry)
                   /\ AlertSaved(t, cycle.entry, cycle.now, cycle.prev, cycle.status)
                   /\ alert'[t] \in Alert /\ alert'[t].at = cycle.now
                   /\ alert'[t].entry = cycle.entry /\ alert'[t].type = State(cycle.status)
             /\ cycle' \in Cycle /\ cycle'.pc = "checkpoint" /\ cycle'.now = cycle.now
             /\ cycle'.todo = cycle.todo /\ cycle'.trade = t /\ cycle'.entry = cycle.entry
  <1> DEFINE t == cycle.trade
  <1>0. TypeOK /\ cycle \in Cycle
    BY DEF MonitorInv, TypeOK
  <1>1. Listed(t, cycle.entry)
    BY DEF AppendWithAlert, MonitorInv, WatchesListed, Working
  <1>2. /\ t \in Trade /\ cycle.entry \in Entries(t) /\ cycle.entry \in Nat \ {0}
        /\ cycle.now \in Nat /\ cycle.status \in Status
        /\ cycle.now >= journal[t][cycle.entry].at
    BY <1>0, <1>1, EntryTypes DEF Listed, Cycle
  <1>3. /\ alert' \in [Trade -> Alert \cup {None}]
        /\ \A u \in Trade : u # t => alert'[u] = alert[u]
        /\ \/ alert'[t] = alert[t]
           \/ /\ ShouldAlert(cycle.prev, cycle.status, cycle.entry)
              /\ AlertSaved(t, cycle.entry, cycle.now, cycle.prev, cycle.status)
              /\ alert'[t] \in Alert /\ alert'[t].at = cycle.now
              /\ alert'[t].entry = cycle.entry /\ alert'[t].type = State(cycle.status)
    <2>1. CASE ~ (/\ ShouldAlert(cycle.prev, cycle.status, cycle.entry)
                  /\ AlertSaved(t, cycle.entry, cycle.now, cycle.prev, cycle.status))
      BY <1>0, <2>1 DEF AppendWithAlert, TypeOK
    <2>2. CASE /\ ShouldAlert(cycle.prev, cycle.status, cycle.entry)
               /\ AlertSaved(t, cycle.entry, cycle.now, cycle.prev, cycle.status)
      <3>1. /\ alert' = [alert EXCEPT ![t] = AlertOf(cycle.now)]
            /\ AlertOf(cycle.now) \in Alert
            /\ AlertOf(cycle.now).at = cycle.now /\ AlertOf(cycle.now).entry = cycle.entry
            /\ AlertOf(cycle.now).type = State(cycle.status)
        BY <1>2, <2>2 DEF AppendWithAlert, AlertOf, ShouldAlert, Alert
      <3>2. /\ alert' \in [Trade -> Alert \cup {None}] /\ alert'[t] = AlertOf(cycle.now)
            /\ \A u \in Trade : u # t => alert'[u] = alert[u]
        BY <1>0, <1>2, <3>1 DEF TypeOK
      <3> QED
        BY <2>2, <3>1, <3>2
    <2> QED
      BY <2>1, <2>2
  <1>4. /\ cycle' \in Cycle /\ cycle'.pc = "checkpoint" /\ cycle'.now = cycle.now
        /\ cycle'.todo = cycle.todo /\ cycle'.trade = t /\ cycle'.entry = cycle.entry
    BY <1>0 DEF AppendWithAlert, Cycle
  <1> QED
    BY <1>2, <1>3, <1>4 DEF AppendWithAlert, world

LEMMA AppendWithAlertStep ==
  ASSUME MonitorInv, AppendWithAlert
  PROVE  MonitorInv'
  <1> DEFINE t == cycle.trade
  <1>0. TypeOK /\ Working
    BY DEF MonitorInv, AppendWithAlert, Working
  <1>1. /\ t \in Trade /\ cycle.entry \in Entries(t) /\ cycle.entry \in Nat \ {0}
        /\ cycle.now \in Nat /\ cycle.status \in Status
        /\ cycle.now >= journal[t][cycle.entry].at
        /\ UNCHANGED <<clock, journal, held, approved, check>>
        /\ StoreObservation(t, cycle.entry, cycle.now, cycle.status)
        /\ alert' \in [Trade -> Alert \cup {None}]
        /\ \A u \in Trade : u # t => alert'[u] = alert[u]
        /\ alert'[t] = alert[t] \/ alert'[t].at = cycle.now
        /\ cycle' \in Cycle /\ cycle'.pc = "checkpoint" /\ cycle'.now = cycle.now
        /\ cycle'.todo = cycle.todo /\ cycle'.trade = t /\ cycle'.entry = cycle.entry
    BY AppendedWithAlert
  <1>2. Grows /\ \A u \in Trade : Entries(u)' = Entries(u)
    BY <1>0, <1>1, SameJournal DEF TypeOK, Entries
  <1>3. /\ SeenAfterSent' /\ seen' \in [Trade -> Observation \cup {None}]
        /\ seen'[t] # None /\ seen'[t].at >= cycle.now
        /\ \A u \in Trade : u # t => seen'[u] = seen[u]
        /\ seen[t] # None => seen'[t].at >= seen[t].at
    BY <1>1, <1>2, StoresSeen
  <1>4. TypeOK'
    BY <1>0, <1>1, <1>3 DEF TypeOK
  <1>5. AlertWasSeen'
    <2> SUFFICES ASSUME NEW u \in Trade, alert'[u] # None
                 PROVE  seen'[u] # None /\ seen'[u].at >= alert'[u].at
      BY DEF AlertWasSeen
    <2>1. CASE alert'[u] = alert[u]
      <3>1. seen[u] # None /\ seen[u].at >= alert[u].at /\ alert[u].at \in Nat
        BY <1>0, <2>1 DEF MonitorInv, AlertWasSeen, TypeOK, Alert
      <3>2. seen'[u] # None /\ seen'[u].at \in Nat /\ seen[u].at \in Nat /\ seen'[u].at >= seen[u].at
        BY <1>0, <1>3, <3>1 DEF TypeOK, Observation
      <3> QED
        BY <2>1, <3>1, <3>2
    <2>2. CASE alert'[u] # alert[u]
      BY <1>1, <1>3, <2>2
    <2> QED
      BY <2>1, <2>2
  <1>6. WatchesListed' /\ ClockIsLatest'
    BY <1>0, <1>1, <1>2, <1>4, KeepsWatching DEF Working
  <1> QED
    BY <1>1, <1>3, <1>4, <1>5, <1>6 DEF MonitorInv, PrevCoversAlert, SecondRowFollows

LEMMA CaptureStep ==
  ASSUME MonitorInv, Capture
  PROVE  MonitorInv'
  <1>0. TypeOK /\ cycle \in Cycle /\ Working
    BY DEF MonitorInv, TypeOK, Capture, CaptureFirstVenue, CaptureSecondVenue, NoCheckpoint, Working
  <1>1. cycle.trade \in Trade /\ cycle.now \in Nat
        /\ ListedEntry.at \in Nat
    <2>1. Listed(cycle.trade, cycle.entry)
      BY <1>0 DEF MonitorInv, WatchesListed
    <2> QED
      BY <1>0, <2>1, EntryTypes DEF Listed, ListedEntry, Cycle
  <1>2. CASE CaptureFirstVenue
    <2> DEFINE row == [index |-> WindowIndex, rows |-> 1]
    <2>1. WindowIndex \in Nat
      BY <1>1, <1>2 DEF CaptureFirstVenue, CheckpointDue, WindowIndex
    <2>2. row \in Checkpoint /\ row # None
      BY <2>1, NoneAssumption DEF Checkpoint
    <2>3. check' \in [Trade -> Checkpoint \cup {None}] /\ check'[cycle.trade] # None
      BY <1>0, <1>1, <1>2, <2>2 DEF CaptureFirstVenue, TypeOK
    <2>4. /\ cycle' \in Cycle /\ cycle'.pc = "second_row" /\ cycle'.now = cycle.now
          /\ cycle'.todo = cycle.todo /\ cycle'.trade = cycle.trade /\ cycle'.entry = cycle.entry
      BY <1>0, <1>2 DEF CaptureFirstVenue, Cycle
    <2>5. TypeOK' /\ Grows
      BY <1>0, <1>2, <2>3, <2>4, SameJournal DEF CaptureFirstVenue, TypeOK, world
    <2> QED
      BY <1>0, <1>2, <2>3, <2>4, <2>5, QuietStep DEF CaptureFirstVenue, Working
  <1>3. CASE CaptureSecondVenue
    <2>1. check[cycle.trade] \in Checkpoint
      BY <1>0, <1>1, <1>3 DEF CaptureSecondVenue, MonitorInv, SecondRowFollows, TypeOK
    <2>2. [check[cycle.trade] EXCEPT !.rows = 2] \in Checkpoint
      BY <2>1 DEF Checkpoint
    <2>3. check' \in [Trade -> Checkpoint \cup {None}]
      BY <1>0, <1>1, <1>3, <2>2 DEF CaptureSecondVenue, TypeOK
    <2>4. /\ cycle' \in Cycle /\ cycle'.pc = "auto" /\ cycle'.now = cycle.now
          /\ cycle'.todo = cycle.todo /\ cycle'.trade = cycle.trade /\ cycle'.entry = cycle.entry
      BY <1>0, <1>3 DEF CaptureSecondVenue, Cycle
    <2>5. TypeOK' /\ Grows
      BY <1>0, <1>3, <2>3, <2>4, SameJournal DEF CaptureSecondVenue, TypeOK, world
    <2> QED
      BY <1>0, <1>3, <2>4, <2>5, QuietStep DEF CaptureSecondVenue, Working
  <1>4. CASE NoCheckpoint
    <2>1. /\ cycle' \in Cycle /\ cycle'.pc = "auto" /\ cycle'.now = cycle.now
          /\ cycle'.todo = cycle.todo /\ cycle'.trade = cycle.trade /\ cycle'.entry = cycle.entry
      BY <1>0, <1>4 DEF NoCheckpoint, Cycle
    <2> QED
      BY <1>0, <1>4, <2>1, MovedCycle DEF NoCheckpoint
  <1> QED
    BY <1>2, <1>3, <1>4 DEF Capture

\* A cleanup or a close of the cycle: an execution may be journaled and legs may
\* close, and the cycle leaves its execution or polls it.
LEMMA SubmittedByCycle ==
  ASSUME MonitorInv, Working, UNCHANGED <<clock, approved, seen, alert, check>>,
         NEW legs \in 0..2, held' = [held EXCEPT ![cycle.trade] = legs],
         \/ journal' = journal
         \/ \E kind \in {"close", "cleanup"}, active \in BOOLEAN :
               AddExecution(cycle.trade, kind, active),
         \/ Leave
         \/ /\ cycle' \in Cycle /\ cycle'.pc = "clean_poll" /\ cycle'.now = cycle.now
            /\ cycle'.todo = cycle.todo /\ cycle'.trade = cycle.trade /\ cycle'.entry = cycle.entry
  PROVE  MonitorInv'
  <1>0. TypeOK /\ cycle.trade \in Trade
    BY DEF MonitorInv, WatchesListed, Listed
  <1>1. journal' \in [Trade -> Seq(Execution)] /\ Grows
    <2>1. CASE journal' = journal
      BY <1>0, <2>1, SameJournal DEF TypeOK
    <2>2. ASSUME NEW kind \in {"close", "cleanup"}, NEW active \in BOOLEAN,
                 AddExecution(cycle.trade, kind, active)
          PROVE  journal' \in [Trade -> Seq(Execution)] /\ Grows
      <3>1. UNCHANGED clock /\ kind \in {"open", "close", "cleanup"}
        OBVIOUS
      <3>2. PICK t \in Trade : t = cycle.trade
        BY <1>0
      <3>3. AddExecution(t, kind, active)
        BY <2>2, <3>2
      <3> QED
        BY <1>0, <3>1, <3>3, AddedExecution
    <2> QED
      BY <2>1, <2>2
  <1>2. /\ cycle' \in Cycle /\ cycle'.now = cycle.now /\ cycle'.todo = cycle.todo
        /\ \/ cycle'.pc = "next"
           \/ cycle'.pc = "clean_poll" /\ cycle'.trade = cycle.trade /\ cycle'.entry = cycle.entry
    BY <1>0, LeftExecution
  <1>3. TypeOK'
    BY <1>0, <1>1, <1>2 DEF TypeOK
  <1> QED
    BY <1>1, <1>2, <1>3, QuietStep DEF Working

LEMMA ActStep ==
  ASSUME MonitorInv, Act
  PROVE  MonitorInv'
  <1>0. TypeOK /\ cycle \in Cycle /\ Working
    BY DEF MonitorInv, TypeOK, Working, Act, StartCleanup, StartClose, NoAction, SkipVenue,
        SubmitCleanup, PollCleanup, PollFails, CleanupUnanswered, EndCleanup, SubmitClose, CloseFails
  <1>1. cycle.trade \in Trade /\ held[cycle.trade] \in 0..2
    BY <1>0 DEF MonitorInv, WatchesListed, Listed, TypeOK
  <1>2. CASE StartCleanup \/ StartClose \/ PollFails
    <2>1. /\ cycle' \in Cycle /\ cycle'.pc \in {"clean", "closing"} /\ cycle'.now = cycle.now
          /\ cycle'.todo = cycle.todo /\ cycle'.trade = cycle.trade /\ cycle'.entry = cycle.entry
      BY <1>0, <1>2 DEF StartCleanup, StartClose, PollFails, Cycle
    <2> QED
      BY <1>0, <1>2, <2>1, MovedCycle DEF StartCleanup, StartClose, PollFails
  <1>3. CASE NoAction \/ EndCleanup \/ CloseFails
    <2>1. Leave /\ UNCHANGED <<world, seen, alert, check>>
      BY <1>3 DEF NoAction, EndCleanup, CloseFails
    <2> QED
      BY <1>0, <2>1, LeftExecution, MovedCycle
  <1>4. CASE SkipVenue
    <2>1. /\ cycle' \in Cycle /\ cycle'.pc = "clean" /\ cycle'.now = cycle.now
          /\ cycle'.todo = cycle.todo /\ cycle'.trade = cycle.trade /\ cycle'.entry = cycle.entry
      BY <1>0, <1>4 DEF SkipVenue, Cycle
    <2> QED
      BY <1>0, <1>4, <2>1, MovedCycle DEF SkipVenue
  <1>5. CASE SubmitCleanup
    <2>1. PICK active \in BOOLEAN, legs \in {held[cycle.trade], held[cycle.trade] - 1} :
             /\ legs >= 0
             /\ AddExecution(cycle.trade, "cleanup", active)
             /\ held' = [held EXCEPT ![cycle.trade] = legs]
      BY <1>5 DEF SubmitCleanup
    <2>2. legs \in 0..2
      BY <1>1, <2>1
    <2>3. /\ cycle' \in Cycle /\ cycle'.pc = "clean_poll" /\ cycle'.now = cycle.now
          /\ cycle'.todo = cycle.todo /\ cycle'.trade = cycle.trade /\ cycle'.entry = cycle.entry
      <3>1. cycle' = [cycle EXCEPT !.pc = "clean_poll", !.legs = @ - 1] /\ cycle.legs > 0
        BY <1>5 DEF SubmitCleanup
      <3>2. cycle.legs - 1 \in 0..2
        BY <1>0, <3>1 DEF Cycle
      <3> QED
        BY <1>0, <3>1, <3>2 DEF Cycle
    <2> QED
      BY <1>0, <1>5, <2>1, <2>2, <2>3, SubmittedByCycle DEF SubmitCleanup
  <1>6. CASE PollCleanup
    <2>1. PICK status \in Readable(cycle.trade, Len(journal[cycle.trade])) \cup {"blocked"} :
             /\ StoreObservation(cycle.trade, Len(journal[cycle.trade]), clock, status)
             /\ cycle' = [cycle EXCEPT !.pc = "clean", !.legs = IF status = "flat" THEN 0 ELSE @]
      BY <1>6 DEF PollCleanup
    <2>2. status \in Status
      BY <2>1, ReadableStatus DEF Status
    <2>3. (IF status = "flat" THEN 0 ELSE cycle.legs) \in 0..2
      BY <1>0 DEF Cycle
    <2>4. /\ cycle' \in Cycle /\ cycle'.pc = "clean" /\ cycle'.now = cycle.now
          /\ cycle'.todo = cycle.todo /\ cycle'.trade = cycle.trade /\ cycle'.entry = cycle.entry
      BY <1>0, <2>1, <2>3 DEF Cycle
    <2>5. PICK t \in Trade : t = cycle.trade
      BY <1>1
    <2>6. StoreObservation(t, Len(journal[t]), clock, status)
      BY <2>1, <2>5
    <2> QED
      BY <1>0, <1>6, <2>2, <2>4, <2>6, NewestObserved DEF PollCleanup
  <1>7. CASE CleanupUnanswered
    <2>1. PICK legs \in {held[cycle.trade], held[cycle.trade] - 1} :
             legs >= 0 /\ held' = [held EXCEPT ![cycle.trade] = legs]
      BY <1>7 DEF CleanupUnanswered
    <2>2. legs \in 0..2
      BY <1>1, <2>1
    <2> QED
      BY <1>0, <1>7, <2>1, <2>2, SubmittedByCycle DEF CleanupUnanswered
  <1>8. CASE SubmitClose
    <2>1. PICK active \in BOOLEAN, legs \in 0..2 :
             /\ AddExecution(cycle.trade, "close", active)
             /\ held' = [held EXCEPT ![cycle.trade] = legs]
      BY <1>8 DEF SubmitClose
    <2> QED
      BY <1>0, <1>8, <2>1, SubmittedByCycle DEF SubmitClose
  <1> QED
    BY <1>2, <1>3, <1>4, <1>5, <1>6, <1>7, <1>8 DEF Act

LEMMA InitHolds == Init => MonitorInv
  <1> SUFFICES ASSUME Init PROVE MonitorInv
    OBVIOUS
  <1>0. cycle = Idle /\ Idle \in Cycle /\ Idle.pc = "idle" /\ Idle.now = 0 /\ Idle.todo = {}
    BY DEF Init, Idle, Cycle, Status
  <1>1. PICK partial \in [Trade -> BOOLEAN] :
           journal = [t \in Trade |-> <<[kind |-> "open", at |-> 0, active |-> TRUE,
                                         partial |-> partial[t]]>>]
    BY DEF Init
  <1>2. ASSUME NEW t \in Trade
        PROVE  /\ journal[t] \in Seq(Execution) /\ Entries(t) = {1} /\ journal[t][1].at = 0
    <2>1. [kind |-> "open", at |-> 0, active |-> TRUE, partial |-> partial[t]] \in Execution
      BY DEF Execution
    <2> QED
      BY <1>1, <2>1 DEF Entries
  <1>3. journal \in [Trade -> Seq(Execution)]
    BY <1>1, <1>2
  <1>4. TypeOK
    BY <1>0, <1>3 DEF Init, TypeOK
  <1>5. WatchesListed /\ ClockIsLatest
    <2>1. WatchesListed
      BY <1>0 DEF WatchesListed, Working
    <2>2. clock = 0 /\ cycle.now = 0
      BY <1>0 DEF Init
    <2> QED
      BY <1>2, <2>1, <2>2 DEF ClockIsLatest
  <1> QED
    BY <1>0, <1>4, <1>5 DEF Init, MonitorInv, SeenAfterSent, AlertWasSeen, PrevCoversAlert,
        SecondRowFollows

LEMMA StepKeeps == MonitorInv /\ [Next]_vars => MonitorInv'
  <1> SUFFICES ASSUME MonitorInv, [Next]_vars PROVE MonitorInv'
    OBVIOUS
  <1>1. CASE OtherStep
    BY <1>1, WorldStep, OtherObservesStep DEF OtherStep
  <1>2. CASE Observe
    <2>1. CASE EndCycle
      BY <2>1, IdleStep DEF EndCycle
    <2> QED
      BY <1>2, <2>1, StartCycleStep, ReadingStep, AppendWithAlertStep DEF Observe
  <1>3. CASE ProbeReads \/ ProbeBlocked \/ ProbeFails
    BY <1>3, ReadingStep
  <1>4. CASE Capture \/ Act
    BY <1>4, CaptureStep, ActStep
  <1>5. CASE Crash
    BY <1>5, IdleStep DEF Crash
  <1>6. CASE UNCHANGED vars
    <2>1. TypeOK' /\ Grows
      BY <1>6, SameJournal DEF MonitorInv, TypeOK, vars, world
    <2> QED
      BY <1>6, <2>1, SameCycle DEF vars
  <1> QED
    BY <1>1, <1>2, <1>3, <1>4, <1>5, <1>6 DEF Next, MonitorStep

\* Along every behaviour the cycle looks at the newest active execution its
\* listing found, the clock is ahead of every row, an observation is not older
\* than its execution, and an alert is never stored without its observation.
THEOREM MonitorInvariant == Spec => []MonitorInv
  BY InitHolds, StepKeeps, PTL DEF Spec

\* The variables keep their types.
THEOREM TypeCorrect == Spec => []TypeOK
  <1>1. MonitorInv => TypeOK
    BY DEF MonitorInv
  <1> QED
    BY <1>1, MonitorInvariant, PTL

-----------------------------------------------------------------------------
(* The action properties.                                                  *)

LEMMA WhoStoresAlerts == [Next]_vars /\ alert' # alert => AppendWithAlert
  BY DEF Next, vars, world, OtherStep, Tick, OtherExecutes, LosePosition, PublishSnapshot,
      OtherObserves, MonitorStep, Observe, StartCycle, EndCycle, NextExecution, ProbeReads,
      ProbeBlocked, ProbeFails, Capture, CaptureFirstVenue, CaptureSecondVenue, NoCheckpoint,
      Act, StartCleanup, StartClose, NoAction, SkipVenue, SubmitCleanup, PollCleanup, PollFails,
      CleanupUnanswered, EndCleanup, SubmitClose, CloseFails, Crash

LEMMA WhoStoresCheckpoints ==
  [Next]_vars /\ check' # check => CaptureFirstVenue \/ CaptureSecondVenue
  BY DEF Next, vars, world, OtherStep, Tick, OtherExecutes, LosePosition, PublishSnapshot,
      OtherObserves, MonitorStep, Observe, StartCycle, EndCycle, NextExecution, AppendWithAlert,
      ProbeReads, ProbeBlocked, ProbeFails, Capture, NoCheckpoint,
      Act, StartCleanup, StartClose, NoAction, SkipVenue, SubmitCleanup, PollCleanup, PollFails,
      CleanupUnanswered, EndCleanup, SubmitClose, CloseFails, Crash

LEMMA WhoStoresBeforeAppend ==
  [Next]_vars /\ cycle.pc = "append" /\ seen' # seen
      => AppendWithAlert \/ \E t \in Trade : OtherObserves(t)
  BY DEF Next, vars, world, OtherStep, Tick, OtherExecutes, LosePosition, PublishSnapshot,
      MonitorStep, Observe, StartCycle, EndCycle, NextExecution, ProbeReads,
      ProbeBlocked, ProbeFails, Capture, CaptureFirstVenue, CaptureSecondVenue, NoCheckpoint,
      Act, StartCleanup, StartClose, NoAction, SkipVenue, SubmitCleanup, PollCleanup, PollFails,
      CleanupUnanswered, EndCleanup, SubmitClose, CloseFails, Crash

\* A trade is not alerted twice for an execution and a state unless the cycle
\* had read an observation, not older than the first alert, of something else
\* (_append_if_changed_on_connection in the transaction of append_with_alert).
THEOREM AlertsRepeatOnChange == Spec => RepeatedAlertMeansChange
  <1> DEFINE A == \A t \in Trade :
          /\ alert'[t] # alert[t] /\ alert[t] # None
          /\ alert'[t].entry = alert[t].entry /\ alert'[t].type = alert[t].type
          => /\ cycle.prev # None /\ cycle.prev.at >= alert[t].at
             /\ \/ State(cycle.prev.status) # alert[t].type
                \/ cycle.prev.entry # alert[t].entry
  <1>1. ASSUME MonitorInv, [Next]_vars PROVE A
    <2> SUFFICES ASSUME NEW t \in Trade, alert'[t] # alert[t], alert[t] # None,
                        alert'[t].entry = alert[t].entry, alert'[t].type = alert[t].type
                 PROVE  /\ cycle.prev # None /\ cycle.prev.at >= alert[t].at
                        /\ \/ State(cycle.prev.status) # alert[t].type
                           \/ cycle.prev.entry # alert[t].entry
      OBVIOUS
    <2>1. AppendWithAlert
      BY <1>1, WhoStoresAlerts
    <2>2. /\ t = cycle.trade
          /\ AlertSaved(t, cycle.entry, cycle.now, cycle.prev, cycle.status)
          /\ alert'[t].entry = cycle.entry /\ alert'[t].type = State(cycle.status)
      BY <1>1, <2>1, AppendedWithAlert
    <2>3. cycle.prev # None /\ cycle.prev.at >= alert[t].at
      BY <1>1, <2>1, <2>2 DEF MonitorInv, PrevCoversAlert, AppendWithAlert
    <2>4. ~SameState(cycle.prev, cycle.status, cycle.entry)
      BY <2>2 DEF AlertSaved
    <2> QED
      BY <2>2, <2>3, <2>4 DEF SameState
  <1>2. RepeatedAlertMeansChange <=> [][A]_vars
    BY DEF RepeatedAlertMeansChange
  <1> QED
    BY <1>1, <1>2, MonitorInvariant, PTL DEF Spec

\* What was seen of an execution that has an active successor is not stored as
\* newer than what was seen of the successor: a cycle stamps observations with
\* the time of its listing, when the successor was not there.
THEOREM ReplacedStaysOlder == Spec => ReplacedExecutionStaysOlder
  <1> DEFINE A == \A t \in Trade :
          /\ cycle.pc = "append" /\ seen'[t] # seen[t] /\ seen[t] # None
          /\ seen[t].entry > seen'[t].entry /\ journal[t][seen[t].entry].active
          => seen'[t].at = seen[t].at
  <1>1. ASSUME MonitorInv, [Next]_vars PROVE A
    <2> SUFFICES ASSUME NEW t \in Trade, cycle.pc = "append", seen'[t] # seen[t], seen[t] # None,
                        seen[t].entry > seen'[t].entry, journal[t][seen[t].entry].active
                 PROVE  seen'[t].at = seen[t].at
      OBVIOUS
    <2>0. TypeOK /\ seen[t] \in Observation /\ seen[t].at \in Nat /\ seen[t].entry \in Nat
      BY <1>1 DEF MonitorInv, TypeOK, Observation
    <2>1. AppendWithAlert \/ \E u \in Trade : OtherObserves(u)
      BY <1>1, WhoStoresBeforeAppend
    <2>2. /\ seen[t].entry \in Entries(t) /\ seen[t].at >= journal[t][seen[t].entry].at
          /\ journal[t][seen[t].entry].at \in Nat /\ seen[t].entry <= Len(journal[t])
          /\ Len(journal[t]) \in Nat
      BY <1>1, <2>0, EntryTypes DEF MonitorInv, SeenAfterSent
    <2>3. CASE AppendWithAlert
      <3>1. /\ cycle.trade \in Trade /\ cycle.entry \in Nat \ {0} /\ cycle.now \in Nat
            /\ cycle.status \in Status
            /\ StoreObservation(cycle.trade, cycle.entry, cycle.now, cycle.status)
        BY <1>1, <2>3, AppendedWithAlert
      <3>2. PICK u \in Trade : u = cycle.trade
        BY <3>1
      <3>3. /\ u = t /\ seen'[t].entry = cycle.entry /\ seen'[t].at = cycle.now
            /\ seen'[t].at >= seen[t].at
        BY <2>0, <3>1, <3>2, StoredObservation
      <3>4. journal[t][seen[t].entry].at >= cycle.now
        BY <1>1, <2>2, <2>3, <3>2, <3>3
           DEF MonitorInv, WatchesListed, Working, Listed, AppendWithAlert
      <3> QED
        BY <2>0, <2>2, <3>1, <3>3, <3>4
    <2>4. ASSUME NEW u \in Trade, OtherObserves(u) PROVE FALSE
      <3> DEFINE e == Len(journal[u])
      <3>1. PICK status \in Readable(u, e) : StoreObservation(u, e, clock, status)
        BY <2>4 DEF OtherObserves
      <3>2. e \in Nat \ {0} /\ clock \in Nat /\ status \in Status
        <4>1. status \in Status
          BY <3>1, ReadableStatus
        <4>2. Entries(u) # {} /\ Entries(u) = 1..e /\ e \in Nat
          BY <1>1, <2>0, EntryTypes DEF MonitorInv, ClockIsLatest
        <4> QED
          BY <2>0, <4>1, <4>2 DEF TypeOK
      <3>3. u = t /\ seen'[t].entry = Len(journal[t])
        BY <2>0, <3>1, <3>2, StoredObservation
      <3> QED
        BY <2>0, <2>2, <3>3
    <2> QED
      BY <2>1, <2>3, <2>4
  <1>2. ReplacedExecutionStaysOlder <=> [][A]_vars
    BY DEF ReplacedExecutionStaysOlder
  <1> QED
    BY <1>1, <1>2, MonitorInvariant, PTL DEF Spec

\* The latest checkpoint of a trade moves to a later window or gains its second
\* row, whatever dies or is closed between the two venues.
THEOREM CheckpointsOnlyAdvance == Spec => CheckpointsAdvance
  <1> DEFINE A == \A t \in Trade :
          check'[t] # check[t] /\ check[t] # None =>
              \/ check'[t].index > check[t].index
              \/ check'[t] = [check[t] EXCEPT !.rows = 2]
  <1>1. ASSUME MonitorInv, [Next]_vars PROVE A
    <2> SUFFICES ASSUME NEW t \in Trade, check'[t] # check[t], check[t] # None
                 PROVE  \/ check'[t].index > check[t].index
                        \/ check'[t] = [check[t] EXCEPT !.rows = 2]
      OBVIOUS
    <2>0. TypeOK
      BY <1>1 DEF MonitorInv
    <2>1. CaptureFirstVenue \/ CaptureSecondVenue
      BY <1>1, WhoStoresCheckpoints
    <2>2. Listed(cycle.trade, cycle.entry)
      BY <1>1, <2>1 DEF MonitorInv, WatchesListed, Working, CaptureFirstVenue, CaptureSecondVenue
    <2>3. cycle.trade \in Trade /\ WindowIndex \in Int
      BY <2>0, <2>2, EntryTypes DEF Listed, WindowIndex, ListedEntry, TypeOK, Cycle
    <2>4. CASE CaptureFirstVenue
      <3> DEFINE row == [index |-> WindowIndex, rows |-> 1]
      <3>1. t = cycle.trade /\ check'[t] = row
        BY <2>0, <2>3, <2>4 DEF CaptureFirstVenue, TypeOK
      <3>2. check[t].index < WindowIndex /\ check[t].index \in Nat
        BY <2>0, <2>4, <3>1 DEF CaptureFirstVenue, CheckpointDue, TypeOK, Checkpoint
      <3> QED
        BY <2>3, <3>1, <3>2
    <2>5. CASE CaptureSecondVenue
      BY <2>0, <2>3, <2>5 DEF CaptureSecondVenue, TypeOK
    <2> QED
      BY <2>1, <2>4, <2>5
  <1>2. CheckpointsAdvance <=> [][A]_vars
    BY DEF CheckpointsAdvance
  <1> QED
    BY <1>1, <1>2, MonitorInvariant, PTL DEF Spec
=============================================================================
