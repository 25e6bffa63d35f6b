------------------------- MODULE StableLaunchProofs -------------------------
(***************************************************************************)
(* Proofs about StableLaunch, for any number of workers, snapshots and     *)
(* leases and for every configuration that satisfies the assumptions.      *)
(***************************************************************************)
EXTENDS StableLaunch, FoldLemmas

-----------------------------------------------------------------------------
(* The inductive invariant.  A claim is an open, or the cycle of a worker  *)
(* that has renewed its lease and is about to open.                        *)

Holding == {"reserved", "open"}
Opening == Holding \cup {"sent", "observe"}
Chosen  == Opening \cup {"previous", "launch"}

\* A cycle that has chosen a snapshot, or taken a lease, knows it.
Knows(c) == /\ c.pc \in Chosen => c.snap \in Snapshot
            /\ c.pc \in Opening => c.owner \in Owner

CyclesKnow == \A w \in Worker : Knows(wk[w])

\* What a supervised cycle works on was fresh at its timestamp.
FreshCycle(c) == c.supervised => /\ \A s \in c.left : Fresh(s, c.read)
                                 /\ c.pc \in Chosen => Fresh(c.snap, c.read)

CyclesFresh == \A w \in Worker : FreshCycle(wk[w])

OpensFresh == \A o \in opens : o.supervised => Fresh(o.snap, o.at)

\* A uuid belongs to one cycle, and a cycle that has not submitted has no open.
OwnersDiffer ==
    /\ \A v, w \in Worker : v # w /\ wk[v].owner # None => wk[v].owner # wk[w].owner
    /\ \A w \in Worker, o \in opens : wk[w].pc \in Holding => o.owner # wk[w].owner
    /\ \A a, b \in opens : a.owner = b.owner => a = b

\* A reservation that is still its worker's is as old as the worker believes.
RowsMatch ==
    \A w \in Worker :
        LET row == lease[wk[w].snap]
        IN  wk[w].pc = "reserved" /\ row # None /\ row.owner = wk[w].owner => row.at = wk[w].read

\* Whoever claimed a snapshot under k at t has its row, or has lost it to a
\* reservation or to retention more than a TTL later.
Covered(row, now, k, t) ==
    \/ row = None /\ t + Retention < now
    \/ row # None /\ row.owner = k /\ row.at = t
    \/ row # None /\ row.owner # k /\ row.at > t + TTL

ClaimsCovered ==
    /\ \A o \in opens : Covered(lease[o.snap], clock, o.owner, o.at)
    /\ \A w \in Worker :
          wk[w].pc = "open" => Covered(lease[wk[w].snap], clock, wk[w].owner, wk[w].read)

Apart(t, u) == t > u + TTL \/ u > t + TTL

ClaimsApart ==
    /\ LeasesApart
    /\ \A w \in Worker, o \in opens :
          wk[w].pc = "open" /\ o.snap = wk[w].snap => Apart(o.at, wk[w].read)
    /\ \A v, w \in Worker :
          v # w /\ wk[v].pc = "open" /\ wk[w].pc = "open" /\ wk[v].snap = wk[w].snap =>
              Apart(wk[v].read, wk[w].read)

LaunchInv == /\ TypeOK /\ CyclesKnow /\ CyclesFresh /\ OpensFresh
             /\ OwnersDiffer /\ RowsMatch /\ ClaimsCovered /\ ClaimsApart

-----------------------------------------------------------------------------
(* Types, and the cycles of the steps that leave leases and opens alone.   *)

\* What most steps leave of a cycle: neither a claim nor a reservation.
Calm(w, c) == /\ c \in Cycle /\ c.pc \notin Holding
              /\ c.owner \in {None, wk[w].owner}
              /\ Knows(c) /\ FreshCycle(c)

Moves(w) == \E c : Calm(w, c) /\ wk' = [wk EXCEPT ![w] = c]

CyclesInv == TypeOK /\ CyclesKnow /\ CyclesFresh

LEMMA EndCycleMoves ==
  ASSUME NEW w \in Worker, EndCycle(w)
  PROVE  Moves(w)
  <1>1. Idle \in Cycle /\ Idle.pc = "idle" /\ Idle.owner = None /\ ~Idle.supervised
    BY DEF Idle, Cycle, PC
  <1>2. Calm(w, Idle)
    BY <1>1 DEF Calm, Knows, FreshCycle, Chosen, Opening, Holding
  <1> QED
    BY <1>2 DEF Moves, EndCycle

LEMMA NowIsTime ==
  ASSUME TypeOK, NEW w \in Worker
  PROVE  /\ Now(w) \subseteq Nat /\ Readings \subseteq Nat
         /\ \A t \in Now(w) : t >= wk[w].read
         /\ wk[w].supervised => \A t \in Now(w) : t = wk[w].read
  BY DEF Now, Readings, TypeOK, Cycle

LEMMA RouteLimitType ==
  ASSUME TypeOK
  PROVE  RouteLimit(Cardinality(InFlight)) \in Int
  <1>1. InFlight \subseteq opens /\ IsFiniteSet(opens)
    BY DEF InFlight, TypeOK
  <1>2. Cardinality(InFlight) \in Nat
    BY <1>1, FS_Subset, FS_CardinalityType
  <1> QED
    BY <1>2, LimitsAssumption DEF RouteLimit

\* The steps of a cycle up to the choice of a candidate.
LEMMA GateMoves ==
  ASSUME CyclesInv, NEW w \in Worker,
         \/ StartCycle(w) \/ CheckBlocking(w) \/ CheckRecords(w) \/ ReadBudget(w)
         \/ ListCandidates(w) \/ TakeCandidate(w) \/ SkipCandidate(w) \/ StopAfterLaunch(w)
         \/ NoCandidateLeft(w)
  PROVE  Moves(w)
  <1>0. /\ wk[w] \in Cycle /\ wk \in [Worker -> Cycle] /\ TypeOK
        /\ FreshCycle(wk[w]) /\ Knows(wk[w])
    BY DEF TypeOK, CyclesInv, CyclesFresh, CyclesKnow
  <1>1. CASE StartCycle(w)
    <2>1. PICK supervised \in Supervision, shadow \in ShadowModes :
             wk' = [wk EXCEPT ![w] = [Idle EXCEPT !.pc = "blocking", !.supervised = supervised,
                                                  !.shadow = shadow, !.start = clock, !.read = clock]]
      BY <1>1 DEF StartCycle
    <2> DEFINE c == [Idle EXCEPT !.pc = "blocking", !.supervised = supervised,
                                 !.shadow = shadow, !.start = clock, !.read = clock]
    <2>2. c \in Cycle /\ c.pc = "blocking" /\ c.owner = None /\ c.left = {}
      BY <1>0, <2>1, ModesAssumption DEF TypeOK, Idle, Cycle, PC
    <2>3. wk' = [wk EXCEPT ![w] = c]
      BY <2>1
    <2> HIDE DEF c
    <2>4. Calm(w, c)
      BY <2>2 DEF Calm, Knows, FreshCycle, Chosen, Opening, Holding
    <2> QED
      BY <2>3, <2>4 DEF Moves
  <1>2. CASE CheckBlocking(w)
    <2> DEFINE limit == RouteLimit(Cardinality(InFlight))
               c == [wk[w] EXCEPT !.pc = "records", !.limit = limit]
    <2>1. CASE limit > 0 /\ wk' = [wk EXCEPT ![w].pc = "records", ![w].limit = limit]
      <3>1. limit \in Nat
        BY <1>0, <2>1, RouteLimitType
      <3> HIDE DEF limit
      <3>2. /\ c \in Cycle /\ c.pc = "records" /\ c.owner = wk[w].owner
            /\ c.left = wk[w].left /\ c.read = wk[w].read /\ c.supervised = wk[w].supervised
        BY <1>0, <3>1 DEF Cycle, PC
      <3>3. wk' = [wk EXCEPT ![w] = c]
        BY <1>0, <2>1
      <3> HIDE DEF c
      <3>4. Calm(w, c)
        BY <1>0, <3>2 DEF Calm, Knows, FreshCycle, Chosen, Opening, Holding
      <3> QED
        BY <3>3, <3>4 DEF Moves
    <2> QED
      BY <1>2, <2>1, EndCycleMoves DEF CheckBlocking
  <1>3. CASE CheckRecords(w)
    <2> DEFINE c == [wk[w] EXCEPT !.pc = "budget"]
    <2>1. CASE wk' = [wk EXCEPT ![w].pc = "budget"]
      <3>1. /\ c \in Cycle /\ c.pc = "budget" /\ c.owner = wk[w].owner
            /\ c.left = wk[w].left /\ c.read = wk[w].read /\ c.supervised = wk[w].supervised
        BY <1>0 DEF Cycle, PC
      <3>2. wk' = [wk EXCEPT ![w] = c]
        BY <1>0, <2>1
      <3> HIDE DEF c
      <3>3. Calm(w, c)
        BY <1>0, <3>1 DEF Calm, Knows, FreshCycle, Chosen, Opening, Holding
      <3> QED
        BY <3>2, <3>3 DEF Moves
    <2> QED
      BY <1>3, <2>1, EndCycleMoves DEF CheckRecords
  <1>4. CASE ReadBudget(w)
    <2> DEFINE read == Exposed(InFlight)
               c == [wk[w] EXCEPT !.pc = "list", !.exposure = read]
    <2>1. read \subseteq Owner \X Snapshot
      BY <1>0 DEF TypeOK, InFlight, Open, Exposed
    <2>2. wk' = [wk EXCEPT ![w] = c]
      BY <1>0, <1>4 DEF ReadBudget
    <2> HIDE DEF read
    <2>3. /\ c \in Cycle /\ c.pc = "list" /\ c.owner = wk[w].owner
          /\ c.left = wk[w].left /\ c.read = wk[w].read /\ c.supervised = wk[w].supervised
      BY <1>0, <2>1 DEF Cycle, PC
    <2> HIDE DEF c
    <2>4. Calm(w, c)
      BY <1>0, <2>3 DEF Calm, Knows, FreshCycle, Chosen, Opening, Holding
    <2> QED
      BY <2>2, <2>4 DEF Moves
  <1>5. CASE ListCandidates(w)
    <2>1. PICK t \in Now(w), stable \in SUBSET Snapshot :
             /\ \A s \in stable : Fresh(s, t)
             /\ wk' = [wk EXCEPT ![w].pc = "select", ![w].read = t, ![w].left = stable]
      BY <1>0, <1>5 DEF ListCandidates, TypeOK
    <2> DEFINE c == [wk[w] EXCEPT !.pc = "select", !.read = t, !.left = stable]
    <2>2. /\ c \in Cycle /\ c.pc = "select" /\ c.owner = wk[w].owner
          /\ \A s \in c.left : Fresh(s, c.read)
      BY <1>0, <2>1, NowIsTime DEF Cycle, PC
    <2>3. wk' = [wk EXCEPT ![w] = c]
      BY <1>0, <2>1
    <2> HIDE DEF c
    <2>4. Calm(w, c)
      BY <2>2 DEF Calm, Knows, FreshCycle, Chosen, Opening, Holding
    <2> QED
      BY <2>3, <2>4 DEF Moves
  <1>6. CASE TakeCandidate(w)
    <2>1. PICK s \in wk[w].left, t \in Now(w) :
             wk' = [wk EXCEPT ![w].pc = "previous", ![w].read = t,
                              ![w].snap = s, ![w].left = @ \ {s}]
      BY <1>6 DEF TakeCandidate
    <2> DEFINE c == [wk[w] EXCEPT !.pc = "previous", !.read = t, !.snap = s, !.left = @ \ {s}]
    <2>2. /\ c \in Cycle /\ c.pc = "previous" /\ c.snap = s /\ c.snap \in Snapshot
          /\ c.owner = wk[w].owner /\ c.left \subseteq wk[w].left
          /\ c.supervised = wk[w].supervised /\ (c.supervised => c.read = wk[w].read)
      BY <1>0, <2>1, NowIsTime DEF Cycle, PC
    <2>3. wk' = [wk EXCEPT ![w] = c]
      BY <1>0, <2>1
    <2> HIDE DEF c
    <2>4. Calm(w, c)
      BY <1>0, <2>1, <2>2 DEF Calm, Knows, FreshCycle, Chosen, Opening, Holding
    <2> QED
      BY <2>3, <2>4 DEF Moves
  <1>7. CASE SkipCandidate(w)
    <2>1. PICK s \in wk[w].left, t \in Now(w) :
             wk' = [wk EXCEPT ![w].read = t, ![w].left = @ \ {s}]
      BY <1>7 DEF SkipCandidate
    <2> DEFINE c == [wk[w] EXCEPT !.read = t, !.left = @ \ {s}]
    <2>2. /\ c \in Cycle /\ c.pc = "select"
          /\ c.owner = wk[w].owner /\ c.left \subseteq wk[w].left
          /\ c.supervised = wk[w].supervised /\ (c.supervised => c.read = wk[w].read)
      BY <1>0, <1>7, <2>1, NowIsTime DEF Cycle, PC, SkipCandidate
    <2>3. wk' = [wk EXCEPT ![w] = c]
      BY <1>0, <2>1
    <2> HIDE DEF c
    <2>4. Calm(w, c)
      BY <1>0, <2>2 DEF Calm, Knows, FreshCycle, Chosen, Opening, Holding
    <2> QED
      BY <2>3, <2>4 DEF Moves
  <1>8. CASE StopAfterLaunch(w) \/ NoCandidateLeft(w)
    BY <1>8, EndCycleMoves DEF StopAfterLaunch, NoCandidateLeft
  <1> QED
    BY <1>1, <1>2, <1>3, <1>4, <1>5, <1>6, <1>7, <1>8

\* Steps with a chosen candidate that neither take nor renew its lease.
LEMMA CandidateMoves ==
  ASSUME CyclesInv, NEW w \in Worker,
         \/ CheckPrevious(w) \/ ShadowLaunch(w) \/ PreflightFails(w) \/ PreparationFails(w)
         \/ SubmissionRefused(w) \/ Journal(w) \/ LifecycleRaises(w) \/ RecordLaunch(w) \/ Crash(w)
  PROVE  Moves(w)
  <1>0. /\ wk[w] \in Cycle /\ wk \in [Worker -> Cycle] /\ TypeOK
        /\ FreshCycle(wk[w]) /\ Knows(wk[w])
    BY DEF TypeOK, CyclesInv, CyclesFresh, CyclesKnow
  <1>1. ASSUME NEW pc \in {"launch", "select", "observe"},
               pc = "launch" => wk[w].pc \in Chosen,
               pc = "observe" => wk[w].pc \in Opening,
               wk' = [wk EXCEPT ![w].pc = pc]
        PROVE  Moves(w)
    <2> DEFINE c == [wk[w] EXCEPT !.pc = pc]
    <2>1. /\ c \in Cycle /\ c.pc = pc /\ c.owner = wk[w].owner /\ c.snap = wk[w].snap
          /\ c.left = wk[w].left /\ c.read = wk[w].read /\ c.supervised = wk[w].supervised
      BY <1>0, <1>1 DEF Cycle, PC
    <2>2. wk' = [wk EXCEPT ![w] = c]
      BY <1>0, <1>1
    <2> HIDE DEF c
    <2>3. Calm(w, c)
      BY <1>0, <1>1, <2>1 DEF Calm, Knows, FreshCycle, Chosen, Opening, Holding
    <2> QED
      BY <2>2, <2>3 DEF Moves
  <1>2. CASE CheckPrevious(w)
    BY <1>1, <1>2 DEF CheckPrevious, Chosen
  <1>3. CASE PreflightFails(w)
    BY <1>1, <1>3 DEF PreflightFails
  <1>4. CASE Journal(w)
    BY <1>1, <1>4 DEF Journal, Opening
  <1>5. CASE RecordLaunch(w)
    <2>1. PICK t \in Now(w) :
             \/ EndCycle(w)
             \/ wk' = [wk EXCEPT ![w].pc = "select", ![w].read = t,
                                 ![w].launched = @ + 1, ![w].owner = None,
                                 ![w].exposure = @ \cup {<<wk[w].owner, wk[w].snap>>}]
      BY <1>5 DEF RecordLaunch
    <2> DEFINE e == wk[w].exposure \cup {<<wk[w].owner, wk[w].snap>>}
               c == [wk[w] EXCEPT !.pc = "select", !.read = t, !.launched = @ + 1,
                                  !.owner = None, !.exposure = e]
    <2>2. e \subseteq Owner \X Snapshot
      <3>1. wk[w].owner \in Owner /\ wk[w].snap \in Snapshot
        BY <1>0, <1>5 DEF RecordLaunch, Knows, Opening, Chosen
      <3>2. wk[w].exposure \subseteq Owner \X Snapshot
        BY <1>0 DEF Cycle
      <3> QED
        BY <3>1, <3>2
    <2>3. CASE wk' = [wk EXCEPT ![w].pc = "select", ![w].read = t,
                                ![w].launched = @ + 1, ![w].owner = None,
                                ![w].exposure = @ \cup {<<wk[w].owner, wk[w].snap>>}]
      <3>1. wk' = [wk EXCEPT ![w] = c]
        BY <1>0, <2>3
      <3> HIDE DEF e
      <3>2. t \in Nat /\ (wk[w].supervised => t = wk[w].read) /\ wk[w].launched + 1 \in Nat
        BY <1>0, NowIsTime DEF Cycle
      <3>3. /\ c \in Cycle /\ c.pc = "select" /\ c.owner = None
            /\ c.left = wk[w].left /\ c.supervised = wk[w].supervised
            /\ (c.supervised => c.read = wk[w].read)
        BY <1>0, <2>2, <3>2 DEF Cycle, PC
      <3> HIDE DEF c
      <3>4. Calm(w, c)
        BY <1>0, <3>3 DEF Calm, Knows, FreshCycle, Chosen, Opening, Holding
      <3> QED
        BY <3>1, <3>4 DEF Moves
    <2> QED
      BY <2>1, <2>3, EndCycleMoves
  <1>6. CASE ShadowLaunch(w) \/ PreparationFails(w) \/ SubmissionRefused(w) \/ LifecycleRaises(w) \/ Crash(w)
    BY <1>6, EndCycleMoves DEF ShadowLaunch, PreparationFails, SubmissionRefused, LifecycleRaises, Crash
  <1> QED
    BY <1>2, <1>3, <1>4, <1>5, <1>6
-----------------------------------------------------------------------------
(* Steps that take, renew or use no lease.                                 *)

\* The opens are the same, whatever has become of them.
SameOpens == /\ \A p \in opens' : \E q \in opens : /\ p.owner = q.owner /\ p.snap = q.snap
                                                   /\ p.at = q.at /\ p.supervised = q.supervised
             /\ \A a, b \in opens' : a.owner = b.owner => a = b

LEMMA MoveToKeeps ==
  ASSUME TypeOK, OwnersDiffer, NEW o \in opens,
         NEW state \in {"unobserved", "active", "settled", "rejected"}, MoveTo(o, state)
  PROVE  opens' \subseteq Open /\ IsFiniteSet(opens') /\ SameOpens
  <1> DEFINE p == [o EXCEPT !.state = state]
  <1>1. o \in Open
    BY DEF TypeOK
  <1>2. /\ p \in Open /\ p.owner = o.owner /\ p.snap = o.snap /\ p.at = o.at
        /\ p.supervised = o.supervised
    BY <1>1 DEF Open
  <1> HIDE DEF p
  <1>3. opens' = (opens \ {o}) \cup {p}
    BY DEF MoveTo, p
  <1>4. opens' \subseteq Open /\ SameOpens
    BY <1>2, <1>3 DEF TypeOK, OwnersDiffer, SameOpens
  <1>5. IsFiniteSet(opens')
    BY <1>3, FS_RemoveElement, FS_AddElement DEF TypeOK
  <1> QED
    BY <1>4, <1>5

CalmWorkers == \A w \in Worker : wk'[w] = wk[w] \/ Calm(w, wk'[w])

LEMMA MovesCalm ==
  ASSUME TypeOK, NEW w \in Worker, Moves(w)
  PROVE  CalmWorkers /\ wk' \in [Worker -> Cycle]
  <1>1. PICK c : Calm(w, c) /\ wk' = [wk EXCEPT ![w] = c]
    BY DEF Moves
  <1> QED
    BY <1>1 DEF TypeOK, CalmWorkers, Calm

LEMMA CalmStep ==
  ASSUME LaunchInv, TypeOK', CalmWorkers, SameOpens,
         lease' = lease, clock' >= clock,
         \A s \in Snapshot : captured[s] # None => captured'[s] = captured[s]
  PROVE  LaunchInv'
  <1> USE DEF LaunchInv
  <1>1. CyclesKnow'
    BY DEF CyclesKnow, CalmWorkers, Calm
  <1>2. \A s \in Snapshot, t \in Nat : Fresh(s, t) => Fresh(s, t)'
    BY DEF Fresh
  <1>3. CyclesFresh'
    <2> SUFFICES ASSUME NEW w \in Worker, wk'[w].supervised
                 PROVE  /\ \A s \in wk'[w].left : Fresh(s, wk[w].read)'
                        /\ wk'[w].pc \in Chosen => Fresh(wk[w].snap, wk[w].read)'
      BY DEF CyclesFresh, FreshCycle
    <2>1. FreshCycle(wk'[w]) /\ Knows(wk'[w])
      BY DEF CyclesFresh, CyclesKnow, CalmWorkers, Calm
    <2>2. wk'[w] \in Cycle
      BY DEF TypeOK
    <2>3. wk'[w].read \in Nat /\ wk'[w].left \subseteq Snapshot
      BY <2>2 DEF Cycle
    <2>4. \A s \in wk'[w].left : Fresh(s, wk'[w].read)
      BY <2>1 DEF FreshCycle
    <2>5. wk'[w].pc \in Chosen => wk'[w].snap \in Snapshot /\ Fresh(wk'[w].snap, wk'[w].read)
      BY <2>1 DEF FreshCycle, Knows
    <2> QED
      BY <2>3, <2>4, <2>5 DEF Fresh
  <1>4. OpensFresh'
    BY DEF OpensFresh, SameOpens, Fresh, TypeOK, Open
  <1>5. OwnersDiffer'
    <2>1. ASSUME NEW v \in Worker, NEW w \in Worker, v # w, wk'[v].owner # None
          PROVE  wk'[v].owner # wk'[w].owner
      BY <2>1 DEF CalmWorkers, Calm, OwnersDiffer
    <2>2. ASSUME NEW w \in Worker, NEW o \in opens', wk'[w].pc \in Holding
          PROVE  o.owner # wk'[w].owner
      BY <2>2 DEF CalmWorkers, Calm, OwnersDiffer, SameOpens
    <2> QED
      BY <2>1, <2>2 DEF OwnersDiffer, SameOpens
  <1>6. RowsMatch'
    BY DEF RowsMatch, CalmWorkers, Calm, Holding
  <1>7. \A row, k : \A t \in Nat : Covered(row, clock, k, t) => Covered(row, clock', k, t)
    BY LeaseAssumption DEF Covered, TypeOK
  <1>8. ClaimsCovered'
    <2>1. ASSUME NEW o \in opens' PROVE Covered(lease'[o.snap], clock', o.owner, o.at)
      <3>1. o.at \in Nat
        BY <2>1 DEF TypeOK, Open
      <3> QED
        BY <2>1, <3>1, <1>7 DEF ClaimsCovered, SameOpens
    <2>2. ASSUME NEW w \in Worker, wk'[w].pc = "open"
          PROVE  Covered(lease'[wk'[w].snap], clock', wk'[w].owner, wk'[w].read)
      <3>1. wk'[w] = wk[w] /\ wk[w].read \in Nat
        BY <2>2 DEF CalmWorkers, Calm, Holding, TypeOK, Cycle
      <3> QED
        BY <2>2, <3>1, <1>7 DEF ClaimsCovered
    <2> QED
      BY <2>1, <2>2 DEF ClaimsCovered
  <1>9. ClaimsApart'
    <2>1. LeasesApart'
      BY DEF ClaimsApart, LeasesApart, SameOpens
    <2>2. \A w \in Worker : wk'[w].pc = "open" => wk'[w] = wk[w]
      BY DEF CalmWorkers, Calm, Holding
    <2>3. ASSUME NEW w \in Worker, NEW o \in opens', wk'[w].pc = "open", o.snap = wk'[w].snap
          PROVE  Apart(o.at, wk'[w].read)
      BY <2>2, <2>3 DEF ClaimsApart, SameOpens
    <2>4. ASSUME NEW v \in Worker, NEW w \in Worker, v # w, wk'[v].pc = "open",
                 wk'[w].pc = "open", wk'[v].snap = wk'[w].snap
          PROVE  Apart(wk'[v].read, wk'[w].read)
      BY <2>2, <2>4 DEF ClaimsApart
    <2> QED
      BY <2>1, <2>3, <2>4 DEF ClaimsApart
  <1> QED
    BY <1>1, <1>3, <1>4, <1>5, <1>6, <1>8, <1>9

-----------------------------------------------------------------------------
(* Reservation.                                                            *)

LEMMA NoneRow == \A row \in Lease : row # None
  BY NoneAssumption DEF Lease

LEMMA RetentionType ==
  ASSUME TypeOK, NEW t \in Nat
  PROVE  RowsAfterRetention(t) \in [Snapshot -> Lease \cup {None}]
  BY DEF RowsAfterRetention, TypeOK

\* A read of a row that retention may have removed keeps what it covered.
LEMMA RetentionCovers ==
  ASSUME TypeOK, NEW t \in Readings, NEW s \in Snapshot, NEW k, NEW u \in Nat,
         Covered(lease[s], clock, k, u)
  PROVE  Covered(RowsAfterRetention(t)[s], clock, k, u)
  <1>1. t \in Nat /\ t <= clock /\ clock \in Nat
    BY DEF Readings, TypeOK
  <1>2. lease[s] # None => lease[s].at \in Nat
    BY DEF TypeOK, Lease
  <1> QED
    BY <1>1, <1>2, LeaseAssumption DEF Covered, RowsAfterRetention

\* Who takes a row that is not held comes more than a TTL after its claims.
LEMMA ReserveCovers ==
  ASSUME TypeOK, NEW t \in Readings, NEW s \in Snapshot, NEW k, NEW u \in Nat,
         Covered(lease[s], clock, k, u), ~Held(s, t)
  PROVE  t > u + TTL
  <1>1. t \in Nat /\ clock <= t + MaxStall /\ clock \in Nat
    BY DEF Readings, TypeOK
  <1>2. lease[s] # None => lease[s].at \in Nat
    BY DEF TypeOK, Lease
  <1> QED
    BY <1>1, <1>2, LeaseAssumption DEF Covered, Held

\* A worker moves to c, and its step writes rows of its own only.
LEMMA LeaseStep ==
  ASSUME LaunchInv, TypeOK', NEW w \in Worker, NEW c \in Cycle,
         wk' = [wk EXCEPT ![w] = c], UNCHANGED <<clock, captured, opens>>,
         Knows(c), FreshCycle(c),
         c.owner # None => \A v \in Worker \ {w} : wk[v].owner # c.owner,
         c.pc \in Holding => \A o \in opens : o.owner # c.owner,
         \A r \in Snapshot : \/ lease'[r] \in {None, lease[r]}
                             \/ c.pc \in Holding /\ lease'[r].owner = c.owner,
         c.pc \in Holding => lease'[c.snap].at = c.read,
         \A r \in Snapshot, u \in Nat, k \in Owner :
            /\ k = c.owner => c.pc \notin Holding
            /\ Covered(lease[r], clock, k, u)
            => Covered(lease'[r], clock, k, u),
         c.pc = "open" =>
            /\ Covered(lease'[c.snap], clock, c.owner, c.read)
            /\ \A k \in Owner, u \in Nat :
                  k # c.owner /\ Covered(lease[c.snap], clock, k, u) => Apart(u, c.read)
  PROVE  LaunchInv'
  <1> USE DEF LaunchInv
  <1>1. /\ wk'[w] = c
        /\ \A v \in Worker : v # w => wk'[v] = wk[v]
        /\ clock' = clock /\ captured' = captured /\ opens' = opens
    BY DEF TypeOK
  <1>2. CyclesKnow'
    BY <1>1 DEF CyclesKnow
  <1>3. CyclesFresh'
    BY <1>1 DEF CyclesFresh, FreshCycle, Fresh
  <1>4. OpensFresh'
    BY <1>1 DEF OpensFresh, Fresh
  <1>5. OwnersDiffer'
    BY <1>1 DEF OwnersDiffer
  <1>6. RowsMatch'
    <2> SUFFICES ASSUME NEW v \in Worker, wk'[v].pc = "reserved", lease'[wk'[v].snap] # None,
                        lease'[wk'[v].snap].owner = wk'[v].owner
                 PROVE  lease'[wk'[v].snap].at = wk'[v].read
      BY DEF RowsMatch
    <2>1. CASE v = w
      BY <1>1, <2>1 DEF Holding
    <2>2. CASE v # w
      <3>1. wk'[v] = wk[v] /\ wk[v].snap \in Snapshot /\ wk[v].owner \in Owner
        BY <1>1, <2>2 DEF CyclesKnow, Knows, Chosen, Opening, Holding
      <3>2. c.pc \in Holding => wk[v].owner # c.owner
        BY <2>2, NoneAssumption DEF Knows, Opening
      <3>3. lease'[wk[v].snap] = lease[wk[v].snap]
        BY <3>1, <3>2
      <3> QED
        BY <3>1, <3>3 DEF RowsMatch
    <2> QED
      BY <2>1, <2>2
  <1>7. ASSUME NEW o \in opens
        PROVE  /\ o.snap \in Snapshot /\ o.owner \in Owner /\ o.at \in Nat
               /\ Covered(lease[o.snap], clock, o.owner, o.at)
    BY <1>7 DEF TypeOK, Open, ClaimsCovered
  <1>8. ASSUME NEW v \in Worker, v # w, wk[v].pc = "open"
        PROVE  /\ wk[v].snap \in Snapshot /\ wk[v].owner \in Owner /\ wk[v].read \in Nat
               /\ Covered(lease[wk[v].snap], clock, wk[v].owner, wk[v].read)
               /\ c.pc \in Holding => wk[v].owner # c.owner
    <2>1. wk[v].snap \in Snapshot /\ wk[v].owner \in Owner
      BY <1>8 DEF CyclesKnow, Knows, Chosen, Opening, Holding
    <2>2. wk[v].read \in Nat
      BY DEF TypeOK, Cycle
    <2>3. c.pc \in Holding => wk[v].owner # c.owner
      BY <1>8, NoneAssumption DEF Knows, Opening
    <2> QED
      BY <1>8, <2>1, <2>2, <2>3 DEF ClaimsCovered
  <1>9. ClaimsCovered'
    <2>1. ASSUME NEW o \in opens PROVE Covered(lease'[o.snap], clock, o.owner, o.at)
      BY <1>7, <2>1
    <2>2. ASSUME NEW v \in Worker, wk'[v].pc = "open"
          PROVE  Covered(lease'[wk'[v].snap], clock, wk'[v].owner, wk'[v].read)
      <3>1. CASE v = w
        BY <1>1, <2>2, <3>1
      <3>2. CASE v # w
        BY <1>1, <1>8, <2>2, <3>2
      <3> QED
        BY <3>1, <3>2
    <2> QED
      BY <1>1, <2>1, <2>2 DEF ClaimsCovered
  <1>10. ClaimsApart'
    <2>1. LeasesApart'
      BY <1>1 DEF ClaimsApart, LeasesApart
    <2>2. ASSUME c.pc = "open", NEW o \in opens, o.snap = c.snap
          PROVE  Apart(o.at, c.read)
      BY <1>7, <2>2 DEF Holding
    <2>3. ASSUME c.pc = "open", NEW v \in Worker, v # w, wk[v].pc = "open", wk[v].snap = c.snap
          PROVE  Apart(wk[v].read, c.read) /\ Apart(c.read, wk[v].read)
      BY <1>8, <2>3 DEF Holding, Apart
    <2>4. ASSUME NEW v \in Worker, NEW o \in opens, wk'[v].pc = "open", o.snap = wk'[v].snap
          PROVE  Apart(o.at, wk'[v].read)
      BY <1>1, <2>2, <2>4 DEF ClaimsApart
    <2>5. ASSUME NEW u \in Worker, NEW v \in Worker, u # v, wk'[u].pc = "open",
                 wk'[v].pc = "open", wk'[u].snap = wk'[v].snap
          PROVE  Apart(wk'[u].read, wk'[v].read)
      <3>1. CASE u = w
        BY <1>1, <2>3, <2>5, <3>1
      <3>2. CASE v = w
        BY <1>1, <2>3, <2>5, <3>2
      <3>3. CASE u # w /\ v # w
        BY <1>1, <2>5, <3>3 DEF ClaimsApart
      <3> QED
        BY <3>1, <3>2, <3>3
    <2> QED
      BY <1>1, <2>1, <2>4, <2>5 DEF ClaimsApart
  <1> QED
    BY <1>2, <1>3, <1>4, <1>5, <1>6, <1>9, <1>10

LEMMA ReserveStep ==
  ASSUME LaunchInv, NEW w \in Worker, Reserve(w)
  PROVE  LaunchInv'
  <1>0. /\ TypeOK /\ wk[w] \in Cycle /\ wk \in [Worker -> Cycle] /\ wk[w].pc = "launch"
        /\ FreshCycle(wk[w]) /\ Knows(wk[w]) /\ wk[w].snap \in Snapshot
    BY DEF LaunchInv, TypeOK, CyclesFresh, CyclesKnow, Knows, Reserve, Chosen
  <1> DEFINE s == wk[w].snap
  <1>1. PICK t \in Now(w) \cap Readings, owner \in Owner \ InUse :
           \/ /\ ~Held(s, t)
              /\ lease' = [RowsAfterRetention(t) EXCEPT ![s] = [owner |-> owner, at |-> t]]
              /\ wk' = [wk EXCEPT ![w].pc = "reserved", ![w].read = t, ![w].owner = owner]
           \/ /\ lease' = RowsAfterRetention(t)
              /\ wk' = [wk EXCEPT ![w].pc = "select", ![w].read = t]
    BY DEF Reserve
  <1>2. t \in Nat /\ t \in Readings /\ (wk[w].supervised => t = wk[w].read)
    BY <1>0, <1>1, NowIsTime
  <1>3. UNCHANGED <<clock, captured, ready, records, opens>>
    BY DEF Reserve
  <1>4. \A r \in Snapshot : RowsAfterRetention(t)[r] \in {None, lease[r]}
    BY DEF RowsAfterRetention
  <1>5. \A r \in Snapshot, k \in Owner, u \in Nat :
           Covered(lease[r], clock, k, u) => Covered(RowsAfterRetention(t)[r], clock, k, u)
    BY <1>0, <1>2, RetentionCovers
  <1>6. /\ \A v \in Worker : wk[v].owner \in InUse
        /\ \A o \in opens : o.owner \in InUse
    BY DEF InUse
  <1>7. CASE /\ ~Held(s, t)
             /\ lease' = [RowsAfterRetention(t) EXCEPT ![s] = [owner |-> owner, at |-> t]]
             /\ wk' = [wk EXCEPT ![w].pc = "reserved", ![w].read = t, ![w].owner = owner]
    <2> DEFINE c == [wk[w] EXCEPT !.pc = "reserved", !.read = t, !.owner = owner]
    <2>1. wk' = [wk EXCEPT ![w] = c]
      BY <1>0, <1>7
    <2>2. /\ c \in Cycle /\ c.pc = "reserved" /\ c.owner = owner /\ c.read = t /\ c.snap = s
          /\ c.left = wk[w].left /\ c.supervised = wk[w].supervised
      BY <1>0, <1>1, <1>2 DEF Cycle, PC
    <2> HIDE DEF c
    <2>3. Knows(c) /\ FreshCycle(c)
      BY <1>0, <1>1, <1>2, <2>2 DEF Knows, FreshCycle, Chosen, Opening, Holding
    <2>4. RowsAfterRetention(t) \in [Snapshot -> Lease \cup {None}]
      BY <1>0, <1>2, RetentionType
    <2>5. /\ lease' \in [Snapshot -> Lease \cup {None}]
          /\ lease'[s] = [owner |-> owner, at |-> t]
          /\ \A r \in Snapshot : r # s => lease'[r] = RowsAfterRetention(t)[r]
      BY <1>0, <1>1, <1>2, <1>7, <2>4 DEF Lease
    <2>6. TypeOK'
      BY <1>0, <1>3, <2>1, <2>2, <2>5 DEF TypeOK
    <2>7. \A k \in Owner, u \in Nat :
             k # owner /\ Covered(lease[s], clock, k, u) => Covered(lease'[s], clock, k, u)
      <3> SUFFICES ASSUME NEW k \in Owner, NEW u \in Nat, k # owner, Covered(lease[s], clock, k, u)
                   PROVE  Covered(lease'[s], clock, k, u)
        OBVIOUS
      <3>1. t > u + TTL
        BY <1>0, <1>2, <1>7, ReserveCovers
      <3>2. lease'[s] # None
        BY <1>1, <1>2, <2>5, NoneRow DEF Lease
      <3> QED
        BY <2>5, <3>1, <3>2 DEF Covered
    <2>8. \A r \in Snapshot, u \in Nat, k \in Owner :
             /\ k = c.owner => c.pc \notin Holding
             /\ Covered(lease[r], clock, k, u)
             => Covered(lease'[r], clock, k, u)
      BY <1>5, <2>2, <2>5, <2>7 DEF Holding
    <2>9. \A r \in Snapshot : \/ lease'[r] \in {None, lease[r]}
                              \/ c.pc \in Holding /\ lease'[r].owner = c.owner
      BY <1>4, <2>2, <2>5 DEF Holding
    <2>10. /\ c.owner # None => \A v \in Worker \ {w} : wk[v].owner # c.owner
           /\ c.pc \in Holding => \A o \in opens : o.owner # c.owner
           /\ c.pc \in Holding => lease'[c.snap].at = c.read
           /\ c.pc # "open"
      BY <1>1, <1>6, <2>2, <2>5
    <2> QED
      BY <1>3, <2>1, <2>2, <2>3, <2>6, <2>8, <2>9, <2>10, LeaseStep
  <1>8. CASE /\ lease' = RowsAfterRetention(t)
             /\ wk' = [wk EXCEPT ![w].pc = "select", ![w].read = t]
    <2> DEFINE c == [wk[w] EXCEPT !.pc = "select", !.read = t]
    <2>1. wk' = [wk EXCEPT ![w] = c]
      BY <1>0, <1>8
    <2>2. /\ c \in Cycle /\ c.pc = "select" /\ c.owner = wk[w].owner /\ c.read = t
          /\ c.left = wk[w].left /\ c.supervised = wk[w].supervised
      BY <1>0, <1>2 DEF Cycle, PC
    <2> HIDE DEF c
    <2>3. Knows(c) /\ FreshCycle(c)
      BY <1>0, <1>2, <2>2 DEF Knows, FreshCycle, Chosen, Opening, Holding
    <2>4. TypeOK'
      BY <1>0, <1>2, <1>3, <1>8, <2>1, <2>2, RetentionType DEF TypeOK
    <2>5. /\ c.pc \notin Holding /\ c.pc # "open"
          /\ c.owner # None => \A v \in Worker \ {w} : wk[v].owner # c.owner
      BY <2>2 DEF Holding, LaunchInv, OwnersDiffer
    <2> QED
      BY <1>3, <1>4, <1>5, <1>8, <2>1, <2>2, <2>3, <2>4, <2>5, LeaseStep
  <1> QED
    BY <1>1, <1>7, <1>8

-----------------------------------------------------------------------------
(* Renewal and submission.                                                 *)

LEMMA RenewStep ==
  ASSUME LaunchInv, NEW w \in Worker, NEW t \in Now(w), wk[w].pc = "reserved", Owns(w, t),
         lease' = [lease EXCEPT ![wk[w].snap].at = t],
         wk' = [wk EXCEPT ![w].pc = "open", ![w].read = t],
         UNCHANGED <<clock, captured, ready, records, opens>>
  PROVE  LaunchInv'
  <1> DEFINE s == wk[w].snap
             c == [wk[w] EXCEPT !.pc = "open", !.read = t]
  <1>0. /\ TypeOK /\ wk[w] \in Cycle /\ wk \in [Worker -> Cycle]
        /\ FreshCycle(wk[w]) /\ Knows(wk[w]) /\ s \in Snapshot /\ wk[w].owner \in Owner
    BY DEF LaunchInv, TypeOK, CyclesFresh, CyclesKnow, Knows, Chosen, Opening, Holding
  <1>1. /\ t \in Nat /\ t >= wk[w].read /\ (wk[w].supervised => t = wk[w].read)
        /\ wk[w].read \in Nat
    BY <1>0, NowIsTime DEF Cycle
  <1>2. /\ lease[s] # None /\ lease[s] \in Lease /\ lease[s].owner = wk[w].owner
        /\ lease[s].at = wk[w].read
    BY <1>0 DEF Owns, TypeOK, LaunchInv, RowsMatch
  <1>3. /\ lease' \in [Snapshot -> Lease \cup {None}]
        /\ lease'[s] \in Lease /\ lease'[s].owner = wk[w].owner /\ lease'[s].at = t
        /\ \A r \in Snapshot : r # s => lease'[r] = lease[r]
    BY <1>0, <1>1, <1>2 DEF TypeOK, Lease
  <1>4. wk' = [wk EXCEPT ![w] = c]
    BY <1>0
  <1>5. /\ c \in Cycle /\ c.pc = "open" /\ c.owner = wk[w].owner /\ c.read = t /\ c.snap = s
        /\ c.left = wk[w].left /\ c.supervised = wk[w].supervised
    BY <1>0, <1>1 DEF Cycle, PC
  <1> HIDE DEF c, s
  <1>6. Knows(c) /\ FreshCycle(c)
    BY <1>0, <1>1, <1>5 DEF Knows, FreshCycle, Chosen, Opening, Holding, s
  <1>7. TypeOK'
    BY <1>0, <1>3, <1>4, <1>5 DEF TypeOK
  <1>8. \A row \in Lease : row # None
    BY NoneRow
  <1>9. ASSUME NEW k \in Owner, NEW u \in Nat, k # c.owner, Covered(lease[s], clock, k, u)
        PROVE  t > u + TTL /\ Covered(lease'[s], clock, k, u)
    <2>1. t > u + TTL
      BY <1>1, <1>2, <1>5, <1>9, LeaseAssumption DEF Covered
    <2> QED
      BY <1>3, <1>5, <1>8, <1>9, <2>1 DEF Covered
  <1>10. \A r \in Snapshot, u \in Nat, k \in Owner :
            /\ k = c.owner => c.pc \notin Holding
            /\ Covered(lease[r], clock, k, u)
            => Covered(lease'[r], clock, k, u)
    BY <1>3, <1>5, <1>9 DEF Holding
  <1>11. /\ Covered(lease'[c.snap], clock, c.owner, c.read)
         /\ \A k \in Owner, u \in Nat :
               k # c.owner /\ Covered(lease[c.snap], clock, k, u) => Apart(u, c.read)
    BY <1>3, <1>5, <1>8, <1>9 DEF Covered, Apart
  <1>12. /\ c.owner # None => \A v \in Worker \ {w} : wk[v].owner # c.owner
         /\ c.pc \in Holding => \A o \in opens : o.owner # c.owner
    BY <1>5 DEF Holding, LaunchInv, OwnersDiffer
  <1>13. /\ \A r \in Snapshot : \/ lease'[r] \in {None, lease[r]}
                                \/ c.pc \in Holding /\ lease'[r].owner = c.owner
         /\ c.pc \in Holding => lease'[c.snap].at = c.read
    BY <1>3, <1>5 DEF Holding
  <1> QED
    BY <1>4, <1>5, <1>6, <1>7, <1>10, <1>11, <1>12, <1>13, LeaseStep

LEMMA SubmitStep ==
  ASSUME LaunchInv, NEW w \in Worker, Submit(w)
  PROVE  LaunchInv'
  <1> DEFINE c == [wk[w] EXCEPT !.pc = "sent"]
             o == [owner |-> wk[w].owner, snap |-> wk[w].snap, at |-> wk[w].read,
                   supervised |-> wk[w].supervised, state |-> "sent"]
  <1>0. /\ TypeOK /\ wk[w] \in Cycle /\ wk \in [Worker -> Cycle] /\ wk[w].pc = "open"
        /\ FreshCycle(wk[w]) /\ Knows(wk[w]) /\ wk[w].snap \in Snapshot /\ wk[w].owner \in Owner
    BY DEF LaunchInv, TypeOK, CyclesFresh, CyclesKnow, Knows, Chosen, Opening, Holding, Submit
  <1>1. wk' = [wk EXCEPT ![w] = c] /\ opens' = opens \cup {o}
    BY <1>0 DEF Submit
  <1>2. UNCHANGED <<clock, captured, ready, lease, records>>
    BY DEF Submit
  <1>3. /\ c \in Cycle /\ c.pc = "sent" /\ c.owner = wk[w].owner /\ c.read = wk[w].read
        /\ c.snap = wk[w].snap /\ c.left = wk[w].left /\ c.supervised = wk[w].supervised
    BY <1>0 DEF Cycle, PC
  <1>4. /\ o \in Open /\ o.owner = wk[w].owner /\ o.snap = wk[w].snap /\ o.at = wk[w].read
        /\ o.supervised = wk[w].supervised
    BY <1>0 DEF Open, Cycle
  <1> HIDE DEF c, o
  <1>5. Knows(c) /\ FreshCycle(c)
    BY <1>0, <1>3 DEF Knows, FreshCycle, Chosen, Opening, Holding
  <1>6. TypeOK'
    <2>1. IsFiniteSet(opens')
      BY <1>0, <1>1, FS_AddElement DEF TypeOK
    <2> QED
      BY <1>0, <1>1, <1>2, <1>3, <1>4, <2>1 DEF TypeOK
  <1>7. /\ wk'[w] = c
        /\ \A v \in Worker : v # w => wk'[v] = wk[v]
    BY <1>0, <1>1
  <1>8. CyclesKnow'
    BY <1>5, <1>7 DEF CyclesKnow, LaunchInv
  <1>9. CyclesFresh'
    BY <1>2, <1>5, <1>7 DEF CyclesFresh, FreshCycle, Fresh, LaunchInv
  <1>10. OpensFresh'
    BY <1>0, <1>1, <1>2, <1>4 DEF OpensFresh, FreshCycle, Fresh, LaunchInv, Chosen, Opening, Holding
  <1>11. \A p \in opens : p.owner # o.owner
    BY <1>0, <1>4 DEF LaunchInv, OwnersDiffer, Holding
  <1>12. OwnersDiffer'
    <2>1. ASSUME NEW u \in Worker, NEW v \in Worker, u # v, wk'[u].owner # None
          PROVE  wk'[u].owner # wk'[v].owner
      BY <1>3, <1>7, <2>1 DEF LaunchInv, OwnersDiffer
    <2>2. ASSUME NEW v \in Worker, NEW p \in opens', wk'[v].pc \in Holding
          PROVE  p.owner # wk'[v].owner
      <3>1. v # w
        BY <1>3, <1>7, <2>2 DEF Holding
      <3>2. o.owner # wk[v].owner
        BY <1>0, <1>4, <3>1, NoneAssumption DEF LaunchInv, OwnersDiffer
      <3> QED
        BY <1>1, <1>7, <2>2, <3>1, <3>2 DEF LaunchInv, OwnersDiffer
    <2>3. \A a, b \in opens' : a.owner = b.owner => a = b
      BY <1>1, <1>11 DEF LaunchInv, OwnersDiffer
    <2> QED
      BY <2>1, <2>2, <2>3 DEF OwnersDiffer
  <1>13. RowsMatch'
    BY <1>2, <1>3, <1>7 DEF RowsMatch, LaunchInv
  <1>14. ClaimsCovered'
    BY <1>0, <1>1, <1>2, <1>3, <1>4, <1>7 DEF ClaimsCovered, LaunchInv
  <1>15. ClaimsApart'
    <2>1. LeasesApart'
      BY <1>0, <1>1, <1>4 DEF ClaimsApart, LeasesApart, LaunchInv, Apart
    <2>2. ASSUME NEW v \in Worker, NEW p \in opens', wk'[v].pc = "open", p.snap = wk'[v].snap
          PROVE  Apart(p.at, wk'[v].read)
      BY <1>0, <1>1, <1>3, <1>4, <1>7, <2>2 DEF ClaimsApart, LaunchInv
    <2>3. \A u, v \in Worker :
             u # v /\ wk'[u].pc = "open" /\ wk'[v].pc = "open" /\ wk'[v].snap = wk'[u].snap =>
                 Apart(wk'[u].read, wk'[v].read)
      BY <1>3, <1>7 DEF ClaimsApart, LaunchInv
    <2> QED
      BY <2>1, <2>2, <2>3 DEF ClaimsApart
  <1> QED
    BY <1>6, <1>8, <1>9, <1>10, <1>12, <1>13, <1>14, <1>15 DEF LaunchInv

-----------------------------------------------------------------------------
(* The theorems.                                                           *)

LEMMA InitInv == Init => LaunchInv
  <1> SUFFICES ASSUME Init PROVE LaunchInv
    OBVIOUS
  <1>1. /\ Idle \in Cycle /\ Idle.pc = "idle" /\ Idle.owner = None /\ Idle.snap = None
        /\ ~Idle.supervised
    BY DEF Idle, Cycle, PC
  <1>2. TypeOK
    BY <1>1, FS_EmptySet DEF Init, TypeOK
  <1>3. CyclesKnow /\ CyclesFresh /\ RowsMatch
    BY <1>1 DEF Init, CyclesKnow, Knows, CyclesFresh, FreshCycle, RowsMatch, Chosen, Opening, Holding
  <1>4. OpensFresh /\ OwnersDiffer /\ ClaimsCovered /\ ClaimsApart
    BY <1>1 DEF Init, OpensFresh, OwnersDiffer, ClaimsCovered, ClaimsApart, LeasesApart, Holding
  <1> QED
    BY <1>2, <1>3, <1>4 DEF LaunchInv

\* Steps of a cycle that leave the clock, the leases and the opens alone.
LEMMA QuietStep ==
  ASSUME LaunchInv, NEW w \in Worker, Moves(w), UNCHANGED <<clock, captured, lease, opens>>,
         ready' \subseteq Snapshot, records' \in Seq(Record)
  PROVE  LaunchInv'
  <1>1. CalmWorkers /\ wk' \in [Worker -> Cycle]
    BY MovesCalm DEF LaunchInv
  <1>2. TypeOK'
    BY <1>1 DEF LaunchInv, TypeOK
  <1>3. SameOpens
    BY DEF SameOpens, LaunchInv, OwnersDiffer
  <1>4. clock' >= clock
    BY DEF LaunchInv, TypeOK
  <1> QED
    BY <1>1, <1>2, <1>3, <1>4, CalmStep

LEMMA WorkerStep ==
  ASSUME LaunchInv, NEW w \in Worker, Step(w)
  PROVE  LaunchInv'
  <1>0. CyclesInv /\ TypeOK
    BY DEF LaunchInv, CyclesInv
  <1>1. CASE \/ StartCycle(w) \/ CheckBlocking(w) \/ CheckRecords(w) \/ ReadBudget(w)
             \/ ListCandidates(w) \/ TakeCandidate(w) \/ SkipCandidate(w) \/ StopAfterLaunch(w)
             \/ NoCandidateLeft(w)
    <2>1. Moves(w)
      BY <1>0, <1>1, GateMoves
    <2>2. UNCHANGED <<clock, captured, ready, lease, records, opens>>
      BY <1>1 DEF StartCycle, CheckBlocking, CheckRecords, ReadBudget, ListCandidates,
           TakeCandidate, SkipCandidate, StopAfterLaunch, NoCandidateLeft
    <2> QED
      BY <1>0, <2>1, <2>2, QuietStep DEF TypeOK
  <1>2. CASE \/ CheckPrevious(w) \/ PreflightFails(w) \/ PreparationFails(w)
             \/ SubmissionRefused(w) \/ LifecycleRaises(w) \/ Crash(w)
    <2>1. Moves(w)
      BY <1>0, <1>2, CandidateMoves
    <2>2. UNCHANGED <<clock, captured, lease, records, opens>> /\ ready' \subseteq ready
      BY <1>2 DEF CheckPrevious, PreflightFails, PreparationFails, SubmissionRefused,
           LifecycleRaises, Crash
    <2> QED
      BY <1>0, <2>1, <2>2, QuietStep DEF TypeOK
  <1>3. CASE ShadowLaunch(w)
    <2>1. Moves(w)
      BY <1>0, <1>3, CandidateMoves
    <2>2. [snap |-> wk[w].snap, status |-> "shadowed", at |-> wk[w].start] \in Record
      <3>1. wk[w].snap \in Snapshot
        BY <1>0, <1>3 DEF CyclesInv, CyclesKnow, Knows, Chosen, ShadowLaunch
      <3>2. wk[w].start \in Nat
        BY <1>0 DEF TypeOK, Cycle
      <3> QED
        BY <3>1, <3>2 DEF Record
    <2>3. records' \in Seq(Record)
      BY <1>0, <1>3, <2>2 DEF ShadowLaunch, TypeOK
    <2>4. UNCHANGED <<clock, captured, ready, lease, opens>>
      BY <1>3 DEF ShadowLaunch
    <2> QED
      BY <1>0, <2>1, <2>3, <2>4, QuietStep DEF TypeOK
  <1>4. CASE RecordLaunch(w)
    <2>1. Moves(w)
      BY <1>0, <1>4, CandidateMoves
    <2>2. PICK t \in Now(w) :
             records' = Append(records, [snap |-> wk[w].snap, status |-> "launched", at |-> t])
      BY <1>4 DEF RecordLaunch
    <2>3. [snap |-> wk[w].snap, status |-> "launched", at |-> t] \in Record
      <3>1. wk[w].snap \in Snapshot
        BY <1>0, <1>4 DEF CyclesInv, CyclesKnow, Knows, Chosen, Opening, RecordLaunch
      <3>2. t \in Nat
        BY <1>0, NowIsTime
      <3> QED
        BY <3>1, <3>2 DEF Record
    <2>4. records' \in Seq(Record)
      BY <1>0, <2>2, <2>3 DEF TypeOK
    <2>5. UNCHANGED <<clock, captured, ready, lease, opens>>
      BY <1>4 DEF RecordLaunch
    <2> QED
      BY <1>0, <2>1, <2>4, <2>5, QuietStep DEF TypeOK
  <1>5. CASE Journal(w)
    <2>1. Moves(w)
      BY <1>0, <1>5, CandidateMoves
    <2>2. PICK o \in opens, state \in {"unobserved", "rejected"} : MoveTo(o, state)
      BY <1>5 DEF Journal
    <2>3. opens' \subseteq Open /\ IsFiniteSet(opens') /\ SameOpens
      BY <1>0, <2>2, MoveToKeeps DEF LaunchInv
    <2>4. UNCHANGED <<clock, captured, ready, lease, records>>
      BY <1>5 DEF Journal
    <2>5. CalmWorkers /\ wk' \in [Worker -> Cycle]
      BY <1>0, <2>1, MovesCalm
    <2>6. TypeOK' /\ clock' >= clock
      BY <1>0, <2>3, <2>4, <2>5 DEF TypeOK
    <2> QED
      BY <2>3, <2>4, <2>5, <2>6, CalmStep
  <1>6. CASE Reserve(w)
    BY <1>6, ReserveStep
  <1>7. CASE Renew(w)
    <2>1. CASE EndCycle(w) /\ UNCHANGED lease
      <3>1. Moves(w)
        BY <2>1, EndCycleMoves
      <3>2. UNCHANGED <<clock, captured, ready, lease, records, opens>>
        BY <1>7, <2>1 DEF Renew
      <3> QED
        BY <1>0, <3>1, <3>2, QuietStep DEF TypeOK
    <2> QED
      BY <1>7, <2>1, RenewStep DEF Renew
  <1>8. CASE Submit(w)
    BY <1>8, SubmitStep
  <1> QED
    BY <1>1, <1>2, <1>3, <1>4, <1>5, <1>6, <1>7, <1>8 DEF Step

LEMMA NextInv == LaunchInv /\ [Next]_vars => LaunchInv'
  <1> SUFFICES ASSUME LaunchInv, [Next]_vars PROVE LaunchInv'
    OBVIOUS
  <1>0. TypeOK /\ clock \in Nat
    BY DEF LaunchInv, TypeOK
  <1>1. ASSUME wk' = wk, UNCHANGED lease, TypeOK', SameOpens, clock' >= clock,
               \A s \in Snapshot : captured[s] # None => captured'[s] = captured[s]
        PROVE  LaunchInv'
    BY <1>1, CalmStep DEF CalmWorkers
  <1>2. opens' = opens => SameOpens
    BY DEF SameOpens, LaunchInv, OwnersDiffer
  <1>3. CASE Observe
    <2>1. PICK o \in opens, state \in {"active", "settled"} : MoveTo(o, state)
      BY <1>3 DEF Observe
    <2>2. opens' \subseteq Open /\ IsFiniteSet(opens') /\ SameOpens
      BY <1>0, <2>1, MoveToKeeps DEF LaunchInv
    <2>3. UNCHANGED <<clock, captured, ready, lease, records, wk>>
      BY <1>3 DEF Observe
    <2> QED
      BY <1>0, <1>1, <2>2, <2>3 DEF TypeOK
  <1>4. CASE Tick
    BY <1>0, <1>1, <1>2, <1>4 DEF Tick, TypeOK
  <1>5. ASSUME NEW s \in Snapshot, CacheSnapshot(s)
        PROVE  LaunchInv'
    <2>1. PICK t \in Readings : captured' = [captured EXCEPT ![s] = t]
      BY <1>5 DEF CacheSnapshot
    <2>2. t \in Nat
      BY <1>0 DEF Readings
    <2>3. UNCHANGED <<clock, lease, records, opens, wk>>
      BY <1>5 DEF CacheSnapshot
    <2>4. TypeOK'
      BY <1>0, <1>5, <2>1, <2>2, <2>3 DEF TypeOK, CacheSnapshot
    <2>5. \A r \in Snapshot : captured[r] # None => captured'[r] = captured[r]
      BY <1>0, <1>5, <2>1 DEF TypeOK, CacheSnapshot
    <2> QED
      BY <1>0, <1>1, <1>2, <2>3, <2>4, <2>5
  <1>6. ASSUME NEW w \in Worker, Step(w)
        PROVE  LaunchInv'
    BY <1>6, WorkerStep
  <1>7. CASE UNCHANGED vars
    BY <1>0, <1>1, <1>2, <1>7 DEF vars, TypeOK
  <1> QED
    BY <1>3, <1>4, <1>5, <1>6, <1>7 DEF Next

\* The strengthening holds in every reachable state.
THEOREM LaunchInvariant == Spec => []LaunchInv
  BY InitInv, NextInv, PTL DEF Spec

\* The stores and the cycles keep their types (models.py, poller.py).
THEOREM TypeCorrect == Spec => []TypeOK
  <1>1. LaunchInv => TypeOK
    BY DEF LaunchInv
  <1> QED
    BY <1>1, LaunchInvariant, PTL

\* However many workers race, stall, crash and restart, two leases of a snapshot
\* (reserve_snapshot_launch, renew_snapshot_launch_reservation) lead to opens
\* that were renewed more than a TTL apart.
THEOREM LeasesStayApart == Spec => []LeasesApart
  <1>1. LaunchInv => LeasesApart
    BY DEF LaunchInv, ClaimsApart
  <1> QED
    BY <1>1, LaunchInvariant, PTL

\* Cycles of the production supervisor open no snapshot twice when a snapshot
\* is stale before its reservation is.
THEOREM SupervisedOnce == Spec => []SupervisedLaunchesOnce
  <1>1. LaunchInv => SupervisedLaunchesOnce
    <2> SUFFICES ASSUME LaunchInv, MaxAge <= TTL, NEW a \in opens, NEW b \in opens,
                        a.supervised, b.supervised, a.snap = b.snap
                 PROVE  a = b
      BY DEF SupervisedLaunchesOnce
    <2>1. Fresh(a.snap, a.at) /\ Fresh(a.snap, b.at)
      BY DEF LaunchInv, OpensFresh
    <2>2. a.at \in Nat /\ b.at \in Nat /\ captured[a.snap] \in Nat
      BY <2>1 DEF LaunchInv, TypeOK, Open, Fresh
    <2>3. ~(a.at > b.at + TTL) /\ ~(b.at > a.at + TTL)
      BY <2>1, <2>2, LeaseAssumption, LimitsAssumption DEF Fresh
    <2>4. a.owner = b.owner
      BY <2>3 DEF LaunchInv, ClaimsApart, LeasesApart
    <2> QED
      BY <2>4 DEF LaunchInv, OwnersDiffer
  <1> QED
    BY <1>1, LaunchInvariant, PTL

-----------------------------------------------------------------------------
(* The limits of one worker.  What a step of its cycle does to the fields  *)
(* the limits depend on.                                                   *)

Same(w) == /\ wk'[w].limit = wk[w].limit /\ wk'[w].launched = wk[w].launched
           /\ wk'[w].exposure = wk[w].exposure /\ wk'[w].shadow = wk[w].shadow

\* The candidate stays chosen; the clock may have been read again.
Keeps(w) == Same(w) /\ wk'[w].snap = wk[w].snap /\ wk'[w].read >= wk[w].read

Goes(w, from, to) == wk[w].pc \in from /\ wk'[w].pc = to

Ended(w) == wk'[w] = Idle /\ UNCHANGED opens

Began(w) == /\ Goes(w, {"idle"}, "blocking")
            /\ wk'[w].launched = 0 /\ wk'[w].exposure = {}

Limited(w) == /\ Goes(w, {"blocking"}, "records")
              /\ wk'[w].limit = RouteLimit(Cardinality(InFlight)) /\ wk'[w].limit > 0
              /\ wk'[w].launched = wk[w].launched /\ wk'[w].exposure = wk[w].exposure

Charged(w) == /\ Goes(w, {"budget"}, "list")
              /\ wk'[w].limit = wk[w].limit /\ wk'[w].launched = wk[w].launched
              /\ wk'[w].exposure = Exposed(InFlight)

Unchosen(w) == /\ \/ Goes(w, {"records"}, "budget")
                  \/ Goes(w, {"list", "select", "previous", "launch"}, "select")
               /\ Same(w)

Chose(w) == /\ Goes(w, {"select"}, "previous") /\ Same(w)
            /\ GlobalGate(w, wk'[w].read)

Committed(w) == /\ Goes(w, {"previous"}, "launch") /\ Keeps(w)
                /\ WithinBudget(wk[w].exposure, wk[w].snap)

Claimed(w) == \/ Goes(w, {"launch"}, "reserved") /\ Keeps(w)
              \/ Goes(w, {"reserved"}, "open") /\ Keeps(w)

Recorded(w) == /\ Goes(w, {"observe"}, "select")
               /\ wk'[w].limit = wk[w].limit
               /\ wk'[w].launched = wk[w].launched + 1 /\ wk'[w].launched < wk[w].limit
               /\ wk'[w].exposure = wk[w].exposure \cup {<<wk[w].owner, wk[w].snap>>}

\* A step that neither opens nor journals nor records.
Quiet(w) == \/ Ended(w) \/ Began(w) \/ Limited(w) \/ Charged(w) \/ Unchosen(w)
            \/ Chose(w) \/ Committed(w) \/ Claimed(w)

LEMMA QuietViews ==
  ASSUME CyclesInv, NEW w \in Worker, Step(w),
         ~Submit(w), ~Journal(w), ~RecordLaunch(w)
  PROVE  UNCHANGED opens /\ Quiet(w) /\ (ShadowLaunch(w) \/ UNCHANGED records)
  <1>0. wk \in [Worker -> Cycle] /\ wk[w] \in Cycle /\ Now(w) \subseteq Nat
    BY NowIsTime DEF CyclesInv, TypeOK
  <1>1. \A t \in Now(w) : t >= wk[w].read /\ (wk[w].supervised => t = wk[w].read)
    BY NowIsTime DEF CyclesInv
  <1>2. EndCycle(w) => wk'[w] = Idle
    BY <1>0 DEF EndCycle
  <1>3. CASE StartCycle(w)
    BY <1>0, <1>3 DEF StartCycle, Quiet, Began, Goes, Idle
  <1>4. CASE CheckBlocking(w)
    <2> DEFINE limit == RouteLimit(Cardinality(InFlight))
    <2>1. CASE limit > 0 /\ wk' = [wk EXCEPT ![w].pc = "records", ![w].limit = limit]
      <3> HIDE DEF limit
      <3>1. /\ wk'[w].pc = "records" /\ wk'[w].limit = limit /\ limit > 0
            /\ wk'[w].launched = wk[w].launched /\ wk'[w].exposure = wk[w].exposure
        BY <1>0, <2>1 DEF Cycle
      <3> QED
        BY <1>4, <3>1 DEF CheckBlocking, Quiet, Limited, Goes, limit
    <2> QED
      BY <1>2, <1>4, <2>1 DEF CheckBlocking, Quiet, Ended
  <1>5. CASE CheckRecords(w)
    BY <1>0, <1>2, <1>5 DEF CheckRecords, Quiet, Ended, Unchosen, Goes, Same, Cycle
  <1>6. CASE ReadBudget(w)
    <2> DEFINE e == Exposed(InFlight)
    <2>1. wk' = [wk EXCEPT ![w].pc = "list", ![w].exposure = e] /\ wk[w].pc = "budget"
      BY <1>6 DEF ReadBudget
    <2> HIDE DEF e
    <2>2. /\ wk'[w].pc = "list" /\ wk'[w].exposure = e
          /\ wk'[w].limit = wk[w].limit /\ wk'[w].launched = wk[w].launched
      BY <1>0, <2>1 DEF Cycle
    <2> QED
      BY <1>6, <2>1, <2>2 DEF ReadBudget, Quiet, Charged, Goes, e
  <1>7. CASE ListCandidates(w)
    BY <1>0, <1>7 DEF ListCandidates, Quiet, Unchosen, Goes, Same, Cycle
  <1>8. CASE TakeCandidate(w)
    <2>1. PICK s \in wk[w].left, t \in Now(w) :
             /\ GlobalGate(w, t)
             /\ wk' = [wk EXCEPT ![w].pc = "previous", ![w].read = t,
                                 ![w].snap = s, ![w].left = @ \ {s}]
      BY <1>8 DEF TakeCandidate, LabelGate
    <2>2. wk'[w].pc = "previous" /\ wk'[w].read = t /\ Same(w)
      BY <1>0, <2>1 DEF Cycle, Same
    <2> QED
      BY <1>8, <2>1, <2>2 DEF TakeCandidate, Quiet, Chose, Goes
  <1>9. CASE SkipCandidate(w)
    BY <1>0, <1>9 DEF SkipCandidate, Quiet, Unchosen, Goes, Same, Cycle
  <1>10. CASE CheckPrevious(w)
    <2>1. ASSUME NEW pc, wk' = [wk EXCEPT ![w].pc = pc]
          PROVE  wk'[w].pc = pc /\ Keeps(w)
      BY <1>0, <2>1 DEF Cycle, Keeps, Same
    <2> QED
      BY <1>10, <2>1 DEF CheckPrevious, Quiet, Committed, Unchosen, Goes, Keeps
  <1>11. CASE PreflightFails(w)
    BY <1>0, <1>11 DEF PreflightFails, Quiet, Unchosen, Goes, Same, Cycle
  <1>12. CASE Reserve(w)
    <2>1. PICK t \in Now(w), owner \in Owner :
             \/ wk' = [wk EXCEPT ![w].pc = "reserved", ![w].read = t, ![w].owner = owner]
             \/ wk' = [wk EXCEPT ![w].pc = "select", ![w].read = t]
      BY <1>12 DEF Reserve
    <2>2. Keeps(w) /\ wk'[w].pc \in {"reserved", "select"}
      BY <1>0, <1>1, <2>1 DEF Cycle, Keeps, Same
    <2> QED
      BY <1>12, <2>2 DEF Reserve, Quiet, Claimed, Unchosen, Goes, Keeps
  <1>13. CASE Renew(w)
    <2>1. CASE EndCycle(w)
      BY <1>2, <1>13, <2>1 DEF Renew, Quiet, Ended
    <2>2. ASSUME NEW t \in Now(w), wk' = [wk EXCEPT ![w].pc = "open", ![w].read = t]
          PROVE  wk'[w].pc = "open" /\ Keeps(w)
      BY <1>0, <1>1, <2>2 DEF Cycle, Keeps, Same
    <2> QED
      BY <1>13, <2>1, <2>2 DEF Renew, Quiet, Claimed, Goes
  <1>14. CASE \/ StopAfterLaunch(w) \/ NoCandidateLeft(w) \/ ShadowLaunch(w) \/ PreparationFails(w)
              \/ SubmissionRefused(w) \/ LifecycleRaises(w) \/ Crash(w)
    BY <1>2, <1>14 DEF StopAfterLaunch, NoCandidateLeft, ShadowLaunch, PreparationFails,
         SubmissionRefused, LifecycleRaises, Crash, Quiet, Ended
  <1> QED
    BY <1>3, <1>4, <1>5, <1>6, <1>7, <1>8, <1>9, <1>10, <1>11, <1>12, <1>13, <1>14 DEF Step

LEMMA LaunchViews ==
  ASSUME CyclesInv, NEW w \in Worker
  PROVE  /\ Submit(w) => Goes(w, {"open"}, "sent") /\ Keeps(w) /\ wk'[w].owner = wk[w].owner
         /\ Journal(w) => Goes(w, {"sent"}, "observe") /\ Keeps(w) /\ wk'[w].owner = wk[w].owner
         /\ RecordLaunch(w) => wk'[w] = Idle \/ Recorded(w)
  <1>0. wk \in [Worker -> Cycle] /\ wk[w] \in Cycle
    BY DEF CyclesInv, TypeOK
  <1>1. ASSUME NEW pc, wk' = [wk EXCEPT ![w].pc = pc]
        PROVE  wk'[w].pc = pc /\ Keeps(w) /\ wk'[w].owner = wk[w].owner
    BY <1>0, <1>1 DEF Cycle, Keeps, Same
  <1>2. Submit(w) => Goes(w, {"open"}, "sent") /\ Keeps(w) /\ wk'[w].owner = wk[w].owner
    BY <1>1 DEF Submit, Goes
  <1>3. Journal(w) => Goes(w, {"sent"}, "observe") /\ Keeps(w) /\ wk'[w].owner = wk[w].owner
    BY <1>1 DEF Journal, Goes
  <1>4. ASSUME RecordLaunch(w) PROVE wk'[w] = Idle \/ Recorded(w)
    <2> DEFINE e == wk[w].exposure \cup {<<wk[w].owner, wk[w].snap>>}
    <2>1. CASE EndCycle(w)
      BY <1>0, <2>1 DEF EndCycle
    <2>2. ASSUME NEW t, wk[w].launched + 1 < wk[w].limit,
                 wk' = [wk EXCEPT ![w].pc = "select", ![w].read = t,
                                  ![w].launched = @ + 1, ![w].owner = None,
                                  ![w].exposure = @ \cup {<<wk[w].owner, wk[w].snap>>}]
          PROVE  Recorded(w)
      <3>1. /\ wk'[w].pc = "select" /\ wk'[w].limit = wk[w].limit
            /\ wk'[w].launched = wk[w].launched + 1 /\ wk'[w].exposure = e
        BY <1>0, <2>2 DEF Cycle
      <3>2. wk[w].pc = "observe"
        BY <1>4 DEF RecordLaunch
      <3> QED
        BY <2>2, <3>1, <3>2 DEF Recorded, Goes
    <2> QED
      BY <1>4, <2>1, <2>2 DEF RecordLaunch
  <1> QED
    BY <1>2, <1>3, <1>4

-----------------------------------------------------------------------------
(* Active live executions.                                                 *)

MostActive == IF MaxActive = 0 THEN 1 ELSE MaxActive

\* A cycle that reads the executions once has room for all it may still launch;
\* from its journal on, the launch under way is among the executions.
RoomFor(c, room) ==
    /\ c.pc \in {"idle", "blocking"} => c.launched = 0
    /\ c.pc \notin {"idle", "blocking"} =>
          /\ c.launched < c.limit
          /\ IF c.pc = "observe" THEN c.limit <= room + c.launched + 1
                                 ELSE c.limit <= room + c.launched

RoomInv == /\ ActiveWithinLimit
           /\ \A w \in Worker : RoomFor(wk[w], MostActive - Cardinality(InFlight))

LEMMA PartFinite ==
  ASSUME NEW os, IsFiniteSet(os), NEW part \in SUBSET os
  PROVE  IsFiniteSet(part) /\ Cardinality(part) \in Nat
  BY FS_Subset, FS_CardinalityType

LEMMA InFlightFinite ==
  /\ TypeOK => IsFiniteSet(InFlight) /\ Cardinality(InFlight) \in Nat
  /\ TypeOK' => IsFiniteSet(InFlight') /\ Cardinality(InFlight') \in Nat
  <1>1. InFlight \in SUBSET opens /\ InFlight' \in SUBSET opens'
    BY DEF InFlight
  <1> QED
    BY <1>1, PartFinite DEF TypeOK

\* An observation keeps or lowers the number of executions in flight, and a
\* journal entry adds one at most.
LEMMA MoveToCount ==
  ASSUME TypeOK, TypeOK', NEW o \in opens,
         NEW state \in {"unobserved", "active", "settled", "rejected"}, MoveTo(o, state)
  PROVE  /\ Cardinality(InFlight') <= Cardinality(InFlight) + 1
         /\ o \in InFlight => Cardinality(InFlight') <= Cardinality(InFlight)
  <1> DEFINE p == [o EXCEPT !.state = state]
             rest == InFlight \ {o}
  <1>1. IsFiniteSet(InFlight) /\ Cardinality(InFlight) \in Nat /\ Cardinality(InFlight') \in Nat
    BY InFlightFinite
  <1>2. InFlight' \in SUBSET (rest \cup {p})
    BY DEF MoveTo, InFlight
  <1> HIDE DEF p
  <1>3. IsFiniteSet(rest) /\ Cardinality(rest) \in Nat
        /\ Cardinality(rest) = IF o \in InFlight THEN Cardinality(InFlight) - 1 ELSE Cardinality(InFlight)
    BY <1>1, FS_RemoveElement, FS_CardinalityType
  <1> HIDE DEF rest
  <1>4. /\ IsFiniteSet(rest \cup {p})
        /\ Cardinality(rest \cup {p}) <= Cardinality(rest) + 1
        /\ Cardinality(rest \cup {p}) \in Nat
    <2>1. /\ IsFiniteSet(rest \cup {p})
          /\ Cardinality(rest \cup {p}) \in {Cardinality(rest), Cardinality(rest) + 1}
      BY <1>3, FS_AddElement
    <2> QED
      BY <1>3, <2>1
  <1>5. Cardinality(InFlight') <= Cardinality(rest \cup {p})
    BY <1>2, <1>4, FS_Subset
  <1> QED
    BY <1>1, <1>3, <1>4, <1>5

\* What Observe does to the opens.
LEMMA Observed ==
  ASSUME TypeOK, Observe
  PROVE  \E o \in InFlight, state \in {"active", "settled"} : o \in opens /\ MoveTo(o, state)
  BY DEF Observe, InFlight

OneWorker == \A v, w \in Worker : v = w

LEMMA RoomLasts ==
  ASSUME LaunchInv, LaunchInv', RoomInv, OneWorker, [Next]_vars
  PROVE  RoomInv'
  <1> DEFINE n == Cardinality(InFlight)
  <1>0. TypeOK /\ TypeOK' /\ CyclesInv /\ MostActive \in Nat /\ n \in Nat /\ n' \in Nat /\ n <= MostActive
    <2>1. TypeOK /\ TypeOK' /\ CyclesInv
      BY DEF LaunchInv, CyclesInv
    <2>2. n \in Nat /\ n' \in Nat
      BY <2>1, InFlightFinite
    <2> QED
      BY <2>1, <2>2, LimitsAssumption DEF MostActive, RoomInv, ActiveWithinLimit
  <1>1. ASSUME UNCHANGED wk, n' <= n
        PROVE  RoomInv'
    <2>1. ASSUME NEW w \in Worker PROVE RoomFor(wk'[w], MostActive - n')
      <3>1. wk[w].launched \in Nat /\ wk[w].limit \in Nat
        BY <1>0 DEF TypeOK, Cycle
      <3> QED
        BY <1>0, <1>1, <3>1 DEF RoomInv, RoomFor
    <2>2. ActiveWithinLimit'
      BY <1>0, <1>1 DEF ActiveWithinLimit, MostActive
    <2> HIDE DEF n
    <2>3. \A w \in Worker : RoomFor(wk'[w], MostActive - Cardinality(InFlight'))
      BY <2>1 DEF n
    <2> QED
      BY <2>2, <2>3 DEF RoomInv
  <1>2. ASSUME NEW w \in Worker, Step(w)
        PROVE  RoomInv'
    <2>0. /\ wk[w].launched \in Nat /\ wk[w].limit \in Nat
          /\ wk'[w].launched \in Nat /\ wk'[w].limit \in Nat
          /\ RoomFor(wk[w], MostActive - n)
      BY <1>0 DEF TypeOK, Cycle, RoomInv
    <2>1. RoomFor(wk'[w], MostActive - n') /\ n' <= MostActive
      <3>1. CASE Journal(w)
        <4>1. n' <= n + 1
          <5>1. PICK o \in opens, state \in {"unobserved", "rejected"} : MoveTo(o, state)
            BY <3>1 DEF Journal
          <5> QED
            BY <1>0, <5>1, MoveToCount
        <4>2. Goes(w, {"sent"}, "observe") /\ Keeps(w)
          BY <1>0, <3>1, LaunchViews
        <4> QED
          BY <1>0, <2>0, <4>1, <4>2 DEF RoomFor, Goes, Keeps, Same
      <3>2. CASE Submit(w)
        <4>1. InFlight' = InFlight
          BY <3>2 DEF Submit, InFlight
        <4>2. Goes(w, {"open"}, "sent") /\ Keeps(w)
          BY <1>0, <3>2, LaunchViews
        <4> QED
          BY <1>0, <2>0, <4>1, <4>2 DEF RoomFor, Goes, Keeps, Same
      <3>3. CASE RecordLaunch(w)
        <4>1. InFlight' = InFlight
          BY <3>3 DEF RecordLaunch, InFlight
        <4>2. wk'[w] = Idle \/ Recorded(w)
          BY <1>0, <3>3, LaunchViews
        <4> QED
          BY <1>0, <2>0, <4>1, <4>2 DEF RoomFor, Goes, Recorded, Idle
      <3>4. CASE ~Journal(w) /\ ~Submit(w) /\ ~RecordLaunch(w)
        <4>1. Quiet(w) /\ UNCHANGED opens
          BY <1>0, <1>2, <3>4, QuietViews
        <4>2. n' = n
          BY <4>1 DEF InFlight
        <4>3. CASE Ended(w) \/ Began(w)
          BY <1>0, <2>0, <4>2, <4>3 DEF RoomFor, Goes, Ended, Began, Idle
        <4>4. CASE Limited(w)
          <5>1. wk'[w].limit <= MostActive - n
            BY <1>0, <2>0, <4>4, LimitsAssumption DEF Limited, RouteLimit, MostActive
          <5>2. wk'[w].launched = 0 /\ wk'[w].pc = "records" /\ wk'[w].limit > 0
            BY <2>0, <4>4 DEF Limited, Goes, RoomFor
          <5> QED
            BY <1>0, <2>0, <4>2, <5>1, <5>2 DEF RoomFor
        <4>5. CASE Charged(w) \/ Unchosen(w) \/ Chose(w) \/ Committed(w) \/ Claimed(w)
          BY <1>0, <2>0, <4>2, <4>5
             DEF RoomFor, Goes, Charged, Unchosen, Chose, Committed, Claimed, Keeps, Same
        <4> QED
          BY <4>1, <4>3, <4>4, <4>5 DEF Quiet
      <3> QED
        BY <3>1, <3>2, <3>3, <3>4
    <2>2. \A v \in Worker : v = w
      BY DEF OneWorker
    <2> QED
      BY <2>1, <2>2 DEF RoomInv, ActiveWithinLimit, MostActive
  <1>3. CASE Observe
    <2>1. PICK o \in InFlight, state \in {"active", "settled"} : o \in opens /\ MoveTo(o, state)
      BY <1>0, <1>3, Observed
    <2> QED
      BY <1>0, <1>1, <1>3, <2>1, MoveToCount DEF Observe
  <1>4. CASE Tick \/ (\E s \in Snapshot : CacheSnapshot(s)) \/ UNCHANGED vars
    <2>1. UNCHANGED <<wk, opens>>
      BY <1>4 DEF Tick, CacheSnapshot, vars
    <2> QED
      BY <1>0, <1>1, <2>1 DEF InFlight
  <1> QED
    BY <1>2, <1>3, <1>4 DEF Next

-----------------------------------------------------------------------------
(* The rate of recorded launches.                                          *)

Launched(rs) == {i \in DOMAIN rs : rs[i].status = "launched"}

LaunchedSince(rs, i, t) == {j \in Launched(rs) : j < i /\ rs[j].at >= t}

RateHolds(rs) ==
    \A i \in Launched(rs) :
        /\ Cardinality(LaunchedSince(rs, i, rs[i].at - Window)) < MaxLaunches
        /\ LaunchedSince(rs, i, rs[i].at - Cooldown + 1) = {}

\* A candidate is chosen behind the global gates, which only open with time.
Paced(w) == wk[w].pc \in Chosen => GlobalGate(w, wk[w].read)

PaceInv == LaunchRateWithinCap /\ \A w \in Worker : Paced(w)

LEMMA RateIsHeld == LaunchRateWithinCap <=> RateHolds(records)
  BY DEF LaunchRateWithinCap, RateHolds, LaunchedSince, Launched

\* The records do not change the rate of earlier ones.
LEMMA RateOfAppend ==
  ASSUME NEW rs \in Seq(Record), NEW r \in Record, RateHolds(rs),
         r.status = "launched" =>
            /\ Cardinality({j \in Launched(rs) : rs[j].at >= r.at - Window}) < MaxLaunches
            /\ \A j \in Launched(rs) : ~(rs[j].at >= r.at - Cooldown + 1)
  PROVE  RateHolds(Append(rs, r))
  <1> DEFINE n  == Len(rs)
             as == Append(rs, r)
  <1>1. /\ n \in Nat /\ DOMAIN rs = 1..n /\ DOMAIN as = 1..(n + 1)
        /\ as[n + 1] = r /\ \A i \in 1..n : as[i] = rs[i]
    OBVIOUS
  <1> HIDE DEF n, as
  <1>2. ASSUME NEW i \in 1..n, NEW t
        PROVE  LaunchedSince(as, i, t) = LaunchedSince(rs, i, t)
    <2>1. \A j \in 1..(n + 1) : j < i => j \in 1..n
      BY <1>1
    <2>2. \A j \in 1..n : j \in 1..(n + 1)
      BY <1>1
    <2>3. \A j : j \in LaunchedSince(as, i, t) <=> j \in LaunchedSince(rs, i, t)
      BY <1>1, <2>1, <2>2 DEF LaunchedSince, Launched
    <2> QED
      BY <2>3 DEF LaunchedSince
  <1>3. ASSUME NEW t
        PROVE  LaunchedSince(as, n + 1, t) = {j \in Launched(rs) : rs[j].at >= t}
    <2>1. \A j : j \in 1..(n + 1) /\ j < n + 1 <=> j \in 1..n
      BY <1>1
    <2>2. \A j : j \in LaunchedSince(as, n + 1, t) <=> j \in {m \in Launched(rs) : rs[m].at >= t}
      BY <1>1, <2>1 DEF LaunchedSince, Launched
    <2> QED
      BY <2>2 DEF LaunchedSince
  <1>4. ASSUME NEW i \in Launched(as)
        PROVE  /\ Cardinality(LaunchedSince(as, i, as[i].at - Window)) < MaxLaunches
               /\ LaunchedSince(as, i, as[i].at - Cooldown + 1) = {}
    <2>1. CASE i \in 1..n
      <3>1. i \in Launched(rs) /\ as[i] = rs[i]
        BY <1>1, <1>4, <2>1 DEF Launched
      <3> QED
        BY <1>2, <2>1, <3>1 DEF RateHolds
    <2>2. CASE i = n + 1
      <3>1. as[i] = r /\ r.status = "launched"
        BY <1>1, <1>4, <2>2 DEF Launched
      <3>2. Cardinality(LaunchedSince(as, i, r.at - Window)) < MaxLaunches
        BY <1>3, <2>2, <3>1
      <3>3. LaunchedSince(as, i, r.at - Cooldown + 1) = {}
        BY <1>3, <2>2, <3>1
      <3> QED
        BY <3>1, <3>2, <3>3
    <2>3. i \in 1..(n + 1)
      BY <1>1, <1>4 DEF Launched
    <2>4. i \in 1..n \/ i = n + 1
      BY <1>1, <2>3
    <2> QED
      BY <2>1, <2>2, <2>4
  <1> QED
    BY <1>4 DEF RateHolds, as

LEMMA RecordTimes ==
  ASSUME TypeOK
  PROVE  /\ DOMAIN records = 1..Len(records) /\ Len(records) \in Nat
         /\ \A i \in DOMAIN records : records[i].at \in Nat
         /\ IsFiniteSet(DOMAIN records)
  <1>1. DOMAIN records = 1..Len(records) /\ Len(records) \in Nat
    BY DEF TypeOK
  <1>2. \A i \in DOMAIN records : records[i] \in Record
    BY DEF TypeOK
  <1>3. IsFiniteSet(1..Len(records))
    BY <1>1, FS_Interval
  <1> QED
    BY <1>1, <1>2, <1>3 DEF Record

\* Of finitely many records one is the latest.
LEMMA LatestRecord ==
  ASSUME TypeOK, NEW S \in SUBSET DOMAIN records, S # {}
  PROVE  \E i \in S : \A j \in S : records[j].at <= records[i].at
  <1> DEFINE Later(i) == {j \in S : records[j].at > records[i].at}
             All == {Later(i) : i \in S}
  <1>1. IsFiniteSet(DOMAIN records) /\ \A i \in DOMAIN records : records[i].at \in Nat
    BY RecordTimes
  <1>2. IsFiniteSet(S)
    BY <1>1, FS_Subset
  <1>3. PICK T \in All : \A s \in SUBSET T : s # T => s \notin All
    <2>1. PICK i \in S : TRUE
      OBVIOUS
    <2>2. Later(i) \in All
      BY <2>1
    <2>3. All \in SUBSET SUBSET S /\ All # {}
      BY <2>2
    <2> HIDE DEF All
    <2> QED
      BY <1>2, <2>3, SmallestSet
  <1>4. PICK i \in S : T = Later(i)
    OBVIOUS
  <1>5. ASSUME NEW j \in S, records[j].at > records[i].at
        PROVE  FALSE
    <2>1. j \in Later(i) /\ j \notin Later(j)
      BY <1>1, <1>5
    <2>2. \A m \in S : records[m].at > records[j].at => records[m].at > records[i].at
      BY <1>1, <1>5
    <2>3. Later(j) \in SUBSET Later(i) /\ Later(j) # Later(i) /\ Later(j) \in All
      BY <2>1, <2>2
    <2> QED
      BY <1>3, <1>4, <2>3
  <1>6. \A j \in S : records[j].at <= records[i].at
    BY <1>1, <1>4, <1>5
  <1> QED
    BY <1>6

\* What the global gates let through, at the time they are passed or later.
LEMMA GatePassed ==
  ASSUME TypeOK, NEW w \in Worker, NEW t \in Nat, NEW u \in Nat, u >= t, GlobalGate(w, t)
  PROVE  /\ GlobalGate(w, u)
         /\ \A j \in Effective(w) : ~(records[j].at >= u - Cooldown + 1)
         /\ Cardinality({j \in Launched(records) : records[j].at >= u - Window}) < MaxLaunches
  <1> DEFINE E == Effective(w)
             In(S, x) == {i \in S : records[i].at >= x - Window}
  <1>1. /\ \A i \in DOMAIN records : records[i].at \in Nat
        /\ E \in SUBSET DOMAIN records /\ Launched(records) \in SUBSET E
        /\ IsFiniteSet(DOMAIN records)
    BY RecordTimes DEF Effective, Launched
  <1>2. Cooldown \in Int /\ Window \in Int /\ MaxLaunches \in Int
    BY LimitsAssumption
  <1>3. ~Cooling(E, Cooldown, t) /\ ~(Cardinality(In(E, t)) >= MaxLaunches)
    BY DEF GlobalGate, Capped
  <1>4. \A x \in {t, u} : IsFiniteSet(In(E, x)) /\ Cardinality(In(E, x)) \in Nat
    <2>1. ASSUME NEW x \in {t, u} PROVE IsFiniteSet(In(E, x)) /\ Cardinality(In(E, x)) \in Nat
      <3>1. In(E, x) \in SUBSET DOMAIN records
        BY <1>1
      <3> HIDE DEF In
      <3> QED
        BY <1>1, <3>1, PartFinite
    <2> QED
      BY <2>1
  <1>5. In(E, u) \in SUBSET In(E, t) /\ In(Launched(records), u) \in SUBSET In(E, u)
    BY <1>1, <1>2
  <1>6. /\ Cardinality(In(E, u)) < MaxLaunches
        /\ Cardinality(In(Launched(records), u)) < MaxLaunches
    <2> HIDE DEF In, E
    <2>1. Cardinality(In(E, u)) <= Cardinality(In(E, t))
      BY <1>4, <1>5, FS_Subset
    <2>2. /\ Cardinality(In(Launched(records), u)) <= Cardinality(In(E, u))
          /\ Cardinality(In(Launched(records), u)) \in Nat
      BY <1>4, <1>5, FS_Subset, FS_CardinalityType
    <2> QED
      BY <1>2, <1>3, <1>4, <2>1, <2>2
  <1>7. ASSUME NEW j \in E
        PROVE  records[j].at <= t - Cooldown
    <2>1. PICK i \in E : \A k \in E : records[k].at <= records[i].at
      <3> HIDE DEF E
      <3> QED
        BY <1>1, LatestRecord
    <2>2. ~(t - records[i].at < Cooldown)
      BY <1>3, <2>1 DEF Cooling
    <2> QED
      BY <1>1, <1>2, <2>1, <2>2
  <1>8. ~Cooling(E, Cooldown, u)
    BY <1>1, <1>2, <1>7 DEF Cooling
  <1>9. \A j \in E : ~(records[j].at >= u - Cooldown + 1)
    BY <1>1, <1>2, <1>7
  <1> QED
    BY <1>2, <1>4, <1>6, <1>8, <1>9 DEF GlobalGate, Capped

LEMMA PaceLasts ==
  ASSUME LaunchInv, LaunchInv', PaceInv, OneWorker, [Next]_vars
  PROVE  PaceInv'
  <1>0. TypeOK /\ TypeOK' /\ CyclesInv /\ records \in Seq(Record) /\ RateHolds(records)
    BY RateIsHeld DEF LaunchInv, CyclesInv, PaceInv, TypeOK
  <1>1. ASSUME UNCHANGED <<wk, records>>
        PROVE  PaceInv'
    BY <1>1 DEF PaceInv, LaunchRateWithinCap, Paced, GlobalGate, Cooling, Capped, Effective
  <1>2. ASSUME NEW w \in Worker, Step(w)
        PROVE  PaceInv'
    <2>1. wk[w].read \in Nat /\ wk'[w].read \in Nat /\ Paced(w)
      BY <1>0 DEF TypeOK, Cycle, PaceInv
    <2>2. ASSUME UNCHANGED records, GlobalGate(w, wk'[w].read), wk'[w].shadow = wk[w].shadow
          PROVE  Paced(w)'
      BY <2>2 DEF Paced, GlobalGate, Cooling, Capped, Effective
    <2>3. ASSUME UNCHANGED records, wk[w].pc \in Chosen, Keeps(w)
          PROVE  Paced(w)'
      <3>1. PICK t, u : t = wk[w].read /\ u = wk'[w].read
        OBVIOUS
      <3>2. u >= t /\ GlobalGate(w, t) /\ t \in Nat /\ u \in Nat
        BY <2>1, <2>3, <3>1 DEF Keeps, Paced
      <3>3. GlobalGate(w, u)
        BY <1>0, <3>2, GatePassed
      <3> QED
        BY <2>2, <2>3, <3>1, <3>3 DEF Keeps, Same
    <2>4. wk'[w].pc \notin Chosen => Paced(w)'
      BY DEF Paced
    <2>5. Paced(w)' /\ RateHolds(records')
      <3>1. CASE Journal(w) \/ Submit(w)
        <4>1. UNCHANGED records /\ wk[w].pc \in Chosen
          BY <3>1 DEF Journal, Submit, Chosen, Opening, Holding
        <4>2. Keeps(w)
          BY <1>0, <3>1, LaunchViews
        <4> QED
          BY <1>0, <2>3, <4>1, <4>2
      <3>2. CASE RecordLaunch(w)
        <4>1. wk'[w].pc \notin Chosen
          BY <1>0, <3>2, LaunchViews DEF Recorded, Goes, Idle, Chosen, Opening, Holding
        <4>2. PICK t \in Now(w) :
                 records' = Append(records, [snap |-> wk[w].snap, status |-> "launched", at |-> t])
          BY <3>2 DEF RecordLaunch
        <4>3. PICK r : r = [snap |-> wk[w].snap, status |-> "launched", at |-> t]
          OBVIOUS
        <4>4. t \in Nat /\ t >= wk[w].read
          BY <1>0, NowIsTime
        <4>5. r \in Record /\ r.at = t
          <5>1. wk[w].snap \in Snapshot
            BY <3>2 DEF LaunchInv, CyclesKnow, Knows, Chosen, Opening, RecordLaunch
          <5> QED
            BY <4>3, <4>4, <5>1 DEF Record
        <4>6. /\ Cardinality({j \in Launched(records) : records[j].at >= t - Window}) < MaxLaunches
              /\ \A j \in Effective(w) : ~(records[j].at >= t - Cooldown + 1)
          <5>1. PICK u : u = wk[w].read
            OBVIOUS
          <5>2. GlobalGate(w, u) /\ u \in Nat /\ t >= u
            BY <2>1, <3>2, <4>4, <5>1 DEF Paced, RecordLaunch, Chosen, Opening
          <5> QED
            BY <1>0, <4>4, <5>2, GatePassed
        <4>7. Launched(records) \subseteq Effective(w)
          BY DEF Launched, Effective
        <4>8. RateHolds(Append(records, r))
          <5>1. PICK rs : rs = records
            OBVIOUS
          <5>2. /\ Cardinality({j \in Launched(rs) : rs[j].at >= r.at - Window}) < MaxLaunches
                /\ \A j \in Launched(rs) : ~(rs[j].at >= r.at - Cooldown + 1)
            BY <4>5, <4>6, <4>7, <5>1
          <5>3. rs \in Seq(Record) /\ RateHolds(rs)
            BY <1>0, <5>1
          <5>4. RateHolds(Append(rs, r))
            BY <4>5, <5>2, <5>3, RateOfAppend
          <5> QED
            BY <5>1, <5>4
        <4> QED
          BY <2>4, <4>1, <4>2, <4>3, <4>8
      <3>3. CASE ShadowLaunch(w)
        <4>1. wk'[w].pc \notin Chosen
          BY <1>0, <3>3 DEF ShadowLaunch, EndCycle, Idle, Chosen, Opening, Holding, TypeOK
        <4>2. PICK r : r = [snap |-> wk[w].snap, status |-> "shadowed", at |-> wk[w].start]
          OBVIOUS
        <4>3. r \in Record /\ r.status # "launched"
          <5>1. wk[w].snap \in Snapshot /\ wk[w].start \in Nat
            BY <1>0, <3>3 DEF LaunchInv, CyclesKnow, Knows, Chosen, ShadowLaunch, TypeOK, Cycle
          <5> QED
            BY <4>2, <5>1 DEF Record
        <4>4. RateHolds(Append(records, r))
          <5>1. PICK rs : rs = records
            OBVIOUS
          <5>2. rs \in Seq(Record) /\ RateHolds(rs)
            BY <1>0, <5>1
          <5>3. RateHolds(Append(rs, r))
            BY <4>3, <5>2, RateOfAppend
          <5> QED
            BY <5>1, <5>3
        <4> QED
          BY <2>4, <3>3, <4>1, <4>2, <4>4 DEF ShadowLaunch
      <3>4. CASE ~Journal(w) /\ ~Submit(w) /\ ~RecordLaunch(w) /\ ~ShadowLaunch(w)
        <4>1. Quiet(w) /\ UNCHANGED records
          BY <1>0, <1>2, <3>4, QuietViews
        <4>2. CASE Ended(w) \/ Began(w) \/ Limited(w) \/ Charged(w) \/ Unchosen(w)
          <5>1. wk'[w].pc \notin Chosen
            BY <4>2 DEF Goes, Ended, Began, Limited, Charged, Unchosen, Idle, Chosen, Opening, Holding
          <5> QED
            BY <1>0, <2>4, <4>1, <5>1
        <4>3. CASE Chose(w)
          BY <1>0, <2>2, <4>1, <4>3 DEF Chose, Same
        <4>4. CASE Committed(w) \/ Claimed(w)
          <5>1. wk[w].pc \in Chosen /\ Keeps(w)
            BY <4>4 DEF Committed, Claimed, Goes, Chosen, Opening, Holding
          <5> QED
            BY <1>0, <2>3, <4>1, <5>1
        <4> QED
          BY <4>1, <4>2, <4>3, <4>4 DEF Quiet
      <3> QED
        BY <3>1, <3>2, <3>3, <3>4
    <2>6. \A v \in Worker : v = w
      BY DEF OneWorker
    <2>7. LaunchRateWithinCap'
      BY <2>5 DEF LaunchRateWithinCap, RateHolds, LaunchedSince, Launched
    <2> QED
      BY <2>5, <2>6, <2>7 DEF PaceInv
  <1>3. CASE Observe \/ Tick \/ (\E s \in Snapshot : CacheSnapshot(s)) \/ UNCHANGED vars
    BY <1>1, <1>3 DEF Observe, Tick, CacheSnapshot, vars
  <1> QED
    BY <1>2, <1>3 DEF Next

-----------------------------------------------------------------------------
(* The live notional.                                                      *)

\* The member of a set that is added last.
AnyOf(s) == CHOOSE x \in s : TRUE

\* Total computes one sum over all the exposures.
LEMMA TotalComputed ==
  ASSUME NEW S \in SUBSET (Owner \X Snapshot), IsFiniteSet(S)
  PROVE  \E g : /\ Adds(g, S, [e \in S |-> Notional[e[2]]])
                /\ \A T \in SUBSET S : Total(T) = g[T]
  <1> DEFINE v     == [e \in S |-> Notional[e[2]]]
             first == [s \in SUBSET S |-> AnyOf(s)]
             step  == [p \in S \X Nat |-> v[p[1]] + p[2]]
  <1>1. Chooses(first, S) /\ v \in [S -> Nat] /\ step \in [S \X Nat -> Nat]
    <2>1. \A e \in S : Notional[e[2]] \in Nat
      BY SnapshotAssumption
    <2>2. v \in [S -> Nat]
      BY <2>1
    <2>3. step \in [S \X Nat -> Nat]
      <3> HIDE DEF v
      <3> QED
        BY <2>2
    <2> QED
      BY <2>2, <2>3 DEF Chooses, AnyOf
  <1>2. PICK g : Computes(g, S, Nat, first, step, 0)
    <2> HIDE DEF v, first, step
    <2> QED
      BY <1>1, FoldExists
  <1>3. Adds(g, S, v)
    <2>1. Computes(g, S, Nat, first, [p \in S \X Nat |-> v[p[1]] + p[2]], 0)
      BY <1>2
    <2> HIDE DEF v, first
    <2> QED
      BY <1>1, <2>1, AnyOrder
  <1>4. ASSUME NEW T \in SUBSET S
        PROVE  Total(T) = g[T]
    <2> DEFINE Rec(h) == h = [s \in SUBSET T |->
                                IF s = {} THEN 0 ELSE Notional[AnyOf(s)[2]] + h[s \ {AnyOf(s)}]]
               iter == CHOOSE h : Rec(h)
               k == [s \in SUBSET T |-> g[s]]
    <2>1. Total(T) = iter[T]
      BY DEF Total, MapThenSumSet, MapThenFoldSet, AnyOf
    <2>2. Computes(k, T, Nat, first, step, 0)
      <3>1. k = [s \in SUBSET T |-> g[s]]
        OBVIOUS
      <3> HIDE DEF first, step, k
      <3> QED
        BY <1>2, <3>1, FoldOfPart
    <2>3. ASSUME NEW h, NEW s \in SUBSET T, s # {}, h[s \ {AnyOf(s)}] \in Nat
          PROVE  step[<<first[s], h[s \ {first[s]}]>>] = Notional[AnyOf(s)[2]] + h[s \ {AnyOf(s)}]
      BY <1>1, <2>3 DEF Chooses
    <2>4. Rec(k)
      <3>1. ASSUME NEW s \in SUBSET T, s # {}
            PROVE  k[s] = Notional[AnyOf(s)[2]] + k[s \ {AnyOf(s)}]
        <4> HIDE DEF k, step
        <4>1. k[s] = step[<<first[s], k[s \ {first[s]}]>>] /\ first[s] = AnyOf(s)
          BY <2>2, <3>1 DEF Computes
        <4>2. k[s \ {AnyOf(s)}] \in Nat
          BY <2>2 DEF Computes
        <4> QED
          BY <2>3, <3>1, <4>1, <4>2
      <3>2. k[{}] = 0
        BY <2>2 DEF Computes
      <3> QED
        BY <3>1, <3>2
    <2>5. Rec(iter)
      <3> HIDE DEF k
      <3> QED
        BY <2>4
    <2> HIDE DEF iter, k, first, step
    <2>6. Follows(iter, T, Nat, first, step, 0)
      <3>1. iter[{}] = 0
        BY <2>5
      <3>2. ASSUME NEW s \in SUBSET T, s # {}, iter[s \ {first[s]}] \in Nat
            PROVE  iter[s] = step[<<first[s], iter[s \ {first[s]}]>>]
        <4>1. first[s] = AnyOf(s)
          BY DEF first
        <4> QED
          BY <2>3, <2>5, <3>2, <4>1
      <3> QED
        BY <3>1, <3>2 DEF Follows
    <2>7. iter[T] = k[T]
      <3>1. IsFiniteSet(T) /\ Chooses(first, T)
        BY <1>1, FS_Subset DEF Chooses
      <3> QED
        BY <2>2, <2>6, <3>1, FoldUnique
    <2> QED
      BY <2>1, <2>7 DEF k
  <1> HIDE DEF first, step
  <1> QED
    BY <1>3, <1>4

\* A total is a natural, more exposure is no less, and one more open adds its
\* notional at most.
LEMMA TotalGrows ==
  ASSUME NEW S \in SUBSET (Owner \X Snapshot), IsFiniteSet(S), NEW T \in SUBSET S,
         NEW k \in Owner, NEW s \in Snapshot
  PROVE  /\ Total(S) \in Nat /\ Total({}) = 0
         /\ Total(T) <= Total(S)
         /\ Total(S \cup {<<k, s>>}) <= Total(S) + Notional[s]
  <1> DEFINE U == S \cup {<<k, s>>}
             v == [e \in U |-> Notional[e[2]]]
  <1>1. U \in SUBSET (Owner \X Snapshot) /\ IsFiniteSet(U) /\ S \in SUBSET U /\ T \in SUBSET U
    <2>1. <<k, s>> \in Owner \X Snapshot
      OBVIOUS
    <2>2. IsFiniteSet(U)
      BY FS_AddElement
    <2> QED
      BY <2>1, <2>2
  <1>2. v \in [U -> Nat]
    <2>1. \A e \in U : e[2] \in Snapshot
      BY <1>1
    <2> QED
      BY <2>1, SnapshotAssumption
  <1>3. PICK g : Adds(g, U, v) /\ \A V \in SUBSET U : Total(V) = g[V]
    <2> HIDE DEF U
    <2> QED
      BY <1>1, TotalComputed
  <1>4. g[S] \in Nat /\ g[T] \in Nat /\ g[{}] = 0 /\ g[U] \in Nat
    BY <1>1, <1>3 DEF Adds
  <1>5. g[T] <= g[S]
    <2> HIDE DEF U, v
    <2> QED
      BY <1>1, <1>2, <1>3, LargerSum
  <1>6. g[U] <= g[S] + Notional[s]
    <2>1. CASE <<k, s>> \in S
      <3>1. U = S /\ Notional[s] \in Nat
        BY <2>1, SnapshotAssumption
      <3> HIDE DEF U
      <3> QED
        BY <1>4, <3>1
    <2>2. CASE <<k, s>> \notin S
      <3>1. U \ {<<k, s>>} = S /\ <<k, s>> \in U /\ v[<<k, s>>] = Notional[s]
        BY <2>2
      <3>2. g[U] = v[<<k, s>>] + g[U \ {<<k, s>>}]
        BY <1>3, <3>1 DEF Adds
      <3> QED
        BY <1>4, <3>1, <3>2, SnapshotAssumption
    <2> QED
      BY <2>1, <2>2
  <1> QED
    BY <1>1, <1>3, <1>4, <1>5, <1>6

\* The exposure a cycle has read and added to covers what is in flight, but for
\* the launch it has just journaled; that fits the budget as well.
BudgetFor(c) ==
    /\ IsFiniteSet(c.exposure)
    /\ c.pc \notin {"idle", "blocking", "records", "budget"} =>
          Exposed(InFlight) \subseteq
              c.exposure \cup (IF c.pc = "observe" THEN {<<c.owner, c.snap>>} ELSE {})
    /\ c.pc \in Opening \cup {"launch"} => WithinBudget(c.exposure, c.snap)
    /\ c.pc = "sent" => \A o \in opens : o.owner = c.owner => o.snap = c.snap

BudgetInv == NotionalWithinBudget /\ \A w \in Worker : BudgetFor(wk[w])

LEMMA ExposedFinite ==
  ASSUME NEW os \in SUBSET Open, IsFiniteSet(os)
  PROVE  IsFiniteSet(Exposed(os)) /\ Exposed(os) \in SUBSET (Owner \X Snapshot)
  <1> DEFINE f == [o \in os |-> <<o.owner, o.snap>>]
  <1>1. f \in Surjection(os, Exposed(os))
    BY DEF Exposed, Surjection
  <1>2. IsFiniteSet(Exposed(os))
    <2> HIDE DEF f
    <2> QED
      BY <1>1, FS_Surjection
  <1>3. Exposed(os) \in SUBSET (Owner \X Snapshot)
    BY DEF Exposed, Open
  <1> QED
    BY <1>2, <1>3

LEMMA InFlightExposed ==
  ASSUME TypeOK
  PROVE  IsFiniteSet(Exposed(InFlight)) /\ Exposed(InFlight) \in SUBSET (Owner \X Snapshot)
  <1>1. InFlight \in SUBSET Open /\ IsFiniteSet(InFlight)
    BY InFlightFinite DEF InFlight, TypeOK
  <1>2. PICK os : os = InFlight
    OBVIOUS
  <1> QED
    BY <1>1, <1>2, ExposedFinite

\* What becomes of an open changes neither its owner nor its snapshot.
LEMMA MoveToExposes ==
  ASSUME TypeOK, NEW o \in opens, NEW state, MoveTo(o, state)
  PROVE  /\ Exposed(InFlight') \subseteq Exposed(InFlight) \cup {<<o.owner, o.snap>>}
         /\ \A p \in opens' : \E q \in opens : p.owner = q.owner /\ p.snap = q.snap
  <1> DEFINE p == [o EXCEPT !.state = state]
  <1>1. o \in Open
    BY DEF TypeOK
  <1>2. p.owner = o.owner /\ p.snap = o.snap
    BY <1>1 DEF Open
  <1>3. opens' = (opens \ {o}) \cup {p}
    BY DEF MoveTo
  <1> HIDE DEF p
  <1>4. InFlight' \subseteq InFlight \cup {p}
    BY <1>3 DEF InFlight
  <1>5. Exposed(InFlight') \subseteq Exposed(InFlight) \cup {<<o.owner, o.snap>>}
    BY <1>2, <1>4 DEF Exposed
  <1> QED
    BY <1>2, <1>3, <1>5

LEMMA BudgetLasts ==
  ASSUME LaunchInv, LaunchInv', BudgetInv, OneWorker, [Next]_vars
  PROVE  BudgetInv'
  <1>0. TypeOK /\ TypeOK' /\ CyclesInv /\ MaxNotional \in Nat
    BY LimitsAssumption DEF LaunchInv, CyclesInv
  <1>1. IsFiniteSet(Exposed(InFlight)) /\ Exposed(InFlight) \in SUBSET (Owner \X Snapshot)
    BY <1>0, InFlightExposed
  <1>2. ASSUME Exposed(InFlight') \subseteq Exposed(InFlight)
        PROVE  NotionalWithinBudget'
    <2>1. PICK S, T : S = Exposed(InFlight) /\ T = Exposed(InFlight')
      OBVIOUS
    <2>2. CASE S = {}
      BY <1>2, <2>1, <2>2 DEF BudgetInv, NotionalWithinBudget
    <2>3. CASE S # {}
      <3>1. PICK k \in Owner, s \in Snapshot : <<k, s>> \in S
        BY <1>1, <2>1, <2>3
      <3>2. IsFiniteSet(S) /\ S \in SUBSET (Owner \X Snapshot) /\ T \in SUBSET S
        BY <1>1, <1>2, <2>1
      <3>3. Total(T) <= Total(S) /\ Total(S) \in Nat
        BY <3>2, TotalGrows
      <3>4. Total(T) \in Nat
        <4>1. IsFiniteSet(T) /\ T \in SUBSET (Owner \X Snapshot)
          BY <3>2, FS_Subset
        <4> QED
          BY <4>1, TotalGrows
      <3>5. Total(S) <= MaxNotional
        BY <2>1 DEF BudgetInv, NotionalWithinBudget
      <3>6. Total(T) <= MaxNotional
        BY <1>0, <3>3, <3>4, <3>5
      <3> QED
        BY <2>1, <3>6 DEF NotionalWithinBudget
    <2> QED
      BY <2>2, <2>3
  <1>3. ASSUME UNCHANGED wk, Exposed(InFlight') \subseteq Exposed(InFlight),
               \A p \in opens' : \E q \in opens : p.owner = q.owner /\ p.snap = q.snap
        PROVE  BudgetInv'
    <2>1. NotionalWithinBudget'
      BY <1>2, <1>3
    <2>2. Exposed(InFlight)' = Exposed(InFlight')
      BY DEF Exposed
    <2>3. ASSUME NEW w \in Worker PROVE BudgetFor(wk[w])'
      <3>1. BudgetFor(wk[w])
        BY DEF BudgetInv
      <3> QED
        BY <1>3, <2>2, <3>1 DEF BudgetFor, WithinBudget
    <2> QED
      BY <2>1, <2>3 DEF BudgetInv
  <1>4. ASSUME NEW w \in Worker, Step(w)
        PROVE  BudgetInv'
    <2>0. /\ BudgetFor(wk[w]) /\ wk[w].exposure \in SUBSET (Owner \X Snapshot)
          /\ wk[w].pc \in Opening => wk[w].snap \in Snapshot /\ wk[w].owner \in Owner
      BY <1>0 DEF TypeOK, Cycle, BudgetInv, CyclesInv, CyclesKnow, Knows, Chosen
    <2>1. NotionalWithinBudget' /\ BudgetFor(wk[w])'
      <3>1. CASE Journal(w)
        <4>1. PICK o \in opens, state \in {"unobserved", "rejected"} :
                 MoveTo(o, state) /\ o.owner = wk[w].owner
          BY <3>1 DEF Journal
        <4>2. /\ Goes(w, {"sent"}, "observe") /\ Keeps(w) /\ wk'[w].owner = wk[w].owner
          BY <1>0, <3>1, LaunchViews
        <4>3. PICK S, k, s : S = wk[w].exposure /\ k = wk[w].owner /\ s = wk[w].snap
          OBVIOUS
        <4>4. /\ S \in SUBSET (Owner \X Snapshot) /\ IsFiniteSet(S) /\ k \in Owner /\ s \in Snapshot
              /\ Exposed(InFlight) \subseteq S /\ WithinBudget(S, s) /\ o.snap = s /\ o.owner = k
          BY <2>0, <4>1, <4>2, <4>3 DEF BudgetFor, Goes, Opening
        <4>5. PICK T : T = Exposed(InFlight')
          OBVIOUS
        <4>6. T \subseteq S \cup {<<k, s>>}
          BY <1>0, <4>1, <4>4, <4>5, MoveToExposes
        <4>7. Total(T) <= MaxNotional
          <5>1. PICK U : U = S \cup {<<k, s>>}
            OBVIOUS
          <5>2. IsFiniteSet(U) /\ U \in SUBSET (Owner \X Snapshot) /\ T \in SUBSET U
            <6>1. <<k, s>> \in Owner \X Snapshot
              BY <4>4
            <6> QED
              BY <4>4, <4>6, <5>1, <6>1, FS_AddElement
          <5>3. Total(U) <= Total(S) + Notional[s] /\ Total(S) \in Nat
            BY <4>4, <5>1, TotalGrows
          <5>4. Total(T) <= Total(U) /\ Total(U) \in Nat
            BY <4>4, <5>2, TotalGrows
          <5>5. Total(T) \in Nat
            <6>1. IsFiniteSet(T) /\ T \in SUBSET (Owner \X Snapshot)
              BY <5>2, FS_Subset
            <6> QED
              BY <4>4, <6>1, TotalGrows
          <5>6. Total(S) + Notional[s] <= MaxNotional /\ Notional[s] \in Nat
            BY <4>4, SnapshotAssumption DEF WithinBudget
          <5> QED
            BY <1>0, <5>3, <5>4, <5>5, <5>6
        <4>8. NotionalWithinBudget'
          BY <4>5, <4>7 DEF NotionalWithinBudget
        <4>9. wk'[w].exposure = S /\ wk'[w].snap = s /\ wk'[w].owner = k /\ wk'[w].pc = "observe"
          BY <4>2, <4>3 DEF Goes, Keeps, Same
        <4>10. BudgetFor(wk[w])'
          BY <4>4, <4>5, <4>6, <4>9 DEF BudgetFor, WithinBudget
        <4> QED
          BY <4>8, <4>10
      <3>2. CASE Submit(w)
        <4>1. InFlight' = InFlight
          BY <3>2 DEF Submit, InFlight
        <4>2. Goes(w, {"open"}, "sent") /\ Keeps(w) /\ wk'[w].owner = wk[w].owner
          BY <1>0, <3>2, LaunchViews
        <4>3. \A o \in opens' : o.owner = wk[w].owner => o.snap = wk[w].snap
          BY <3>2 DEF Submit, LaunchInv, OwnersDiffer, Holding
        <4>4. BudgetFor(wk[w])'
          BY <2>0, <4>1, <4>2, <4>3 DEF BudgetFor, Goes, Keeps, Same, WithinBudget, Opening, Holding
        <4> QED
          BY <1>2, <4>1, <4>4
      <3>3. CASE RecordLaunch(w)
        <4>1. InFlight' = InFlight
          BY <3>3 DEF RecordLaunch, InFlight
        <4>4. NotionalWithinBudget'
          BY <1>2, <4>1
        <4>2. CASE wk'[w] = Idle
          BY <4>2, <4>4, FS_EmptySet DEF BudgetFor, Idle, Opening, Holding
        <4>3. CASE Recorded(w)
          <5>1. IsFiniteSet(wk'[w].exposure)
            <6>1. PICK S, e : S = wk[w].exposure /\ e = <<wk[w].owner, wk[w].snap>>
              OBVIOUS
            <6>2. IsFiniteSet(S \cup {e})
              BY <2>0, <6>1, FS_AddElement DEF BudgetFor
            <6> QED
              BY <4>3, <6>1, <6>2 DEF Recorded
          <5>2. Exposed(InFlight) \subseteq wk'[w].exposure
            BY <2>0, <4>3 DEF BudgetFor, Recorded, Goes
          <5> QED
            BY <4>1, <4>3, <4>4, <5>1, <5>2 DEF BudgetFor, Recorded, Goes, Opening, Holding
        <4> QED
          BY <1>0, <3>3, <4>2, <4>3, LaunchViews
      <3>4. CASE ~Journal(w) /\ ~Submit(w) /\ ~RecordLaunch(w)
        <4>1. Quiet(w) /\ UNCHANGED opens
          BY <1>0, <1>4, <3>4, QuietViews
        <4>2. InFlight' = InFlight
          BY <4>1 DEF InFlight
        <4>0. NotionalWithinBudget'
          BY <1>2, <4>2
        <4>3. CASE Ended(w) \/ Began(w)
          BY <4>0, <4>3, FS_EmptySet DEF BudgetFor, Ended, Began, Goes, Idle, Opening, Holding
        <4>4. CASE Limited(w)
          BY <2>0, <4>0, <4>4 DEF BudgetFor, Limited, Goes, Opening, Holding
        <4>5. CASE Charged(w)
          BY <1>1, <4>0, <4>2, <4>5 DEF BudgetFor, Charged, Goes, Opening, Holding
        <4>6. CASE Unchosen(w) \/ Chose(w)
          BY <2>0, <4>0, <4>2, <4>6 DEF BudgetFor, Unchosen, Chose, Goes, Same, Opening, Holding
        <4>7. CASE Committed(w) \/ Claimed(w)
          BY <2>0, <4>0, <4>2, <4>7
             DEF BudgetFor, Committed, Claimed, Goes, Keeps, Same, WithinBudget, Opening, Holding
        <4> QED
          BY <4>1, <4>3, <4>4, <4>5, <4>6, <4>7 DEF Quiet
      <3> QED
        BY <3>1, <3>2, <3>3, <3>4
    <2>2. \A v \in Worker : v = w
      BY DEF OneWorker
    <2> QED
      BY <2>1, <2>2 DEF BudgetInv
  <1>5. CASE Observe
    <2>1. PICK o \in InFlight, state \in {"active", "settled"} : o \in opens /\ MoveTo(o, state)
      BY <1>0, <1>5, Observed
    <2>2. <<o.owner, o.snap>> \in Exposed(InFlight)
      BY <2>1 DEF Exposed
    <2>3. UNCHANGED wk
      BY <1>5 DEF Observe
    <2> QED
      BY <1>0, <1>3, <2>1, <2>2, <2>3, MoveToExposes
  <1>6. CASE Tick \/ (\E s \in Snapshot : CacheSnapshot(s)) \/ UNCHANGED vars
    <2>1. UNCHANGED <<wk, opens>>
      BY <1>6 DEF Tick, CacheSnapshot, vars
    <2>2. InFlight' = InFlight
      BY <2>1 DEF InFlight
    <2> QED
      BY <1>3, <2>1, <2>2
  <1> QED
    BY <1>4, <1>5, <1>6 DEF Next

-----------------------------------------------------------------------------
(* The theorems about the limits.                                          *)

LEMMA LimitsAtFirst ==
  ASSUME Init
  PROVE  RoomInv /\ PaceInv /\ BudgetInv
  <1>1. InFlight = {} /\ records = <<>> /\ \A w \in Worker : wk[w] = Idle
    BY DEF Init, InFlight
  <1>2. Cardinality(InFlight) = 0 /\ MostActive \in Nat /\ MaxNotional \in Nat
    BY <1>1, FS_EmptySet, LimitsAssumption DEF MostActive
  <1>3. RoomInv
    BY <1>1, <1>2 DEF RoomInv, ActiveWithinLimit, MostActive, RoomFor, Idle
  <1>4. PaceInv
    BY <1>1 DEF PaceInv, LaunchRateWithinCap, Paced, Idle, Chosen, Opening, Holding
  <1>5. Exposed(InFlight) = {}
    BY <1>1 DEF Exposed
  <1>6. Total({}) = 0
    <2>1. \E g : Adds(g, {}, [e \in {} |-> Notional[e[2]]]) /\ \A T \in SUBSET {} : Total(T) = g[T]
      BY FS_EmptySet, TotalComputed
    <2> QED
      BY <2>1 DEF Adds
  <1>7. BudgetInv
    <2>1. NotionalWithinBudget
      BY <1>2, <1>5, <1>6 DEF NotionalWithinBudget
    <2>2. BudgetFor(Idle)
      BY FS_EmptySet DEF BudgetFor, Idle, Opening, Holding
    <2> QED
      BY <1>1, <2>1, <2>2 DEF BudgetInv
  <1> QED
    BY <1>3, <1>4, <1>7

LimitsInv == LaunchInv /\ RoomInv /\ PaceInv /\ BudgetInv

\* What a single worker keeps to from one step to the next.
THEOREM LimitsInvariant ==
  ASSUME OneWorker
  PROVE  Spec => []LimitsInv
  <1>1. Init => LimitsInv
    BY InitInv, LimitsAtFirst DEF LimitsInv
  <1>2. LimitsInv /\ [Next]_vars => LimitsInv'
    BY NextInv, RoomLasts, PaceLasts, BudgetLasts DEF LimitsInv
  <1> QED
    BY <1>1, <1>2, PTL DEF Spec

\* A single worker never has more live executions than its limit, although it
\* reads them once for several launches, of which those that fail after their
\* open are neither counted nor recorded.
THEOREM ActiveLimited ==
  ASSUME OneWorker
  PROVE  Spec => []ActiveWithinLimit
  <1>1. LimitsInv => ActiveWithinLimit
    BY DEF LimitsInv, RoomInv
  <1> QED
    BY <1>1, LimitsInvariant, PTL

\* The live notional of a single worker stays within its budget.
THEOREM NotionalLimited ==
  ASSUME OneWorker
  PROVE  Spec => []NotionalWithinBudget
  <1>1. LimitsInv => NotionalWithinBudget
    BY DEF LimitsInv, BudgetInv
  <1> QED
    BY <1>1, LimitsInvariant, PTL

\* A single worker records no two launches within the cooldown and no more in a
\* window than its cap, whatever clock readings its cycles work with.
THEOREM LaunchRateLimited ==
  ASSUME OneWorker
  PROVE  Spec => []LaunchRateWithinCap
  <1>1. LimitsInv => LaunchRateWithinCap
    BY DEF LimitsInv, PaceInv
  <1> QED
    BY <1>1, LimitsInvariant, PTL
=============================================================================
