------------------------ MODULE SupervisedLoopsProofs ------------------------
(***************************************************************************)
(* Proofs about SupervisedLoops, for any loop, interval, backoff and       *)
(* number of iterations.                                                   *)
(***************************************************************************)
EXTENDS SupervisedLoops, FoldLemmas

-----------------------------------------------------------------------------
(* Types.                                                                  *)

\* Every loop has a step; one that is not signalled does not probe the venue.
LEMMA Shapes ==
  ASSUME NEW kind \in Kind
  PROVE  /\ Len(Shape(kind).steps) \in Nat \ {0}
         /\ ~Shape(kind).signals =>
              \A i \in 1..Len(Shape(kind).steps) : Shape(kind).steps[i] # "system_state"
  <1>1. \A steps : /\ Supervised(steps).steps = steps /\ Supervised(steps).signals
                   /\ Sleeping(steps).steps = steps /\ Sleeping(steps).signals
    BY DEF Supervised, Sleeping
  <1>2. CASE kind = "bounded_polling"
    <2>1. Shape(kind) = [steps |-> <<"poll">>, signals |-> FALSE, rechecks |-> FALSE, wakes |-> FALSE]
      BY <1>2 DEF Shape, BoundedPolling
    <2>2. Len(<<"poll">>) = 1 /\ <<"poll">>[1] = "poll"
      OBVIOUS
    <2> QED
      BY <2>1, <2>2
  <1>3. CASE kind = "polling"
    <2>1. Shape(kind) = [Supervised(<<"poll", "candidate_alerts">>) EXCEPT !.rechecks = FALSE]
      BY <1>3 DEF Shape, Polling
    <2>2. Shape(kind).steps = <<"poll", "candidate_alerts">> /\ Shape(kind).signals
      BY <2>1 DEF Supervised
    <2> QED
      BY <2>2
  <1>4. CASE kind = "production"
    <2>1. Shape(kind) = ProductionSupervisor
      BY <1>4 DEF Shape
    <2>2. /\ Shape(kind).steps = <<"system_state", "approved", "launch_ready", "launch", "executions">>
          /\ Shape(kind).signals
      BY <1>1, <2>1 DEF ProductionSupervisor
    <2> QED
      BY <2>2
  <1>5. CASE kind \in Kind \ {"bounded_polling", "polling", "production"}
    <2>1. PICK s : Shape(kind) \in {Supervised(<<s>>), Sleeping(<<s>>)}
      BY <1>5 DEF Kind, Shape, UniverseScan, ApprovedScan, ExecutionObservation, LaunchReadyCache,
           StableLaunch, SystemStateLoop
    <2>2. Shape(kind).steps = <<s>> /\ Shape(kind).signals
      BY <1>1, <2>1
    <2> QED
      BY <2>2
  <1> QED
    BY <1>2, <1>3, <1>4, <1>5

\* The backoff without its bound is a natural that doubles.
LEMMA DoubledType ==
  /\ Doubled = [n \in 1..MaxStreak |-> IF n = 1 THEN Interval ELSE 2 * Doubled[n - 1]]
  /\ \A n \in 1..MaxStreak : Doubled[n] \in Nat
  <1> DEFINE twice == [p \in (1..MaxStreak) \X Nat |-> IF p[1] = 1 THEN Interval ELSE 2 * p[2]]
  <1>0. MaxStreak \in Nat /\ Interval \in Nat
    BY LoopAssumption
  <1>1. twice \in [(1..MaxStreak) \X Nat -> Nat]
    BY <1>0
  <1>2. PICK r : Counts(r, MaxStreak, Nat, twice, Interval)
    <2> HIDE DEF twice
    <2> QED
      BY <1>0, <1>1, CountExists
  <1> DEFINE q == [n \in 1..MaxStreak |-> r[n]]
  <1>3. ASSUME NEW n \in 1..MaxStreak
        PROVE  q[n] = IF n = 1 THEN Interval ELSE 2 * q[n - 1]
    <2>1. n - 1 \in 0..MaxStreak /\ (n # 1 => n - 1 \in 1..MaxStreak)
      BY <1>0
    <2>2. r[n - 1] \in Nat /\ r[n] = twice[<<n, r[n - 1]>>]
      BY <1>2, <2>1 DEF Counts
    <2> QED
      BY <2>1, <2>2
  <1>4. q = [n \in 1..MaxStreak |-> IF n = 1 THEN Interval ELSE 2 * q[n - 1]]
    BY <1>3
  <1>5. Doubled = [n \in 1..MaxStreak |-> IF n = 1 THEN Interval ELSE 2 * Doubled[n - 1]]
    <2> HIDE DEF q
    <2> QED
      BY <1>4 DEF Doubled
  <1> DEFINE Bad == {n \in 1..MaxStreak : Doubled[n] \notin Nat}
  <1>6. Bad = {}
    <2> SUFFICES ASSUME Bad # {} PROVE FALSE
      OBVIOUS
    <2>1. PICK n \in Bad : \A k \in Bad : n <= k
      <3>1. Bad \in SUBSET Nat
        OBVIOUS
      <3> HIDE DEF Bad
      <3> QED
        BY <3>1, LeastNatural
    <2>2. n \in 1..MaxStreak /\ Doubled[n] \notin Nat /\ (n # 1 => n - 1 \in 1..MaxStreak /\ n - 1 \notin Bad)
      BY <1>0, <2>1
    <2>3. n # 1 => Doubled[n - 1] \in Nat
      BY <2>2
    <2> QED
      BY <1>0, <1>5, <2>2, <2>3
  <1> QED
    BY <1>5, <1>6

LEMMA BackoffType ==
  ASSUME NEW n \in 1..MaxStreak
  PROVE  Backoff(n) \in Nat
  BY DoubledType, LoopAssumption DEF Backoff, Min

\* The first elements of a sequence that got a new one at its head.
LEMMA Newest ==
  ASSUME NEW S, NEW old \in Seq(S), NEW x \in S, NEW m \in Nat, 1 <= m, m <= Len(old) + 1,
         NEW new, new = SubSeq(<<x>> \o old, 1, m)
  PROVE  /\ new \in Seq(S) /\ Len(new) = m /\ new[1] = x
         /\ \A i \in 2..m : new[i] = old[i - 1]
  <1>1. PICK s : s = <<x>> \o old
    OBVIOUS
  <1>2. s \in Seq(S) /\ Len(s) = Len(old) + 1 /\ s[1] = x
    BY <1>1
  <1>3. \A i \in 2..(Len(old) + 1) : s[i] = old[i - 1]
    BY <1>1
  <1>4. new = SubSeq(s, 1, m)
    BY <1>1
  <1>5. Len(new) = m /\ \A i \in 1..m : new[i] = s[i]
    BY <1>2, <1>4
  <1>6. new \in Seq(S)
    BY <1>2, <1>4
  <1> QED
    BY <1>2, <1>3, <1>5, <1>6

\* As many outcomes are remembered as are counted.
LEMMA RememberedNumber ==
  ASSUME NEW old \in Seq(BOOLEAN), NEW m, m = Min(MaxStreak, Len(old) + 1)
  PROVE  m \in Nat /\ 1 <= m /\ m <= Len(old) + 1 /\ m <= MaxStreak
  BY LoopAssumption DEF Min

LEMMA RememberedType ==
  ASSUME NEW outcome \in BOOLEAN, recent \in Seq(BOOLEAN), Remember(outcome)
  PROVE  /\ recent' \in Seq(BOOLEAN)
         /\ Len(recent') = Min(MaxStreak, Len(recent) + 1)
         /\ recent'[1] = outcome
  <1>1. PICK old, new, m : old = recent /\ new = recent' /\ m = Min(MaxStreak, Len(old) + 1)
    OBVIOUS
  <1>2. old \in Seq(BOOLEAN) /\ new = SubSeq(<<outcome>> \o old, 1, m)
    BY <1>1 DEF Remember
  <1>3. m \in Nat /\ 1 <= m /\ m <= Len(old) + 1
    BY <1>1, <1>2, RememberedNumber
  <1>4. new \in Seq(BOOLEAN) /\ Len(new) = m /\ new[1] = outcome
    BY <1>2, <1>3, Newest
  <1> QED
    BY <1>1, <1>4

\* The kind of loop that the flags ask for exists.
LEMMA DispatchType ==
  ASSUME NEW mode \in Modes, NEW cap, ~(mode = "no_flag" /\ cap = None)
  PROVE  mode \in Mode /\ Dispatch(mode, cap) \in Kind
  <1>1. mode \in Mode
    BY ModesAssumption
  <1>2. CASE mode \in {"supervise", "no_flag"}
    <2>1. Dispatch(mode, cap) \in {"polling", "bounded_polling"}
      BY <1>2 DEF Dispatch
    <2> QED
      BY <1>1, <2>1 DEF Kind
  <1>3. CASE mode \notin {"supervise", "no_flag"}
    <2>1. Dispatch(mode, cap) = mode
      BY <1>3 DEF Dispatch
    <2> QED
      BY <1>1, <1>3, <2>1 DEF Mode
  <1> QED
    BY <1>2, <1>3

LEMMA InitType == Init => TypeOK
  <1> SUFFICES ASSUME Init PROVE TypeOK
    OBVIOUS
  <1>1. PICK mode \in Modes, cap \in Caps :
            /\ ~(mode = "no_flag" /\ cap = None)
            /\ loop = [mode |-> mode, kind |-> Dispatch(mode, cap), cap |-> cap]
    BY DEF Init
  <1>2. loop \in [mode : Mode, kind : Kind, cap : Nat \cup {None}]
    BY <1>1, DispatchType, LoopAssumption
  <1>3. Len(Steps) \in Nat \ {0}
    BY <1>2, Shapes DEF Steps
  <1>4. step \in 1..Len(Steps)
    BY <1>3 DEF Init
  <1>5. MaxStreak \in Nat /\ streak \in 0..MaxStreak
    BY LoopAssumption DEF Init
  <1>6. <<>> \in Seq(BOOLEAN)
    OBVIOUS
  <1> QED
    BY <1>2, <1>4, <1>5, <1>6 DEF Init, TypeOK, Status

\* After the cycle the loop ends or sleeps for as long as it is told to.
LEMMA SleepOrEndType ==
  ASSUME NEW delay \in Nat, SleepOrEnd(delay)
  PROVE  /\ pc' \in {"ended", "sleep"} /\ left' \in Nat
         /\ pc' = "sleep" => left' = delay
  BY DEF SleepOrEnd

LEMMA AdvanceType ==
  ASSUME TypeOK, Advance
  PROVE  pc' \in {"done", "step"} /\ step' \in 1..Len(Steps)
  <1>1. Len(Steps) \in Nat
    BY Shapes DEF TypeOK, Steps
  <1> QED
    BY <1>1 DEF TypeOK, Advance

LEMMA StepType == TypeOK /\ [Next]_vars => TypeOK'
  <1> SUFFICES ASSUME TypeOK, [Next]_vars PROVE TypeOK'
    OBVIOUS
  <1> USE DEF TypeOK
  <1>1. Len(Steps) \in Nat \ {0}
    BY Shapes DEF Steps
  <1>2. loop' = loop => Steps' = Steps
    BY DEF Steps
  <1>3. MaxStreak \in Nat \ {0, 1}
    BY LoopAssumption
  <1>4. CASE StartCycle
    BY <1>1, <1>2, <1>4 DEF StartCycle
  <1>5. CASE StopBeforeCycle
    BY <1>2, <1>5 DEF StopBeforeCycle, sleeping
  <1>6. CASE StepSucceeds
    BY <1>2, <1>6, AdvanceType DEF StepSucceeds, sleeping
  <1>7. CASE StepRaises
    BY <1>2, <1>7 DEF StepRaises, sleeping
  <1>8. CASE ProbeVenue
    BY <1>2, <1>8 DEF ProbeVenue, sleeping
  <1>9. CASE EmitAlert
    BY <1>2, <1>9, AdvanceType DEF EmitAlert, sleeping
  <1>10. CASE EmitRaises
    BY <1>2, <1>10 DEF EmitRaises, sleeping
  <1>11. CASE CycleSucceeds
    <2>1. recent' \in Seq(BOOLEAN)
      BY <1>11, RememberedType DEF CycleSucceeds
    <2>2. pc' \in {"ended", "sleep"} /\ left' \in Nat
      BY <1>11, SleepOrEndType, LoopAssumption DEF CycleSucceeds
    <2> QED
      BY <1>2, <1>3, <1>11, <2>1, <2>2 DEF CycleSucceeds
  <1>12. CASE CycleFails
    <2>1. recent' \in Seq(BOOLEAN)
      BY <1>12, RememberedType DEF CycleFails
    <2>2. streak' \in 1..MaxStreak
      BY <1>3, <1>12 DEF CycleFails, Min
    <2>3. PICK delay : delay = Backoff(streak') /\ SleepOrEnd(delay)
      BY <1>12 DEF CycleFails
    <2>4. delay \in Nat
      BY <2>2, <2>3, BackoffType
    <2>5. pc' \in {"ended", "sleep"} /\ left' \in Nat
      BY <2>3, <2>4, SleepOrEndType
    <2> QED
      BY <1>2, <1>3, <1>12, <2>1, <2>2, <2>5 DEF CycleFails
  <1>13. CASE SleepOn
    BY <1>2, <1>13 DEF SleepOn
  <1>14. CASE Wake
    BY <1>2, <1>14 DEF Wake
  <1>15. CASE RequestStop
    BY <1>2, <1>15 DEF RequestStop, sleeping
  <1>16. CASE Terminate
    BY <1>2, <1>16 DEF Terminate
  <1>17. CASE Restart
    <2>1. <<>> \in Seq(BOOLEAN)
      OBVIOUS
    <2>2. step' \in 1..Len(Steps)
      BY <1>1, <1>17 DEF Restart
    <2>3. streak' \in 0..MaxStreak
      BY <1>3, <1>17 DEF Restart
    <2> QED
      BY <1>2, <1>17, <2>1, <2>2, <2>3 DEF Restart
  <1>18. CASE VenueChanges
    BY <1>2, <1>18 DEF VenueChanges, sleeping
  <1>19. CASE UNCHANGED vars
    BY <1>2, <1>19 DEF vars, sleeping
  <1> QED
    BY <1>4, <1>5, <1>6, <1>7, <1>8, <1>9, <1>10, <1>11, <1>12, <1>13, <1>14, <1>15, <1>16,
       <1>17, <1>18, <1>19 DEF Next, LoopStep

\* TypeOK holds of every behaviour of the loops: they stand at a step of their
\* own cycle, and the backoff is a number whatever the number of failures.
THEOREM TypeCorrect == Spec => []TypeOK
  <1>1. Init => TypeOK
    BY InitType
  <1>2. TypeOK /\ [Next]_vars => TypeOK'
    BY StepType
  <1> QED
    BY <1>1, <1>2, PTL DEF Spec

-----------------------------------------------------------------------------
(* Alerts.                                                                 *)

\* Only a loop that handles signals is ever about to alert, so that no signal
\* ends one between the answer of the venue and its alert.
AlertInv ==
    /\ pc = "emit" => Shape(loop.kind).signals
    /\ AlertsFollowProbes

LEMMA AlertStep == TypeOK /\ AlertInv /\ [Next]_vars => AlertInv'
  <1> SUFFICES ASSUME TypeOK, AlertInv, [Next]_vars PROVE AlertInv'
    OBVIOUS
  <1>1. loop' = loop => Shape(loop.kind)' = Shape(loop.kind)
    OBVIOUS
  <1> USE DEF AlertInv, AlertsFollowProbes
  <1>2. CASE StartCycle
    BY <1>1, <1>2 DEF StartCycle
  <1>3. CASE StopBeforeCycle
    BY <1>1, <1>3 DEF StopBeforeCycle, sleeping
  <1>4. CASE StepSucceeds
    BY <1>1, <1>4, AdvanceType DEF StepSucceeds, sleeping
  <1>5. CASE StepRaises
    BY <1>1, <1>5 DEF StepRaises, sleeping
  <1>6. CASE ProbeVenue
    <2>1. loop.kind \in Kind /\ step \in 1..Len(Shape(loop.kind).steps)
      BY DEF TypeOK, Steps
    <2>2. Shape(loop.kind).steps[step] = "system_state"
      BY <1>6 DEF ProbeVenue, Current, Steps
    <2>3. Shape(loop.kind).signals
      BY <2>1, <2>2, Shapes
    <2> QED
      BY <1>1, <1>6, <2>3 DEF ProbeVenue
  <1>7. CASE EmitAlert
    BY <1>1, <1>7, AdvanceType DEF EmitAlert, Transition
  <1>8. CASE EmitRaises
    BY <1>1, <1>8 DEF EmitRaises
  <1>9. CASE CycleSucceeds
    BY <1>1, <1>9, SleepOrEndType DEF CycleSucceeds, SleepOrEnd
  <1>10. CASE CycleFails
    BY <1>1, <1>10 DEF CycleFails, SleepOrEnd
  <1>11. CASE SleepOn
    BY <1>1, <1>11 DEF SleepOn
  <1>12. CASE Wake
    BY <1>1, <1>12 DEF Wake
  <1>13. CASE RequestStop
    BY <1>1, <1>13 DEF RequestStop
  <1>14. CASE Terminate
    BY <1>1, <1>14 DEF Terminate
  <1>15. CASE Restart
    BY <1>1, <1>15 DEF Restart
  <1>16. CASE VenueChanges
    BY <1>1, <1>16 DEF VenueChanges
  <1>17. CASE UNCHANGED vars
    BY <1>1, <1>17 DEF vars
  <1> QED
    BY <1>2, <1>3, <1>4, <1>5, <1>6, <1>7, <1>8, <1>9, <1>10, <1>11, <1>12, <1>13, <1>14, <1>15,
       <1>16, <1>17 DEF Next, LoopStep

\* AlertsFollowProbes holds of every loop: whatever is stored when a cycle
\* observes the venue, and whichever cycles failed or processes died before, the
\* state that the cycle has seen is the one of the latest alert.
THEOREM StateIsAlerted == Spec => []AlertsFollowProbes
  <1>1. Init => AlertInv
    BY DEF Init, AlertInv, AlertsFollowProbes
  <1>2. AlertInv => AlertsFollowProbes
    BY DEF AlertInv
  <1> QED
    BY <1>1, <1>2, AlertStep, TypeCorrect, PTL DEF Spec

-----------------------------------------------------------------------------
(* The backoff.                                                            *)

\* Of these outcomes exactly the latest n are failures.
Fails(n, outcomes) ==
    /\ Len(outcomes) <= MaxStreak /\ n <= Len(outcomes)
    /\ \A i \in 1..n : outcomes[i] = FALSE
    /\ n < Len(outcomes) => outcomes[n + 1] = TRUE

\* The streak is the number of failures since the latest remembered success.
Streak == Fails(streak, recent)

\* A sleep is the one that the streak demands, or what is left of it.
DelayInv ==
    /\ Streak
    /\ pc = "sleep" => left <= IF streak = 0 THEN Interval ELSE Backoff(streak)

LEMMA FailuresAreStreak ==
  ASSUME TypeOK, Streak
  PROVE  FailuresInARow = streak
  <1> DEFINE failed(n) == \A i \in 1..n : ~recent[i]
             is(n) == failed(n) /\ \A k \in (n + 1)..Len(recent) : ~failed(k)
  <1>1. Len(recent) \in Nat /\ streak \in 0..Len(recent)
    BY LoopAssumption DEF TypeOK, Streak, Fails
  <1>2. failed(streak)
    BY DEF Streak, Fails
  <1>3. ASSUME NEW n \in 0..Len(recent), n # streak
        PROVE  ~is(n)
    <2>1. CASE n < streak
      <3>1. streak \in (n + 1)..Len(recent)
        BY <1>1, <2>1
      <3> QED
        BY <1>2, <3>1
    <2>2. CASE n > streak
      <3>1. streak + 1 \in 1..n /\ streak < Len(recent)
        BY <1>1, <2>2
      <3> QED
        BY <3>1 DEF Streak, Fails
    <2> QED
      BY <1>1, <1>3, <2>1, <2>2
  <1>4. is(streak)
    <2>1. ASSUME NEW k \in (streak + 1)..Len(recent)
          PROVE  ~failed(k)
      <3>1. streak + 1 \in 1..k /\ streak < Len(recent)
        BY <1>1, <2>1
      <3> QED
        BY <3>1 DEF Streak, Fails
    <2> QED
      BY <1>2, <2>1
  <1>5. FailuresInARow = CHOOSE n \in 0..Len(recent) : is(n)
    BY DEF FailuresInARow
  <1> HIDE DEF is
  <1> QED
    BY <1>1, <1>3, <1>4, <1>5

\* Another failure lengthens the streak, until it is no longer counted.
LEMMA FailureCounts ==
  ASSUME NEW old \in Seq(BOOLEAN),
         NEW m, m = Min(MaxStreak, Len(old) + 1),
         NEW new, new = SubSeq(<<FALSE>> \o old, 1, m),
         NEW n \in Nat, Fails(n, old),
         NEW k, k = Min(MaxStreak, n + 1)
  PROVE  Fails(k, new)
  <1>0. m \in Nat /\ 1 <= m /\ m <= Len(old) + 1
    BY RememberedNumber
  <1>1. Len(new) = m /\ new[1] = FALSE /\ \A i \in 2..m : new[i] = old[i - 1]
    BY <1>0, Newest
  <1>2. MaxStreak \in Nat \ {0, 1} /\ Len(old) \in Nat
    BY LoopAssumption
  <1>3. Len(new) \in Nat /\ Len(new) <= MaxStreak /\ k <= Len(new) /\ k \in Nat /\ k # 0
    BY <1>1, <1>2 DEF Min, Fails
  <1>4. ASSUME NEW i \in 1..k
        PROVE  new[i] = FALSE
    <2>1. i = 1 \/ (i \in 2..m /\ i - 1 \in 1..n)
      BY <1>2, <1>3 DEF Min, Fails
    <2> QED
      BY <1>1, <2>1 DEF Fails
  <1>5. ASSUME k < Len(new)
        PROVE  new[k + 1] = TRUE
    <2>1. k = n + 1 /\ n < Len(old) /\ k + 1 \in 2..m
      BY <1>1, <1>2, <1>3, <1>5 DEF Min, Fails
    <2>2. PICK j \in 2..m : j = k + 1
      BY <2>1
    <2>3. j - 1 = n + 1
      BY <2>1, <2>2
    <2>4. new[j] = old[j - 1]
      BY <1>1
    <2> QED
      BY <2>1, <2>2, <2>3, <2>4 DEF Fails
  <1> QED
    BY <1>3, <1>4, <1>5 DEF Fails

LEMMA DelayStep == TypeOK /\ DelayInv /\ [Next]_vars => DelayInv'
  <1> SUFFICES ASSUME TypeOK, DelayInv, [Next]_vars PROVE DelayInv'
    OBVIOUS
  <1>1. /\ MaxStreak \in Nat \ {0, 1} /\ Interval \in Nat
        /\ streak \in Nat /\ left \in Nat /\ recent \in Seq(BOOLEAN) /\ Len(recent) \in Nat
    BY LoopAssumption DEF TypeOK
  <1>2. CASE CycleSucceeds
    <2>1. /\ recent' \in Seq(BOOLEAN)
          /\ Len(recent') = Min(MaxStreak, Len(recent) + 1)
          /\ recent'[1] = TRUE
      BY <1>1, <1>2, RememberedType DEF CycleSucceeds
    <2>2. Streak'
      BY <1>1, <1>2, <2>1 DEF CycleSucceeds, Streak, Fails, Min
    <2>3. pc' = "sleep" => left' = Interval
      BY <1>2 DEF CycleSucceeds, SleepOrEnd
    <2> QED
      BY <1>1, <1>2, <2>2, <2>3 DEF CycleSucceeds, DelayInv
  <1>3. CASE CycleFails
    <2>1. PICK old, new, m : old = recent /\ new = recent' /\ m = Min(MaxStreak, Len(old) + 1)
      OBVIOUS
    <2>2. streak' = Min(MaxStreak, streak + 1)
      BY <1>3 DEF CycleFails
    <2>3. PICK k : k = streak'
      OBVIOUS
    <2>4. /\ old \in Seq(BOOLEAN)
          /\ new = SubSeq(<<FALSE>> \o old, 1, m)
      BY <1>1, <1>3, <2>1 DEF CycleFails, Remember
    <2>5. PICK n : n = streak
      OBVIOUS
    <2>6. n \in Nat /\ Fails(n, old) /\ k = Min(MaxStreak, n + 1)
      BY <1>1, <2>1, <2>2, <2>3, <2>5 DEF DelayInv, Streak
    <2>7. Fails(k, new)
      BY <2>1, <2>4, <2>6, FailureCounts
    <2>8. Streak' /\ streak' # 0
      BY <1>1, <2>1, <2>2, <2>3, <2>7 DEF Streak, Fails, Min
    <2>9. pc' = "sleep" => left' = Backoff(streak')
      BY <1>3 DEF CycleFails, SleepOrEnd
    <2>10. streak' \in 1..MaxStreak
      BY <1>1, <2>2 DEF Min
    <2>11. Backoff(streak') \in Nat
      <3>1. PICK f : f = streak'
        OBVIOUS
      <3> QED
        BY <2>10, <3>1, BackoffType
    <2> QED
      BY <2>8, <2>9, <2>11 DEF DelayInv
  <1>4. CASE SleepOn
    <2>1. left' <= left
      BY <1>1, <1>4 DEF SleepOn
    <2>2. CASE streak = 0
      BY <1>1, <1>4, <2>1, <2>2 DEF SleepOn, DelayInv, Streak, Fails
    <2>3. CASE streak # 0
      <3>1. Backoff(streak) \in Nat
        BY <1>1, <2>3, BackoffType DEF TypeOK
      <3> QED
        BY <1>1, <1>4, <2>1, <2>3, <3>1 DEF SleepOn, DelayInv, Streak, Fails
    <2> QED
      BY <2>2, <2>3
  <1>5. CASE Restart
    BY <1>1, <1>5 DEF Restart, DelayInv, Streak, Fails
  <1>6. ASSUME streak' = streak, recent' = recent, pc' # "sleep" \/ (pc' = pc /\ left' = left)
        PROVE  DelayInv'
    BY <1>6 DEF DelayInv, Streak, Fails
  <1>7. Advance => pc' # "sleep"
    BY DEF Advance
  <1>8. CASE StartCycle \/ StopBeforeCycle \/ StepSucceeds \/ StepRaises \/ ProbeVenue \/ EmitAlert
    BY <1>6, <1>7, <1>8 DEF StartCycle, StopBeforeCycle, StepSucceeds, StepRaises, ProbeVenue,
       EmitAlert, sleeping
  <1>9. CASE EmitRaises \/ Wake \/ RequestStop \/ Terminate \/ VenueChanges \/ UNCHANGED vars
    BY <1>6, <1>9 DEF EmitRaises, Wake, RequestStop, Terminate, VenueChanges, vars, sleeping
  <1> QED
    BY <1>2, <1>3, <1>4, <1>5, <1>8, <1>9 DEF Next, LoopStep

\* DelayFollowsFailures holds of every loop: no loop sleeps longer than its
\* interval after a success, nor longer than the backoff of the failures that
\* really followed its latest success.
THEOREM DelayIsEarned == Spec => []DelayFollowsFailures
  <1>1. Init => DelayInv
    BY LoopAssumption DEF Init, DelayInv, Streak, Fails
  <1>2. TypeOK /\ DelayInv => DelayFollowsFailures
    BY FailuresAreStreak DEF DelayInv, DelayFollowsFailures
  <1> QED
    BY <1>1, <1>2, DelayStep, TypeCorrect, PTL DEF Spec
=============================================================================
