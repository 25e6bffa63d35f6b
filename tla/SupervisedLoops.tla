--------------------------- MODULE SupervisedLoops ---------------------------
(***************************************************************************)
(* The worker's supervised loops: a cycle of one or more steps, a sleep    *)
(* after a success, a backoff that doubles with every failure in a row, a  *)
(* stop event that a signal sets, and an optional number of iterations.    *)
(* The loops differ in their steps and in what wakes them up.              *)
(*                                                                         *)
(* The system-state step is modelled in full (observe_system_state_once):  *)
(* a probe of the venue and an alert for each transition against the       *)
(* latest stored alert.  The other steps succeed or raise.                 *)
(***************************************************************************)
EXTENDS Integers, Sequences

CONSTANTS
    Modes,              \* the worker's mode flags to look at
    None,               \* no probe, no alert, no cap
    Caps,               \* --iterations, or None
    Interval,           \* ..._interval_seconds
    MaxBackoff,         \* ..._max_backoff_seconds
    MaxStreak           \* bound on the failures in a row that are counted

Min(a, b) == IF a < b THEN a ELSE b

\* More failures than MaxStreak no longer change the backoff.
ASSUME LoopAssumption ==
    /\ Interval \in Nat \ {0} /\ MaxBackoff \in Nat \ {0}
    /\ MaxStreak \in Nat \ {0, 1} /\ Interval * 2^(MaxStreak - 1) >= MaxBackoff
    /\ Caps \subseteq (Nat \ {0}) \cup {None}

VARIABLES
    loop,               \* which loop runs for which flags
    pc, step,           \* where it stands, and the step of the cycle
    attempts,           \* attempts, counted if they are capped
    streak,             \* consecutive_failures
    left,               \* what is left of the sleep
    stop,               \* the stop event
    recent,             \* outcomes of the latest attempts of the process, newest first
    venue,              \* what the venue would answer
    probe,              \* what the system-state step of this cycle was answered
    alert               \* the state in the latest stored alert of the venue

sleeping == <<attempts, streak, left, recent>>
vars     == <<loop, pc, step, sleeping, stop, venue, probe, alert>>

-----------------------------------------------------------------------------
(* The loops.                                                              *)

\* signals: there is a stop event; rechecks: it is looked at before the sleep;
\* wakes: it ends the sleep
Supervised(steps) == [steps |-> steps, signals |-> TRUE, rechecks |-> TRUE, wakes |-> TRUE]
Sleeping(steps)   == [Supervised(steps) EXCEPT !.wakes = FALSE]

\* Mutant: the cycle ends with the launch.
ProductionSupervisorMutant == Supervised(<<"system_state", "approved", "launch_ready", "launch">>)

ProductionSupervisor ==
    Supervised(<<"system_state", "approved", "launch_ready", "launch", "executions">>)

UniverseScan == Supervised(<<"universe">>)

ApprovedScan == Supervised(<<"approved">>)

ExecutionObservation == Supervised(<<"executions">>)

Polling == [Supervised(<<"poll", "candidate_alerts">>) EXCEPT !.rechecks = FALSE]

LaunchReadyCache == Sleeping(<<"launch_ready">>)

StableLaunch == Sleeping(<<"launch">>)

SystemStateLoop == Sleeping(<<"system_state">>)

BoundedPolling == [steps |-> <<"poll">>, signals |-> FALSE, rechecks |-> FALSE, wakes |-> FALSE]

Shape(kind) ==
    CASE kind = "production"      -> ProductionSupervisor
      [] kind = "universe"        -> UniverseScan
      [] kind = "approved"        -> ApprovedScan
      [] kind = "executions"      -> ExecutionObservation
      [] kind = "polling"         -> Polling
      [] kind = "launch_ready"    -> LaunchReadyCache
      [] kind = "launch"          -> StableLaunch
      [] kind = "system_state"    -> SystemStateLoop
      [] kind = "bounded_polling" -> BoundedPolling

Kind == {"production", "universe", "approved", "executions", "polling", "launch_ready",
         "launch", "system_state", "bounded_polling"}

\* main: --iterations is looked at before --supervise, and means something
\* without a mode flag as well.
Mode == (Kind \ {"polling", "bounded_polling"}) \cup {"supervise", "no_flag"}

ASSUME ModesAssumption == Modes \subseteq Mode

Dispatch(mode, cap) ==
    CASE mode \in {"supervise", "no_flag"} /\ cap # None -> "bounded_polling"
      [] mode = "supervise" /\ cap = None               -> "polling"
      [] OTHER                                          -> mode

Steps   == Shape(loop.kind).steps
Current == Steps[step]

\* healthy only when "ok"; a probe that raises is answered "error"
Status == {"ok", "maintenance", "error"}

TypeOK ==
    /\ loop \in [mode : Mode, kind : Kind, cap : Nat \cup {None}]
    /\ pc \in {"start", "step", "emit", "done", "raised", "sleep", "ended"}
    /\ step \in 1..Len(Steps)
    /\ attempts \in Nat /\ streak \in 0..MaxStreak
    /\ left \in Nat
    /\ stop \in BOOLEAN
    /\ recent \in Seq(BOOLEAN)
    /\ venue \in Status
    /\ probe \in Status \cup {None}
    /\ alert \in Status \cup {None}

Init ==
    /\ \E mode \in Modes, cap \in Caps :
          /\ ~(mode = "no_flag" /\ cap = None)      \* only prints its health
          /\ loop = [mode |-> mode, kind |-> Dispatch(mode, cap), cap |-> cap]
    /\ pc = "start" /\ step = 1
    /\ attempts = 0 /\ streak = 0 /\ left = 0
    /\ stop = FALSE
    /\ recent = <<>>
    /\ venue \in Status
    /\ probe = None /\ alert = None

-----------------------------------------------------------------------------
(* The cycle.                                                              *)

\* Mutant: the loop relies on the check before the sleep.
StartCycleMutant ==
    /\ pc = "start"
    /\ pc' = "step" /\ step' = 1 /\ probe' = None
    /\ attempts' = IF loop.cap = None THEN 0 ELSE attempts + 1
    /\ UNCHANGED <<loop, streak, left, stop, recent, venue, alert>>

\* while not stop_event.is_set()
StartCycle ==
    /\ pc = "start" /\ ~stop
    /\ pc' = "step" /\ step' = 1 /\ probe' = None
    /\ attempts' = IF loop.cap = None THEN 0 ELSE attempts + 1
    /\ UNCHANGED <<loop, streak, left, stop, recent, venue, alert>>

StopBeforeCycle ==
    /\ pc = "start" /\ stop
    /\ pc' = "ended"
    /\ UNCHANGED <<loop, step, sleeping, stop, venue, probe, alert>>

\* Mutant: the last step is followed by another one.
AdvanceMutant ==
    IF step > Len(Steps) THEN pc' = "done" /\ UNCHANGED step
                         ELSE pc' = "step" /\ step' = step + 1

\* The steps run in order; after the last one the cycle has succeeded.
Advance ==
    IF step = Len(Steps) THEN pc' = "done" /\ UNCHANGED step
                         ELSE pc' = "step" /\ step' = step + 1

StepSucceeds ==
    /\ pc = "step" /\ Current # "system_state"
    /\ Advance
    /\ UNCHANGED <<loop, sleeping, stop, venue, probe, alert>>

\* An exception ends the cycle; the one of the candidate alerts is caught.
StepRaises ==
    /\ pc = "step" /\ Current # "candidate_alerts"
    /\ pc' = "raised"
    /\ UNCHANGED <<loop, step, sleeping, stop, venue, probe, alert>>

ProbeVenue ==
    /\ pc = "step" /\ Current = "system_state"
    /\ pc' = "emit" /\ probe' = venue
    /\ UNCHANGED <<loop, step, sleeping, stop, venue, alert>>

\* Mutant: only changes of health are alerted.
TransitionMutant ==
    IF probe = "ok" THEN alert \notin {None, "ok"} ELSE alert \in {None, "ok"}

\* venue_degraded, venue_status_changed and venue_recovered
Transition ==
    IF probe = "ok" THEN alert \notin {None, "ok"} ELSE probe # alert

\* _emit_system_state_alerts; the notifier's failures are logged only.
EmitAlert ==
    /\ pc = "emit"
    /\ alert' = IF Transition THEN probe ELSE alert
    /\ Advance
    /\ UNCHANGED <<loop, sleeping, stop, venue, probe>>

\* The store raises before it has appended.
EmitRaises ==
    /\ pc = "emit"
    /\ pc' = "raised" /\ probe' = None
    /\ UNCHANGED <<loop, step, sleeping, stop, venue, alert>>

-----------------------------------------------------------------------------
(* After the cycle.                                                        *)

Remember(outcome) ==
    recent' = SubSeq(<<outcome>> \o recent, 1, Min(MaxStreak, Len(recent) + 1))

\* No sleep after the last attempt, nor once a stop is requested.
SleepOrEnd(delay) ==
    IF (stop /\ Shape(loop.kind).rechecks) \/ (loop.cap # None /\ attempts >= loop.cap)
    THEN pc' = "ended" /\ left' = 0
    ELSE pc' = "sleep" /\ left' = delay

\* Mutant: the failures before a success still count.
CycleSucceedsMutant ==
    /\ pc = "done"
    /\ SleepOrEnd(Interval)
    /\ Remember(TRUE)
    /\ UNCHANGED <<loop, step, attempts, streak, stop, venue, probe, alert>>

CycleSucceeds ==
    /\ pc = "done"
    /\ streak' = 0
    /\ SleepOrEnd(Interval)
    /\ Remember(TRUE)
    /\ UNCHANGED <<loop, step, attempts, stop, venue, probe, alert>>

\* interval * 2 ** (consecutive_failures - 1)
Doubled[n \in 1..MaxStreak] == IF n = 1 THEN Interval ELSE 2 * Doubled[n - 1]

Backoff(n) == Min(MaxBackoff, Doubled[n])

CycleFails ==
    /\ pc = "raised"
    /\ streak' = Min(MaxStreak, streak + 1)
    /\ SleepOrEnd(Backoff(streak'))
    /\ Remember(FALSE)
    /\ UNCHANGED <<loop, step, attempts, stop, venue, probe, alert>>

SleepOn ==
    /\ pc = "sleep" /\ left > 0
    /\ ~(stop /\ Shape(loop.kind).wakes)
    /\ left' = left - 1
    /\ UNCHANGED <<loop, pc, step, attempts, streak, stop, recent, venue, probe, alert>>

\* _sleep_or_stop, or a plain sleep
Wake ==
    /\ pc = "sleep"
    /\ left = 0 \/ (stop /\ Shape(loop.kind).wakes)
    /\ pc' = "start" /\ left' = 0
    /\ UNCHANGED <<loop, step, attempts, streak, stop, recent, venue, probe, alert>>

-----------------------------------------------------------------------------
(* Signals, the host and the venue.                                        *)

RequestStop ==
    /\ Shape(loop.kind).signals /\ pc # "ended" /\ ~stop
    /\ stop' = TRUE
    /\ UNCHANGED <<loop, pc, step, sleeping, venue, probe, alert>>

\* A signal that nobody handles ends the process where it stands.
Terminate ==
    /\ ~Shape(loop.kind).signals /\ pc # "ended"
    /\ pc' = "ended" /\ left' = 0
    /\ UNCHANGED <<loop, step, attempts, streak, stop, recent, venue, probe, alert>>

\* The process has ended or dies, and the host starts it again.
Restart ==
    /\ pc' = "start" /\ step' = 1
    /\ attempts' = 0 /\ streak' = 0 /\ left' = 0 /\ recent' = <<>>
    /\ stop' = FALSE /\ probe' = None
    /\ UNCHANGED <<loop, venue, alert>>

VenueChanges ==
    /\ venue' \in Status \ {venue}
    /\ UNCHANGED <<loop, pc, step, sleeping, stop, probe, alert>>

LoopStep ==
    \/ StartCycle \/ StopBeforeCycle \/ StepSucceeds \/ StepRaises \/ ProbeVenue \/ EmitAlert
    \/ EmitRaises \/ CycleSucceeds \/ CycleFails \/ SleepOn \/ Wake

Next == LoopStep \/ RequestStop \/ Terminate \/ Restart \/ VenueChanges

Spec == Init /\ [][Next]_vars

\* The loop runs on; a step that is tried again and again succeeds again and
\* again (the market data, the accounts and the database come back).
FairSpec ==
    /\ Spec /\ WF_vars(LoopStep)
    /\ \A s \in 1..5 : SF_vars(StepSucceeds /\ step = s)
    /\ SF_vars(ProbeVenue) /\ SF_vars(EmitAlert)

-----------------------------------------------------------------------------
(* Properties.                                                             *)

\* How many of the latest attempts have failed in a row.
FailuresInARow ==
    LET failed(n) == \A i \in 1..n : ~recent[i]
    IN  CHOOSE n \in 0..Len(recent) : failed(n) /\ \A k \in (n + 1)..Len(recent) : ~failed(k)

\* The loop sleeps as long as the failures since its latest success demand, so
\* it is as fast as ever after a success (consecutive_failures).
DelayFollowsFailures ==
    pc = "sleep" =>
        left <= IF FailuresInARow = 0 THEN Interval ELSE Backoff(FailuresInARow)

\* A cycle that has observed the venue leaves an alert of its state behind,
\* whatever was stored by cycles that failed or by processes that died
\* (_emit_system_state_alerts).
AlertsFollowProbes ==
    probe # None /\ pc # "emit" =>
        IF probe = "ok" THEN alert \in {None, "ok"} ELSE alert = probe

\* A requested stop ends the loop, unless the process dies before
\* (install_signal_handlers).
StopIsHonoured == stop ~> pc = "ended" \/ ~stop

\* The live executions are observed again and again, although any exception of
\* an earlier step ends the cycle (run_production_supervisor_cycle_once).
Observes == pc = "done" /\ Current = "executions"
ExecutionsAreObserved ==
    loop.kind \in {"production", "executions"} /\ loop.cap = None
        => []<>(stop \/ Observes)
=============================================================================
