------------------------------ MODULE Watchdog ------------------------------
(***************************************************************************)
(* The staleness watchdog (scripts/watchdog.py, StalenessWatchdog): a      *)
(* process that wakes up every interval, measures how long ago its last    *)
(* check-in in Redis was, reports the mappings that wait for review past   *)
(* their deadline, checks in, and reports its own silence when that was    *)
(* longer than the dead-man interval.                                      *)
(*                                                                         *)
(* Time is counted in waking intervals.  Only ages matter: they grow with  *)
(* every tick, up to the first value from which on they make no difference.*)
(***************************************************************************)
EXTENDS Naturals

CONSTANTS
    Items,          \* mappings that may be in limbo
    Threshold,      \* threshold_hours
    HeartbeatTTL,   \* life of the check-in's key
    DeadManInterval,
    NoAge

ASSUME WatchdogAssumption ==
    /\ {Threshold, HeartbeatTTL, DeadManInterval} \subseteq Nat \ {0} /\ NoAge \notin Nat

VARIABLES
    pending,        \* the age of each item in limbo, or NoAge
    keyAge,         \* the age of the check-in in Redis, or NoAge
    ownAge,         \* the age of the last check-in this process made (self._last), or NoAge
    cycle,          \* where the process is
    prior,          \* prior_age of this cycle, or NoAge
    quiet,          \* history: the time since the last check-in, or NoAge before the first
    gap,            \* history: quiet when this cycle measured it; NoAge when it failed
    reported,       \* history: the overdue items that have been reported
    silence         \* history: this cycle has reported its own silence

watchdogVars == <<pending, keyAge, ownAge, cycle, prior, quiet, gap, reported, silence>>
beatVars == <<keyAge, ownAge, quiet>>

TopAge == (IF HeartbeatTTL > DeadManInterval THEN HeartbeatTTL ELSE DeadManInterval) + 1
Ages == (0..TopAge) \cup {NoAge}
Older(age, top) == IF age = NoAge \/ age = top THEN age ELSE age + 1
Overdue(i) == pending[i] = Threshold

WatchdogInit ==
    /\ pending = [i \in Items |-> NoAge]
    /\ keyAge = NoAge /\ ownAge = NoAge /\ prior = NoAge /\ quiet = NoAge /\ gap = NoAge
    /\ cycle = "down"
    /\ reported = {} /\ silence = FALSE
------------------------------------------------------------------------------
\* Items enter and leave limbo (module MappingLifecycle).
EntersLimbo(i) ==
    /\ pending[i] = NoAge
    /\ pending' = [pending EXCEPT ![i] = 0]
    /\ UNCHANGED <<beatVars, cycle, prior, gap, reported, silence>>
LeavesLimbo(i) ==
    /\ pending[i] # NoAge
    /\ pending' = [pending EXCEPT ![i] = NoAge]
    /\ reported' = reported \ {i}
    /\ UNCHANGED <<beatVars, cycle, prior, gap, silence>>

\* An interval goes by: a process that waits wakes up, one that is busy is slow.
Tick ==
    /\ pending' = [i \in Items |-> Older(pending[i], Threshold)]
    /\ keyAge' = IF keyAge = NoAge \/ keyAge + 1 >= HeartbeatTTL THEN NoAge ELSE keyAge + 1
    /\ ownAge' = Older(ownAge, TopAge) /\ quiet' = Older(quiet, TopAge)
    /\ cycle' = IF cycle = "wait" THEN "measure" ELSE cycle
    /\ UNCHANGED <<prior, gap, reported, silence>>

\* The process starts, and remembers no check-in of its own.
Start ==
    /\ cycle = "down"
    /\ cycle' = "measure" /\ ownAge' = NoAge
    /\ UNCHANGED <<pending, keyAge, quiet, prior, gap, reported, silence>>
\* It is stopped or killed, anywhere.
Stop ==
    /\ cycle # "down"
    /\ cycle' = "down"
    /\ UNCHANGED <<pending, beatVars, prior, gap, reported, silence>>
\* The database does not answer: run_forever logs it and waits.
AfterFailureEnds == "ended"                    \* mutant: a failed cycle ends the loop
AfterFailure == "wait"
CycleFails ==
    /\ cycle = "probe"
    /\ cycle' = AfterFailure
    /\ gap' = NoAge
    /\ UNCHANGED <<pending, beatVars, prior, reported, silence>>

\* age_since_last: the key in Redis; without Redis, what the process remembers.
Measure ==
    /\ cycle = "measure"
    /\ prior' \in {keyAge, ownAge}
    /\ gap' = quiet /\ silence' = FALSE
    /\ cycle' = "probe"
    /\ UNCHANGED <<pending, beatVars, reported>>

\* _probe_overdue: every overdue item is in the report of its failure class.
Probe ==
    /\ cycle = "probe"
    /\ reported' = reported \cup {i \in Items : Overdue(i)}
    /\ cycle' = "beat"
    /\ UNCHANGED <<pending, beatVars, prior, gap, silence>>

\* beat, which survives an unreachable Redis.
Beat ==
    /\ cycle = "beat"
    /\ keyAge' = 0 /\ ownAge' = 0 /\ quiet' = 0
    /\ cycle' = "alert"
    /\ UNCHANGED <<pending, prior, gap, reported, silence>>
BeatIsLost ==
    /\ cycle = "beat"
    /\ cycle' = "alert"
    /\ UNCHANGED <<pending, beatVars, prior, gap, reported, silence>>

\* The dead-man switch, from what was measured before the beat.
DeadMan ==
    /\ cycle = "alert"
    /\ silence' = (prior # NoAge /\ prior > DeadManInterval)
    /\ cycle' = "wait"
    /\ UNCHANGED <<pending, beatVars, prior, gap, reported>>

RunCycle == Measure \/ Probe \/ Beat \/ BeatIsLost \/ DeadMan

WatchdogNext ==
    \/ \E i \in Items : EntersLimbo(i) \/ LeavesLimbo(i)
    \/ Tick \/ Start \/ Stop \/ CycleFails \/ RunCycle

\* Time goes on, a step that can be taken is taken, and the database answers now and then.
\* Nothing restarts the process: what is promised is promised while it runs.
WatchdogFairness == WF_watchdogVars(Tick) /\ WF_watchdogVars(Measure) /\ SF_watchdogVars(Probe)
                    /\ WF_watchdogVars(Beat \/ BeatIsLost) /\ WF_watchdogVars(DeadMan)
WatchdogSpec == WatchdogInit /\ [][WatchdogNext]_watchdogVars /\ WatchdogFairness
------------------------------------------------------------------------------
\* The type of the ages and of the place in the cycle.
WatchdogTypeOK ==
    /\ pending \in [Items -> (0..Threshold) \cup {NoAge}]
    /\ {keyAge, ownAge, prior, quiet, gap} \subseteq Ages
    /\ keyAge # NoAge => keyAge < HeartbeatTTL
    /\ cycle \in {"down", "wait", "measure", "probe", "beat", "alert"}
    /\ reported \subseteq {i \in Items : Overdue(i)}

\* An item past its deadline is reported unless it leaves limbo or the process is stopped
\* and not started again: no failed cycle is the last one.
OverdueReported ==
    \A i \in Items : Overdue(i) /\ cycle # "down" ~> i \in reported \/ ~Overdue(i) \/ cycle = "down"

\* RedisHeartbeat: "Stores a timestamped key with a TTL so a dead watchdog's check-in expires
\* and the dead-man switch fires"; run_cycle: "a watchdog that just woke up after a long
\* silence still reports the missed window".
SilenceReported == cycle = "wait" /\ gap # NoAge /\ gap > DeadManInterval => silence
==============================================================================
