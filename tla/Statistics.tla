------------------------------ MODULE Statistics ------------------------------
(***************************************************************************)
(* The totals of a subreddit: counted in memory while activities are       *)
(* handled, saved by a timer, and read again when the resources are made   *)
(* or configured.  One metric is followed.                                 *)
(***************************************************************************)
EXTENDS Naturals, Sequences

CONSTANTS
    Frequencies,  \* of the time series; a change of it renews the statistics
    MaxCounted,   \* bound: counts
    MaxInstances  \* bound: instances of the statistics in the life of a process

ASSUME StatisticsAssumption == MaxCounted \in Nat

VARIABLES
    instances,  \* the instances made since the process started; the last is in use
    setting,    \* what configure waits for, with the total that it has read
    saved,      \* the total in the database
    counted     \* how much was counted in all; no part of the program

statVars == <<instances, setting, saved, counted>>

Absent == [step |-> "absent"]  \* there are no resources
SettingDone == [step |-> "settled"]

StatsTypeOK ==
    /\ instances \in Seq([freq : Frequencies, total : 0 .. MaxCounted, loaded : BOOLEAN,
                          timer : {"unset", "running", "cleared"}, renewed : BOOLEAN])
    /\ setting \in {Absent, SettingDone} \cup [step : {"making", "loading"}, total : 0 .. MaxCounted]
    /\ saved \in 0 .. counted

NewInstance(freq) ==
    [freq |-> freq, total |-> 0, loaded |-> FALSE, timer |-> "unset", renewed |-> FALSE]

StatsInit ==
    /\ instances = <<>>
    /\ setting = Absent
    /\ saved = 0
    /\ counted = 0

Current == Len(instances)

\* updateHistoricalStats, at the end of a handling; the first resources are
\* made before anything is handled.
CountStat ==
    /\ instances # <<>> /\ setting.step # "making" /\ counted < MaxCounted
    /\ instances' = [instances EXCEPT ![Current].total = @ + 1]
    /\ counted' = counted + 1
    /\ UNCHANGED <<setting, saved>>

\* Mutant: totals are saved that were never read.
SavedAlways(i) == instances[i].total

\* saveHistoricalStats: an instance that has not read the total saves none.
SavedBy(i) == IF instances[i].loaded THEN instances[i].total ELSE saved

SaveInterval(i) ==
    /\ instances[i].timer = "running"
    /\ saved' = SavedBy(i)
    /\ UNCHANGED <<instances, setting, counted>>

\* The resources are made, with statistics that read the total.
MakeResources(freq) ==
    /\ setting = Absent /\ Current < MaxInstances
    /\ instances' = Append(instances, NewInstance(freq))
    /\ setting' = [step |-> "making", total |-> saved]
    /\ UNCHANGED <<saved, counted>>

\* destroy of statistics: the timer, if one was set, ends with a save.
Cleared(instance) == IF instance.timer = "unset" THEN instance ELSE [instance EXCEPT !.timer = "cleared"]
SavedAtEnd == IF instances[Current].timer = "unset" THEN saved ELSE SavedBy(Current)

\* configure: another frequency ends the statistics, which then begin again; with
\* another cache new statistics take their place.
Configure(freq, otherCache) ==
    LET renew == instances[Current].freq # freq
        kept == IF renew
                THEN [instances EXCEPT ![Current] = [Cleared(@) EXCEPT !.freq = freq, !.renewed = TRUE]]
                ELSE instances
    IN /\ setting = SettingDone
       /\ ~renew => otherCache
       /\ otherCache => Current < MaxInstances
       /\ saved' = IF renew THEN SavedAtEnd ELSE saved
       /\ instances' = IF otherCache THEN Append(kept, NewInstance(freq)) ELSE kept
       /\ setting' = [step |-> "loading", total |-> saved']
       /\ UNCHANGED counted

\* initStats: the total is what was read, whatever has been counted meanwhile.
Loaded(instance, total) == [instance EXCEPT !.total = total, !.loaded = TRUE]

\* setHistoricalSaveInterval, unless there was a timer, even one that has ended
WithTimer(instance) == IF instance.timer = "unset" THEN [instance EXCEPT !.timer = "running"] ELSE instance

\* A read that fails is logged; it is not tried again.
LoadEnds ==
    /\ setting.step \in {"making", "loading"}
    /\ \/ instances' = [instances EXCEPT ![Current] = WithTimer(Loaded(@, setting.total))]
       \/ instances' = [instances EXCEPT ![Current] = WithTimer(@)]
    /\ setting' = SettingDone
    /\ UNCHANGED <<saved, counted>>

\* The manager is destroyed, and its resources with it.
DestroyStats ==
    /\ setting = SettingDone
    /\ saved' = SavedAtEnd
    /\ instances' = [instances EXCEPT ![Current] = Cleared(@)]
    /\ setting' = Absent
    /\ UNCHANGED counted

CrashStats ==
    /\ instances # <<>>
    /\ instances' = <<>>
    /\ setting' = Absent
    /\ UNCHANGED <<saved, counted>>

StatsNext ==
    \/ CountStat
    \/ \E i \in 1 .. Current : SaveInterval(i)
    \/ \E freq \in Frequencies : MakeResources(freq)
    \/ \E freq \in Frequencies, otherCache \in BOOLEAN : Configure(freq, otherCache)
    \/ LoadEnds
    \/ DestroyStats
    \/ CrashStats

-----------------------------------------------------------------------------

\* An instance that was replaced goes on saving its total.
Replaces == \E i \in 1 .. Current - 1 : instances[i].timer = "running"

\* The total never sinks, through restarts, crashes, renewals and reads that
\* fail, unless another cache has left a replaced instance with its timer
\* (Stats/index.ts:159-172).
TotalsGrow == [][~Replaces => saved' >= saved]_statVars

\* What is counted is saved from time to time, even if the total could not be
\* read, unless the frequency was changed: then the timer has ended for good
\* (SubredditResources.ts:288-290).
TimerRuns == setting = SettingDone => instances[Current].timer = "running" \/ instances[Current].renewed
=============================================================================
