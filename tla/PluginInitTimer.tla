--------------------------- MODULE PluginInitTimer ---------------------------
(***************************************************************************)
(* The "initialised for more than ten minutes" alarm of one device:        *)
(* code999OverTenMinutes in sync/sync_log.go and the go-cache it keeps its *)
(* timers in, created in main.go by syncDeviceLog.                         *)
(*                                                                         *)
(* A plugin that reports the code 999 is still initialising.  The first    *)
(* scan that sees the code stores the time in the cache; later scans       *)
(* compare the age of that entry with ten minutes.  The cache forgets an   *)
(* entry after its own time to live, and forgets everything when the       *)
(* process restarts; a cycle in which the device cannot be reached does    *)
(* not look at the plugins at all.                                         *)
(*                                                                         *)
(* Time is counted in minutes.  math.Ceil(subT.Minutes()) > 10 holds       *)
(* exactly when the real age exceeds ten minutes, so on whole minutes it   *)
(* is age > InitLimit.                                                     *)
(***************************************************************************)
EXTENDS Integers

CONSTANTS Plugins,      \* the plugins of the device that are timed
          InitLimit,    \* minutes a plugin may take to initialise
          TTL,          \* minutes an entry of the cache lives
          Period,       \* longest time between two cycles of the loop
          MaxMisses,    \* bound: cycles that do not reach the device
          MaxRestarts   \* bound: restarts of the program

ASSUME LimitsAssumption == /\ InitLimit \in Nat
                           /\ TTL \in Nat
                           /\ InitLimit < TTL
ASSUME PeriodAssumption == Period \in Nat \ {0}
ASSUME BoundsAssumption == MaxMisses \in Nat /\ MaxRestarts \in Nat

VARIABLES code,      \* code[p]: what the device's fault.log says of p
          ca,        \* ca[p]: age of the cache entry of p, or NoEntry
          over,      \* over[p]: the last cycle reported p as overdue
          idle,      \* minutes since the last cycle
          misses, restarts,
          run        \* history: age of the unbroken run of scans of this
                     \* process that saw 999, or NoEntry

vars == <<code, ca, over, idle, misses, restarts, run>>

NoEntry == -1
Codes == {"999", "other"}

\* Ages beyond the time to live are all alike.
Older(age) == IF age = NoEntry \/ age > TTL THEN age ELSE age + 1

TypeOK == /\ code \in [Plugins -> Codes]
          /\ ca \in [Plugins -> NoEntry..(TTL + 1)]
          /\ run \in [Plugins -> NoEntry..(TTL + 1)]
          /\ over \in [Plugins -> BOOLEAN]
          /\ idle \in 0..Period
          /\ misses \in 0..MaxMisses
          /\ restarts \in 0..MaxRestarts

Init == /\ code \in [Plugins -> Codes]
        /\ ca = [p \in Plugins |-> NoEntry]
        /\ run = [p \in Plugins |-> NoEntry]
        /\ over = [p \in Plugins |-> FALSE]
        /\ idle = 0
        /\ misses = 0
        /\ restarts = 0
------------------------------------------------------------------------------
\* ca.Get: an entry is found until its time to live has passed.
Found(p) == ca[p] # NoEntry /\ ca[p] <= TTL

MutantVerdictByTTL(p) == code[p] = "999" /\ Found(p) /\ ca[p] >= TTL

\* What code999OverTenMinutes returns ...
Code999OverTenMinutes(p) == code[p] = "999" /\ Found(p) /\ ca[p] > InitLimit

MutantNoDelete(p) == IF code[p] = "999" /\ ~Found(p) THEN 0 ELSE ca[p]
MutantExpiredKept(p) ==
    IF code[p] = "999" THEN IF ca[p] # NoEntry THEN ca[p] ELSE 0 ELSE NoEntry

\* ... and what it leaves in the cache.
EntryAfterScan(p) ==
    IF code[p] = "999" THEN IF Found(p) THEN ca[p] ELSE 0 ELSE NoEntry

RunAfterScan(p) ==
    IF code[p] = "999" THEN IF run[p] # NoEntry THEN run[p] ELSE 0 ELSE NoEntry
------------------------------------------------------------------------------
\* The device writes a new fault.log.
DeviceWrites(p) ==
    /\ code' = [code EXCEPT ![p] = IF @ = "999" THEN "other" ELSE "999"]
    /\ UNCHANGED <<ca, over, idle, misses, restarts, run>>

\* A minute passes; the loop sleeps for at most Period.
Tick == /\ idle < Period
        /\ idle' = idle + 1
        /\ ca' = [p \in Plugins |-> Older(ca[p])]
        /\ run' = [p \in Plugins |-> Older(run[p])]
        /\ UNCHANGED <<code, over, misses, restarts>>

\* A cycle that reads fault.log: every timed plugin is examined.
Scan == /\ idle > 0
        /\ idle' = 0
        /\ ca' = [p \in Plugins |-> EntryAfterScan(p)]
        /\ over' = [p \in Plugins |-> Code999OverTenMinutes(p)]
        /\ run' = [p \in Plugins |-> RunAfterScan(p)]
        /\ UNCHANGED <<code, misses, restarts>>

\* A cycle that never gets to fault.log (no FTP, no file, bad JSON).
Missed == /\ idle > 0
          /\ misses < MaxMisses
          /\ misses' = misses + 1
          /\ idle' = 0
          /\ over' = [p \in Plugins |-> FALSE]
          /\ UNCHANGED <<code, ca, run, restarts>>

\* The program restarts with an empty cache.
Restart == /\ restarts < MaxRestarts
           /\ restarts' = restarts + 1
           /\ idle' = 0
           /\ ca' = [p \in Plugins |-> NoEntry]
           /\ run' = [p \in Plugins |-> NoEntry]
           /\ over' = [p \in Plugins |-> FALSE]
           /\ UNCHANGED <<code, misses>>

Next == \/ \E p \in Plugins : DeviceWrites(p)
        \/ Tick
        \/ Scan
        \/ Missed
        \/ Restart

Spec == Init /\ [][Next]_vars

\* Time passes, and the loop comes round: for {...; time.Sleep(duration)}.
FairSpec == Spec /\ WF_vars(Tick) /\ WF_vars(Scan)
------------------------------------------------------------------------------
\* The inductive invariant: as long as the run is not older than the cache's
\* time to live the entry is as old as the run; afterwards the entry may have
\* been stored again and is younger.  An alarm needs an old entry.
TimerInv == \A p \in Plugins :
    /\ ca[p] = NoEntry <=> run[p] = NoEntry
    /\ ca[p] <= run[p]
    /\ run[p] <= TTL => ca[p] = run[p]
    /\ over[p] => run[p] > InitLimit

\* An alarm is never early: when a cycle reports a plugin as overdue, every
\* scan of more than InitLimit minutes has seen it initialising.  A plugin
\* that came up in between must have had its timer removed (ca.Delete).
NoPrematureAlarm == \A p \in Plugins : over[p] => run[p] > InitLimit

\* An alarm is never late while the cache still remembers the start: a scan
\* that finds a plugin in its second InitLimit minutes of 999 reports it,
\* whatever cycles were missed meanwhile.
TimelyAlarm == [][\A p \in Plugins :
                    Scan /\ code[p] = "999" /\ run[p] > InitLimit
                         /\ run[p] <= TTL => over'[p]]_vars

\* A plugin that never comes up is reported again and again, although its
\* entry expires, provided no more than TTL - InitLimit minutes pass between
\* two cycles.
StuckPluginKeepsAlarming ==
    \A p \in Plugins : <>[](code[p] = "999") => []<>over[p]
==============================================================================
