------------------------------- MODULE LogClock -------------------------------
(***************************************************************************)
(* What the time rules of the examination make of a device whose clock is  *)
(* not the server's: getDirs, checkSyncTime and checkOverTime in           *)
(* sync/sync_log.go, with the time that passes between their steps.        *)
(*                                                                         *)
(* A running device writes its fault.log, stamped by its own clock, into   *)
(* the directory of its own day.  The monitor chooses the directory by the *)
(* server's day, takes the time of the last write from the listing and the *)
(* stamp from the content it fetches later, and compares the stamp with    *)
(* its own clock later still.  DeviceScan takes the outcome of these       *)
(* comparisons as given; here they are done on numbers.                    *)
(*                                                                         *)
(* Times are seconds of the server's clock, which the FTP server shares;   *)
(* a directory stands for the fault.log in it.                             *)
(***************************************************************************)
EXTENDS Integers

CONSTANTS Synctime, Overtime,  \* Config.Log, in minutes
          Day,                 \* seconds of a day
          Skews,               \* the device's clock minus the server's
          WriteEvery,          \* a running device lets no more time pass
          Steps,               \* bound: how far time goes at once
          LastDay              \* bound: time ends with this day

ASSUME LimitsAssumption == Synctime \in Nat /\ Overtime \in Nat
ASSUME DayAssumption == Day \in Nat \ {0} /\ LastDay \in Nat
ASSUME SkewsAssumption == Skews \subseteq Int
ASSUME TimesAssumption ==
    WriteEvery \in Nat /\ Steps \subseteq Nat \ {0}

Minute == 60
Never == -1
Days == -1..(LastDay + 1)

DayOf(t) == t \div Day

VARIABLES now,
          skew,
          running,     \* the device writes
          lastWrite,   \* when it wrote last
          logs,        \* logs[d]: the last write to the directory of day d
          pc,          \* of the monitor: "idle", "entered", "listed",
                       \* "fetched", "judged"
          dir,         \* the directory it is in
          listed,      \* the write whose time the listing gave
          mtime,       \* that time, as listed
          fetched,     \* the write whose content was fetched
          verdict      \* "none", "noDir", "skewed", "overdue", "healthy"

deviceVars == <<skew, running, lastWrite, logs>>
scanVars == <<pc, dir, listed, mtime, fetched, verdict>>
vars == <<now, deviceVars, scanVars>>

TypeOK == /\ now \in Nat
          /\ skew \in Skews
          /\ running \in BOOLEAN
          /\ lastWrite \in Nat \cup {Never}
          /\ logs \in [Days -> Nat \cup {Never}]
          /\ pc \in {"idle", "entered", "listed", "fetched", "judged"}
          /\ dir \in Days
          /\ listed \in Nat \cup {Never}
          /\ mtime \in Int
          /\ fetched \in Nat \cup {Never}
          /\ verdict \in {"none", "noDir", "skewed", "overdue", "healthy"}
          /\ verdict = "none" <=> pc # "judged"

Forgotten == /\ dir = 0
             /\ listed = Never
             /\ mtime = Never
             /\ fetched = Never
             /\ verdict = "none"

\* The device has not been running yet.
Init == /\ now = 0
        /\ skew \in Skews
        /\ running = FALSE
        /\ lastWrite = Never
        /\ logs = [d \in Days |-> Never]
        /\ pc = "idle"
        /\ Forgotten
------------------------------------------------------------------------------
\* time.Duration.Minutes and math.Ceil.
Ceil(seconds) == -((-seconds) \div Minute)

Abs(k) == IF k < 0 THEN -k ELSE k

MutantInSync(difference) == Abs(difference) <= Minute * Synctime

\* checkSyncTime: the difference is rounded up before its sign is dropped.
InSync(difference) == Abs(Ceil(difference)) <= Synctime

MutantOverdue(age) == age \div Minute > Overtime + Synctime

\* checkOverTime.
Overdue(age) == Ceil(age) > Overtime

Stamp(write) == write + skew

\* Time goes on, but not past the next write of a running device.  Between
\* two steps of an examination any time may pass: reading has no time-out.
Tick == \E t \in Steps :
            /\ now' = now + t
            /\ DayOf(now') <= LastDay
            /\ running => now' <= lastWrite + WriteEvery
            /\ UNCHANGED <<deviceVars, scanVars>>

\* A device that did not run starts with a write.
Write == LET d == DayOf(Stamp(now)) IN
         /\ d \in Days
         /\ running' = TRUE
         /\ lastWrite' = now
         /\ logs' = [logs EXCEPT ![d] = now]
         /\ UNCHANGED <<now, skew, scanVars>>

Stops == /\ running
         /\ running' = FALSE
         /\ UNCHANGED <<now, skew, lastWrite, logs, scanVars>>

MutantEnter == /\ pc = "idle"
               /\ dir' = DayOf(now + Minute)
               /\ IF logs[dir'] = Never
                  THEN pc' = "judged" /\ verdict' = "noDir"
                  ELSE pc' = "entered" /\ UNCHANGED verdict
               /\ UNCHANGED <<now, deviceVars, listed, mtime, fetched>>

\* The directory of the server's day.
Enter == /\ pc = "idle"
         /\ dir' = DayOf(now)
         /\ IF logs[dir'] = Never
            THEN pc' = "judged" /\ verdict' = "noDir"
            ELSE pc' = "entered" /\ UNCHANGED verdict
         /\ UNCHANGED <<now, deviceVars, listed, mtime, fetched>>

\* The time of the file, to the second or to the minute, as the server lists.
List == /\ pc = "entered"
        /\ pc' = "listed"
        /\ listed' = logs[dir]
        /\ mtime' \in {logs[dir], logs[dir] - (logs[dir] % Minute)}
        /\ UNCHANGED <<now, deviceVars, dir, fetched, verdict>>

\* The content, with checkSyncTime on its stamp.
Fetch == /\ pc = "listed"
         /\ fetched' = logs[dir]
         /\ IF InSync(mtime - Stamp(fetched'))
            THEN pc' = "fetched" /\ UNCHANGED verdict
            ELSE pc' = "judged" /\ verdict' = "skewed"
         /\ UNCHANGED <<now, deviceVars, dir, listed, mtime>>

Judge == /\ pc = "fetched"
         /\ pc' = "judged"
         /\ verdict' = IF Overdue(now - Stamp(fetched)) THEN "overdue" ELSE "healthy"
         /\ UNCHANGED <<now, deviceVars, dir, listed, mtime, fetched>>

\* The report is sent; the next examination starts from nothing.
Reported == /\ pc = "judged"
            /\ pc' = "idle"
            /\ dir' = 0 /\ listed' = Never /\ mtime' = Never
            /\ fetched' = Never /\ verdict' = "none"
            /\ UNCHANGED <<now, deviceVars>>

\* A verdict is looked at in the instant it is given.
Next == \/ pc # "judged" /\ (Tick \/ Write \/ Stops)
        \/ Enter \/ List \/ Fetch \/ Judge \/ Reported

Spec == Init /\ [][Next]_vars
------------------------------------------------------------------------------
\* The device wrote between the listing and the fetch.
Gap == fetched - listed

\* A clock is found to be off only if it is off by more than the limit, or
\* the device wrote again after the listing: the time of the older write is
\* then compared with the stamp of the newer one.
SkewIsReal ==
    verdict = "skewed" => Abs(skew) > Minute * Synctime \/ Gap > 0

\* A clock that is off by a minute more than the limit is found, ahead or
\* behind; but for a write after the listing, which hides as much of a clock
\* that is behind.
SkewIsSeen ==
    verdict \in {"overdue", "healthy"} =>
        /\ skew < Minute * (Synctime + 1)
        /\ -skew < Minute * (Synctime + 1) + Gap

\* checkSyncTime tells a wrong clock from a right one, up to its rounding.
SkewJudged == SkewIsReal /\ SkewIsSeen

\* A device is healthy only if it has written within the limit, and what its
\* clock may be ahead.
SilenceIsSeen ==
    verdict = "healthy" => now - lastWrite < Minute * (Overtime + Synctime + 1)

\* A log is overdue only if it really is older than the limit less what the
\* device's clock may be behind.
OverdueIsReal ==
    verdict = "overdue" =>
        now - fetched + Minute * (Synctime + 1) + Gap > Minute * Overtime

\* checkOverTime tells a silent device from a writing one, up to the skew that
\* checkSyncTime has let pass.
SilenceJudged == SilenceIsSeen /\ OverdueIsReal

\* The directory of a running device is missed only near midnight: before the
\* first write of a new day, or while the two clocks are not on the same day.
MissedNearMidnight ==
    verdict = "noDir" /\ running =>
        \/ now % Day < WriteEvery + Abs(skew)
        \/ now % Day >= Day - Abs(skew)
==============================================================================
