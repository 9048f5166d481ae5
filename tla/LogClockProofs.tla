---------------------------- MODULE LogClockProofs ----------------------------
(***************************************************************************)
(* The limits of the time rules, for every configuration, every clock and  *)
(* every order of writes and examinations.                                 *)
(*                                                                         *)
(* Each bound follows from what the two roundings mean for seconds         *)
(* (InSyncRange, OverdueRange) and from the order of the times the monitor *)
(* has collected: the listed write is not after the fetched one, which is  *)
(* not after the last (Order).                                             *)
(***************************************************************************)
EXTENDS LogClock, TLAPS

\* Rounding up to minutes, compared with whole minutes.
LEMMA CeilRange ==
    ASSUME NEW d \in Int, NEW k \in Int
    PROVE  /\ Ceil(d) \in Int
           /\ Ceil(d) <= k <=> d <= 60 * k
BY DEF Ceil, Minute

\* checkSyncTime lets a file be a minute older than its stamp more than it
\* lets it be newer: the cost of rounding before the sign is dropped.
LEMMA InSyncRange ==
    ASSUME NEW d \in Int
    PROVE  InSync(d) <=> d <= 60 * Synctime /\ d > -60 * (Synctime + 1)
<1>1. Synctime \in Nat
    BY LimitsAssumption
<1>2. /\ Ceil(d) \in Int
      /\ Ceil(d) <= Synctime <=> d <= 60 * Synctime
    BY <1>1, CeilRange
<1>3. Ceil(d) <= -Synctime - 1 <=> d <= 60 * (-Synctime - 1)
    BY <1>1, CeilRange
<1>4. InSync(d) <=> Ceil(d) <= Synctime /\ -Ceil(d) <= Synctime
    BY <1>1, <1>2 DEF InSync, Abs
<1> QED BY <1>1, <1>2, <1>3, <1>4

LEMMA OverdueRange ==
    ASSUME NEW age \in Int
    PROVE  Overdue(age) <=> age > 60 * Overtime
BY LimitsAssumption, CeilRange DEF Overdue

\* Two times lie in different days when one is before or after the other's.
LEMMA OtherDay ==
    ASSUME NEW t \in Int, NEW u \in Int, DayOf(t) # DayOf(u)
    PROVE  u < t - (t % Day) \/ u >= t - (t % Day) + Day
<1>1. Day \in Nat /\ Day > 0
    BY DayAssumption
<1>2. t = Day * (t \div Day) + (t % Day) /\ t % Day \in 0..(Day - 1)
    BY <1>1
<1>3. u = Day * (u \div Day) + (u % Day) /\ u % Day \in 0..(Day - 1)
    BY <1>1
<1>4. t \div Day \in Int /\ u \div Day \in Int
    BY <1>1
<1>5. \/ u \div Day <= (t \div Day) - 1
      \/ u \div Day >= (t \div Day) + 1
    BY <1>4 DEF DayOf
<1>6. CASE u \div Day <= (t \div Day) - 1
    <2>1. Day * (u \div Day) <= Day * ((t \div Day) - 1)
        BY <1>1, <1>4, <1>6
    <2>2. Day * ((t \div Day) - 1) = Day * (t \div Day) - Day
        BY <1>1, <1>4
    <2> QED BY <1>1, <1>2, <1>3, <1>4, <2>1, <2>2
<1>7. CASE u \div Day >= (t \div Day) + 1
    <2>1. Day * (u \div Day) >= Day * ((t \div Day) + 1)
        BY <1>1, <1>4, <1>7
    <2>2. Day * ((t \div Day) + 1) = Day * (t \div Day) + Day
        BY <1>1, <1>4
    <2> QED BY <1>1, <1>2, <1>3, <1>4, <2>1, <2>2
<1> QED BY <1>5, <1>6, <1>7

\* A write of a running device has left its directory.
Written == /\ lastWrite <= now
           /\ \A d \in Days : logs[d] <= lastWrite
           /\ running => /\ lastWrite \in Nat
                         /\ now <= lastWrite + WriteEvery
                         /\ DayOf(Stamp(lastWrite)) \in Days
                         /\ logs[DayOf(Stamp(lastWrite))] # Never

Listed == /\ listed \in Nat
          /\ mtime <= listed
          /\ mtime > listed - Minute

Fetched == Listed /\ fetched \in Nat /\ listed <= fetched /\ fetched <= lastWrite

\* The order of the times the monitor has collected.
Order == /\ pc = "entered" => logs[dir] # Never
         /\ pc = "listed" => Listed /\ listed <= logs[dir]
         /\ pc = "fetched" \/ verdict \in {"skewed", "overdue", "healthy"} => Fetched

\* What each verdict was given for.
Judged ==
    /\ pc = "fetched" \/ verdict \in {"overdue", "healthy"}
          => InSync(mtime - Stamp(fetched))
    /\ verdict = "skewed" => ~InSync(mtime - Stamp(fetched))
    /\ verdict = "overdue" => Overdue(now - Stamp(fetched))
    /\ verdict = "healthy" => ~Overdue(now - Stamp(fetched))

Today == DayOf(now) \in 0..LastDay

IInv == TypeOK /\ Today /\ Written /\ Order /\ Judged /\ MissedNearMidnight
------------------------------------------------------------------------------
USE DEF Never, Minute

LEMMA DayOfNat ==
    ASSUME NEW t \in Nat
    PROVE  DayOf(t) \in Nat
BY DayAssumption DEF DayOf

LEMMA InitIInv == Init => IInv
<1> SUFFICES ASSUME Init
             PROVE  IInv
    OBVIOUS
<1>1. DayOf(0) = 0
    BY DayAssumption DEF DayOf
<1>2. TypeOK
    <2>1. 0 \in Days
        BY DayAssumption DEF Days
    <2>2. logs \in [Days -> Nat \cup {Never}]
        BY DEF Init
    <2>3. /\ now \in Nat /\ skew \in Skews /\ running \in BOOLEAN
          /\ lastWrite \in Nat \cup {Never} /\ dir \in Days
        BY <2>1 DEF Init, Forgotten
    <2>4. /\ listed \in Nat \cup {Never} /\ mtime \in Int
          /\ fetched \in Nat \cup {Never}
        BY DEF Init, Forgotten
    <2>5. pc = "idle" /\ verdict = "none"
        BY DEF Init, Forgotten
    <2> QED BY <2>2, <2>3, <2>4, <2>5 DEF TypeOK
<1>3. Today
    BY <1>1, DayAssumption DEF Init, Today
<1>4. Written
    BY DEF Init, Written
<1>5. Order /\ Judged /\ MissedNearMidnight
    BY DEF Init, Forgotten, Order, Judged, MissedNearMidnight
<1> QED BY <1>2, <1>3, <1>4, <1>5 DEF IInv

\* The step that misses the directory of the day.
LEMMA EnterNearMidnight ==
    ASSUME IInv, Enter
    PROVE  MissedNearMidnight'
<1> DEFINE w == Stamp(lastWrite)
<1> SUFFICES ASSUME verdict' = "noDir", running'
             PROVE  MissedNearMidnight'
    BY DEF MissedNearMidnight
<1>1. /\ running /\ logs[DayOf(now)] = Never
      /\ now' = now /\ skew' = skew
    BY DEF Enter, IInv, TypeOK, deviceVars
<1>2. /\ now \in Int /\ w \in Int /\ skew \in Int
      /\ WriteEvery \in Nat /\ Day \in Nat \ {0}
      /\ now - WriteEvery <= lastWrite /\ lastWrite <= now /\ lastWrite \in Nat
    BY <1>1, SkewsAssumption, TimesAssumption, DayAssumption
       DEF IInv, TypeOK, Written, Stamp
<1>3. DayOf(now) # DayOf(w)
    BY <1>1 DEF IInv, Written
<1>4. w < now - (now % Day) \/ w >= now - (now % Day) + Day
    BY <1>2, <1>3, OtherDay
<1>5. /\ now % Day \in Int
      /\ Abs(skew) \in Int /\ skew <= Abs(skew) /\ -skew <= Abs(skew)
    BY <1>2 DEF Abs
<1>6. now % Day < WriteEvery + Abs(skew) \/ now % Day >= Day - Abs(skew)
    BY <1>2, <1>4, <1>5 DEF Stamp
<1> QED BY <1>1, <1>6 DEF MissedNearMidnight

LEMMA StepIInv == IInv /\ [Next]_vars => IInv'
<1> SUFFICES ASSUME IInv, [Next]_vars
             PROVE  IInv'
    OBVIOUS
<1> USE SkewsAssumption, TimesAssumption, DayAssumption DEF IInv
<1>1. CASE pc # "judged" /\ Tick
    <2>1. PICK t \in Steps :
              /\ now' = now + t
              /\ DayOf(now') <= LastDay
              /\ running => now' <= lastWrite + WriteEvery
        BY <1>1 DEF Tick
    <2>2. UNCHANGED <<deviceVars, scanVars>> /\ verdict = "none"
        BY <1>1 DEF Tick, TypeOK
    <2>3. TypeOK'
        BY <2>1, <2>2 DEF TypeOK, deviceVars, scanVars
    <2>7. Today'
        BY <2>1, <2>3, DayOfNat DEF TypeOK, Today
    <2>4. Written'
        BY <2>1, <2>2 DEF TypeOK, Written, deviceVars, scanVars, Stamp
    <2>5. Order' /\ Judged'
        BY <2>2 DEF Order, Judged, Listed, Fetched, deviceVars, scanVars, Stamp
    <2>6. MissedNearMidnight'
        BY <2>2 DEF MissedNearMidnight, scanVars
    <2> QED BY <2>3, <2>4, <2>5, <2>6, <2>7
<1>2. CASE pc # "judged" /\ Write
    <2> DEFINE d == DayOf(Stamp(now))
    <2>1. /\ d \in Days /\ running' = TRUE /\ lastWrite' = now
          /\ logs' = [logs EXCEPT ![d] = now]
          /\ UNCHANGED <<now, skew, scanVars>> /\ verdict = "none"
        BY <1>2 DEF Write, TypeOK
    <2>2. TypeOK'
        BY <2>1 DEF TypeOK, scanVars
    <2>3. Written'
        BY <2>1 DEF TypeOK, Written, Stamp
    <2>4. \A e \in Days : logs[e] <= logs'[e] /\ (logs[e] # Never => logs'[e] # Never)
        BY <2>1 DEF TypeOK, Written
    <2>5. Order'
        BY <2>1, <2>4 DEF TypeOK, Written, Order, Listed, Fetched, scanVars
    <2>6. Judged'
        BY <2>1 DEF Judged, scanVars, Stamp
    <2>7. MissedNearMidnight'
        BY <2>1 DEF MissedNearMidnight, scanVars
    <2>8. Today'
        BY <2>1 DEF Today
    <2> QED BY <2>2, <2>3, <2>5, <2>6, <2>7, <2>8
<1>3. CASE pc # "judged" /\ Stops
    <2>1. running' = FALSE /\ UNCHANGED <<now, skew, lastWrite, logs, scanVars>>
        BY <1>3 DEF Stops
    <2> QED BY <2>1 DEF TypeOK, Written, Order, Judged, Listed, Fetched, scanVars,
                        MissedNearMidnight, Stamp, Today
<1>4. CASE Enter
    <2>1. /\ pc = "idle" /\ verdict = "none"
          /\ \/ logs[dir'] = Never /\ pc' = "judged" /\ verdict' = "noDir"
             \/ logs[dir'] # Never /\ pc' = "entered" /\ verdict' = "none"
          /\ dir' = DayOf(now)
          /\ UNCHANGED <<now, deviceVars, listed, mtime, fetched>>
        BY <1>4 DEF Enter, TypeOK
    <2>2. dir' \in Days
        BY <2>1 DEF Today, Days
    <2>3. TypeOK'
        BY <2>1, <2>2 DEF TypeOK, deviceVars
    <2>4. Today' /\ Written'
        BY <2>1 DEF Today, Written, Stamp, deviceVars
    <2>5. Order' /\ Judged'
        BY <2>1 DEF Order, Judged, Stamp, deviceVars
    <2>6. MissedNearMidnight'
        BY <1>4, EnterNearMidnight
    <2> QED BY <2>3, <2>4, <2>5, <2>6
<1>5. CASE List
    <2>1. /\ pc = "entered" /\ pc' = "listed" /\ verdict = "none"
          /\ listed' = logs[dir]
          /\ mtime' \in {listed', listed' - (listed' % 60)}
          /\ UNCHANGED <<now, deviceVars, dir, fetched, verdict>>
        BY <1>5 DEF List, TypeOK
    <2>2. listed' \in Nat /\ mtime' \in Int /\ Listed'
        BY <2>1 DEF TypeOK, Order, Listed
    <2>3. TypeOK' /\ Today'
        BY <2>1, <2>2 DEF TypeOK, Today, deviceVars
    <2>4. Written'
        BY <2>1 DEF Written, Stamp, deviceVars
    <2>5. Order' /\ Judged' /\ MissedNearMidnight'
        BY <2>1, <2>2 DEF Order, Judged, MissedNearMidnight, deviceVars
    <2> QED BY <2>3, <2>4, <2>5
<1>6. CASE Fetch
    <2>1. /\ pc = "listed" /\ verdict = "none"
          /\ fetched' = logs[dir]
          /\ \/ /\ InSync(mtime - Stamp(fetched'))
                /\ pc' = "fetched" /\ verdict' = "none"
             \/ /\ ~InSync(mtime - Stamp(fetched'))
                /\ pc' = "judged" /\ verdict' = "skewed"
          /\ UNCHANGED <<now, deviceVars, dir, listed, mtime>>
        BY <1>6 DEF Fetch, TypeOK
    <2>2. Fetched'
        BY <2>1 DEF TypeOK, Written, Order, Listed, Fetched, deviceVars
    <2>3. TypeOK' /\ Today'
        BY <2>1, <2>2 DEF TypeOK, Today, deviceVars, Fetched
    <2>4. Written'
        BY <2>1 DEF Written, Stamp, deviceVars
    <2>5. Order' /\ MissedNearMidnight'
        BY <2>1, <2>2 DEF Order, MissedNearMidnight
    <2>6. Judged'
        BY <2>1 DEF Judged, Stamp, deviceVars
    <2> QED BY <2>3, <2>4, <2>5, <2>6
<1>7. CASE Judge
    <2>1. /\ pc = "fetched" /\ pc' = "judged" /\ verdict = "none"
          /\ \/ Overdue(now - Stamp(fetched)) /\ verdict' = "overdue"
             \/ ~Overdue(now - Stamp(fetched)) /\ verdict' = "healthy"
          /\ UNCHANGED <<now, deviceVars, dir, listed, mtime, fetched>>
        BY <1>7 DEF Judge, TypeOK
    <2>2. TypeOK' /\ Today'
        BY <2>1 DEF TypeOK, Today, deviceVars
    <2>3. Written'
        BY <2>1 DEF Written, Stamp, deviceVars
    <2>4. Order' /\ MissedNearMidnight'
        BY <2>1 DEF Order, Listed, Fetched, MissedNearMidnight, deviceVars
    <2>5. Judged'
        BY <2>1 DEF Judged, Stamp, deviceVars
    <2> QED BY <2>2, <2>3, <2>4, <2>5
<1>8. CASE Reported
    <2>1. /\ pc' = "idle" /\ verdict' = "none"
          /\ dir' = 0 /\ listed' = Never /\ mtime' = Never
          /\ fetched' = Never
          /\ UNCHANGED <<now, deviceVars>>
        BY <1>8 DEF Reported
    <2>2. TypeOK' /\ Today'
        BY <2>1 DEF TypeOK, Today, deviceVars, Days
    <2>3. Written'
        BY <2>1 DEF Written, Stamp, deviceVars
    <2>4. Order' /\ Judged' /\ MissedNearMidnight'
        BY <2>1 DEF Order, Judged, MissedNearMidnight
    <2> QED BY <2>2, <2>3, <2>4
<1>9. CASE UNCHANGED vars
    BY <1>9 DEF vars, deviceVars, scanVars, TypeOK, Today, Written, Order, Judged,
       Listed, Fetched, MissedNearMidnight, Stamp
<1> QED BY <1>1, <1>2, <1>3, <1>4, <1>5, <1>6, <1>7, <1>8, <1>9 DEF Next

LEMMA Invariant == Spec => []IInv
BY InitIInv, StepIInv, PTL DEF Spec
------------------------------------------------------------------------------
\* The bounds, from what a verdict was given for.
LEMMA Bounds ==
    ASSUME IInv
    PROVE  SkewIsReal /\ SkewIsSeen /\ SilenceIsSeen /\ OverdueIsReal
<1>1. /\ Synctime \in Nat /\ Overtime \in Nat /\ now \in Int /\ skew \in Int
      /\ mtime \in Int /\ lastWrite \in Int /\ fetched \in Int /\ listed \in Int
    BY LimitsAssumption, SkewsAssumption DEF IInv, TypeOK
<1>2. ASSUME verdict \in {"skewed", "overdue", "healthy"}
      PROVE  /\ mtime <= listed /\ mtime > listed - 60
             /\ listed <= fetched /\ fetched <= lastWrite
    BY <1>2 DEF IInv, Order, Fetched, Listed
<1>3. mtime - Stamp(fetched) \in Int /\ now - Stamp(fetched) \in Int
    BY <1>1 DEF Stamp
<1>4. SkewIsReal
    <2> SUFFICES ASSUME verdict = "skewed", ~(Gap > 0)
                 PROVE  Abs(skew) > 60 * Synctime
        BY DEF SkewIsReal
    <2>1. ~(mtime - Stamp(fetched) <= 60 * Synctime
              /\ mtime - Stamp(fetched) > -60 * (Synctime + 1))
        BY <1>3, InSyncRange DEF IInv, Judged
    <2> QED BY <1>1, <1>2, <2>1 DEF Stamp, Gap, Abs
<1>5. ASSUME verdict \in {"overdue", "healthy"}
      PROVE  /\ skew < 60 * (Synctime + 1)
             /\ -skew < 60 * (Synctime + 1) + Gap
    <2>1. /\ mtime - Stamp(fetched) <= 60 * Synctime
          /\ mtime - Stamp(fetched) > -60 * (Synctime + 1)
        BY <1>3, <1>5, InSyncRange DEF IInv, Judged
    <2> QED BY <1>1, <1>2, <1>5, <2>1 DEF Stamp, Gap
<1>6. SkewIsSeen
    BY <1>5 DEF SkewIsSeen
<1>7. SilenceIsSeen
    <2> SUFFICES ASSUME verdict = "healthy"
                 PROVE  now - lastWrite < 60 * (Overtime + Synctime + 1)
        BY DEF SilenceIsSeen
    <2>1. ~(now - Stamp(fetched) > 60 * Overtime)
        BY <1>3, OverdueRange DEF IInv, Judged
    <2> QED BY <1>1, <1>2, <1>5, <2>1 DEF Stamp
<1>8. OverdueIsReal
    <2> SUFFICES ASSUME verdict = "overdue"
                 PROVE  now - fetched + 60 * (Synctime + 1) + Gap > 60 * Overtime
        BY DEF OverdueIsReal
    <2>1. now - Stamp(fetched) > 60 * Overtime
        BY <1>3, OverdueRange DEF IInv, Judged
    <2> QED BY <1>1, <1>2, <1>5, <2>1 DEF Stamp, Gap
<1> QED BY <1>4, <1>6, <1>7, <1>8

\* Types of the model for every number of days and every clock.
THEOREM TypeCorrect == Spec => []TypeOK
BY Invariant, PTL DEF IInv

\* A clock is found to be off when it is off by a minute more than the limit,
\* and only when it is off by more than the limit or a write has fallen
\* between the listing and the fetch.
THEOREM SkewAlarms == Spec => []SkewJudged
<1>1. IInv => SkewJudged
    BY Bounds DEF SkewJudged
<1> QED BY Invariant, <1>1, PTL

\* A device that has stopped is not healthy for longer than the limits allow,
\* and a log that is found overdue is old, whatever the device's clock says.
THEOREM SilenceAlarms == Spec => []SilenceJudged
<1>1. IInv => SilenceJudged
    BY Bounds DEF SilenceJudged
<1> QED BY Invariant, <1>1, PTL

\* The directory of a running device is missed only near midnight.
THEOREM MissedOnlyNearMidnight == Spec => []MissedNearMidnight
BY Invariant, PTL DEF IInv
===============================================================================
