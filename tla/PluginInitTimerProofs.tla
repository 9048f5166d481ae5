------------------------ MODULE PluginInitTimerProofs ------------------------
(***************************************************************************)
(* What PluginInitTimer promises for every set of plugins, every limit and *)
(* every time to live, with proofs.  TimerInv is the inductive invariant:  *)
(* NoPrematureAlarm alone is not preserved by a scan, which reads the      *)
(* cache entry while the property speaks of the run of scans.              *)
(***************************************************************************)
EXTENDS PluginInitTimer, TLAPS

USE DEF NoEntry, Codes

\* A minute keeps an age in its range, never turns an entry into none, and
\* keeps ages in their order.
LEMMA OlderAge ==
    ASSUME NEW a \in NoEntry..(TTL + 1)
    PROVE  /\ Older(a) \in NoEntry..(TTL + 1)
           /\ Older(a) = NoEntry <=> a = NoEntry
           /\ a <= Older(a)
           /\ Older(a) <= TTL => (a # NoEntry => Older(a) = a + 1)
  BY LimitsAssumption, SMT DEF Older

\* What a scan leaves in the cache is an age.
LEMMA EntryAfterScanAge ==
    ASSUME TypeOK, NEW p \in Plugins
    PROVE  EntryAfterScan(p) \in NoEntry..(TTL + 1)
  <1>1. ca[p] \in NoEntry..(TTL + 1)  BY DEF TypeOK
  <1>2. 0 \in NoEntry..(TTL + 1)  BY LimitsAssumption
  <1>3. QED  BY <1>1, <1>2, LimitsAssumption DEF EntryAfterScan, Found

\* So is the length of the run it leaves.
LEMMA RunAfterScanAge ==
    ASSUME TypeOK, NEW p \in Plugins
    PROVE  RunAfterScan(p) \in NoEntry..(TTL + 1)
  <1>1. run[p] \in NoEntry..(TTL + 1)  BY DEF TypeOK
  <1>2. 0 \in NoEntry..(TTL + 1)  BY LimitsAssumption
  <1>3. QED  BY <1>1, <1>2, LimitsAssumption DEF RunAfterScan

\* No timer runs at the start of the program.
LEMMA InitTypeOK == Init => TypeOK
  BY LimitsAssumption, PeriodAssumption, BoundsAssumption DEF Init, TypeOK

\* Every action keeps the types.
LEMMA NextTypeOK == TypeOK /\ [Next]_vars => TypeOK'
  <1> SUFFICES ASSUME TypeOK, [Next]_vars PROVE TypeOK'
    OBVIOUS
  <1> USE LimitsAssumption, PeriodAssumption, BoundsAssumption
  <1>1. ASSUME NEW p \in Plugins, DeviceWrites(p) PROVE TypeOK'
    BY <1>1 DEF TypeOK, DeviceWrites
  <1>2. CASE Tick
    <2>1. \A p \in Plugins : /\ Older(ca[p]) \in NoEntry..(TTL + 1)
                             /\ Older(run[p]) \in NoEntry..(TTL + 1)
      BY OlderAge DEF TypeOK
    <2>2. QED  BY <1>2, <2>1 DEF TypeOK, Tick
  <1>3. CASE Scan
    <2>1. \A p \in Plugins : Code999OverTenMinutes(p) \in BOOLEAN
      BY DEF Code999OverTenMinutes, Found
    <2>2. QED  BY <1>3, <2>1, EntryAfterScanAge, RunAfterScanAge DEF TypeOK, Scan
  <1>4. CASE Missed  BY <1>4 DEF TypeOK, Missed
  <1>5. CASE Restart  BY <1>5 DEF TypeOK, Restart
  <1>6. CASE UNCHANGED vars  BY <1>6 DEF TypeOK, vars
  <1>7. QED  BY <1>1, <1>2, <1>3, <1>4, <1>5, <1>6 DEF Next

\* The types hold in every reachable state.
THEOREM TypeCorrect == Spec => []TypeOK
  BY InitTypeOK, NextTypeOK, PTL DEF Spec

\* At the start there is neither an entry nor a run.
LEMMA InitTimerInv == Init => TimerInv
  <1> SUFFICES ASSUME Init, NEW p \in Plugins
               PROVE  /\ ca[p] = NoEntry <=> run[p] = NoEntry
                      /\ ca[p] <= run[p]
                      /\ run[p] <= TTL => ca[p] = run[p]
                      /\ over[p] => run[p] > InitLimit
    BY DEF TimerInv
  <1>1. ca[p] = NoEntry /\ run[p] = NoEntry  BY DEF Init
  <1>2. ~over[p]  BY Zenon DEF Init
  <1>3. QED  BY <1>1, <1>2

\* A scan stores, keeps or deletes the entry as the run begins, goes on or
\* ends; a minute ages both alike.
LEMMA NextTimerInv == TypeOK /\ TimerInv /\ [Next]_vars => TimerInv'
  <1> SUFFICES ASSUME TypeOK, TimerInv, [Next]_vars PROVE TimerInv'
    OBVIOUS
  <1> USE LimitsAssumption
  <1>1. ASSUME NEW q \in Plugins, DeviceWrites(q) PROVE TimerInv'
    BY <1>1 DEF TimerInv, DeviceWrites
  <1>2. CASE Tick
    <2> SUFFICES ASSUME NEW p \in Plugins
                 PROVE  /\ ca'[p] = NoEntry <=> run'[p] = NoEntry
                        /\ ca'[p] <= run'[p]
                        /\ run'[p] <= TTL => ca'[p] = run'[p]
                        /\ over'[p] => run'[p] > InitLimit
      BY DEF TimerInv
    <2>1. /\ ca[p] \in NoEntry..(TTL + 1)
          /\ run[p] \in NoEntry..(TTL + 1)
      BY DEF TypeOK
    <2>2. /\ ca'[p] = Older(ca[p])
          /\ run'[p] = Older(run[p])
          /\ over'[p] = over[p]
      BY <1>2 DEF Tick
    <2>3. /\ ca[p] = NoEntry <=> run[p] = NoEntry
          /\ ca[p] <= run[p]
          /\ run[p] <= TTL => ca[p] = run[p]
          /\ over[p] => run[p] > InitLimit
      BY DEF TimerInv
    <2>4. QED  BY <2>1, <2>2, <2>3 DEF Older
  <1>3. CASE Scan
    <2> SUFFICES ASSUME NEW p \in Plugins
                 PROVE  /\ ca'[p] = NoEntry <=> run'[p] = NoEntry
                        /\ ca'[p] <= run'[p]
                        /\ run'[p] <= TTL => ca'[p] = run'[p]
                        /\ over'[p] => run'[p] > InitLimit
      BY DEF TimerInv
    <2>1. /\ ca[p] \in NoEntry..(TTL + 1)
          /\ run[p] \in NoEntry..(TTL + 1)
          /\ code[p] \in Codes
      BY DEF TypeOK
    <2>2. /\ ca'[p] = EntryAfterScan(p)
          /\ run'[p] = RunAfterScan(p)
          /\ over'[p] = Code999OverTenMinutes(p)
      BY <1>3 DEF Scan
    <2>3. /\ ca[p] = NoEntry <=> run[p] = NoEntry
          /\ ca[p] <= run[p]
          /\ run[p] <= TTL => ca[p] = run[p]
      BY DEF TimerInv
    <2>4. /\ ca'[p] = NoEntry <=> run'[p] = NoEntry
          /\ ca'[p] <= run'[p]
          /\ run'[p] <= TTL => ca'[p] = run'[p]
      BY <2>1, <2>2, <2>3 DEF EntryAfterScan, RunAfterScan, Found
    <2>5. Code999OverTenMinutes(p) => run'[p] > InitLimit
      BY <2>1, <2>2, <2>3 DEF RunAfterScan, Code999OverTenMinutes, Found
    <2>6. over'[p] => run'[p] > InitLimit
      BY <2>2, <2>5, Zenon
    <2>7. QED  BY <2>4, <2>6
  <1>4. CASE Missed  BY <1>4 DEF TimerInv, Missed
  <1>5. CASE Restart  BY <1>5 DEF TimerInv, Restart
  <1>6. CASE UNCHANGED vars  BY <1>6 DEF TimerInv, vars
  <1>7. QED  BY <1>1, <1>2, <1>3, <1>4, <1>5, <1>6 DEF Next

\* Entry and run agree in every reachable state.
THEOREM TimerAgrees == Spec => []TimerInv
  <1>1. TypeOK /\ TimerInv /\ [Next]_vars => TypeOK' /\ TimerInv'
    BY NextTypeOK, NextTimerInv
  <1>2. QED  BY InitTypeOK, InitTimerInv, <1>1, PTL DEF Spec

\* No plugin is ever reported as overdue before more than InitLimit minutes
\* of uninterrupted 999 have been seen.
THEOREM AlarmNotEarly == Spec => []NoPrematureAlarm
  <1>1. TimerInv => NoPrematureAlarm  BY DEF TimerInv, NoPrematureAlarm
  <1>2. QED  BY TimerAgrees, <1>1, PTL

\* A plugin found in the window between InitLimit and TTL minutes of 999 is
\* reported by that very scan.
THEOREM AlarmNotLate == Spec => TimelyAlarm
  <1>1. TimerInv /\ [Next]_vars =>
          [\A p \in Plugins : Scan /\ code[p] = "999" /\ run[p] > InitLimit
                                   /\ run[p] <= TTL => over'[p]]_vars
    <2> SUFFICES ASSUME TimerInv, NEW p \in Plugins, Scan, code[p] = "999",
                        run[p] > InitLimit, run[p] <= TTL
                 PROVE  over'[p]
      OBVIOUS
    <2>1. ca[p] = run[p]  BY DEF TimerInv
    <2>2. ca[p] # NoEntry  BY <2>1, LimitsAssumption
    <2>3. Code999OverTenMinutes(p)
      BY <2>1, <2>2 DEF Code999OverTenMinutes, Found
    <2>4. QED  BY <2>3 DEF Scan
  <1>2. QED  BY TimerAgrees, <1>1, PTL DEF Spec, TimelyAlarm
==============================================================================
