------------------------ MODULE MonitorProcessProofs -------------------------
(***************************************************************************)
(* What the device monitor promises for any number of devices, any batch   *)
(* size and any set of devices that end the process: the reports collected *)
(* are those of the monitored devices, and when a cycle ends all of them   *)
(* have been handed over, each in one batch of at most Devicesize.         *)
(*                                                                         *)
(* HandedUpTo is not inductive alone: while reports are still collected it *)
(* holds only because no batch has been made, which is NothingHandedYet.   *)
(*                                                                         *)
(* All this stays true in the process, where a panic of the synchronisation*)
(* may end the monitor in any state: a panic leads to the state it starts  *)
(* from.  And the synchronisation asks for all three tables and keeps      *)
(* nothing back.                                                           *)
(***************************************************************************)
EXTENDS MonitorProcess, TLAPS

NothingHandedYet == pc = "devices" => loop = 0 /\ handed = {}

IInv == TypeOK /\ Collected /\ HandedUpTo /\ NothingHandedYet

USE DevicesAssumption, DevicesizeAssumption, UndialableAssumption DEF Devices
------------------------------------------------------------------------------
\* A round of the batch loop takes the positions from loop * Devicesize on,
\* below (loop + 1) * Devicesize: the index arithmetic of the inner loop.
LEMMA BatchRange ==
    ASSUME NEW lp \in Nat, NEW d \in Nat \ {0}, NEW len \in Nat
    PROVE  {lp * d + index : index \in 0..(d - 1)} \cap 0..(len - 1)
             = {k \in 0..(len - 1) : lp * d <= k /\ k < (lp + 1) * d}
<1>1. lp * d \in Nat /\ (lp + 1) * d = lp * d + d
  OBVIOUS
<1> DEFINE base == lp * d
<1> HIDE DEF base
<1>2. base \in Nat
  BY <1>1 DEF base
<1>3. {base + index : index \in 0..(d - 1)} \cap 0..(len - 1)
        = {k \in 0..(len - 1) : base <= k /\ k < base + d}
  <2>1. ASSUME NEW k \in 0..(len - 1), base <= k, k < base + d
        PROVE  k \in {base + index : index \in 0..(d - 1)}
    <3>1. k - base \in 0..(d - 1) /\ k = base + (k - base)
      BY <1>2, <2>1
    <3> QED BY <3>1
  <2> QED BY <1>2, <2>1
<1> QED BY <1>1, <1>3 DEF base

\* len \div d + 1 rounds are enough for len reports.
LEMMA RoundsSuffice ==
    ASSUME NEW lp \in Nat, NEW d \in Nat \ {0}, NEW len \in Nat,
           lp >= len \div d + 1
    PROVE  len < lp * d
<1> DEFINE q == len \div d
<1>1. q \in Nat /\ len < d * q + d
  OBVIOUS
<1> HIDE DEF q
<1>2. lp >= q + 1
  BY DEF q
<1>3. lp - (q + 1) \in Nat
  BY <1>1, <1>2
<1>4. (lp - (q + 1)) * d \in Nat
  BY <1>3
<1>5. (lp - (q + 1)) * d = lp * d - (d * q + d)
  BY <1>1
<1>6. lp * d \in Int /\ d * q + d \in Int
  BY <1>1
<1> QED BY <1>1, <1>4, <1>5, <1>6
\* What the next call of SyncServices is given.
LEMMA BatchIs ==
    ASSUME TypeOK
    PROVE  Batch = {k \in 0..(Len(logMsgs) - 1) :
                      loop * Devicesize <= k /\ k < loop * Devicesize + Devicesize}
<1> DEFINE len == Len(logMsgs)
           old == loop * Devicesize
<1>1. loop \in Nat /\ len \in Nat
  BY DEF TypeOK
<1>2. old \in Nat /\ (loop + 1) * Devicesize = old + Devicesize
  BY <1>1
<1> QED BY <1>1, <1>2, BatchRange DEF Batch
------------------------------------------------------------------------------
\* Before the first cycle nothing is collected and nothing handed over.
LEMMA InitIInv == Init => IInv
  BY DEF Init, Idle, IInv, TypeOK, Collected, HandedUpTo, NothingHandedYet

\* Every action keeps the types; only ExamineDevice needs a thought: the device
\* appended is one of the monitored ones.
LEMMA NextTypeOK == TypeOK /\ [Next]_vars => TypeOK'
<1> SUFFICES ASSUME TypeOK, [Next]_vars PROVE TypeOK'
  OBVIOUS
<1> USE DEF TypeOK
<1>1. CASE StartCycle BY <1>1 DEF StartCycle
<1>2. CASE SkipDevice BY <1>2 DEF SkipDevice
<1>3. CASE ExamineDevice
  <2>1. next \in Devices
    BY <1>3 DEF ExamineDevice
  <2> QED BY <1>3, <2>1 DEF ExamineDevice
<1>4. CASE Exit BY <1>4 DEF Exit
<1>5. CASE Restart BY <1>5 DEF Restart
<1>6. CASE DevicesDone BY <1>6 DEF DevicesDone
<1>7. CASE SendBatch
  <2>1. Batch \subseteq Nat
    BY DEF Batch
  <2> QED BY <1>7, <2>1 DEF SendBatch
<1>8. CASE EndCycle BY <1>8 DEF EndCycle
<1>9. CASE UNCHANGED vars BY <1>9 DEF vars
<1>10. CASE NeverReturns BY <1>10 DEF NeverReturns
<1> QED
  BY <1>1, <1>2, <1>3, <1>4, <1>5, <1>6, <1>7, <1>8, <1>9, <1>10 DEF Next

\* Only ExamineDevice adds a report, for a device above all the others.
LEMMA NextCollected == TypeOK /\ Collected /\ [Next]_vars => Collected'
<1> SUFFICES ASSUME TypeOK, Collected, [Next]_vars PROVE Collected'
  OBVIOUS
<1> USE DEF TypeOK, Collected
<1>1. CASE StartCycle BY <1>1 DEF StartCycle
<1>2. CASE SkipDevice BY <1>2 DEF SkipDevice
<1>3. CASE ExamineDevice
  <2> DEFINE len == Len(logMsgs)
  <2>1. /\ logMsgs' = Append(logMsgs, next)
        /\ next' = next + 1 /\ remote' = remote
        /\ next \in remote
    BY <1>3 DEF ExamineDevice
  <2>2. /\ len \in Nat /\ Len(logMsgs') = len + 1
        /\ \A i \in 1..len : logMsgs'[i] = logMsgs[i]
        /\ logMsgs'[len + 1] = next
    BY <2>1
  <2>3. \A i \in 1..(len + 1) : logMsgs'[i] \in remote \cap 1..next
    BY <2>1, <2>2
  <2>4. \A i, j \in 1..(len + 1) : i < j => logMsgs'[i] < logMsgs'[j]
    <3> SUFFICES ASSUME NEW i \in 1..(len + 1), NEW j \in 1..(len + 1), i < j
                 PROVE  logMsgs'[i] < logMsgs'[j]
      OBVIOUS
    <3>1. i \in 1..len /\ logMsgs'[i] = logMsgs[i]
      BY <2>2
    <3>2. CASE j \in 1..len
      BY <2>2, <3>1, <3>2
    <3>3. CASE j = len + 1
      <4>1. logMsgs[i] \in 1..(next - 1)
        BY <3>1
      <4> QED BY <2>2, <3>1, <3>3, <4>1
    <3> QED BY <2>2, <3>2, <3>3
  <2>5. \A d \in remote \cap 1..next : \E i \in 1..(len + 1) : logMsgs'[i] = d
    <3> SUFFICES ASSUME NEW d \in remote \cap 1..next
                 PROVE  \E i \in 1..(len + 1) : logMsgs'[i] = d
      OBVIOUS
    <3>1. CASE d = next BY <2>2, <3>1
    <3>2. CASE d # next
      <4>1. PICK i \in 1..len : logMsgs[i] = d
        BY <3>2
      <4> QED BY <2>2, <4>1
    <3> QED BY <3>1, <3>2
  <2> QED BY <2>1, <2>2, <2>3, <2>4, <2>5
<1>4. CASE Exit BY <1>4 DEF Exit
<1>5. CASE UNCHANGED <<remote, next, logMsgs>> BY <1>5
<1> QED
  BY <1>1, <1>2, <1>3, <1>4, <1>5
  DEF Next, vars, Restart, NeverReturns, DevicesDone, SendBatch, EndCycle

\* Only SendBatch hands reports over, and it takes up where the last left.
LEMMA NextHandedUpTo ==
    TypeOK /\ HandedUpTo /\ NothingHandedYet /\ [Next]_vars
      => HandedUpTo' /\ NothingHandedYet'
<1> SUFFICES ASSUME TypeOK, HandedUpTo, NothingHandedYet, [Next]_vars
             PROVE  HandedUpTo' /\ NothingHandedYet'
  OBVIOUS
<1> USE DEF TypeOK, HandedUpTo, NothingHandedYet
<1>1. CASE StartCycle BY <1>1 DEF StartCycle
<1>2. CASE SkipDevice BY <1>2 DEF SkipDevice
<1>3. CASE ExamineDevice
  <2>1. loop' = 0 /\ handed' = {} /\ Len(logMsgs') \in Nat
    BY <1>3 DEF ExamineDevice
  <2> QED BY <2>1
<1>4. CASE Exit BY <1>4 DEF Exit
<1>5. CASE Restart BY <1>5 DEF Restart
<1>6. CASE DevicesDone BY <1>6 DEF DevicesDone
<1>7. CASE SendBatch
  <2> DEFINE len == Len(logMsgs)
             new == (loop + 1) * Devicesize
             old == loop * Devicesize
  <2>1. /\ Batch = {k \in 0..(len - 1) : old <= k /\ k < old + Devicesize}
        /\ new = old + Devicesize
    BY BatchIs
  <2>2. old \in Nat /\ new \in Nat /\ old <= new
    OBVIOUS
  <2>3. handed' = handed \cup Batch /\ loop' = loop + 1 /\ logMsgs' = logMsgs
    BY <1>7 DEF SendBatch
  <2>4. handed = {k \in 0..(len - 1) : k < old}
    OBVIOUS
  <2> HIDE DEF old, new
  <2>5. handed \cup Batch = {k \in 0..(len - 1) : k < new}
    BY <2>1, <2>2, <2>4
  <2> QED BY <1>7, <2>3, <2>5 DEF new, SendBatch
<1>8. CASE EndCycle BY <1>8 DEF EndCycle
<1>9. CASE UNCHANGED vars BY <1>9 DEF vars
<1>10. CASE NeverReturns BY <1>10 DEF NeverReturns
<1> QED
  BY <1>1, <1>2, <1>3, <1>4, <1>5, <1>6, <1>7, <1>8, <1>9, <1>10 DEF Next

\* The inductive invariant holds in every reachable state.
LEMMA InductiveInvariant == Spec => []IInv
<1>1. IInv /\ [Next]_vars => IInv'
  BY NextTypeOK, NextCollected, NextHandedUpTo DEF IInv
<1> QED BY InitIInv, <1>1, PTL DEF Spec
------------------------------------------------------------------------------
\* Type correctness, for every number of devices and every batch size.
THEOREM TypeCorrect == Spec => []TypeOK
<1>1. IInv => TypeOK BY DEF IInv
<1> QED BY InductiveInvariant, <1>1, PTL

\* The loop over the devices collects one report for each monitored device
\* it has passed, in order: none is missing and none is there twice.
THEOREM ReportsCollected == Spec => []Collected
<1>1. IInv => Collected BY DEF IInv
<1> QED BY InductiveInvariant, <1>1, PTL

\* After each round of the batch loop exactly the reports below
\* loop * Devicesize have been handed over.
THEOREM HandedInOrder == Spec => []HandedUpTo
<1>1. IInv => HandedUpTo BY DEF IInv
<1> QED BY InductiveInvariant, <1>1, PTL

\* With no rounds left every position has been handed over.
LEMMA EndHandsAll == IInv /\ EndCycle => handed = 0..(Len(logMsgs) - 1)
<1> SUFFICES ASSUME IInv, EndCycle PROVE handed = 0..(Len(logMsgs) - 1)
  OBVIOUS
<1>1. /\ loop \in Nat /\ Len(logMsgs) \in Nat
      /\ loop >= Len(logMsgs) \div Devicesize + 1
  BY DEF IInv, TypeOK, EndCycle, Batches
<1>2. Devicesize \in Nat \ {0} /\ loop * Devicesize \in Nat
  BY <1>1
<1>3. Len(logMsgs) < loop * Devicesize
  BY <1>1, <1>2, RoundsSuffice, Zenon
<1>4. handed = {k \in 0..(Len(logMsgs) - 1) : k < loop * Devicesize}
  BY DEF IInv, HandedUpTo
<1> DEFINE len == Len(logMsgs)
           end == loop * Devicesize
<1>5. len \in Nat /\ end \in Nat /\ len < end
  BY <1>1, <1>2, <1>3
<1>6. handed = {k \in 0..(len - 1) : k < end}
  BY <1>4
<1> HIDE DEF len, end
<1>7. handed = 0..(len - 1)
  BY <1>5, <1>6
<1> QED BY <1>7 DEF len

\* The next batch holds nothing that was handed over, and is short enough.
LEMMA BatchApart == IInv => /\ Batch \cap handed = {}
                            /\ \A k, m \in Batch : k - m < Devicesize
<1> SUFFICES ASSUME IInv PROVE /\ Batch \cap handed = {}
                               /\ \A k, m \in Batch : k - m < Devicesize
  OBVIOUS
<1> DEFINE len == Len(logMsgs)
           old == loop * Devicesize
<1>1. loop \in Nat /\ len \in Nat /\ old \in Nat
  BY DEF IInv, TypeOK
<1>2. Batch = {k \in 0..(len - 1) : old <= k /\ k < old + Devicesize}
  BY BatchIs DEF IInv
<1>3. handed = {k \in 0..(len - 1) : k < old}
  BY DEF IInv, HandedUpTo
<1> HIDE DEF old
<1> QED BY <1>1, <1>2, <1>3

\* When a cycle ends no report is left, also when the last batch is shorter
\* than devicesize.
THEOREM NothingForgotten == Spec => AllHandedOver
BY InductiveInvariant, EndHandsAll, PTL DEF AllHandedOver

\* No report is handed over twice in a cycle, and no batch is longer than
\* devicesize.
THEOREM BatchesApart == Spec => BatchesDisjoint
<1>1. IInv /\ SendBatch => /\ Batch \cap handed = {}
                           /\ \A k, m \in Batch : k - m < Devicesize
  BY BatchApart
<1> QED BY InductiveInvariant, <1>1, PTL DEF BatchesDisjoint
------------------------------------------------------------------------------
\* The process.

\* The tables SyncDevice is past.
Before(t) == CASE t = "devices" -> {}
               [] t = "telephones" -> {"devices"}
               [] t = "groups" -> {"devices", "telephones"}

\* History and place agree: CompleteSync is about a step, and needs to know
\* what the steps before it have done.
SyncInv == at \in Tables =>
               /\ tried = IF read THEN Before(at) \cup {at} ELSE Before(at)
               /\ read => at \in found
               /\ sent = found \ (IF read THEN {at} ELSE {})
               /\ found \subseteq tried

ProcessInv == IInv /\ SyncTypeOK /\ SyncInv
------------------------------------------------------------------------------
LEMMA ProcessInitInv == ProcessInit => ProcessInv
  BY InitIInv DEF ProcessInit, ProcessInv, SyncIdle, SyncTypeOK, SyncInv, Tables

\* The steps of the monitor are those of DeviceCycle, and a panic is like an
\* exit in any state.
LEMMA MonitorStep == IInv /\ [ProcessNext]_processVars => IInv'
<1> SUFFICES ASSUME IInv, [ProcessNext]_processVars PROVE IInv'
  OBVIOUS
<1>1. IInv /\ [Next]_vars => IInv'
  BY NextTypeOK, NextCollected, NextHandedUpTo DEF IInv
<1>2. [Next]_vars \/ ProcessEnds
  BY DEF ProcessNext, Next, QueryPanics, ReadingPanics, processVars, vars, syncVars
<1>3. CASE ProcessEnds
  BY <1>3 DEF ProcessEnds, MonitorStartsAnew, IInv, TypeOK, Collected, HandedUpTo,
              NothingHandedYet
<1> QED
  BY <1>1, <1>2, <1>3

\* OpenDatabase begins with nothing asked for; each other step of SyncDevice
\* settles the table it is at and goes on to the one after it.
LEMMA SyncStep ==
    SyncTypeOK /\ SyncInv /\ [ProcessNext]_processVars => SyncTypeOK' /\ SyncInv'
<1> SUFFICES ASSUME SyncTypeOK, SyncInv, [ProcessNext]_processVars
             PROVE  SyncTypeOK' /\ SyncInv'
  OBVIOUS
<1> USE DEF SyncTypeOK, SyncInv, Tables, Before
<1>1. CASE OpenDatabase BY <1>1 DEF OpenDatabase
<1>2. CASE NothingToSend BY <1>2 DEF NothingToSend, After
<1>3. CASE ReadRows BY <1>3 DEF ReadRows
<1>4. CASE SubmitTable BY <1>4 DEF SubmitTable, After
<1>5. CASE SyncStartsAnew BY <1>5 DEF SyncStartsAnew
<1>6. CASE UNCHANGED syncVars BY <1>6 DEF syncVars
<1> QED
  BY <1>1, <1>2, <1>3, <1>4, <1>5, <1>6
  DEF ProcessNext, processVars, Sync, QueryPanics, ReadingPanics,
      ProcessEnds

LEMMA ProcessInvariant == ProcessSpec => []ProcessInv
<1>1. ProcessInv /\ [ProcessNext]_processVars => ProcessInv'
  BY MonitorStep, SyncStep DEF ProcessInv
<1> QED BY ProcessInitInv, <1>1, PTL DEF ProcessSpec
------------------------------------------------------------------------------
\* Types of both loops, and no table is handed over that was empty.
THEOREM ProcessTypes == ProcessSpec => [](TypeOK /\ SyncTypeOK)
<1>1. ProcessInv => TypeOK /\ SyncTypeOK
  BY DEF ProcessInv, IInv
<1> QED BY ProcessInvariant, <1>1, PTL

\* No crash, at whatever moment, makes the device monitor count a report
\* twice, forget one or hand over one it has not collected.
THEOREM ReportsSurviveCrashes == ProcessSpec => [](Collected /\ HandedUpTo)
<1>1. ProcessInv => Collected /\ HandedUpTo
  BY DEF ProcessInv, IInv
<1> QED BY ProcessInvariant, <1>1, PTL

\* A synchronisation that ends has asked for each table and has handed over
\* each one with rows: errors of the platform and of the first query do not
\* cut it short.
THEOREM SyncIsComplete == ProcessSpec => CompleteSync
<1>1. ProcessInv /\ [ProcessNext]_processVars => (SyncEnds => AllTablesDone)
  <2> SUFFICES ASSUME SyncTypeOK, SyncInv, [ProcessNext]_processVars, SyncEnds
               PROVE  AllTablesDone
    BY DEF ProcessInv
  <2> USE DEF SyncTypeOK, SyncInv, Tables, Before, SyncEnds, AllTablesDone
  <2>1. CASE NothingToSend BY <2>1 DEF NothingToSend, After
  <2>2. CASE SubmitTable BY <2>2 DEF SubmitTable, After
  <2>3. CASE at' = at BY <2>3
  <2>4. CASE pc' = "exited" BY <2>4
  <2> QED
    BY <2>1, <2>2, <2>3, <2>4
    DEF ProcessNext, processVars, syncVars, Sync, OpenDatabase, ReadRows,
        QueryPanics, ReadingPanics, ProcessEnds, Exit
<1> QED BY ProcessInvariant, <1>1, PTL DEF ProcessSpec, CompleteSync

\* Neither does a crash make a cycle end with a report left, nor a batch
\* begin with one that was handed over.
THEOREM BatchesSurviveCrashes == ProcessSpec => AllHandedOver /\ BatchesDisjoint
<1>1. ProcessInv => IInv
  BY DEF ProcessInv
<1>2. IInv /\ SendBatch => /\ Batch \cap handed = {}
                           /\ \A k, m \in Batch : k - m < Devicesize
  BY BatchApart
<1> QED
  BY ProcessInvariant, <1>1, <1>2, EndHandsAll, PTL DEF AllHandedOver, BatchesDisjoint
------------------------------------------------------------------------------
\* What a cycle that comes to its end has done, and that it does.

Running == pc \in {"devices", "batches"}

\* No loop goes beyond its end: the one over the devices stops behind the
\* last of them, the one over the batches after Batches rounds.
LoopsInv == /\ Running => remote \subseteq 1..n /\ next <= n + 1
            /\ pc = "batches" => next = n + 1 /\ loop <= Batches

LEMMA LoopsStep == IInv /\ LoopsInv /\ [ProcessNext]_processVars => LoopsInv'
<1> SUFFICES ASSUME IInv, LoopsInv, [ProcessNext]_processVars PROVE LoopsInv'
  OBVIOUS
<1>1. CASE StartCycle
  <2>1. pc' = "devices" /\ remote' \subseteq 1..n'
    BY <1>1 DEF StartCycle
  <2>2. next' <= n' + 1
    <3>1. PICK m \in Nat : n' = m /\ next' = 1
      BY <1>1 DEF StartCycle
    <3>2. 1 <= m + 1
      OBVIOUS
    <3> QED BY <3>1, <3>2
  <2> QED BY <2>1, <2>2 DEF LoopsInv, Running
<1> USE DEF IInv, TypeOK, NothingHandedYet, LoopsInv, Running
<1>2. CASE SkipDevice BY <1>2 DEF SkipDevice
<1>3. CASE ExamineDevice BY <1>3 DEF ExamineDevice
<1>4. CASE Exit \/ ProcessEnds BY <1>4 DEF Exit, ProcessEnds
<1>5. CASE Restart BY <1>5 DEF Restart
<1>6. CASE DevicesDone
  <2>1. loop' = 0 /\ logMsgs' = logMsgs /\ next' = n' + 1
    BY <1>6 DEF DevicesDone
  <2>2. Len(logMsgs) \div Devicesize \in Nat
    OBVIOUS
  <2> QED BY <1>6, <2>1, <2>2 DEF DevicesDone, Batches
<1>7. CASE SendBatch
  <2>1. Batches \in Nat
    BY DEF Batches
  <2>2. loop' <= Batches /\ Batches' = Batches
    BY <1>7, <2>1 DEF SendBatch, Batches
  <2> QED BY <1>7, <2>2 DEF SendBatch
<1>8. CASE EndCycle BY <1>8 DEF EndCycle
<1>9. CASE UNCHANGED vars BY <1>9 DEF vars, Batches
<1>10. CASE NeverReturns BY <1>10 DEF NeverReturns
<1> QED
  BY <1>1, <1>2, <1>3, <1>4, <1>5, <1>6, <1>7, <1>8, <1>9, <1>10
  DEF ProcessNext, Next, QueryPanics, ReadingPanics, processVars

LEMMA LoopsInvariant == ProcessSpec => []LoopsInv
<1>1. ProcessInit => LoopsInv
  BY DEF ProcessInit, Init, LoopsInv, Running
<1>2. ProcessInv => IInv
  BY DEF ProcessInv
<1> QED BY <1>1, <1>2, ProcessInvariant, LoopsStep, PTL DEF ProcessSpec

\* A cycle that ends has reported every device that was monitored in it: of
\* MonitoredDevicesReported this is all but that cycles begin and end.
THEOREM CycleReportsMonitored ==
    ProcessSpec => [][EndCycle => \A d \in remote : Reported(d)']_vars
<1>1. IInv /\ LoopsInv /\ EndCycle => \A d \in remote : Reported(d)'
  <2> SUFFICES ASSUME IInv, LoopsInv, EndCycle, NEW d \in remote
               PROVE  Reported(d)'
    OBVIOUS
  <2> USE DEF IInv, TypeOK
  <2>1. d \in remote \cap 1..(next - 1)
    BY DEF LoopsInv, Running, EndCycle
  <2>2. PICK i \in 1..Len(logMsgs) : logMsgs[i] = d
    BY <2>1 DEF Collected
  <2>3. i - 1 \in handed /\ logMsgs[(i - 1) + 1] = d
    BY <2>2, EndHandsAll
  <2> QED BY <2>3 DEF EndCycle, Reported
<1>2. ProcessInv => IInv
  BY DEF ProcessInv
<1> QED BY <1>1, <1>2, ProcessInvariant, LoopsInvariant, PTL

\* Steps a cycle has left, at most: a device may add a report and with it a
\* round of the batch loop.
CycleLeft == CASE pc = "devices" -> 2 * (n + 1 - next) + Len(logMsgs) + 3
               [] pc = "batches" -> Batches - loop + 1
               [] OTHER -> 0

\* len reports take no more than len + 1 rounds.
LEMMA RoundsBounded ==
    ASSUME NEW d \in Nat \ {0}, NEW len \in Nat
    PROVE  len \div d \in 0..len
<1> DEFINE q == len \div d
<1>1. q \in Nat /\ d * q <= len
  OBVIOUS
<1>2. q <= d * q
  <2>1. d - 1 \in Nat /\ (d - 1) * q \in Nat
    BY <1>1
  <2>2. (d - 1) * q = d * q - q
    BY <1>1
  <2> QED BY <1>1, <2>1, <2>2
<1> QED BY <1>1, <1>2

\* A cycle of the device monitor has an end in sight: with n devices it takes
\* at most 2n + 3 steps after the first, unless the process dies or one of the
\* examinations never returns; that one is then its last step.
THEOREM CycleIsBounded ==
    ProcessSpec => [][Running /\ pc' # "exited"
                        => CycleLeft \in Nat /\ CycleLeft' < CycleLeft]_vars
<1>1. ASSUME IInv, LoopsInv, Next, Running, pc' # "exited"
      PROVE  CycleLeft \in Nat /\ CycleLeft' < CycleLeft
  <2> USE DEF IInv, TypeOK, LoopsInv, Running, NothingHandedYet
  <2>1. Len(logMsgs) \in Nat
    BY <1>1
  <2>2. Batches \in 1..(Len(logMsgs) + 1)
    <3>1. Len(logMsgs) \div Devicesize \in 0..Len(logMsgs)
      BY <2>1, RoundsBounded, Zenon
    <3> QED BY <2>1, <3>1 DEF Batches
  <2>3. CASE SkipDevice
    <3>1. /\ pc = "devices" /\ pc' = "devices" /\ next <= n
          /\ next' = next + 1 /\ n' = n /\ logMsgs' = logMsgs
      BY <2>3 DEF SkipDevice
    <3>2. /\ CycleLeft = 2 * (n + 1 - next) + Len(logMsgs) + 3
          /\ CycleLeft' = 2 * (n + 1 - (next + 1)) + Len(logMsgs) + 3
      BY <3>1 DEF CycleLeft
    <3> QED BY <1>1, <2>1, <3>1, <3>2
  <2>4. CASE ExamineDevice
    <3>1. /\ pc = "devices" /\ pc' = "devices" /\ next <= n
          /\ next' = next + 1 /\ n' = n /\ Len(logMsgs') = Len(logMsgs) + 1
      BY <1>1, <2>4 DEF ExamineDevice
    <3>2. /\ CycleLeft = 2 * (n + 1 - next) + Len(logMsgs) + 3
          /\ CycleLeft' = 2 * (n + 1 - (next + 1)) + (Len(logMsgs) + 1) + 3
      BY <3>1 DEF CycleLeft
    <3> QED BY <1>1, <2>1, <3>1, <3>2
  <2>5. CASE DevicesDone
    <3>1. CycleLeft = Len(logMsgs) + 3
      BY <1>1, <2>1, <2>5 DEF DevicesDone, CycleLeft
    <3>2. CycleLeft' = Batches + 1
      BY <1>1, <2>2, <2>5 DEF DevicesDone, CycleLeft, Batches
    <3> QED BY <2>1, <2>2, <3>1, <3>2
  <2>6. CASE SendBatch
    <3>1. CycleLeft = Batches - loop + 1 /\ loop < Batches
      BY <2>6 DEF SendBatch, CycleLeft
    <3>2. CycleLeft' = Batches - (loop + 1) + 1
      BY <2>6 DEF SendBatch, CycleLeft, Batches
    <3> QED BY <1>1, <2>1, <2>2, <3>1, <3>2
  <2>7. CASE EndCycle
    BY <1>1, <2>2, <2>7 DEF EndCycle, CycleLeft
  <2>8. CASE NeverReturns
    <3>1. CycleLeft' = 0
      BY <2>8 DEF NeverReturns, CycleLeft
    <3>2. next <= n /\ CycleLeft = 2 * (n + 1 - next) + Len(logMsgs) + 3
      BY <2>8 DEF NeverReturns, CycleLeft
    <3> QED BY <1>1, <2>1, <3>1, <3>2
  <2> QED BY <1>1, <2>3, <2>4, <2>5, <2>6, <2>7, <2>8 DEF Next, StartCycle, Exit, Restart
<1>2. IInv /\ LoopsInv /\ [ProcessNext]_processVars
        => [Running /\ pc' # "exited" => CycleLeft \in Nat /\ CycleLeft' < CycleLeft]_vars
  <2> SUFFICES ASSUME IInv, LoopsInv, [ProcessNext]_processVars
               PROVE  [Running /\ pc' # "exited"
                         => CycleLeft \in Nat /\ CycleLeft' < CycleLeft]_vars
    OBVIOUS
  <2>1. Next \/ UNCHANGED vars \/ pc' = "exited"
    BY DEF ProcessNext, processVars, QueryPanics, ReadingPanics, ProcessEnds, Next
  <2> QED BY <1>1, <2>1
<1>3. ProcessInv => IInv
  BY DEF ProcessInv
<1> QED BY <1>2, <1>3, ProcessInvariant, LoopsInvariant, PTL DEF ProcessSpec
==============================================================================
