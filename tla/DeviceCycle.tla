----------------------------- MODULE DeviceCycle -----------------------------
(***************************************************************************)
(* One cycle of the device monitor after another: SyncDeviceLog in         *)
(* sync/sync_log.go and the loop of syncDeviceLog in main.go.              *)
(*                                                                         *)
(* The active devices of the database are examined in order (DeviceScan    *)
(* models what happens to one), the reports are collected, and then handed *)
(* to SyncServices in batches of devicesize, because a longer message      *)
(* would not pass the platform's web server.  A batch that is not accepted *)
(* is not sent again (PlatformClient).  A device whose address cannot be   *)
(* dialled for a ping ends the process (checkError calls os.Exit); the     *)
(* service manager starts it again.  An examination may also never return: *)
(* reading a file whose connection breaks off goes on for ever, as does    *)
(* asking for a host key that is never kept; then the loop stands still    *)
(* and the process stays up.                                               *)
(***************************************************************************)
EXTENDS Integers, Sequences

CONSTANTS MaxDevices,    \* bound: active devices
          Devicesize,    \* Config.Devicesize
          Undialable     \* devices whose address cannot be dialled

Devices == 1..MaxDevices

ASSUME DevicesAssumption == MaxDevices \in Nat
ASSUME DevicesizeAssumption == Devicesize \in Nat \ {0}
ASSUME UndialableAssumption == Undialable \subseteq Devices

VARIABLES pc,
          n,           \* GetCfDevice returned the devices 1..n
          remote,      \* those GetDevices lists as monitored
          next,        \* the device the loop is at
          logMsgs,     \* the reports collected, by device
          loop,        \* batches made
          handed       \* history: positions in logMsgs handed to SyncServices

vars == <<pc, n, remote, next, logMsgs, loop, handed>>

TypeOK == /\ pc \in {"sleep", "devices", "batches", "stuck", "exited"}
          /\ n \in 0..MaxDevices
          /\ remote \subseteq Devices
          /\ next \in 1..(MaxDevices + 1)
          /\ logMsgs \in Seq(Devices)
          /\ loop \in Nat
          /\ handed \subseteq Nat

Idle == /\ n = 0
        /\ remote = {}
        /\ next = 1
        /\ logMsgs = <<>>
        /\ loop = 0
        /\ handed = {}

Init == pc = "sleep" /\ Idle
------------------------------------------------------------------------------
\* GetCfDevice fails or finds nothing: the cycle is over.  GetDevices may
\* fail too; its error is dropped and no device is monitored in this cycle.
StartCycle ==
    /\ pc = "sleep"
    /\ n' \in Devices
    /\ remote' \in SUBSET (1..n')
    /\ pc' = "devices"
    /\ next' = 1
    /\ logMsgs' = <<>>
    /\ loop' = 0
    /\ handed' = {}

\* A device that is not monitored is passed over.
SkipDevice == /\ pc = "devices"
              /\ next <= n
              /\ next \notin remote
              /\ next' = next + 1
              /\ UNCHANGED <<pc, n, remote, logMsgs, loop, handed>>

MutantExamineDevice == /\ pc = "devices"
                       /\ next <= n
                       /\ next \in remote \ Undialable
                       /\ logMsgs' \in {logMsgs, Append(logMsgs, next)}
                       /\ next' = next + 1
                       /\ UNCHANGED <<pc, n, remote, loop, handed>>

\* Whatever is found out about a monitored device, it gets a report.
ExamineDevice == /\ pc = "devices"
                 /\ next <= n
                 /\ next \in remote \ Undialable
                 /\ logMsgs' = Append(logMsgs, next)
                 /\ next' = next + 1
                 /\ UNCHANGED <<pc, n, remote, loop, handed>>

\* The examination does not come back; neither does the loop.
NeverReturns == /\ pc = "devices"
                /\ next <= n
                /\ next \in remote \ Undialable
                /\ pc' = "stuck"
                /\ UNCHANGED <<n, remote, next, logMsgs, loop, handed>>

\* ping cannot open its socket: os.Exit(1), with all that was collected.
Exit == /\ pc = "devices"
        /\ next <= n
        /\ next \in remote \cap Undialable
        /\ pc' = "exited"
        /\ n' = 0 /\ remote' = {} /\ next' = 1
        /\ logMsgs' = <<>> /\ loop' = 0 /\ handed' = {}

Restart == /\ pc = "exited"
           /\ pc' = "sleep"
           /\ UNCHANGED <<n, remote, next, logMsgs, loop, handed>>

DevicesDone == /\ pc = "devices"
               /\ next > n
               /\ pc' = "batches"
               /\ UNCHANGED <<n, remote, next, logMsgs, loop, handed>>

MutantBatches == Len(logMsgs) \div Devicesize

\* The number of rounds of the batch loop; the last one may be empty.
Batches == Len(logMsgs) \div Devicesize + 1

MutantBatch == {loop * Devicesize + index : index \in 0..Devicesize}
                  \cap 0..(Len(logMsgs) - 1)

\* Positions of logMsgs, counted from 0, that go into the batch.
Batch == {loop * Devicesize + index : index \in 0..(Devicesize - 1)}
            \cap 0..(Len(logMsgs) - 1)

\* SyncServices is called with the batch unless it is empty.
SendBatch == /\ pc = "batches"
             /\ loop < Batches
             /\ handed' = handed \cup Batch
             /\ loop' = loop + 1
             /\ UNCHANGED <<pc, n, remote, next, logMsgs>>

EndCycle == /\ pc = "batches"
            /\ loop >= Batches
            /\ pc' = "sleep"
            /\ UNCHANGED <<n, remote, next, logMsgs, loop, handed>>

Next == \/ StartCycle \/ SkipDevice \/ ExamineDevice \/ NeverReturns \/ Exit
        \/ Restart \/ DevicesDone \/ SendBatch \/ EndCycle

Spec == Init /\ [][Next]_vars

\* The loop of the goroutine goes on as long as the calls in it return - the
\* examination need not - and the service manager restarts the process.
FairSpec == Spec /\ WF_vars(Next)
------------------------------------------------------------------------------
\* The reports collected are those of the monitored devices passed so far,
\* in order and one for each.
Collected == /\ \A i \in 1..Len(logMsgs) : logMsgs[i] \in remote \cap 1..(next - 1)
             /\ \A i, j \in 1..Len(logMsgs) : i < j => logMsgs[i] < logMsgs[j]
             /\ \A d \in remote \cap 1..(next - 1) :
                    \E i \in 1..Len(logMsgs) : logMsgs[i] = d

\* After k rounds exactly the first k * Devicesize reports have been handed
\* over.
HandedUpTo == handed = {k \in 0..(Len(logMsgs) - 1) : k < loop * Devicesize}

\* When a cycle ends every report has been handed over: the last, shorter
\* batch is not forgotten.
AllHandedOver == [][EndCycle => handed = 0..(Len(logMsgs) - 1)]_vars

\* No report goes into two batches, and no batch is longer than the
\* platform's web server takes.
BatchesDisjoint == [][SendBatch => /\ Batch \cap handed = {}
                                   /\ \A k, m \in Batch : k - m < Devicesize]_vars

Monitored(d) == pc = "devices" /\ next = 1 /\ d \in remote
Reported(d) == pc = "sleep" /\ \E k \in handed : logMsgs[k + 1] = d

\* A device that GetDevices lists again and again is reported again and
\* again: what SyncDeviceLog is for, a failed ping being a report too.
MonitoredDevicesReported ==
    \A d \in Devices : []<>Monitored(d) => []<>Reported(d)
==============================================================================
