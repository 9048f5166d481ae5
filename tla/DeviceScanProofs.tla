--------------------------- MODULE DeviceScanProofs ---------------------------
(***************************************************************************)
(* The examination of a device, for any directories, listings and contents *)
(* of files: what the report may say, by one invariant of the whole scan.  *)
(***************************************************************************)
EXTENDS DeviceScan, TLAPS

FaultLog == seen["fault.log"]
FaultTxt == seen["fault.txt"]

\* Before the listing nothing has been read and the message is as it was made.
NothingYet ==
    pc \in {"ping", "ftp"} =>
        /\ seen = NothingSeen /\ isSyncTime /\ ~isOverTime
        /\ msg.Status /\ ~msg.FaultMsg /\ msg.info = {}

\* No file is read twice.
ReadOnce == \A f \in FaultFiles : f \in files => seen[f] = NoContent

\* What the timestamps said is not forgotten.
StampsKept ==
    \A f \in FaultFiles : Parsed(f) =>
        /\ seen[f].stamp = "skewed" => ~isSyncTime
        /\ seen[f].stamp = "overdue" => ~isSyncTime \/ isOverTime

\* The text of a plugin log comes from one that was read.
TextRead == msg.FaultMsg =>
                \E f \in FaultFiles : seen[f] \notin {NoContent, Failed, Empty}

\* By the rules of the code.
Faulty(log) == FaultyPlugins(msg.DevType, log.codes, log.overdue) # {}

PluginFaultKept == Parsed("fault.log") /\ Faulty(FaultLog) => ~msg.Status

ScreenFaultKept ==
    Parsed("fault.txt") /\ ~FaultTxt.mqtt /\ msg.Status =>
        /\ Parsed("fault.log") /\ ~Faulty(FaultLog) /\ ~Exempt(msg.DevType)
        /\ msg.info = {"fault.log"}

FilesInv == ReadOnce /\ StampsKept /\ TextRead /\ PluginFaultKept /\ ScreenFaultKept

\* The fault type a message opens with is the one reported.
Explained == ~msg.Status => /\ msg.StatusType # "" /\ msg.StatusMsg # ""
                            /\ MsgType[msg.StatusMsg] = msg.StatusType

\* tasklistDevice and pscpDevice are called for a device at fault only.
LooksFurther == pc \in {"tasklist", "pscp"}
AtFault == LooksFurther => ~msg.Status /\ msg.StatusType = "Logsync"

\* After the verdict, information that is stale is gone.
StaleGone == LooksFurther \/ pc = "report" =>
                 (~isSyncTime \/ isOverTime => msg.info = {})

\* As long as a fault.log without a fault is all that was read, the device is
\* well, and its log is not taken for missing or for old.
WellLog == ~Faulty(FaultLog)

WellSoFar ==
    pc \in {"files", "verdict"} /\ FaultTxt = NoContent
        /\ (Parsed("fault.log") => FaultLog.stamp = "fresh" /\ WellLog) =>
            /\ isSyncTime /\ ~isOverTime /\ msg.Status
            /\ Parsed("fault.log") => msg.FaultMsg

HealthJudged ==
    pc = "report" /\ msg.Status /\ ~Unscanned /\ ~ftpFailed =>
        /\ isSyncTime /\ ~isOverTime
        /\ \E f \in FaultFiles : seen[f] \notin {NoContent, Failed, Empty}

NoAlarm == pc = "report" /\ OnlyFreshFaultLog /\ WellLog => msg.Status

NotDoubted == LooksFurther => ~(OnlyFreshFaultLog /\ WellLog)

VerdictInv == /\ Explained /\ AtFault /\ StaleGone /\ WellSoFar /\ NotDoubted
              /\ HealthJudged /\ NoAlarm /\ pc # "panicked"

IInv == TypeOK /\ NothingYet /\ FilesInv /\ VerdictInv
------------------------------------------------------------------------------
\* The operators of the scan.

\* The messages, as TypeOK has them.
Msgs == [DevType : DevTypes, Status : BOOLEAN,
         DirName : {DirOf[t] : t \in DOMAIN DirOf} \cup {"other", ""},
         StatusType : FaultTypes \cup {""},
         StatusMsg : DOMAIN MsgType \cup {""}, FaultMsg : BOOLEAN,
         Timestamp : Stamps \cup {""},
         InterfaceError : CountFiles \cup {""},
         DeviceImg : {"", "small", "large"},
         info : SUBSET FaultFiles]

\* What was read of a file and parsed is none of the ways not to read it.
LEMMA ContentsDiffer ==
    /\ \A c \in Unusable : c \notin FaultLogs \cup FaultTxts
    /\ NoContent # Failed /\ NoContent # Empty /\ NoContent # Garbage
    /\ Failed # Empty /\ Failed # Garbage /\ Empty # Garbage
BY LogAssumption DEF Unusable, NoContent, Failed, Empty, Garbage

\* Every message but three opens with the fault type Logsync.
LEMMA MsgTypes ==
    /\ DOMAIN MsgType = {"Unreachable", "Skewed", "Plugins", "NoDir", "NoFiles",
                         "Overtime", "NoPluginLog", "AppRunning", "AppDown",
                         "PscpFailed", "NothingCopied", "DeviceHasNoLogs",
                         "DeviceHasNoPluginLog", "DeviceOvertime", "NotSynced"}
    /\ MsgType["Unreachable"] = "Device" /\ MsgType["Skewed"] = "Device"
    /\ MsgType["Plugins"] = "Plugin"
    /\ \A m \in DOMAIN MsgType \ {"Unreachable", "Skewed", "Plugins"} :
          MsgType[m] = "Logsync"
<1>1. DOMAIN MsgType = {"Unreachable", "Skewed", "Plugins", "NoDir", "NoFiles",
                         "Overtime", "NoPluginLog", "AppRunning", "AppDown",
                         "PscpFailed", "NothingCopied", "DeviceHasNoLogs",
                         "DeviceHasNoPluginLog", "DeviceOvertime", "NotSynced"}
  BY DEF MsgType
<1>2. /\ MsgType["Unreachable"] = "Device" /\ MsgType["Skewed"] = "Device"
      /\ MsgType["Plugins"] = "Plugin"
  BY DEF MsgType
<1>3. /\ MsgType["NoDir"] = "Logsync" /\ MsgType["NoFiles"] = "Logsync"
      /\ MsgType["Overtime"] = "Logsync" /\ MsgType["NoPluginLog"] = "Logsync"
      /\ MsgType["AppRunning"] = "Logsync" /\ MsgType["AppDown"] = "Logsync"
      /\ MsgType["PscpFailed"] = "Logsync" /\ MsgType["NothingCopied"] = "Logsync"
      /\ MsgType["DeviceHasNoLogs"] = "Logsync"
      /\ MsgType["DeviceHasNoPluginLog"] = "Logsync"
      /\ MsgType["DeviceOvertime"] = "Logsync" /\ MsgType["NotSynced"] = "Logsync"
  BY DEF MsgType
<1> QED BY <1>1, <1>2, <1>3

\* logMsg as SyncDeviceLog makes it.
LEMMA NewTypes ==
    ASSUME NEW m \in NewMsgs
    PROVE  m \in Msgs /\ m.Status /\ ~m.FaultMsg /\ m.info = {}
<1>1. PICK t \in DevTypes : \E dir \in Lookup(t) : m = NewMsg(t, dir)
  BY DEF NewMsgs
<1>2. PICK dir \in Lookup(t) : m = NewMsg(t, dir)
  BY <1>1
<1>3. dir \in {DirOf[u] : u \in DOMAIN DirOf} \cup {"other", ""}
  BY DEF Lookup
<1>4. m \in Msgs
  BY <1>2, <1>3 DEF NewMsg, Msgs
<1>5. m.Status /\ ~m.FaultMsg /\ m.info = {}
  BY <1>2 DEF NewMsg
<1> QED BY <1>4, <1>5

\* The three fields SyncDeviceLog and what it calls set together.
SetFault(m, type, text) ==
    [m EXCEPT !.Status = FALSE, !.StatusType = type, !.StatusMsg = text]
SetWell(m) == [m EXCEPT !.Status = TRUE, !.StatusMsg = "Plugins"]

\* Messages that differ in what no verdict depends on.
SameText(r, m) == r.DevType = m.DevType /\ r.FaultMsg = m.FaultMsg /\ r.info = m.info
SameVerdict(r, m) == /\ SameText(r, m) /\ r.DirName = m.DirName /\ r.Status = m.Status
                     /\ r.StatusType = m.StatusType /\ r.StatusMsg = m.StatusMsg

\* A new status keeps the types and the rest of the message.
LEMMA NewFault ==
    ASSUME NEW m \in Msgs, NEW type \in FaultTypes, NEW text \in DOMAIN MsgType
    PROVE  /\ SetFault(m, type, text) \in Msgs
           /\ SameText(SetFault(m, type, text), m)
           /\ ~SetFault(m, type, text).Status
           /\ SetFault(m, type, text).StatusType = type
           /\ SetFault(m, type, text).StatusMsg = text
BY DEF Msgs, SetFault, SameText

LEMMA NewWell ==
    ASSUME NEW m \in Msgs
    PROVE  /\ SetWell(m) \in Msgs /\ SameText(SetWell(m), m)
           /\ SetWell(m).Status /\ SetWell(m).StatusMsg = "Plugins"
<1>1. "Plugins" \in DOMAIN MsgType
  BY MsgTypes
<1> QED BY <1>1 DEF Msgs, SetWell, SameText

\* getPluginsInfo keeps the types, and what it makes of a fault.log.
LEMMA FaultLogMsg ==
    ASSUME NEW m \in Msgs, NEW log \in FaultLogs
    PROVE  LET r == AfterFaultLog(m, log)
               faulty == FaultyPlugins(m.DevType, log.codes, log.overdue)
           IN  /\ r \in Msgs
               /\ r.DevType = m.DevType /\ r.FaultMsg /\ r.info = {"fault.log"}
               /\ Exempt(m.DevType) =>
                      /\ r.Status = m.Status /\ r.StatusType = m.StatusType
                      /\ r.StatusMsg = m.StatusMsg
               /\ ~Exempt(m.DevType) =>
                      /\ r.Status <=> faulty = {}
                      /\ r.StatusMsg = "Plugins"
                      /\ ~r.Status => r.StatusType = "Plugin"
<1> DEFINE changed == [m EXCEPT !.FaultMsg = TRUE, !.Timestamp = log.stamp,
                                !.info = {"fault.log"}]
<1>1. log.stamp \in Stamps
  BY LogAssumption
<1>2. /\ changed \in Msgs /\ changed.DevType = m.DevType /\ changed.FaultMsg
      /\ changed.info = {"fault.log"} /\ changed.Status = m.Status
      /\ changed.StatusType = m.StatusType /\ changed.StatusMsg = m.StatusMsg
  BY <1>1 DEF Msgs, FaultFiles
<1>3. PICK kept \in Msgs :
          /\ kept = changed
          /\ kept.DevType = m.DevType /\ kept.FaultMsg
          /\ kept.info = {"fault.log"} /\ kept.Status = m.Status
          /\ kept.StatusType = m.StatusType /\ kept.StatusMsg = m.StatusMsg
  BY <1>2
<1>4. PICK faulty : faulty = FaultyPlugins(m.DevType, log.codes, log.overdue)
  OBVIOUS
<1>5. CASE Exempt(m.DevType)
  <2>1. AfterFaultLog(m, log) = kept
    BY <1>3, <1>5 DEF AfterFaultLog
  <2> QED BY <1>3, <1>5, <2>1
<1>6. CASE ~Exempt(m.DevType)
  <2>1. CASE faulty = {}
    <3>1. AfterFaultLog(m, log) = SetWell(kept)
      BY <1>3, <1>4, <1>6, <2>1 DEF AfterFaultLog, SetWell
    <3>2. /\ AfterFaultLog(m, log) \in Msgs /\ SameText(AfterFaultLog(m, log), kept)
          /\ AfterFaultLog(m, log).Status /\ AfterFaultLog(m, log).StatusMsg = "Plugins"
      BY <3>1, NewWell
    <3> QED BY <1>3, <1>4, <1>6, <2>1, <3>2 DEF SameText
  <2>2. CASE faulty # {}
    <3>1. AfterFaultLog(m, log) = SetFault(kept, "Plugin", "Plugins")
      BY <1>3, <1>4, <1>6, <2>2 DEF AfterFaultLog, SetFault
    <3>2. "Plugin" \in FaultTypes /\ "Plugins" \in DOMAIN MsgType
      BY MsgTypes DEF FaultTypes
    <3>3. AfterFaultLog(m, log) \in Msgs /\ SameText(AfterFaultLog(m, log), kept)
      BY <3>1, <3>2, NewFault
    <3>4. /\ ~AfterFaultLog(m, log).Status
          /\ AfterFaultLog(m, log).StatusType = "Plugin"
          /\ AfterFaultLog(m, log).StatusMsg = "Plugins"
      BY <3>1, <3>2, NewFault
    <3> QED BY <1>3, <1>4, <1>6, <2>2, <3>3, <3>4 DEF SameText
  <2> QED BY <2>1, <2>2
<1> QED BY <1>5, <1>6

LEMMA FaultTxtMsg ==
    ASSUME NEW m \in Msgs, NEW txt \in FaultTxts
    PROVE  LET r == AfterFaultTxt(m, txt)
           IN  /\ r \in Msgs
               /\ r.DevType = m.DevType /\ r.FaultMsg
               /\ txt.mqtt => /\ r.Status = m.Status /\ r.StatusType = m.StatusType
                              /\ r.StatusMsg = m.StatusMsg
               /\ ~txt.mqtt => /\ ~r.Status
                               /\ r.StatusMsg = "Plugins" /\ r.StatusType = "Plugin"
<1>1. txt.stamp \in Stamps
  BY LogAssumption
<1>2. CASE txt.mqtt
  BY <1>1, <1>2 DEF AfterFaultTxt, Msgs, FaultFiles
<1>3. CASE ~txt.mqtt
  BY <1>1, <1>3, MsgTypes DEF AfterFaultTxt, Msgs, FaultFiles, FaultTypes
<1> QED BY <1>2, <1>3

\* pscpDevice never gets to see what it copied, because OpenFile empties it.
LEMMA PscpSeesNothing ==
    ASSUME NEW content
    PROVE  /\ AfterPscp(content).pc = "report"
           /\ \E text : AfterPscp(content).msg =
                           [msg EXCEPT !.StatusMsg = PscpVerdict(msg, text)]
<1>1. PICK text : text = IF content = NoContent THEN NoContent ELSE OpenFile(content)
  OBVIOUS
<1>2. /\ text \notin FaultLogs /\ text \in {NoContent, Failed}
      /\ text \notin {Empty, Garbage}
  BY <1>1, ContentsDiffer DEF Unusable, OpenFile
<1>3. AfterPscp(content) =
          [pc |-> "report", msg |-> [msg EXCEPT !.StatusMsg = PscpVerdict(msg, text)]]
  BY <1>1, <1>2 DEF AfterPscp
<1>4. AfterPscp(content).pc = "report"
  BY <1>3
<1>5. AfterPscp(content).msg = [msg EXCEPT !.StatusMsg = PscpVerdict(msg, text)]
  BY <1>3
<1> QED BY <1>4, <1>5

\* Nothing is expected of a device that has no plugins.
LEMMA ExemptIsWell ==
    ASSUME NEW t, NEW codes, NEW overdue, Exempt(t)
    PROVE  FaultyPlugins(t, codes, overdue) = {}
BY DEF FaultyPlugins

\* The rules of getPluginsInfo and codeIsError are those of the comment above
\* getPluginsInfo, for every type of device, code and plugin, except that
\* interf is not timed and that an empty bed is not asked for.
THEOREM RulesAsCommented ==
    ASSUME NEW t \in DevTypes, ~Exempt(t), NEW codes \in [Plugins -> Codes],
           NEW overdue
    PROVE  FaultyPlugins(t, codes, overdue) =
               NotNormal(t, codes) \cup (NotUp(t, codes, overdue) \ {"interf"})
<1>1. Checked(t) = Has(t)
  BY DEF Checked, Has, Plugins
<1>2. ASSUME NEW p \in Plugins
      PROVE  CodeIsError(codes[p]) /\ codes[p] \notin Tolerated(p)
                 <=> codes[p] \notin Normal[p]
  <2>1. CASE p \in {"mqtt", "iptv"}
    BY <2>1 DEF CodeIsError, Tolerated, Normal
  <2>2. CASE p \in {"interf", "face", "call"}
    BY <2>2 DEF CodeIsError, Tolerated, Normal
  <2> QED BY <2>1, <2>2 DEF Plugins
<1>3. Has(t) \subseteq Plugins
  BY DEF Has
<1> QED BY <1>1, <1>2, <1>3 DEF FaultyPlugins, NotNormal, NotUp, Timed
------------------------------------------------------------------------------
\* Kinds of steps.

LEMMA InitIInv == Init => IInv
<1> SUFFICES ASSUME Init PROVE IInv
  OBVIOUS
<1>1. msg \in Msgs
  BY NewTypes DEF Init
<1>2. msg.Status /\ ~msg.FaultMsg /\ msg.info = {}
  BY NewTypes DEF Init
<1>3. TypeOK
  BY <1>1 DEF Init, TypeOK, Msgs, NothingSeen, Unusable
<1>4. NothingYet
  BY <1>2 DEF Init, NothingYet
<1>5. \A f \in FaultFiles : seen[f] = NoContent /\ ~Parsed(f)
  BY DEF Init, NothingSeen, Parsed, Unusable
<1>6. FilesInv
  BY <1>2, <1>5 DEF Init, FilesInv, ReadOnce, StampsKept, TextRead,
                    PluginFaultKept, ScreenFaultKept, FaultFiles
<1>7. VerdictInv
  BY <1>2 DEF Init, VerdictInv, Explained, AtFault, LooksFurther, StaleGone,
              WellSoFar, NotDoubted, HealthJudged, NoAlarm
<1> QED BY <1>3, <1>4, <1>6, <1>7 DEF IInv

\* A step that reads nothing a verdict depends on.
LEMMA Indifferent ==
    ASSUME IInv, TypeOK', UNCHANGED <<isSyncTime, isOverTime, ftpFailed, seen>>,
           files' \subseteq files,
           \/ pc' = pc
           \/ pc = "ping" /\ pc' = "ftp"
           \/ pc = "files" /\ pc' \in {"reading", "verdict"}
           \/ pc = "pscp" /\ pc' = "asking",
           SameVerdict(msg', msg)
    PROVE  IInv'
<1> USE DEF SameVerdict, SameText
<1>1. NothingYet'
  BY DEF IInv, NothingYet
<1>2. FilesInv'
  BY DEF IInv, FilesInv, ReadOnce, StampsKept, TextRead, PluginFaultKept,
         ScreenFaultKept, Parsed, Faulty, FaultLog, FaultTxt
<1>3. VerdictInv'
  BY DEF IInv, VerdictInv, Explained, AtFault, LooksFurther, StaleGone, WellSoFar,
         WellLog, Faulty, NotDoubted, OnlyFreshFaultLog, HealthJudged, NoAlarm,
         Unscanned, Parsed, FaultLog, FaultTxt
<1> QED BY <1>1, <1>2, <1>3 DEF IInv

\* A step that reports a fault, or goes on to look for its reason.
LEMMA FaultFound ==
    ASSUME IInv, TypeOK', UNCHANGED <<isSyncTime, isOverTime, seen>>,
           \/ files' \subseteq files
           \/ seen = NothingSeen,
           pc' \in {"tasklist", "pscp", "report"},
           msg'.DevType = msg.DevType, msg'.FaultMsg = msg.FaultMsg,
           ~msg'.Status, msg'.StatusType # "", msg'.StatusMsg # "",
           MsgType[msg'.StatusMsg] = msg'.StatusType,
           pc' # "report" => msg'.StatusType = "Logsync",
           ~isSyncTime \/ isOverTime => msg'.info = {},
           ~(OnlyFreshFaultLog /\ WellLog)
    PROVE  IInv'
<1>1. NothingYet'
  BY DEF NothingYet
<1>2. FilesInv'
  <2>1. ReadOnce'
    BY DEF IInv, FilesInv, ReadOnce, NothingSeen
  <2> QED BY <2>1 DEF IInv, FilesInv, StampsKept, TextRead, PluginFaultKept,
                      ScreenFaultKept, Parsed, Faulty, FaultLog, FaultTxt
<1>3. VerdictInv'
  BY DEF IInv, VerdictInv, Explained, AtFault, LooksFurther, StaleGone, WellSoFar,
         WellLog, Faulty, NotDoubted, OnlyFreshFaultLog, HealthJudged, NoAlarm,
         Parsed, FaultLog, FaultTxt
<1> QED BY <1>1, <1>2, <1>3 DEF IInv

\* A step that reports the message as it is, of a device that is well, that
\* is not scanned, or of which nothing is known.
LEMMA WellReported ==
    ASSUME IInv, TypeOK', UNCHANGED <<msg, files, isSyncTime, isOverTime, seen>>,
           pc' = "report", msg.Status,
           ~isSyncTime \/ isOverTime => msg.info = {},
           \/ Unscanned \/ ftpFailed'
           \/ isSyncTime /\ ~isOverTime /\ msg.FaultMsg
    PROVE  IInv'
<1>1. NothingYet'
  BY DEF NothingYet
<1>2. FilesInv'
  BY DEF IInv, FilesInv, ReadOnce, StampsKept, TextRead, PluginFaultKept,
         ScreenFaultKept, Parsed, Faulty, FaultLog, FaultTxt
<1>3. VerdictInv'
  BY DEF IInv, FilesInv, TextRead, VerdictInv, Explained, AtFault, LooksFurther,
         StaleGone, WellSoFar, NotDoubted, HealthJudged, NoAlarm, Unscanned
<1> QED BY <1>1, <1>2, <1>3 DEF IInv

\* What is common to all that ReadFaultFile may do with f.
Reads(f, content) == /\ f \in FaultFiles
                     /\ Take(f)
                     /\ seen' = [seen EXCEPT ![f] = content]
                     /\ UNCHANGED <<pc, ftpFailed>>

LEMMA ReadsOnce ==
    ASSUME IInv, NEW f, NEW content, Reads(f, content)
    PROVE  /\ pc = "files" /\ pc' = "files" /\ seen[f] = NoContent
           /\ seen'[f] = content /\ \A g \in FaultFiles \ {f} : seen'[g] = seen[g]
           /\ NothingYet' /\ ReadOnce'
<1>1. seen \in [FaultFiles -> FaultLogs \cup FaultTxts \cup Unusable]
  BY DEF IInv, TypeOK
<1>2. pc = "files" /\ pc' = "files" /\ f \in files /\ files' = files \ {f}
  BY DEF Reads, Take
<1>3. seen'[f] = content /\ \A g \in FaultFiles \ {f} : seen'[g] = seen[g]
  BY <1>1 DEF Reads
<1>4. seen[f] = NoContent
  BY <1>2 DEF IInv, FilesInv, ReadOnce, Reads
<1>5. NothingYet' /\ ReadOnce'
  BY <1>2, <1>3 DEF NothingYet, ReadOnce, IInv, FilesInv
<1> QED BY <1>2, <1>3, <1>4, <1>5

\* What cannot be used - the file is not read, empty or no JSON - leaves the
\* verdict alone; only garbage counts as the text of a plugin log.
LEMMA ReadsNothing ==
    ASSUME IInv, TypeOK', NEW f, NEW content \in {Failed, Empty, Garbage},
           Reads(f, content), UNCHANGED <<isSyncTime, isOverTime>>,
           \/ content = Failed /\ msg' = msg
           \/ content # Failed /\ msg' = AfterUnparsed(msg, content)
    PROVE  IInv'
<1>1. /\ pc = "files" /\ pc' = "files" /\ seen[f] = NoContent
      /\ seen'[f] = content /\ \A g \in FaultFiles \ {f} : seen'[g] = seen[g]
      /\ NothingYet' /\ ReadOnce'
  BY ReadsOnce
<1>2. f \in FaultFiles /\ content \in Unusable
  BY DEF Reads, Unusable
<1>3. /\ msg'.DevType = msg.DevType /\ msg'.info = msg.info
      /\ msg'.Status = msg.Status /\ msg'.StatusType = msg.StatusType
      /\ msg'.StatusMsg = msg.StatusMsg
      /\ msg'.FaultMsg => \/ content = Failed /\ msg.FaultMsg
                          \/ content = Garbage
  BY DEF AfterUnparsed, IInv, TypeOK
<1>4. ~Parsed(f)'
  BY <1>1, <1>2 DEF Parsed
<1>5. \A g \in FaultFiles : Parsed(g)' => Parsed(g) /\ seen'[g] = seen[g]
  BY <1>1, <1>4 DEF Parsed
<1>6. StampsKept'
  BY <1>5 DEF IInv, FilesInv, StampsKept
<1>7. TextRead'
  <2> SUFFICES ASSUME msg'.FaultMsg
               PROVE  \E g \in FaultFiles : seen'[g] \notin {NoContent, Failed, Empty}
    BY DEF TextRead
  <2>1. CASE content = Failed /\ msg.FaultMsg
    BY <1>1, <2>1 DEF IInv, FilesInv, TextRead
  <2>2. CASE content = Garbage
    BY <1>1, <1>2, <2>2, ContentsDiffer
  <2> QED BY <1>3, <2>1, <2>2
<1>8. PluginFaultKept' /\ ScreenFaultKept'
  BY <1>1, <1>2, <1>3, <1>5
  DEF IInv, FilesInv, PluginFaultKept, ScreenFaultKept, Faulty, FaultLog, FaultTxt,
      FaultFiles, Parsed, Unusable
<1>9. VerdictInv'
  <2>1. Explained' BY <1>3 DEF IInv, VerdictInv, Explained
  <2>2. WellSoFar'
    <3>1. CASE f = "fault.txt"
      <4>1. seen'["fault.txt"] # NoContent
        BY <1>1, <3>1, ContentsDiffer
      <4> QED BY <4>1 DEF WellSoFar, FaultTxt
    <3>2. CASE f = "fault.log"
      <4>1. ~Parsed("fault.log") /\ ~Parsed("fault.log")'
        BY <1>1, <1>4, <3>2 DEF Parsed, Unusable
      <4>2. seen'["fault.txt"] = seen["fault.txt"]
        BY <1>1, <3>2 DEF FaultFiles
      <4> QED BY <1>1, <1>3, <4>1, <4>2 DEF IInv, VerdictInv, WellSoFar, FaultTxt
    <3> QED BY <1>2, <3>1, <3>2 DEF FaultFiles
  <2> QED BY <1>1, <2>1, <2>2 DEF VerdictInv, AtFault, LooksFurther, StaleGone,
                                  NotDoubted, HealthJudged, NoAlarm
<1> QED BY <1>1, <1>6, <1>7, <1>8, <1>9 DEF IInv, FilesInv

\* The timestamp of a log that was parsed.
LEMMA StampsChecked ==
    ASSUME IInv, NEW f, NEW content, Reads(f, content), TimeChecks(content.stamp)
    PROVE  StampsKept'
<1>1. /\ seen'[f] = content /\ \A g \in FaultFiles \ {f} : seen'[g] = seen[g]
  BY ReadsOnce
<1>2. /\ content.stamp = "skewed" => ~isSyncTime'
      /\ content.stamp = "overdue" => ~isSyncTime' \/ isOverTime'
      /\ ~isSyncTime => ~isSyncTime'
      /\ isOverTime => isOverTime'
  BY DEF TimeChecks
<1> QED BY <1>1, <1>2 DEF IInv, FilesInv, StampsKept, Parsed

LEMMA ReadsLog ==
    ASSUME IInv, TypeOK', NEW log \in FaultLogs, Reads("fault.log", log),
           msg' = AfterFaultLog(msg, log), TimeChecks(log.stamp)
    PROVE  IInv'
<1>1. /\ pc = "files" /\ pc' = "files" /\ seen["fault.log"] = NoContent
      /\ seen'["fault.log"] = log /\ seen'["fault.txt"] = seen["fault.txt"]
      /\ NothingYet' /\ ReadOnce'
  BY ReadsOnce DEF FaultFiles
<1>2. log \notin Unusable
  BY ContentsDiffer
<1>3. PICK faulty : faulty = FaultyPlugins(msg.DevType, log.codes, log.overdue)
  OBVIOUS
<1>4. msg \in Msgs /\ msg.DevType \in DevTypes
  BY DEF IInv, TypeOK, Msgs
<1>5. /\ msg'.DevType = msg.DevType /\ msg'.FaultMsg /\ msg'.info = {"fault.log"}
      /\ Exempt(msg.DevType) =>
             /\ msg'.Status = msg.Status /\ msg'.StatusType = msg.StatusType
             /\ msg'.StatusMsg = msg.StatusMsg
      /\ ~Exempt(msg.DevType) =>
             /\ msg'.Status <=> faulty = {}
             /\ msg'.StatusMsg = "Plugins"
             /\ ~msg'.Status => msg'.StatusType = "Plugin"
  BY <1>3, <1>4, FaultLogMsg
<1>6. Exempt(msg.DevType) => faulty = {}
  BY <1>3, ExemptIsWell
<1>7. /\ Parsed("fault.log")' /\ ~Parsed("fault.log")
      /\ Faulty(FaultLog)' <=> faulty # {}
      /\ WellLog' <=> faulty = {}
  BY <1>1, <1>2, <1>3, <1>5 DEF Parsed, Unusable, Faulty, FaultLog, WellLog
<1>8. Parsed("fault.txt")' <=> Parsed("fault.txt")
  BY <1>1 DEF Parsed
<1>9. StampsKept'
  BY StampsChecked
<1>10. TextRead'
  <2>1. log \notin {NoContent, Failed, Empty}
    BY <1>2 DEF Unusable
  <2> QED BY <1>1, <2>1 DEF TextRead, FaultFiles
<1>11. PluginFaultKept'
  BY <1>5, <1>6, <1>7 DEF PluginFaultKept
<1>12. ScreenFaultKept'
  BY <1>1, <1>5, <1>6, <1>7, <1>8 DEF IInv, FilesInv, ScreenFaultKept, FaultTxt
<1>13. Explained'
  BY <1>5, MsgTypes DEF IInv, VerdictInv, Explained
<1>14. WellSoFar'
  BY <1>1, <1>5, <1>6, <1>7
  DEF IInv, VerdictInv, WellSoFar, FaultLog, FaultTxt, TimeChecks
<1>15. VerdictInv'
  BY <1>1, <1>13, <1>14 DEF VerdictInv, AtFault, LooksFurther, StaleGone, NotDoubted,
                            HealthJudged, NoAlarm
<1> QED BY <1>1, <1>9, <1>10, <1>11, <1>12, <1>15 DEF IInv, FilesInv

LEMMA ReadsTxt ==
    ASSUME IInv, TypeOK', NEW txt \in FaultTxts, Reads("fault.txt", txt),
           msg' = AfterFaultTxt(msg, txt), TimeChecks(txt.stamp)
    PROVE  IInv'
<1>1. /\ pc = "files" /\ pc' = "files" /\ seen["fault.txt"] = NoContent
      /\ seen'["fault.txt"] = txt /\ seen'["fault.log"] = seen["fault.log"]
      /\ NothingYet' /\ ReadOnce'
  BY ReadsOnce DEF FaultFiles
<1>2. txt \notin Unusable
  BY ContentsDiffer
<1>3. /\ msg'.DevType = msg.DevType /\ msg'.FaultMsg
      /\ txt.mqtt => /\ msg'.Status = msg.Status /\ msg'.StatusType = msg.StatusType
                     /\ msg'.StatusMsg = msg.StatusMsg
      /\ ~txt.mqtt => /\ ~msg'.Status
                      /\ msg'.StatusMsg = "Plugins" /\ msg'.StatusType = "Plugin"
  <2>1. msg \in Msgs
    BY DEF IInv, TypeOK, Msgs
  <2> QED BY <2>1, FaultTxtMsg
<1>4. /\ Parsed("fault.log")' <=> Parsed("fault.log")
      /\ Faulty(FaultLog)' <=> Faulty(FaultLog)
  BY <1>1, <1>3 DEF Parsed, Faulty, FaultLog
<1>5. StampsKept'
  BY StampsChecked
<1>6. TextRead'
  <2>1. txt \notin {NoContent, Failed, Empty}
    BY <1>2 DEF Unusable
  <2> QED BY <1>1, <2>1 DEF TextRead, FaultFiles
<1>7. PluginFaultKept'
  BY <1>3, <1>4 DEF IInv, FilesInv, PluginFaultKept
<1>8. ScreenFaultKept'
  BY <1>1, <1>3 DEF ScreenFaultKept, FaultTxt
<1>9. Explained'
  BY <1>3, MsgTypes DEF IInv, VerdictInv, Explained
<1>10. WellSoFar'
  BY <1>1, <1>2 DEF WellSoFar, FaultTxt, Unusable
<1>11. VerdictInv'
  BY <1>1, <1>9, <1>10 DEF VerdictInv, AtFault, LooksFurther, StaleGone, NotDoubted,
                           HealthJudged, NoAlarm
<1> QED BY <1>1, <1>5, <1>6, <1>7, <1>8, <1>11 DEF IInv, FilesInv
------------------------------------------------------------------------------
\* The steps.

\* The types of all but the message and the flags.
PlaceTypes == /\ onWindows \in BOOLEAN
              /\ pc \in {"ping", "ftp", "files", "verdict", "tasklist", "pscp",
                         "reading", "asking", "report", "panicked"}
              /\ files \subseteq UNION Listings
              /\ ftpFailed \in BOOLEAN
              /\ listed \subseteq UNION Listings
              /\ seen \in [FaultFiles -> FaultLogs \cup FaultTxts \cup Unusable]
              /\ copied \in FaultLogs \cup Unusable

LEMMA TypesSplit ==
    /\ TypeOK <=> PlaceTypes /\ msg \in Msgs /\ isSyncTime \in BOOLEAN
                             /\ isOverTime \in BOOLEAN
    /\ TypeOK' <=> /\ PlaceTypes' /\ msg' \in Msgs /\ isSyncTime' \in BOOLEAN
                   /\ isOverTime' \in BOOLEAN
BY DEF TypeOK, PlaceTypes, Msgs

\* The places the report may be on its way to when a fault was found.
Concluding == {"tasklist", "pscp", "report"}

LEMMA NothingParsed ==
    ASSUME seen = NothingSeen
    PROVE  ~OnlyFreshFaultLog
BY DEF NothingSeen, OnlyFreshFaultLog, Parsed, Unusable, FaultFiles

\* checkLogOverFive, from getDirs: the device is at fault and the search for
\* the reason goes on.
LEMMA LogsMissing ==
    ASSUME IInv, PlaceTypes', NEW m \in Msgs,
           NEW text \in DOMAIN MsgType \ {"Unreachable", "Skewed", "Plugins"},
           CheckLogOverFive([m EXCEPT !.StatusMsg = text]),
           m.DevType = msg.DevType, m.FaultMsg = msg.FaultMsg,
           ~isSyncTime \/ isOverTime => m.info = {},
           UNCHANGED <<isSyncTime, isOverTime, seen>>,
           \/ files' \subseteq files
           \/ seen = NothingSeen,
           ~(OnlyFreshFaultLog /\ WellLog)
    PROVE  IInv'
<1>1. /\ text \in DOMAIN MsgType /\ text # "" /\ MsgType[text] = "Logsync"
      /\ "Logsync" \in FaultTypes
  BY MsgTypes DEF FaultTypes
<1>2. msg' = SetFault(m, "Logsync", text)
  BY DEF CheckLogOverFive, SetFault, Msgs
<1>3. pc' \in Concluding
  BY DEF CheckLogOverFive, Concluding
<1>4. /\ msg' \in Msgs /\ SameText(msg', m) /\ ~msg'.Status
      /\ msg'.StatusType = "Logsync" /\ msg'.StatusMsg = text
  <2>1. msg' \in Msgs /\ SameText(msg', m)
    BY <1>1, <1>2, NewFault
  <2>2. ~msg'.Status /\ msg'.StatusType = "Logsync" /\ msg'.StatusMsg = text
    BY <1>2 DEF SetFault, Msgs
  <2> QED BY <2>1, <2>2
<1>5. TypeOK'
  BY <1>4, TypesSplit DEF IInv
<1> QED BY <1>1, <1>3, <1>4, <1>5, FaultFound DEF SameText, Concluding

\* A message that still explains the fault checkLogOverFive found.
StillAtFault(r) == /\ r \in Msgs /\ SameText(r, msg)
                   /\ ~r.Status /\ r.StatusType = "Logsync"
                   /\ r.StatusMsg # "" /\ MsgType[r.StatusMsg] = "Logsync"

\* tasklistDevice and pscpDevice: the fault stays, only what is said of it
\* changes.
LEMMA SaysMore ==
    ASSUME IInv, PlaceTypes', LooksFurther, pc' \in {"pscp", "report"},
           UNCHANGED <<files, isSyncTime, isOverTime, seen>>,
           \/ msg' = msg
           \/ \E text \in DOMAIN MsgType \ {"Unreachable", "Skewed", "Plugins"} :
                 msg' = [msg EXCEPT !.StatusMsg = text]
    PROVE  IInv'
<1>1. /\ StillAtFault(msg)
      /\ ~isSyncTime \/ isOverTime => msg.info = {}
      /\ ~(OnlyFreshFaultLog /\ WellLog)
  BY TypesSplit DEF IInv, VerdictInv, Explained, AtFault, StaleGone, NotDoubted,
                    StillAtFault, SameText
<1>2. PICK r : r = msg' /\ StillAtFault(r)
  <2>1. CASE msg' = msg
    BY <1>1, <2>1
  <2>2. ASSUME NEW text \in DOMAIN MsgType \ {"Unreachable", "Skewed", "Plugins"},
               NEW r, r = [msg EXCEPT !.StatusMsg = text]
        PROVE  StillAtFault(r)
    <3>1. text # "" /\ MsgType[text] = "Logsync"
      BY MsgTypes
    <3>2. /\ r \in Msgs /\ SameText(r, msg) /\ r.Status = msg.Status
          /\ r.StatusType = msg.StatusType /\ r.StatusMsg = text
      BY <1>1, <2>2 DEF Msgs, SameText, StillAtFault
    <3> QED BY <1>1, <3>1, <3>2 DEF StillAtFault
  <2> QED BY <2>1, <2>2
<1>3. TypeOK'
  BY <1>2, TypesSplit DEF IInv, StillAtFault
<1> QED BY <1>1, <1>2, <1>3, FaultFound DEF StillAtFault, SameText

LEMMA PingKeeps == IInv /\ Ping => IInv'
<1> SUFFICES ASSUME IInv, Ping PROVE IInv'
  OBVIOUS
<1>1. /\ seen = NothingSeen /\ isSyncTime /\ ~isOverTime /\ msg.Status /\ msg.info = {}
      /\ msg \in Msgs /\ PlaceTypes
  BY TypesSplit DEF Ping, IInv, NothingYet
<1>2. /\ pc = "ping"
      /\ UNCHANGED <<onWindows, files, isSyncTime, isOverTime, ftpFailed, listed, seen,
                     copied>>
  BY DEF Ping, history
<1>3. CASE Unscanned /\ Report(msg)
  <2>1. TypeOK'
    BY <1>1, <1>2, <1>3, TypesSplit DEF Report, PlaceTypes, IInv
  <2> QED BY <1>1, <1>2, <1>3, <2>1, WellReported DEF Report
<1>4. CASE Report([msg EXCEPT !.Status = FALSE, !.StatusType = "Device",
                              !.StatusMsg = "Unreachable"])
  <2>1. /\ "Unreachable" \in DOMAIN MsgType /\ MsgType["Unreachable"] = "Device"
        /\ "Device" \in FaultTypes
    BY MsgTypes DEF FaultTypes
  <2>2. msg' = SetFault(msg, "Device", "Unreachable") /\ pc' = "report"
    BY <1>4 DEF Report, SetFault
  <2>3. /\ msg' \in Msgs /\ SameText(msg', msg) /\ ~msg'.Status
        /\ msg'.StatusType = "Device" /\ msg'.StatusMsg = "Unreachable"
    BY <1>1, <2>1, <2>2, NewFault
  <2>4. TypeOK'
    BY <1>1, <1>2, <2>2, <2>3, TypesSplit DEF PlaceTypes, IInv
  <2> QED BY <1>1, <1>2, <2>1, <2>2, <2>3, <2>4, NothingParsed, FaultFound DEF SameText
<1>5. CASE msg' = msg /\ pc' = "ftp"
  <2>1. TypeOK'
    BY <1>1, <1>2, <1>5, TypesSplit DEF PlaceTypes, IInv
  <2> QED BY <1>2, <1>5, <2>1, Indifferent DEF SameVerdict, SameText
<1> QED BY <1>3, <1>4, <1>5 DEF Ping

LEMMA FtpFailsKeeps == IInv /\ FtpFails => IInv'
<1> SUFFICES ASSUME IInv, FtpFails PROVE IInv'
  OBVIOUS
<1>1. msg.Status /\ isSyncTime /\ ~isOverTime
  BY DEF FtpFails, IInv, NothingYet
<1>2. TypeOK'
  BY TypesSplit DEF FtpFails, Report, PlaceTypes, IInv
<1> QED BY <1>1, <1>2, WellReported DEF FtpFails, Report

\* getDirs, as far as the listing.
LEMMA ListingKeeps == IInv /\ (NoDirectory \/ ListFiles) => IInv'
<1> SUFFICES ASSUME IInv, NoDirectory \/ ListFiles PROVE IInv'
  OBVIOUS
<1>1. /\ seen = NothingSeen /\ isSyncTime /\ ~isOverTime /\ msg.Status /\ ~msg.FaultMsg
      /\ msg \in Msgs /\ PlaceTypes
  BY TypesSplit DEF NoDirectory, ListFiles, IInv, NothingYet
<1>2. /\ UNCHANGED <<onWindows, isSyncTime, isOverTime, ftpFailed, seen, copied>>
      /\ files' \subseteq UNION Listings /\ listed' \subseteq UNION Listings
  <2>1. CASE NoDirectory
    BY <1>1, <2>1 DEF NoDirectory, history, PlaceTypes
  <2>2. CASE ListFiles
    BY <2>2 DEF ListFiles
  <2> QED BY <2>1, <2>2
<1>3. ASSUME NEW text \in {"NoDir", "NoFiles"},
             CheckLogOverFive([msg EXCEPT !.StatusMsg = text])
      PROVE  IInv'
  <2>1. PlaceTypes'
    BY <1>1, <1>2, <1>3 DEF PlaceTypes, CheckLogOverFive
  <2>2. text \in DOMAIN MsgType \ {"Unreachable", "Skewed", "Plugins"}
    BY MsgTypes
  <2> QED BY <1>1, <1>2, <1>3, <2>1, <2>2, NothingParsed, LogsMissing
<1>4. CASE msg' = msg /\ pc' = "files"
  <2>1. TypeOK'
    BY <1>1, <1>2, <1>4, TypesSplit DEF PlaceTypes, IInv
  <2>2. \A f \in FaultFiles : seen'[f] = NoContent /\ ~Parsed(f)'
    BY <1>1, <1>2 DEF NothingSeen, Parsed, Unusable
  <2>3. NothingYet' /\ FilesInv'
    BY <1>1, <1>4, <2>2 DEF NothingYet, FilesInv, ReadOnce, StampsKept, TextRead,
                            PluginFaultKept, ScreenFaultKept, FaultFiles
  <2>4. VerdictInv'
    BY <1>1, <1>2, <1>4, <2>2
    DEF VerdictInv, Explained, AtFault, LooksFurther, StaleGone, WellSoFar,
        NotDoubted, HealthJudged, NoAlarm, FaultFiles
  <2> QED BY <2>1, <2>3, <2>4 DEF IInv
<1> QED BY <1>3, <1>4 DEF NoDirectory, ListFiles

\* The files of the listing.
LEMMA FaultFileKeeps ==
    ASSUME IInv, NEW f \in files, ReadFaultFile(f)
    PROVE  IInv'
<1>1. /\ f \in FaultFiles /\ Take(f) /\ pc = "files" /\ files' = files \ {f}
      /\ UNCHANGED <<onWindows, pc, ftpFailed, listed, copied>>
  BY DEF ReadFaultFile, Take
<1>2. /\ PlaceTypes /\ msg \in Msgs /\ isSyncTime \in BOOLEAN /\ isOverTime \in BOOLEAN
  BY TypesSplit DEF IInv
<1>3. ASSUME NEW content \in FaultLogs \cup FaultTxts \cup Unusable,
             seen' = [seen EXCEPT ![f] = content]
      PROVE  PlaceTypes' /\ Reads(f, content)
  BY <1>1, <1>2, <1>3 DEF PlaceTypes, Reads
<1>4. CASE /\ seen' = [seen EXCEPT ![f] = Failed]
           /\ UNCHANGED <<msg, isSyncTime, isOverTime>>
  <2>1. PlaceTypes' /\ Reads(f, Failed)
    BY <1>3, <1>4 DEF Unusable
  <2>2. TypeOK'
    BY <1>2, <1>4, <2>1, TypesSplit
  <2> QED BY <1>4, <2>1, <2>2, ReadsNothing
<1>5. ASSUME NEW text \in {Empty, Garbage}, seen' = [seen EXCEPT ![f] = text],
             msg' = AfterUnparsed(msg, text), UNCHANGED <<isSyncTime, isOverTime>>
      PROVE  IInv'
  <2>1. PlaceTypes' /\ Reads(f, text)
    BY <1>3, <1>5 DEF Unusable
  <2>2. msg' \in Msgs
    BY <1>2, <1>5 DEF AfterUnparsed, Msgs
  <2>3. TypeOK'
    BY <1>2, <1>5, <2>1, <2>2, TypesSplit
  <2>4. text # Failed
    BY ContentsDiffer
  <2> QED BY <1>5, <2>1, <2>3, <2>4, ReadsNothing
<1>6. ASSUME NEW content \in FaultLogs \cup FaultTxts, TimeChecks(content.stamp)
      PROVE  isSyncTime' \in BOOLEAN /\ isOverTime' \in BOOLEAN
  BY <1>6 DEF TimeChecks
<1>7. ASSUME f = "fault.log", NEW log \in FaultLogs, seen' = [seen EXCEPT ![f] = log],
             msg' = AfterFaultLog(msg, log), TimeChecks(log.stamp)
      PROVE  IInv'
  <2>1. PlaceTypes' /\ Reads("fault.log", log)
    BY <1>3, <1>7
  <2>2. msg' \in Msgs
    BY <1>2, <1>7, FaultLogMsg
  <2>3. TypeOK'
    BY <1>6, <1>7, <2>1, <2>2, TypesSplit
  <2> QED BY <1>7, <2>1, <2>3, ReadsLog
<1>8. ASSUME f = "fault.txt", NEW txt \in FaultTxts, seen' = [seen EXCEPT ![f] = txt],
             msg' = AfterFaultTxt(msg, txt), TimeChecks(txt.stamp)
      PROVE  IInv'
  <2>1. PlaceTypes' /\ Reads("fault.txt", txt)
    BY <1>3, <1>8
  <2>2. msg' \in Msgs
    BY <1>2, <1>8, FaultTxtMsg
  <2>3. TypeOK'
    BY <1>6, <1>8, <2>1, <2>2, TypesSplit
  <2> QED BY <1>8, <2>1, <2>3, ReadsTxt
<1> QED BY <1>1, <1>4, <1>5, <1>7, <1>8 DEF ReadFaultFile, FaultFiles

LEMMA OtherFileKeeps ==
    ASSUME IInv, NEW f \in files,
           ReadCountFile(f) \/ ConnectionBreaks(f) \/ ReadPicture(f) \/ SkipFile(f)
    PROVE  IInv'
<1>1. /\ pc = "files" /\ pc' \in {"files", "reading"} /\ files' \subseteq files
      /\ UNCHANGED <<isSyncTime, isOverTime, history>>
  BY DEF ReadCountFile, ConnectionBreaks, ReadPicture, SkipFile, Take
<1>2. msg \in Msgs /\ PlaceTypes /\ PlaceTypes'
  BY <1>1, TypesSplit DEF IInv, PlaceTypes, history
<1>3. \/ msg' = msg
      \/ \E g \in CountFiles : msg' = [msg EXCEPT !.InterfaceError = g]
      \/ \E size \in {"small", "large"} : msg' = [msg EXCEPT !.DeviceImg = size]
  BY DEF ReadCountFile, ConnectionBreaks, ReadPicture, SkipFile
<1>4. msg' \in Msgs /\ SameVerdict(msg', msg)
  <2>1. CASE msg' = msg
    BY <1>2, <2>1 DEF SameVerdict, SameText
  <2>2. ASSUME NEW g \in CountFiles, msg' = [msg EXCEPT !.InterfaceError = g]
        PROVE  msg' \in Msgs /\ SameVerdict(msg', msg)
    BY <1>2, <2>2 DEF Msgs, SameVerdict, SameText
  <2>3. ASSUME NEW size \in {"small", "large"}, msg' = [msg EXCEPT !.DeviceImg = size]
        PROVE  msg' \in Msgs /\ SameVerdict(msg', msg)
    BY <1>2, <2>3 DEF Msgs, SameVerdict, SameText
  <2> QED BY <1>3, <2>1, <2>2, <2>3
<1>5. TypeOK'
  BY <1>1, <1>2, <1>4, TypesSplit DEF IInv
<1> QED BY <1>1, <1>4, <1>5, Indifferent DEF history

LEMMA VerdictKeeps == IInv /\ Verdict => IInv'
<1> SUFFICES ASSUME IInv, Verdict PROVE IInv'
  OBVIOUS
<1>1. /\ pc = "verdict" /\ UNCHANGED <<files, isSyncTime, isOverTime, history>>
      /\ msg \in Msgs /\ PlaceTypes
  BY TypesSplit DEF Verdict, IInv
<1>2. pc' \in Concluding => PlaceTypes'
  BY <1>1 DEF PlaceTypes, history, Concluding
<1>3. /\ Blanked(msg) \in Msgs /\ Blanked(msg).info = {}
      /\ Blanked(msg).DevType = msg.DevType /\ Blanked(msg).FaultMsg = msg.FaultMsg
  BY <1>1 DEF Blanked, Msgs
<1>4. OnlyFreshFaultLog /\ WellLog =>
          isSyncTime /\ ~isOverTime /\ msg.Status /\ msg.FaultMsg
  BY <1>1 DEF IInv, VerdictInv, WellSoFar, OnlyFreshFaultLog, FaultLog, FaultTxt
<1>5. CASE ~isSyncTime /\ Report([Blanked(msg) EXCEPT !.Status = FALSE,
                                       !.StatusType = "Device",
                                       !.StatusMsg = "Skewed"])
  <2>1. /\ "Skewed" \in DOMAIN MsgType /\ MsgType["Skewed"] = "Device"
        /\ "Device" \in FaultTypes
    BY MsgTypes DEF FaultTypes
  <2>2. msg' = SetFault(Blanked(msg), "Device", "Skewed") /\ pc' = "report"
    BY <1>5 DEF Report, SetFault
  <2>3. msg' \in Msgs /\ SameText(msg', Blanked(msg)) /\ ~msg'.Status
    BY <1>3, <2>1, <2>2, NewFault
  <2>4. msg'.StatusType = "Device" /\ msg'.StatusMsg = "Skewed"
    BY <1>3, <2>1, <2>2, NewFault
  <2>5. TypeOK'
    BY <1>1, <1>2, <2>2, <2>3, TypesSplit DEF IInv, Concluding
  <2> QED BY <1>1, <1>3, <1>4, <1>5, <2>1, <2>2, <2>3, <2>4, <2>5, FaultFound
          DEF SameText, history
<1>6. ASSUME NEW m \in {msg, Blanked(msg)}, NEW text \in {"Overtime", "NoPluginLog"},
             CheckLogOverFive([m EXCEPT !.StatusMsg = text]),
             isOverTime \/ ~msg.FaultMsg, ~isSyncTime \/ isOverTime => m.info = {}
      PROVE  IInv'
  <2>1. PlaceTypes'
    BY <1>2, <1>6 DEF CheckLogOverFive, Concluding
  <2>2. text \in DOMAIN MsgType \ {"Unreachable", "Skewed", "Plugins"}
    BY MsgTypes
  <2> QED BY <1>1, <1>3, <1>4, <1>6, <2>1, <2>2, LogsMissing DEF history
<1>7. CASE isSyncTime /\ ~isOverTime /\ msg.FaultMsg /\ Report(msg)
  <2>1. msg' = msg /\ pc' = "report" /\ TypeOK'
    BY <1>1, <1>2, <1>7, TypesSplit DEF Report, IInv, Concluding
  <2>2. CASE msg.Status
    BY <1>1, <1>7, <2>1, <2>2, WellReported DEF history
  <2>3. CASE ~msg.Status
    BY <1>1, <1>4, <1>7, <2>1, <2>3, FaultFound DEF history, IInv, VerdictInv, Explained
  <2> QED BY <2>2, <2>3
<1> QED BY <1>3, <1>5, <1>6, <1>7 DEF Verdict

\* What is asked of a device at fault over the network.
LEMMA AskingKeeps == IInv /\ KeyNeverKnown => IInv'
<1> SUFFICES ASSUME IInv, KeyNeverKnown PROVE IInv'
  OBVIOUS
<1>1. TypeOK'
  BY TypesSplit DEF KeyNeverKnown, history, PlaceTypes, IInv
<1> QED BY <1>1, Indifferent DEF KeyNeverKnown, history, SameVerdict, SameText

LEMMA SearchKeeps == IInv /\ (Tasklist \/ PscpGivesUp \/ PscpExamines) => IInv'
<1> SUFFICES ASSUME IInv, Tasklist \/ PscpGivesUp \/ PscpExamines PROVE IInv'
  OBVIOUS
<1>1. /\ LooksFurther
      /\ UNCHANGED <<onWindows, files, isSyncTime, isOverTime, ftpFailed, listed, seen>>
      /\ PlaceTypes
  BY TypesSplit DEF Tasklist, PscpGivesUp, PscpExamines, LooksFurther, history, IInv
<1>2. copied' \in FaultLogs \cup Unusable
  BY <1>1 DEF Tasklist, PscpGivesUp, PscpExamines, history, PlaceTypes, Unusable
<1>3. /\ pc' \in {"pscp", "report"}
      /\ \/ msg' = msg
         \/ \E text \in DOMAIN MsgType \ {"Unreachable", "Skewed", "Plugins"} :
               msg' = [msg EXCEPT !.StatusMsg = text]
  <2>1. CASE Tasklist
    BY <2>1, MsgTypes DEF Tasklist, Report
  <2>2. CASE PscpGivesUp
    BY <2>2, MsgTypes DEF PscpGivesUp, Report
  <2>3. CASE PscpExamines
    <3>1. \A text : PscpVerdict(msg, text) \in DOMAIN MsgType
                                               \ {"Unreachable", "Skewed", "Plugins"}
      BY MsgTypes DEF PscpVerdict
    <3>2. /\ AfterPscp(copied').pc = "report"
          /\ \E text : AfterPscp(copied').msg =
                           [msg EXCEPT !.StatusMsg = PscpVerdict(msg, text)]
      BY PscpSeesNothing
    <3>3. pc' = AfterPscp(copied').pc /\ msg' = AfterPscp(copied').msg
      BY <2>3 DEF PscpExamines
    <3> QED BY <3>1, <3>2, <3>3
  <2> QED BY <2>1, <2>2, <2>3
<1>4. PlaceTypes'
  BY <1>1, <1>2, <1>3 DEF PlaceTypes
<1> QED BY <1>1, <1>3, <1>4, SaysMore

LEMMA NextDeviceKeeps == IInv /\ NextDevice => IInv'
<1> SUFFICES ASSUME IInv, NextDevice PROVE IInv'
  OBVIOUS
<1>1. Init'
  BY TypesSplit DEF NextDevice, Init, IInv, PlaceTypes
<1> QED BY <1>1, InitIInv, PTL

LEMMA StepIInv == IInv /\ [Next]_vars => IInv'
<1> SUFFICES ASSUME IInv, [Next]_vars PROVE IInv'
  OBVIOUS
<1>1. CASE NeverReturns \/ UNCHANGED vars
  BY <1>1, TypesSplit, Indifferent
  DEF NeverReturns, vars, PlaceTypes, IInv, SameVerdict, SameText
<1>2. CASE FilesDone
  <2>1. TypeOK'
    BY <1>2, TypesSplit DEF FilesDone, history, PlaceTypes, IInv
  <2> QED BY <1>2, <2>1, Indifferent DEF FilesDone, history, SameVerdict, SameText
<1> QED BY <1>1, <1>2, PingKeeps, FtpFailsKeeps, ListingKeeps, FaultFileKeeps,
           OtherFileKeeps, VerdictKeeps, AskingKeeps, SearchKeeps, NextDeviceKeeps
    DEF Next
------------------------------------------------------------------------------
LEMMA Invariant == Spec => []IInv
BY InitIInv, StepIInv, PTL DEF Spec

\* What was parsed under the name fault.log is a fault.log.
LogIsLog == Parsed("fault.log") => FaultLog \in FaultLogs

LEMMA LogsAreLogs == Spec => []LogIsLog
<1>1. Init => LogIsLog
  BY DEF Init, LogIsLog, Parsed, NothingSeen, Unusable, FaultFiles
<1>2. ASSUME TypeOK, LogIsLog, [Next]_vars
      PROVE  LogIsLog'
  <2>1. ASSUME NEW f \in files, ReadFaultFile(f)
        PROVE  LogIsLog'
    <3>1. seen \in [FaultFiles -> FaultLogs \cup FaultTxts \cup Unusable]
      BY <1>2 DEF TypeOK
    <3>2. /\ f \in FaultFiles
          /\ \E content \in Unusable \cup IF f = "fault.log" THEN FaultLogs ELSE FaultTxts :
                seen' = [seen EXCEPT ![f] = content]
      BY <2>1 DEF ReadFaultFile, Unusable
    <3>3. PICK content \in Unusable \cup IF f = "fault.log" THEN FaultLogs ELSE FaultTxts :
              seen' = [seen EXCEPT ![f] = content]
      BY <3>2
    <3>4. CASE f = "fault.log"
      BY <3>1, <3>2, <3>3, <3>4 DEF LogIsLog, Parsed, FaultLog
    <3>5. CASE f # "fault.log"
      <4>1. seen'["fault.log"] = seen["fault.log"]
        BY <3>1, <3>3, <3>5 DEF FaultFiles
      <4> QED BY <1>2, <4>1 DEF LogIsLog, Parsed, FaultLog
    <3> QED BY <3>4, <3>5
  <2>2. CASE seen' \in {seen, NothingSeen}
    BY <1>2, <2>2 DEF LogIsLog, Parsed, FaultLog, NothingSeen, Unusable, FaultFiles
  <2>3. \/ seen' \in {seen, NothingSeen}
        \/ \E f \in files : ReadFaultFile(f)
    BY <1>2 DEF Next, vars, history, Ping, FtpFails, NoDirectory, ListFiles,
                ReadCountFile, ConnectionBreaks, ReadPicture, SkipFile, FilesDone,
                Verdict, Tasklist, PscpGivesUp, KeyNeverKnown, PscpExamines,
                NeverReturns, NextDevice
  <2> QED BY <2>1, <2>2, <2>3
<1>3. IInv => TypeOK
  BY DEF IInv
<1> QED BY <1>1, <1>2, <1>3, Invariant, PTL DEF Spec

\* The types of DeviceScan: the message of SyncDeviceLog and what the scan has
\* read stay what the code can make of them.
THEOREM TypeCorrect == Spec => []TypeOK
<1>1. IInv => TypeOK BY DEF IInv
<1> QED BY <1>1, Invariant, PTL

\* Whichever way the scan ends, a fault is reported with a message that opens
\* with the fault type that is reported: getDirs, checkLogOverFive,
\* tasklistDevice and pscpDevice never leave the two apart.
THEOREM FaultsExplained == Spec => []FaultsAreExplained
<1>1. IInv => FaultsAreExplained
  BY DEF IInv, VerdictInv, Explained, FaultsAreExplained
<1> QED BY <1>1, Invariant, PTL

\* No fault that a fault.log of a bed that is not empty or a fault.txt shows,
\* by the rules of the comment above getPluginsInfo, is lost before the report,
\* in whichever order the server lists the files.
THEOREM FaultsKept == Spec => []FaultsReported
<1>1. ASSUME IInv, ~Exempt(msg.DevType), Parsed("fault.log"),
             FaultLog \in FaultLogs
      PROVE  Faulty(FaultLog) <=> Faults(FaultLog) # {}
  <2>1. FaultLog.codes \in [Plugins -> Codes] /\ msg.DevType \in DevTypes
    BY <1>1, LogAssumption DEF IInv, TypeOK
  <2> QED BY <1>1, <2>1, RulesAsCommented DEF Faulty, Faults, Overdue
<1>2. IInv /\ LogIsLog => FaultsReported
  BY <1>1
  DEF IInv, FilesInv, PluginFaultKept, ScreenFaultKept, FaultsReported, LogIsLog,
      PluginFaultReported, ScreenFaultReported, FaultLog, FaultTxt
<1> QED BY <1>2, Invariant, LogsAreLogs, PTL

\* emptyPluginsInfo is called before the report for every log that turns out to
\* be stale: its codes, reasons and timestamp are not reported (its text is).
THEOREM StaleInfoGone == Spec => []StaleInfoBlanked
<1>1. IInv => StaleInfoBlanked
  BY DEF IInv, TypeOK, FilesInv, StampsKept, VerdictInv, StaleGone, StaleInfoBlanked
<1> QED BY <1>1, Invariant, PTL

LEMMA EvidenceIsFresh ==
    ASSUME IInv, pc = "report", msg.Status, ~Unscanned, ~ftpFailed
    PROVE  /\ \A f \in FaultFiles : Parsed(f) => seen[f].stamp \notin {"overdue", "skewed"}
           /\ \E f \in FaultFiles : seen[f] \notin {NoContent, Failed, Empty}
BY DEF IInv, FilesInv, StampsKept, VerdictInv, HealthJudged

\* SyncDeviceLog reports a scanned device healthy only after it has read a
\* plugin log that is not stale, or when the FTP session broke off.
THEOREM HealthNeedsEvidence == Spec => []HealthOnEvidence
<1>1. IInv => HealthOnEvidence
  BY EvidenceIsFresh DEF HealthOnEvidence
<1> QED BY <1>1, Invariant, PTL

\* SyncDeviceLog raises no alarm for a device whose only plugin log is fresh
\* and, by the comment above getPluginsInfo, shows no fault.
THEOREM WellIsReportedWell == Spec => []NoFalseAlarm
<1>1. ASSUME IInv, LogIsLog, OnlyFreshFaultLog, Faults(FaultLog) = {}
      PROVE  ~Faulty(FaultLog)
  <2>1. FaultLog.codes \in [Plugins -> Codes] /\ msg.DevType \in DevTypes
    BY <1>1, LogAssumption DEF IInv, TypeOK, LogIsLog, OnlyFreshFaultLog
  <2>2. CASE Exempt(msg.DevType)
    BY <2>2, ExemptIsWell DEF Faulty
  <2>3. CASE ~Exempt(msg.DevType)
    BY <1>1, <2>1, <2>3, RulesAsCommented DEF Faulty, Faults, Overdue
  <2> QED BY <2>2, <2>3
<1>2. IInv /\ LogIsLog => NoFalseAlarm
  BY <1>1 DEF IInv, VerdictInv, NoAlarm, WellLog, NoFalseAlarm, FaultLog
<1> QED BY <1>2, Invariant, LogsAreLogs, PTL

\* pscpDevice hands no cache to getPluginsInfo, which would be a panic if a
\* plugin had to be timed; it never comes to that, because OpenFile has emptied
\* the file.
THEOREM NeverPanics == Spec => [](pc # "panicked")
<1>1. IInv => pc # "panicked"
  BY DEF IInv, VerdictInv
<1> QED BY <1>1, Invariant, PTL
------------------------------------------------------------------------------
\* The device the report is about.

SameDevice(r, m) == r.DevType = m.DevType /\ r.DirName = m.DirName

\* Whatever is written into the message, it stays that of the device and of
\* the directory it was made for.
LEMMA DeviceKept ==
    ASSUME IInv, [Next]_vars, ~NextDevice
    PROVE  SameDevice(msg', msg)
<1> DEFINE Same(r) == SameDevice(r, msg)
<1>1. msg \in Msgs
  BY TypesSplit DEF IInv
<1>2. ASSUME NEW m \in Msgs, Same(m), NEW log \in FaultLogs
      PROVE  Same(AfterFaultLog(m, log))
  BY <1>2 DEF AfterFaultLog, Msgs, SameDevice
<1>3. ASSUME NEW txt \in FaultTxts
      PROVE  Same(AfterFaultTxt(msg, txt))
  BY <1>1 DEF AfterFaultTxt, Msgs, SameDevice
<1>4. ASSUME NEW m \in {msg, Blanked(msg)}, NEW text,
             CheckLogOverFive([m EXCEPT !.StatusMsg = text])
      PROVE  Same(msg')
  BY <1>1, <1>4 DEF CheckLogOverFive, Blanked, Msgs, SameDevice
<1>5. ASSUME NEW text, msg' = [msg EXCEPT !.StatusMsg = text]
      PROVE  Same(msg')
  BY <1>1, <1>5 DEF Msgs, SameDevice
<1>6. CASE Ping
  BY <1>1, <1>6 DEF Ping, Report, Msgs, SameDevice
<1>7. CASE NoDirectory \/ ListFiles
  <2>1. \/ msg' = msg
        \/ \E text : CheckLogOverFive([msg EXCEPT !.StatusMsg = text])
    BY <1>7 DEF NoDirectory, ListFiles
  <2> QED BY <1>4, <2>1 DEF SameDevice
<1>8. ASSUME NEW f \in files, ReadFaultFile(f)
      PROVE  Same(msg')
  <2>1. \/ msg' = msg
        \/ \E text : msg' = AfterUnparsed(msg, text)
        \/ \E log \in FaultLogs : msg' = AfterFaultLog(msg, log)
        \/ \E txt \in FaultTxts : msg' = AfterFaultTxt(msg, txt)
    BY <1>8 DEF ReadFaultFile
  <2>2. \A text : Same(AfterUnparsed(msg, text))
    BY <1>1 DEF AfterUnparsed, Msgs, SameDevice
  <2> QED BY <1>1, <1>2, <1>3, <2>1, <2>2 DEF SameDevice
<1>9. ASSUME NEW f \in files,
             ReadCountFile(f) \/ ConnectionBreaks(f) \/ ReadPicture(f) \/ SkipFile(f)
      PROVE  Same(msg')
  BY <1>1, <1>9 DEF ReadCountFile, ConnectionBreaks, ReadPicture, SkipFile, Msgs,
                    SameDevice
<1>10. CASE Verdict
  <2>1. \/ msg' = msg
        \/ msg' = [Blanked(msg) EXCEPT !.Status = FALSE, !.StatusType = "Device",
                                       !.StatusMsg = "Skewed"]
        \/ \E m \in {msg, Blanked(msg)}, text \in {"Overtime", "NoPluginLog"} :
              CheckLogOverFive([m EXCEPT !.StatusMsg = text])
    BY <1>10 DEF Verdict, Report
  <2>2. Same([Blanked(msg) EXCEPT !.Status = FALSE, !.StatusType = "Device",
                                  !.StatusMsg = "Skewed"])
    BY <1>1 DEF Blanked, Msgs, SameDevice
  <2> QED BY <1>4, <2>1, <2>2 DEF SameDevice
<1>11. CASE Tasklist \/ PscpGivesUp \/ PscpExamines
  <2>1. msg' = msg \/ \E text : msg' = [msg EXCEPT !.StatusMsg = text]
    BY <1>11, PscpSeesNothing DEF Tasklist, PscpGivesUp, PscpExamines, Report
  <2> QED BY <1>5, <2>1 DEF SameDevice
<1>12. CASE msg' = msg
  BY <1>12 DEF SameDevice
<1> QED
  BY <1>6, <1>7, <1>8, <1>9, <1>10, <1>11, <1>12
  DEF Next, FtpFails, KeyNeverKnown, NeverReturns, FilesDone, vars, Report

\* The directory is the one utils.GetDeviceDir found for the type.
FoundDirectory == msg.DirName \in Lookup(msg.DevType)

LEMMA DirectoryKept == Spec => []FoundDirectory
<1>1. ASSUME NEW m \in NewMsgs
      PROVE  m.DirName \in Lookup(m.DevType)
  <2>1. PICK t \in DevTypes : \E dir \in Lookup(t) : m = NewMsg(t, dir)
    BY DEF NewMsgs
  <2>2. PICK dir \in Lookup(t) : m = NewMsg(t, dir)
    BY <2>1
  <2>3. m.DevType = t /\ m.DirName = dir
    BY <2>2 DEF NewMsg
  <2> QED BY <2>3
<1>2. Init => FoundDirectory
  BY <1>1 DEF Init, FoundDirectory
<1>3. IInv /\ FoundDirectory /\ [Next]_vars => FoundDirectory'
  <2>1. CASE NextDevice
    BY <1>1, <2>1 DEF NextDevice, FoundDirectory
  <2>2. CASE ~NextDevice
    BY <2>2, DeviceKept DEF SameDevice, FoundDirectory, Lookup
  <2> QED BY <2>1, <2>2
<1> QED BY <1>2, <1>3, Invariant, PTL DEF Spec

Configured(t) == t \in DOMAIN DirOf /\ DirOf[t] \notin {"other", ""}

\* No device whose type the configuration gives a directory is reported
\* healthy without being looked at, as long as every configured code is a
\* number: one that is not may, by the random order of a Go map, leave any
\* device without its directory, and unscanned devices are taken for healthy.
THEOREM ConfiguredNotOverlooked ==
    ASSUME CodesNumeric
    PROVE  Spec => [](pc = "report" /\ Configured(msg.DevType)
                          /\ msg.Status /\ ~ftpFailed =>
                        /\ \A f \in FaultFiles :
                              Parsed(f) => seen[f].stamp \notin {"overdue", "skewed"}
                        /\ \E f \in FaultFiles :
                              seen[f] \notin {NoContent, Failed, Empty})
<1>1. FoundDirectory /\ Configured(msg.DevType) => ~Unscanned
  BY DEF FoundDirectory, Configured, Unscanned, Lookup
<1>2. IInv /\ FoundDirectory =>
        (pc = "report" /\ Configured(msg.DevType) /\ msg.Status /\ ~ftpFailed =>
           /\ \A f \in FaultFiles : Parsed(f) => seen[f].stamp \notin {"overdue", "skewed"}
           /\ \E f \in FaultFiles : seen[f] \notin {NoContent, Failed, Empty})
  BY <1>1, EvidenceIsFresh
<1> QED BY <1>2, Invariant, DirectoryKept, PTL

\* How far the examination still has to go.
Place == CASE pc = "ping" -> 6
           [] pc = "ftp" -> 5
           [] pc = "files" -> 4
           [] pc = "verdict" -> 3
           [] pc = "tasklist" -> 2
           [] pc = "pscp" -> 1
           [] OTHER -> 0

\* No step of an examination goes back: each takes it nearer to the report or
\* a file off the listing, which is finite, or to where it never returns from.
\* Of ScanEnds this is all but that the steps are taken.
THEOREM ScanOnlyForward ==
    Spec => [][pc \notin {"report", "reading", "asking"} =>
                 \/ Place' < Place
                 \/ pc' = pc /\ files' \subseteq files /\ files' # files]_vars
<1>1. ASSUME IInv, Next
      PROVE  pc \notin {"report", "reading", "asking"} =>
                 \/ Place' < Place
                 \/ pc' = pc /\ files' \subseteq files /\ files' # files
  <2>1. CASE Ping
    BY <2>1 DEF Ping, Report, Place
  <2>2. CASE FtpFails
    BY <2>2 DEF FtpFails, Report, Place
  <2>3. CASE NoDirectory \/ ListFiles
    <3>1. pc = "ftp" /\ pc' \in {"files", "tasklist", "pscp", "report"}
      BY <2>3 DEF NoDirectory, ListFiles, CheckLogOverFive
    <3> QED BY <3>1 DEF Place
  <2>4. ASSUME NEW f \in files,
               \/ ReadFaultFile(f) \/ ReadCountFile(f) \/ ReadPicture(f) \/ SkipFile(f)
        PROVE  pc' = pc /\ files' \subseteq files /\ files' # files
    BY <2>4 DEF ReadFaultFile, ReadCountFile, ReadPicture, SkipFile, Take
  <2>5. ASSUME NEW f \in files, ConnectionBreaks(f)
        PROVE  Place' < Place
    BY <2>5 DEF ConnectionBreaks, Take, Place
  <2>6. CASE FilesDone
    BY <2>6 DEF FilesDone, Place
  <2>7. CASE Verdict
    <3>1. pc = "verdict" /\ pc' \in {"tasklist", "pscp", "report"}
      BY <2>7 DEF Verdict, Report, CheckLogOverFive
    <3> QED BY <3>1 DEF Place
  <2>8. CASE Tasklist
    <3>1. pc = "tasklist" /\ pc' \in {"pscp", "report"}
      BY <2>8 DEF Tasklist, Report
    <3> QED BY <3>1 DEF Place
  <2>9. CASE PscpGivesUp \/ PscpExamines
    <3>1. pc = "pscp" /\ pc' = "report"
      BY <2>9, PscpSeesNothing DEF PscpGivesUp, PscpExamines, Report
    <3> QED BY <3>1 DEF Place
  <2>10. CASE KeyNeverKnown
    BY <2>10 DEF KeyNeverKnown, Place
  <2> QED
    BY <1>1, <2>1, <2>2, <2>3, <2>4, <2>5, <2>6, <2>7, <2>8, <2>9, <2>10
    DEF Next, NeverReturns, NextDevice
<1>2. IInv /\ [Next]_vars =>
        [pc \notin {"report", "reading", "asking"} =>
           \/ Place' < Place
           \/ pc' = pc /\ files' \subseteq files /\ files' # files]_vars
  BY <1>1
<1> QED BY <1>2, Invariant, PTL DEF Spec
==============================================================================
