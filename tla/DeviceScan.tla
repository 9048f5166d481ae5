------------------------------ MODULE DeviceScan ------------------------------
(***************************************************************************)
(* The examination of one device after another: the body of the loop of    *)
(* SyncDeviceLog and everything it calls for a device, getDirs,            *)
(* getPluginsInfo, checkLogOverFive, tasklistDevice and pscpDevice in      *)
(* sync/sync_log.go, and utils.OpenFile.                                   *)
(*                                                                         *)
(* The device, the FTP server and the command-line tools are external:     *)
(* what they answer is chosen where the code asks.  Strings keep what the  *)
(* properties tell apart: a status message is named by the place that      *)
(* writes it, a timestamp by how the time checks judge it.  The ping that   *)
(* ends the process is left to DeviceCycle, the output of a command and the *)
(* panic it may cause to CommandOutput.                                    *)
(***************************************************************************)
EXTENDS PluginRules, FiniteSets

CONSTANTS DirOf,       \* DirOf[t]: directory configured for a type, the lists
                       \* Dir.Codes and Dir.Names taken together; empty when
                       \* they do not fit
          CodesNumeric, \* every code of Dir.Codes is a number
          Exts,        \* the names in Config.Exts
          ImgExts,     \* the names in Config.Imgexts
          Isresizeimg,
          Listings,    \* sets of file names the FTP server may list
          FaultLogs,   \* contents of fault.log
          FaultTxts    \* contents of fault.txt

Stamps == {"fresh", "overdue", "skewed", "unreadable"}

\* No type that is scanned is 0: for it getPluginsInfo would take the type
\* from the log.
ASSUME DirAssumption ==
    /\ DOMAIN DirOf \subseteq DevTypes
    /\ 0 \in DOMAIN DirOf => DirOf[0] \in {"other", ""}
ASSUME LogAssumption ==
    /\ FaultLogs \subseteq [codes : [Plugins -> Codes], overdue : SUBSET Plugins,
                            emptyBed : BOOLEAN, stamp : Stamps]
    /\ FaultTxts \subseteq [mqtt : BOOLEAN, stamp : Stamps]

NoContent == [text |-> "not looked at"]
Failed == [text |-> "retr failed"]
Empty == [text |-> "empty"]
Garbage == [text |-> "not the expected JSON"]

VARIABLES onWindows,   \* runtime.GOOS == "windows", the same for the whole run
          pc,          \* what the scan does next; "reading", "asking": it
                       \* does nothing else any more
          msg,         \* logMsg
          files,       \* listed files not yet examined
          isSyncTime, isOverTime,
          ftpFailed,   \* history: the FTP session was broken off
          listed,      \* history: the listing
          seen,        \* history: seen[f]: what was read from f over FTP
          copied       \* history: contents of the fault.log pscp fetched

vars == <<onWindows, pc, msg, files, isSyncTime, isOverTime, ftpFailed, listed,
          seen, copied>>
history == <<onWindows, ftpFailed, listed, seen, copied>>

FaultFiles == {"fault.log", "fault.txt"}
CountFiles == {"interface.log", "error.txt"}
Unusable == {NoContent, Failed, Empty, Garbage}
FaultTypes == {"Device", "Plugin", "Logsync"}

\* The fault type a status message opens with.
MsgType == [Unreachable |-> "Device", Skewed |-> "Device",
            Plugins |-> "Plugin",
            NoDir |-> "Logsync", NoFiles |-> "Logsync",
            Overtime |-> "Logsync", NoPluginLog |-> "Logsync",
            AppRunning |-> "Logsync", AppDown |-> "Logsync",
            PscpFailed |-> "Logsync", NothingCopied |-> "Logsync",
            DeviceHasNoLogs |-> "Logsync", DeviceHasNoPluginLog |-> "Logsync",
            DeviceOvertime |-> "Logsync", NotSynced |-> "Logsync"]

\* utils.GetDeviceDir goes through a Go map, in any order, until it meets the
\* type; a code that is no number makes it fail if it is met before.  Types
\* that are not configured are not scanned.
Lookup(devType) ==
    {IF devType \in DOMAIN DirOf THEN DirOf[devType] ELSE "other"}
        \cup IF CodesNumeric THEN {} ELSE {""}

\* FaultMsg: is there any text; info: the files the plugin fields come from;
\* DeviceImg: the size of the picture.  The error of GetDeviceDir is dropped.
NewMsg(t, dir) ==
    [DevType |-> t, DirName |-> dir, Status |-> TRUE, StatusType |-> "",
     StatusMsg |-> "", FaultMsg |-> FALSE, Timestamp |-> "",
     InterfaceError |-> "", DeviceImg |-> "", info |-> {}]

NewMsgs == UNION {{NewMsg(t, dir) : dir \in Lookup(t)} : t \in DevTypes}

TypeOK ==
    /\ onWindows \in BOOLEAN
    /\ pc \in {"ping", "ftp", "files", "verdict", "tasklist", "pscp",
               "reading", "asking", "report", "panicked"}
    /\ msg \in [DevType : DevTypes, Status : BOOLEAN,
                DirName : {DirOf[t] : t \in DOMAIN DirOf} \cup {"other", ""},
                StatusType : FaultTypes \cup {""},
                StatusMsg : DOMAIN MsgType \cup {""}, FaultMsg : BOOLEAN,
                Timestamp : Stamps \cup {""},
                InterfaceError : CountFiles \cup {""},
                DeviceImg : {"", "small", "large"},
                info : SUBSET FaultFiles]
    /\ files \subseteq UNION Listings
    /\ isSyncTime \in BOOLEAN /\ isOverTime \in BOOLEAN
    /\ ftpFailed \in BOOLEAN
    /\ listed \subseteq UNION Listings
    /\ seen \in [FaultFiles -> FaultLogs \cup FaultTxts \cup Unusable]
    /\ copied \in FaultLogs \cup Unusable

Unscanned == msg.DirName \in {"other", ""}

NothingSeen == [f \in FaultFiles |-> NoContent]

Init == /\ onWindows \in BOOLEAN
        /\ pc = "ping"
        /\ msg \in NewMsgs
        /\ files = {}
        /\ isSyncTime = TRUE
        /\ isOverTime = FALSE
        /\ ftpFailed = FALSE
        /\ listed = {}
        /\ seen = NothingSeen
        /\ copied = NoContent
------------------------------------------------------------------------------
MutantAfterUnparsed(m, text) ==
    [m EXCEPT !.FaultMsg = TRUE, !.Timestamp = "0001-01-01 00:00:00"]

\* getPluginsInfo, as a function of the message: the text is kept first, so
\* a file that cannot be parsed still counts as a plugin log.
AfterUnparsed(m, text) == [m EXCEPT !.FaultMsg = text # Empty]

AfterFaultLog(m, log) ==
    LET faulty == FaultyPlugins(m.DevType, log.codes, log.overdue)
        kept == [m EXCEPT !.FaultMsg = TRUE, !.Timestamp = log.stamp,
                          !.info = {"fault.log"}]
    IN  IF Exempt(m.DevType) THEN kept
        ELSE IF faulty = {}
        THEN [kept EXCEPT !.Status = TRUE, !.StatusMsg = "Plugins"]
        ELSE [kept EXCEPT !.Status = FALSE, !.StatusMsg = "Plugins",
                          !.StatusType = "Plugin"]

MutantAfterFaultTxt(m, txt) ==
    [m EXCEPT !.FaultMsg = TRUE, !.Timestamp = txt.stamp, !.Status = txt.mqtt,
              !.StatusMsg = "Plugins"]

AfterFaultTxt(m, txt) ==
    LET kept == [m EXCEPT !.FaultMsg = TRUE, !.Timestamp = txt.stamp,
                          !.info = @ \cup {"fault.txt"}]
    IN  IF txt.mqtt THEN kept
        ELSE [kept EXCEPT !.Status = FALSE, !.StatusMsg = "Plugins",
                          !.StatusType = "Plugin"]

\* emptyPluginsInfo: every plugin field, and the timestamp; not FaultMsg.
Blanked(m) == [m EXCEPT !.info = {}, !.Timestamp = ""]

\* checkLogOverFive: the device is at fault in any case; what follows only
\* changes the message.
CheckLogOverFive(m) ==
    /\ msg' = [m EXCEPT !.Status = FALSE, !.StatusType = "Logsync"]
    /\ pc' = CASE m.DirName = "nis" -> "tasklist"
               [] m.DirName \in {"bis", "nws", "webapp"} -> "pscp"
               [] OTHER -> "report"

Report(m) == msg' = m /\ pc' = "report"
------------------------------------------------------------------------------
\* ping sends three echo requests, one after the other, and returns the
\* share that was lost; an answer that is late, or to another request, counts
\* as lost.
Echoes == 3
PercentLost(lostN) == (lostN * 100) \div Echoes

\* utils.GetPingMsg: one answer is enough.
Unreachable(lostN) == PercentLost(lostN) = 100

\* Directories that are not scanned are reported healthy; a device without
\* an address, or without any answer to ping, is at fault.
Ping == /\ pc = "ping"
        /\ \/ Unscanned /\ Report(msg)
           \/ /\ ~Unscanned
              /\ \E lostN \in 0..Echoes, hasAddress \in BOOLEAN :
                    IF ~hasAddress \/ Unreachable(lostN)
                    THEN Report([msg EXCEPT !.Status = FALSE,
                                            !.StatusType = "Device",
                                            !.StatusMsg = "Unreachable"])
                    ELSE msg' = msg /\ pc' = "ftp"
        /\ UNCHANGED <<files, isSyncTime, isOverTime, history>>

\* Dial, login, the current path and the listing may fail: getDirs returns
\* and the message stays as it is.
FtpFails == /\ pc = "ftp"
            /\ Report(msg)
            /\ ftpFailed' = TRUE
            /\ UNCHANGED <<onWindows, files, isSyncTime, isOverTime, listed, seen,
                           copied>>

\* There is no directory for today.
NoDirectory == /\ pc = "ftp"
               /\ CheckLogOverFive([msg EXCEPT !.StatusMsg = "NoDir"])
               /\ UNCHANGED <<files, isSyncTime, isOverTime, history>>

ListFiles == /\ pc = "ftp"
             /\ \E names \in Listings :
                   /\ listed' = names
                   /\ files' = names
                   /\ IF names = {}
                      THEN CheckLogOverFive([msg EXCEPT !.StatusMsg = "NoFiles"])
                      ELSE msg' = msg /\ pc' = "files"
             /\ UNCHANGED <<onWindows, isSyncTime, isOverTime, ftpFailed, seen,
                            copied>>


\* The server lists the files in any order.
Take(f) == pc = "files" /\ f \in files /\ files' = files \ {f}

MutantTimeChecks(stamp) ==
    /\ isSyncTime' = (stamp # "skewed")
    /\ isOverTime' = (isOverTime \/ (isSyncTime /\ stamp = "overdue"))

\* checkSyncTime, until it has failed once; then checkOverTime, unless some
\* file was overdue or skewed.  An unreadable timestamp fails the first
\* check with an error and leaves both flags alone.
TimeChecks(stamp) ==
    /\ isSyncTime' = (isSyncTime /\ stamp # "skewed")
    /\ isOverTime' = (isOverTime \/ (isSyncTime /\ stamp = "overdue"))

ReadFaultFile(f) ==
    /\ f \in FaultFiles \cap Exts
    /\ Take(f)
    /\ \/ /\ seen' = [seen EXCEPT ![f] = Failed]
          /\ UNCHANGED <<msg, isSyncTime, isOverTime>>
       \/ \E text \in {Empty, Garbage} :
             /\ seen' = [seen EXCEPT ![f] = text]
             /\ msg' = AfterUnparsed(msg, text)
             /\ UNCHANGED <<isSyncTime, isOverTime>>
       \/ \E content \in IF f = "fault.log" THEN FaultLogs ELSE FaultTxts :
             /\ seen' = [seen EXCEPT ![f] = content]
             /\ msg' = IF f = "fault.log" THEN AfterFaultLog(msg, content)
                       ELSE AfterFaultTxt(msg, content)
             /\ TimeChecks(content.stamp)
    /\ UNCHANGED <<onWindows, pc, ftpFailed, listed, copied>>

\* interface.log and error.txt are counted into the same field: the lines,
\* and those with a URL.
ReadCountFile(f) ==
    /\ f \in CountFiles \cap Exts
    /\ Take(f)
    /\ \/ msg' = msg
       \/ msg' = [msg EXCEPT !.InterfaceError = f]
    /\ UNCHANGED <<pc, isSyncTime, isOverTime, history>>

\* readInterfaceLogLine and readErrorTxtLine leave their loops at the end of
\* the file only: on a broken connection every read fails at once, and they
\* read again.
ConnectionBreaks(f) ==
    /\ f \in CountFiles \cap Exts
    /\ Take(f)
    /\ pc' = "reading"
    /\ UNCHANGED <<msg, isSyncTime, isOverTime, history>>

\* A picture is sent as it is - or, when it is large and to be resized, not
\* at all: the resized one is opened with OpenFile, which empties it.
ReadPicture(f) ==
    /\ f \in ImgExts \ Exts
    /\ Take(f)
    /\ \/ msg' = msg
       \/ \E size \in {"small", "large"} :
             /\ size = "large" => ~Isresizeimg
             /\ msg' = [msg EXCEPT !.DeviceImg = size]
    /\ UNCHANGED <<pc, isSyncTime, isOverTime, history>>

\* Names the configuration does not list, or lists without any use for them.
SkipFile(f) == /\ f \in Exts => f \notin FaultFiles \cup CountFiles
               /\ f \in ImgExts => f \in Exts
               /\ Take(f)
               /\ UNCHANGED <<pc, msg, isSyncTime, isOverTime, history>>

FilesDone == /\ pc = "files"
             /\ files = {}
             /\ pc' = "verdict"
             /\ UNCHANGED <<msg, files, isSyncTime, isOverTime, history>>

\* What the files said: a clock that is off wins over old logs, and both
\* make the plugin information unusable.
Verdict ==
    /\ pc = "verdict"
    /\ \/ /\ ~isSyncTime
          /\ Report([Blanked(msg) EXCEPT !.Status = FALSE,
                                         !.StatusType = "Device",
                                         !.StatusMsg = "Skewed"])
       \/ /\ isSyncTime /\ isOverTime
          /\ CheckLogOverFive([Blanked(msg) EXCEPT !.StatusMsg = "Overtime"])
       \/ /\ isSyncTime /\ ~isOverTime /\ ~msg.FaultMsg
          /\ CheckLogOverFive([msg EXCEPT !.StatusMsg = "NoPluginLog"])
       \/ /\ isSyncTime /\ ~isOverTime /\ msg.FaultMsg
          /\ Report(msg)
    /\ UNCHANGED <<files, isSyncTime, isOverTime, history>>

\* tasklistDevice: is the application of a ward screen running?
Tasklist ==
    /\ pc = "tasklist"
    /\ \/ /\ onWindows
          /\ msg' = [msg EXCEPT !.StatusMsg = "AppRunning"]
          /\ pc' = "pscp"
       \/ onWindows /\ Report([msg EXCEPT !.StatusMsg = "AppDown"])
       \/ ~onWindows /\ Report(msg)
    /\ UNCHANGED <<files, isSyncTime, isOverTime, history>>

\* pscpDevice gives up before it has files: the local directory cannot be
\* prepared, this is not Windows, pscp fails, or nothing ends in "log".
PscpGivesUp ==
    /\ pc = "pscp"
    /\ \/ Report(msg)
       \/ /\ onWindows
          /\ \E what \in {"PscpFailed", "NothingCopied", "DeviceHasNoLogs"} :
                Report([msg EXCEPT !.StatusMsg = what])
    /\ UNCHANGED <<files, isSyncTime, isOverTime, history>>

\* pscp asks for the host key again in every attempt, and commandTimeout calls
\* itself again (CommandTimeout).
KeyNeverKnown == /\ pc = "pscp"
                 /\ onWindows
                 /\ pc' = "asking"
                 /\ UNCHANGED <<msg, files, isSyncTime, isOverTime, history>>

NeverReturns == pc \in {"reading", "asking"} /\ UNCHANGED vars

\* utils.OpenFile opens with O_TRUNC: the file is emptied before it is read,
\* and a read of an empty file is an error.
OpenFile(content) == Failed

\* What pscpDevice says of the device, given what it has read of the file.
PscpVerdict(m, text) ==
    IF ~m.FaultMsg THEN "DeviceHasNoPluginLog"
    ELSE IF text \in FaultLogs /\ text.stamp \in {"overdue", "unreadable"}
    THEN "DeviceOvertime"
    ELSE "NotSynced"

\* pscpDevice goes through the copied file: getPluginsInfo gets no cache here,
\* and code999OverTenMinutes would use it for every plugin it times.
AfterPscp(content) ==
    LET text == IF content = NoContent THEN NoContent ELSE OpenFile(content)
        m == CASE text \in {NoContent, Failed} -> msg
               [] text \in {Empty, Garbage} -> AfterUnparsed(msg, text)
               [] OTHER -> AfterFaultLog(msg, text)
    IN  IF text \in FaultLogs /\ ~Exempt(msg.DevType)
        THEN [pc |-> "panicked", msg |-> msg]
        ELSE [pc |-> "report", msg |-> [m EXCEPT !.StatusMsg = PscpVerdict(m, text)]]

\* pscpDevice has copied log files; one of them may be a fault.log.
PscpExamines ==
    /\ pc = "pscp"
    /\ onWindows
    /\ copied' \in FaultLogs \cup {NoContent, Empty, Garbage}
    /\ pc' = AfterPscp(copied').pc
    /\ msg' = AfterPscp(copied').msg
    /\ UNCHANGED <<onWindows, files, isSyncTime, isOverTime, ftpFailed, listed, seen>>

\* The report joins logMsgs and the loop goes on to another device.
NextDevice == /\ pc = "report"
              /\ pc' = "ping"
              /\ msg' \in NewMsgs
              /\ files' = {}
              /\ isSyncTime' = TRUE
              /\ isOverTime' = FALSE
              /\ ftpFailed' = FALSE
              /\ listed' = {}
              /\ seen' = NothingSeen
              /\ copied' = NoContent
              /\ UNCHANGED onWindows

Next == \/ Ping \/ FtpFails \/ NoDirectory \/ ListFiles
        \/ \E f \in files : \/ ReadFaultFile(f) \/ ReadCountFile(f)
                           \/ ConnectionBreaks(f) \/ ReadPicture(f) \/ SkipFile(f)
        \/ FilesDone \/ Verdict \/ Tasklist \/ PscpGivesUp \/ KeyNeverKnown
        \/ PscpExamines \/ NeverReturns \/ NextDevice

Spec == Init /\ [][Next]_vars

\* The scan takes its next step: dialling and the wait for a command have
\* time-outs, and what has none - the loops over the lines of a file, the
\* question for the host key - has steps of its own that lead nowhere.
FairSpec == Spec /\ WF_vars(Next)
------------------------------------------------------------------------------
Parsed(f) == seen[f] \notin Unusable

OnlyFreshFaultLog ==
    Parsed("fault.log") /\ seen["fault.log"].stamp = "fresh"
                        /\ seen["fault.txt"] = NoContent

\* The faults of a log under the rules of the comment above getPluginsInfo.
\* The code never times interf, for which the comment makes no exception.
Overdue(log) == NotUp(msg.DevType, log.codes, log.overdue)
Faults(log) == NotNormal(msg.DevType, log.codes) \cup (Overdue(log) \ {"interf"})

\* A device reported at fault is reported with a fault type and a message
\* that opens with that type, whichever of the many exits the scan took and
\* whatever message an earlier step had left.
FaultsAreExplained ==
    pc = "report" /\ ~msg.Status =>
        /\ msg.StatusType # "" /\ msg.StatusMsg # ""
        /\ MsgType[msg.StatusMsg] = msg.StatusType

\* A plugin at fault in fault.log, in a bed that is not empty, makes the report
\* a fault, whatever was listed before or after it: no later file turns the
\* verdict around.
PluginFaultReported ==
    LET log == seen["fault.log"]
    IN  pc = "report" /\ Parsed("fault.log") /\ ~Exempt(msg.DevType)
            /\ ~log.emptyBed /\ Faults(log) # {}
        => ~msg.Status

\* A screen that has lost its broker is at fault, unless a fault.log listed
\* after its fault.txt shows all plugins well: only that turns the verdict.
ScreenFaultReported ==
    pc = "report" /\ Parsed("fault.txt") /\ ~seen["fault.txt"].mqtt /\ msg.Status =>
        /\ Parsed("fault.log") /\ Faults(seen["fault.log"]) = {}
        /\ ~Exempt(msg.DevType)
        /\ msg.info = {"fault.log"}

\* No fault in either file, judged by the comment and not by the code, is lost
\* on the way to the report.
FaultsReported == PluginFaultReported /\ ScreenFaultReported

\* The plugin fields of a report, its codes, reasons and timestamp, are not
\* those of a log that was found to be overdue or written under a wrong clock
\* (README, v2.26).  The raw text and the count of errors are kept.
StaleInfoBlanked ==
    pc = "report" =>
        \A f \in msg.info : Parsed(f) => seen[f].stamp \notin {"overdue", "skewed"}

\* A scanned device is reported healthy only on evidence: none of its logs that
\* was read showed a time that is overdue or off, and some plugin log had text -
\* unless the FTP session broke off, in which case nothing is known.
HealthOnEvidence ==
    pc = "report" /\ msg.Status /\ ~Unscanned /\ ~ftpFailed =>
        /\ \A f \in FaultFiles : Parsed(f) => seen[f].stamp \notin {"overdue", "skewed"}
        /\ \E f \in FaultFiles : seen[f] \notin {NoContent, Failed, Empty}

\* A device whose only plugin log is readable, fresh and, by the comment above
\* getPluginsInfo, without a fault is reported healthy: no code that is normal
\* for the plugin, and no plugin the type of device does not have, counts.
NoFalseAlarm ==
    pc = "report" /\ OnlyFreshFaultLog
        /\ Faults(seen["fault.log"]) = {} /\ Overdue(seen["fault.log"]) = {}
    => msg.Status

\* The comment above getPluginsInfo, point 1: an empty bed is not at fault.
EmptyBedNotAtFault ==
    pc = "report" /\ OnlyFreshFaultLog /\ seen["fault.log"].emptyBed => msg.Status

\* The message of the code at the end of pscpDevice: it says that the device
\* has written no plugin log only if the copied directory had none.
FetchedLogIsUsed ==
    pc = "report" /\ msg.StatusMsg = "DeviceHasNoPluginLog"
        => copied \in {NoContent, Empty}

==============================================================================
