----------------------------- MODULE MCDeviceScan -----------------------------
(***************************************************************************)
(* Contents of fault.log in which all plugins show the same code, or only  *)
(* one shows a code that is normal for some plugin or is overdue: the      *)
(* rules differ by plugin and type of device, so this tells them apart.    *)
(* The directories are those of config.example.yaml, with one exempt type  *)
(* that is scanned.  boot.log stands for a name in Exts no code asks for.  *)
(***************************************************************************)
EXTENDS DeviceScan, TLC

MCDirOf == 0 :> "other" @@ 1 :> "nis" @@ 2 :> "bis" @@ 3 :> "webapp"
           @@ 4 :> "nws" @@ 5 :> "bis"

MCExts == {"fault.log", "interface.log", "fault.txt", "error.txt", "boot.log"}

MCImgExts == {"screen.png"}

MCListings == {{}, {"fault.log"}, {"fault.txt", "error.txt", "screen.png"},
               {"fault.log", "fault.txt"}, {"fault.log", "boot.log"},
               {"fault.log", "interface.log", "error.txt", "action.txt"}}

SameCode(c) == [p \in Plugins |-> c]

OneOff(p, c) == [SameCode("200") EXCEPT ![p] = c]

MCFaultLogs ==
    LET Log(codes, over, s) ==
            [codes |-> codes, overdue |-> over, emptyBed |-> FALSE, stamp |-> s]
    IN  {Log(SameCode(c), {}, s) : c \in {"200", "500"}, s \in Stamps}
        \cup {Log(SameCode("999"), over, s) : over \in {{}, Plugins}, s \in Stamps}
        \cup {Log(OneOff(p, c), {}, "fresh") : p \in Plugins, c \in {"-1", "0", "3"}}
        \cup {Log(SameCode("999"), {p}, "fresh") : p \in Plugins}
        \cup {[Log(SameCode(c), {}, "fresh") EXCEPT !.emptyBed = TRUE] :
                 c \in {"200", "500"}}

MCFaultTxts == [mqtt : BOOLEAN, stamp : Stamps]
===============================================================================
