----------------------------- MODULE PluginRules -----------------------------
(***************************************************************************)
(* Which plugins of a device are at fault, given the codes in its          *)
(* fault.log: the part of getPluginsInfo in sync/sync_log.go that compares *)
(* codes.  Whether a plugin with code 999 is overdue is decided by         *)
(* code999OverTenMinutes (PluginInitTimer); here it is an argument.        *)
(***************************************************************************)
EXTENDS Integers

Plugins == {"mqtt", "interf", "iptv", "face", "call"}
Codes == {"1", "200", "999", "-1", "0", "3", "500"}   \* "500": any other
DevTypes == 0..10

\* PDA, corridor screens and the like have no plugins.
Exempt(devType) == devType \in 5..10

\* A door display (3) has no mqtt, interf and iptv; a nurse station (4) has
\* no interf, iptv and face.
Checked(devType) ==
    CASE devType = 3 -> {"face", "call"}
      [] devType = 4 -> {"mqtt", "call"}
      [] OTHER -> Plugins

\* interf is never timed.
Timed(devType) == Checked(devType) \ {"interf"}

MutantCodeIsError(code) == code \notin {"1", "200"}

CodeIsError(code) == code \notin {"1", "200", "999"}

MutantTolerated(plugin) == CASE plugin = "interf" -> {"-1"}
                             [] plugin = "face" -> {"3"}
                             [] plugin = "call" -> {"0"}
                             [] OTHER -> {}

\* Codes that are errors in general and normal for one plugin.
Tolerated(plugin) == CASE plugin = "interf" -> {"-1"}
                       [] plugin = "face" -> {"0"}
                       [] plugin = "call" -> {"3"}
                       [] OTHER -> {}

FaultyPlugins(devType, codes, overdue) ==
    IF Exempt(devType) THEN {}
    ELSE {p \in Timed(devType) : codes[p] = "999" /\ p \in overdue}
         \cup {p \in Checked(devType) : CodeIsError(codes[p])
                                        /\ codes[p] \notin Tolerated(p)}
------------------------------------------------------------------------------
(***************************************************************************)
(* The same once more, as the comment above getPluginsInfo has it, to judge*)
(* the reports by: what a device has (3.1, 3.2), what is normal (2, 4.1 to *)
(* 4.3), and what has not come up in time (2).                             *)
(***************************************************************************)
Has(devType) == Plugins \ CASE devType = 4 -> {"face", "iptv", "interf"}
                            [] devType = 3 -> {"iptv", "mqtt", "interf"}
                            [] OTHER -> {}

Normal == [mqtt   |-> {"1", "200", "999"},
           interf |-> {"1", "200", "999", "-1"},
           iptv   |-> {"1", "200", "999"},
           face   |-> {"1", "200", "999", "0"},
           call   |-> {"1", "200", "999", "3"}]

NotNormal(devType, codes) == {p \in Has(devType) : codes[p] \notin Normal[p]}

NotUp(devType, codes, overdue) ==
    {p \in Has(devType) : codes[p] = "999" /\ p \in overdue}
==============================================================================
