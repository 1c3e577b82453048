----------------------------- MODULE MCPlugins -----------------------------
(* A node's view of its health, for TLC: the plugin manager, the NetSign      *)
(* plugin's rounds, its detection string, and the file both plugins read.  A  *)
(* behaviour is about one of them; the others stay as they are at first.      *)

EXTENDS NetSignProbe, Sequences

CONSTANTS
    Files, Named, Loadable, icmp, slash, directory, MaxFlips,  \* plugin manager
    Bytes, MinLen, MaxString, MaxTrash,                        \* detection string
    Number, MaxLines, MaxEdits                                 \* conf.ini

ASSUME ManagerAssumption == Named \subseteq Files

(* Nobody sets a timeout that is negative.                                    *)
ASSUME NumberAssumption == Number \subseteq Nat

ASSUME DetectAssumption ==
    /\ Bytes \subseteq 0..255
    /\ MinLen \in Nat /\ MaxString \in Nat /\ MaxTrash \in Nat

VARIABLES
    about,
    manager_pc, unread, plugins_path, plug_data_vector, i, result,
    up, resolves, flips, found,
    wanted, stage, taken, given, b64_det_str_no_trash, b64_det_str_no_trash_len,
    detect_string, detect_strLen,
    conf, there, globals, reader, at, inited, read, before, edits

Manager == INSTANCE Plugins WITH pc <- manager_pc
Detect  == INSTANCE DetectString WITH MaxLen <- MaxString
Conf    == INSTANCE ProbeConfig

managerVars == <<manager_pc, unread, plugins_path, plug_data_vector, i, result,
                 up, resolves, flips, found>>
detectVars  == <<wanted, stage, taken, given, b64_det_str_no_trash,
                 b64_det_str_no_trash_len, detect_string, detect_strLen>>
confVars    == <<conf, there, globals, reader, at, inited, read, before, edits>>

MCInit ==
    /\ about \in {"manager", "round", "string", "conf.ini"}
    /\ Init /\ Manager!Init /\ Detect!Init /\ Conf!Init
    /\ about # "manager" => up = {} /\ ~resolves
    /\ about # "conf.ini" => conf = <<>> /\ ~there

Manages ==
    /\ about = "manager" /\ Manager!Next
    /\ UNCHANGED <<about, vars, detectVars, confVars>>

Probes ==
    /\ about = "round" /\ Next
    /\ UNCHANGED <<about, managerVars, detectVars, confVars>>

Decodes ==
    /\ about = "string" /\ Detect!Next
    /\ UNCHANGED <<about, vars, managerVars, confVars>>

ReadsConf ==
    /\ about = "conf.ini" /\ Conf!Next
    /\ UNCHANGED <<about, vars, managerVars, detectVars>>

MCNext == Manages \/ Probes \/ Decodes \/ ReadsConf

MCvars == <<about, vars, managerVars, detectVars, confVars>>

MCSpec     == MCInit /\ [][MCNext]_MCvars
MCFairSpec == MCSpec /\ WF_MCvars(Probes)

-----------------------------------------------------------------------------
(* A healthy round has met every service up, an unhealthy one has a plugin to *)
(* blame (run_all_plugin).                                                    *)
HealthIsProbed  == Manager!HealthIsProbed
IllnessHasCause == Manager!IllnessHasCause

(* The bytes sent are those that conf.ini stands for, and as many more at the *)
(* most as its text lacks padding (LoadMonSrvConf, Base64Decode).             *)
SendsWhatIsMeant == Detect!SendsWhatIsMeant

(* A plugin obeys the conf.ini it has read last (LoadMonSrvConf, loadconfig). *)
LastFileCounts == Conf!LastFileCounts

=============================================================================
