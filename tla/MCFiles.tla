------------------------------ MODULE MCFiles ------------------------------
(* What the daemons read and write, for TLC: the bytes on a connection, the   *)
(* two configuration files, the logs.  A behaviour is about one of them; the  *)
(* others stay as they are at first.                                          *)

EXTENDS TelegramWire, FiniteSets

CONSTANTS
    Host, Lines, MaxLines,         \* ha.cf: hosts, its lines, and how many
    Tails, MaxEntries, MaxAlias,   \* haresources: ends of lines, lines, and
                                   \* aliases of the card
    Threads, max_keep_day, LastDay, MaxFailures

VARIABLES
    about,
    ha_cf, keymap,
    haresources, at, aliases, hb_res,
    today, logs, tmp, linked, pc, ago, tmpTime, leaked, alive, removals, failures

-----------------------------------------------------------------------------
SP   == "space"
TAB  == "tab"
HASH == "#"

(* A line of ha.cf does not begin with a space, and names no node-backup.     *)
ASSUME LinesAssumption ==
    /\ Host \subseteq STRING \ {SP, TAB, HASH}
    /\ Lines \subseteq Seq(STRING)
    /\ \A line \in Lines : line # <<>> /\ Head(line) \notin {SP, "node-backup"}

ASSUME TailsAssumption == Tails \subseteq Seq(STRING) /\ MaxAlias \in Nat

ASSUME LogAssumption == IsFiniteSet(Threads) /\ max_keep_day \in Nat

(* The lines of ha.cf that make a difference, with either blank between.      *)
HaCfLines ==
    { <<"node", SP, "a">>, <<"node", TAB, "b">>, <<"node", TAB, "c">>,
      <<"node", SP, TAB, "a">>, <<"node", SP, "a", SP, "b">>,
      <<"node", TAB, "b", SP, HASH, "x">>, <<"node", SP, "a", HASH, "x">>,
      <<HASH, "node", SP, "c">>,
      <<"keepalive", SP, "0">>, <<"keepalive", TAB, "10">>,
      <<"detect_interval", SP, "60">>,
      <<"ucast", SP, "eth0", SP, "peer">>, <<"ucast", SP, "eth0", TAB, "peer">>,
      <<"ucast", SP, "eth1", SP, "other", SP, HASH, "x">>,
      <<"tcpport", SP, "8888">>, <<"tcpport", TAB, "9999">>, <<"udpport", TAB, "60">> }

(* The ends that a line of haresources may have.                              *)
HaResTails == { <<>>, <<"newline">>, <<SP>>, <<SP, "newline">>, <<"return", "newline">> }

HaCf  == INSTANCE Startup WITH file <- ha_cf
HaRes == INSTANCE HaResources WITH file <- haresources, MaxLines <- MaxEntries
Log   == INSTANCE HbLog

wireVars  == <<sent, buf>>
haCfVars  == <<ha_cf, keymap>>
haResVars == <<haresources, at, aliases, hb_res>>
logVars   == <<today, logs, tmp, linked, pc, ago, tmpTime, leaked, alive,
              removals, failures>>

MCInit ==
    /\ about \in {"wire", "ha.cf", "haresources", "log"}
    /\ Init /\ HaCf!Init /\ HaRes!Init /\ Log!Init
    /\ about # "haresources" => aliases = {}
    /\ about # "log" => logs = {}

ReadsTelegrams ==
    /\ about = "wire" /\ Next
    /\ UNCHANGED <<about, haCfVars, haResVars, logVars>>

ReadsHaCf ==
    /\ about = "ha.cf" /\ HaCf!Next
    /\ UNCHANGED <<about, wireVars, haResVars, logVars>>

ReadsHaResources ==
    /\ about = "haresources" /\ HaRes!Next
    /\ UNCHANGED <<about, wireVars, haCfVars, logVars>>

WritesLogs ==
    /\ about = "log" /\ Log!Next
    /\ UNCHANGED <<about, wireVars, haCfVars, haResVars>>

MCNext == ReadsTelegrams \/ ReadsHaCf \/ ReadsHaResources \/ WritesLogs

MCSpec == MCInit /\ [][MCNext]_<<about, wireVars, haCfVars, haResVars, logVars>>

-----------------------------------------------------------------------------
(* Two hosts that start take different roles, hosts named plainly do start,   *)
(* tool and daemon find the port that is written, and the peer is whom ucast  *)
(* names (HBConfig::ParseFile, main, hb_manually).                            *)
RolesComplementary == HaCf!RolesComplementary
SimpleNodesStart   == HaCf!SimpleNodesStart
PortsAsWritten     == HaCf!PortsAsWritten
PeerIsUcast        == HaCf!PeerIsUcast

(* A clean entry is read as it was written (HBRes::open_file).                *)
EntryUnderstood == HaRes!EntryUnderstood

(* No log goes too early, and few streams are left open (hb_log).             *)
KeepsRecent  == Log!KeepsRecent
LeaksBounded == Log!LeaksBounded

=============================================================================
