---------------------------- MODULE ProbeConfig ----------------------------
(* conf.ini, which both plugins read: the ICMP plugin when it is loaded, the  *)
(* NetSign plugin before every round.  What a file says is written over       *)
(* globals that keep their values otherwise, line by line, and a bad          *)
(* checkdetectret ends the NetSign plugin's reading: a file may be applied by *)
(* half, on top of what earlier files have left.                              *)

EXTENDS Integers, SequencesExt

CONSTANTS
    Number,     \* the numbers that lines set, in milliseconds
    MaxLines,   \* bound on the lines of conf.ini
    MaxEdits    \* bound on how often it is edited

VARIABLES
    conf,     \* the lines of conf.ini
    there,    \* it can be opened
    globals,  \* the settings of each plugin
    reader,   \* the plugin that is reading the file
    at,       \* the line that it reads next
    inited,   \* the ICMP plugin has been loaded
    read,     \* history: the plugins that have read this conf.ini
    before,   \* history: the settings that each had when it began
    edits     \* how often it was edited

history == <<read, before, edits>>
vars    == <<conf, there, globals, reader, at, inited, history>>

Plugin  == {"netsign", "icmp"}
Numeric == {"connecttimeout", "pingtimeout"}
Setting == Numeric \cup {"checkdetectret"}

(* What is behind the =, as a number: NO and YES are if_chk_detect_ret's.     *)
No    == 0
Yes   == 1
Null  == -1   \* nothing
Empty == -2   \* blanks only
Wrong == -3   \* for checkdetectret, anything else

(* A line as strtok splits it.  A name with a blank before the = is some      *)
(* other name.                                                                *)
Line ==
    [name : Numeric, value : Number \cup {Empty, Null}]
        \cup [name : {"checkdetectret"}, value : {Yes, No, Wrong, Null}]
        \cup [name : {"other"}, value : {Null}]

ConfFiles == BoundedSeq(Line, MaxLines)

Defaults == [name \in Setting |-> IF name \in Numeric THEN 1500 ELSE No]

Init ==
    /\ conf \in ConfFiles /\ there \in BOOLEAN
    /\ globals = [p \in Plugin |-> Defaults] /\ before = globals
    /\ reader = "none" /\ at = 0 /\ inited = FALSE
    /\ read = {} /\ edits = 0

-----------------------------------------------------------------------------

atoi(value) == IF value = Empty THEN 0 ELSE value

Known(p) == IF p = "netsign" THEN Setting ELSE Numeric

Sets(p, line, name) == line.name = name /\ name \in Known(p) /\ line.value # Null

Bad(p, line) == p = "netsign" /\ line.name = "checkdetectret" /\ line.value = Wrong

(* Mutation: only a setting that has its default is written.                  *)
Applied_Once(p, g, line) ==
    [name \in Setting |->
        IF Sets(p, line, name) /\ g[name] = Defaults[name] THEN atoi(line.value) ELSE g[name]]

(* One line, for a plugin whose globals are g.                                *)
Applied(p, g, line) ==
    [name \in Setting |-> IF Sets(p, line, name) THEN atoi(line.value) ELSE g[name]]

(* The ICMP plugin's plug_init makes whole seconds of its pingtimeout, which  *)
(* ping takes; with 0 it is given none.                                       *)
InForce(p, name, value) ==
    IF p = "icmp" /\ name = "pingtimeout" THEN value \div 1000 ELSE value

(* The reading of p, which has g then, is over.                               *)
Ends(p, g) ==
    /\ globals' = [globals EXCEPT ![p] = [name \in Setting |-> InForce(p, name, g[name])]]
    /\ read' = read \cup {p}

(* A file that cannot be opened is not read, and the globals stay.  One       *)
(* thread runs the plugins, so only one of them reads.                        *)
Open(p) ==
    /\ reader = "none"
    /\ before' = [before EXCEPT ![p] = globals[p]]
    /\ IF there
         THEN reader' = p /\ at' = 1 /\ read' = read \ {p} /\ UNCHANGED globals
         ELSE Ends(p, globals[p]) /\ UNCHANGED <<reader, at>>
    /\ UNCHANGED <<conf, there, edits>>

(* One turn of the loop; a bad line ends it.                                  *)
ReadLine(p) ==
    /\ reader = p
    /\ IF at > Len(conf) \/ Bad(p, conf[at])
         THEN Ends(p, globals[p]) /\ reader' = "none" /\ at' = 0
         ELSE /\ globals' = [globals EXCEPT ![p] = Applied(p, @, conf[at])]
              /\ at' = at + 1 /\ UNCHANGED <<reader, read>>
    /\ UNCHANGED <<conf, there, before, inited, edits>>

(* The NetSign plugin goes on after an error with what it has.                *)
LoadMonSrvConf == (Open("netsign") /\ UNCHANGED inited) \/ ReadLine("netsign")

(* The ICMP plugin reads the file once, in its plug_init.                     *)
loadconfig == (~inited /\ inited' = TRUE /\ Open("icmp")) \/ ReadLine("icmp")

(* The administrator writes the file, or makes it unreadable.  Its few lines  *)
(* are in the stream's buffer with the first: no edit comes between them.     *)
Edit ==
    /\ reader = "none"
    /\ edits < MaxEdits /\ edits' = edits + 1
    /\ conf' \in ConfFiles /\ there' \in BOOLEAN
    /\ read' = {}
    /\ UNCHANGED <<globals, reader, at, inited, before>>

(* The daemon ends, wherever it is, and is started again.                     *)
Restart ==
    /\ globals' = [p \in Plugin |-> Defaults] /\ before' = globals'
    /\ reader' = "none" /\ at' = 0 /\ inited' = FALSE /\ read' = {}
    /\ UNCHANGED <<conf, there, edits>>

Next == LoadMonSrvConf \/ loadconfig \/ Edit \/ Restart

Spec == Init /\ [][Next]_vars

-----------------------------------------------------------------------------
(* The lines of the file that count for a setting of p: none counts from a    *)
(* bad one on.                                                                *)
Counting(p, name) ==
    { k \in DOMAIN conf :
        there /\ Sets(p, conf[k], name) /\ \A j \in 1..k : ~Bad(p, conf[j]) }

(* Of several lines for a setting the last one counts, whatever the plugin    *)
(* had read before and however the lines are ordered; without any, and        *)
(* without a file, the setting is what it was.  From either the ICMP plugin   *)
(* makes its seconds (LoadMonSrvConf, loadconfig, plug_init).                 *)
LastFileCounts ==
    \A p \in read, name \in Setting :
        LET counts  == Counting(p, name)
            Is(value) == globals[p][name] = InForce(p, name, value)
        IN  /\ counts = {} => Is(before[p][name])
            /\ \A k \in counts : (\A j \in counts : j <= k) => Is(atoi(conf[k].value))
=============================================================================
