------------------------------ MODULE Startup ------------------------------
(* What the daemon makes of ha.cf: the parser of hbconf.cpp, line by line,    *)
(* and main's settings and choice of a role.  Both hosts read the same ha.cf  *)
(* and the same haresources; they differ in what gethostname says.            *)
(*                                                                            *)
(* A line is the sequence of its words and blanks.                            *)

EXTENDS SequencesExt, Integers

CONSTANTS
    Host,      \* the names of hosts
    Lines,     \* the lines that ha.cf may have
    MaxLines   \* bound on their number

VARIABLES
    file,      \* the lines read so far
    keymap     \* HBConfig's map

vars == <<file, keymap>>

SP   == "space"
TAB  == "tab"
HASH == "#"

Init == file = <<>> /\ keymap = [k \in {} |-> <<>>]

-----------------------------------------------------------------------------
(* hbconf.cpp                                                                 *)

First(line, t) == SelectInSeq(line, LAMBDA x : x = t)

Before(line, t) == IF Contains(line, t) THEN SubSeq(line, 1, First(line, t) - 1) ELSE line
After(line, t)  == SubSeq(line, First(line, t) + 1, Len(line))

(* Spaces only: a TAB at either end stays.                                    *)
ClearHeadTailSpace(s) ==
    LET word == {i \in 1..Len(s) : s[i] # SP}
    IN  IF word = {} THEN <<>> ELSE SubSeq(s, Min(word), Max(word))

(* map[k] = value                                                             *)
Put(map, k, value) == [x \in DOMAIN map \cup {k} |-> IF x = k THEN value ELSE map[x]]

KeyOf(map, key) == IF key = <<"node">> /\ key \in DOMAIN map THEN <<"node-backup">> ELSE key

(* Mutation: the first node is overwritten by the second.                     *)
Stored_NoBackup(map, key, value) == Put(map, key, value)

(* Mutation: a key that is there keeps its value.                             *)
Stored_First(map, key, value) ==
    IF KeyOf(map, key) \in DOMAIN map THEN map ELSE Put(map, KeyOf(map, key), value)

(* Every node after the first is the backup.                                  *)
Stored(map, key, value) == Put(map, KeyOf(map, key), value)

SplitAt(map, line, t) ==
    IF Contains(line, t)
      THEN Stored(map, ClearHeadTailSpace(Before(line, t)), ClearHeadTailSpace(After(line, t)))
      ELSE map

(* A line that has both blanks is split twice, and both results are stored.   *)
ParseLine(map, line) ==
    LET text == Before(line, HASH)
    IN  SplitAt(SplitAt(map, text, SP), text, TAB)

ReadLine ==
    /\ Len(file) < MaxLines
    /\ \E line \in Lines : /\ file' = Append(file, line)
                           /\ keymap' = ParseLine(keymap, line)

Next == ReadLine

Spec == Init /\ [][Next]_vars

-----------------------------------------------------------------------------
(* main.cpp                                                                   *)

(* An array on the stack that nothing has written to: no name of a host.      *)
Junk == <<"junk">>

GetValue(key, else) == IF <<key>> \in DOMAIN keymap THEN keymap[<<key>>] ELSE else

(* The number that a word begins with, whatever follows it.                   *)
atoi(value) ==
    LET word == IF value = <<>> THEN "" ELSE Head(value)
    IN  CASE word = "2"  -> 2
          [] word = "10" -> 10
          [] word = "60" -> 60
          [] OTHER -> 0

keepalive  == atoi(GetValue("keepalive", <<"2">>))
p_hostname == GetValue("node", Junk)
b_hostname == GetValue("node-backup", Junk)

(* detect_interval is divided by keepalive, if ha.cf has it: a keepalive of 0 *)
(* ends the process there.                                                    *)
Recomputed == <<"detect_interval">> \in DOMAIN keymap
Survives   == Recomputed => keepalive # 0

(* tcpport decides if it is there.                                            *)
commonport == GetValue("tcpport", GetValue("udpport", <<"694">>))

(* Mutation: the tool knows udpport only.                                     *)
tool_port_Udp == GetValue("udpport", Junk)

(* What hb_manually takes from the same file: it has no default.              *)
tool_port == GetValue("tcpport", GetValue("udpport", Junk))

(* Device and address, split at the first space; a value without one leaves   *)
(* the built-in address.                                                      *)
peer_addr == LET ucast == GetValue("ucast", Junk)
             IN  IF Contains(ucast, SP) THEN After(ucast, SP) ELSE <<"192.168.231.133">>

(* Mutation: a host that ha.cf does not name starts as well.                  *)
Starts_Anyone(hostname, primary_node) ==
    <<primary_node>> \in {p_hostname, b_hostname}

(* main goes past both checks of the names.                                   *)
Starts(hostname, primary_node) ==
    /\ Survives
    /\ <<primary_node>> \in {p_hostname, b_hostname}
    /\ <<hostname>> \in {p_hostname, b_hostname}

mode(hostname, primary_node) ==
    IF hostname = primary_node THEN "client" ELSE "server"

-----------------------------------------------------------------------------
(* Two hosts that both start from the same files are one client and one       *)
(* server, whatever is in the files.                                          *)
RolesComplementary ==
    \A a, b \in Host, primary_node \in Host :
      a # b /\ Starts(a, primary_node) /\ Starts(b, primary_node)
        => {mode(a, primary_node), mode(b, primary_node)} = {"client", "server"}

(* The lines that begin with key, and what the parser sees of a line.         *)
Having(key) == {k \in DOMAIN file : file[k] # <<>> /\ Head(file[k]) = key}
Text(line)  == ClearHeadTailSpace(Before(line, HASH))

Simple(line) ==
    LET text == Text(line)
    IN  Len(text) = 3 /\ text[2] \in {SP, TAB} /\ text[3] \in Host

(* A file that names its two nodes the simple way, a line each with one blank *)
(* in it, starts both of them, whatever other lines and comments it has.      *)
SimpleNodesStart ==
    \A i, j \in Having("node") :
      i < j /\ Having("node") = {i, j} /\ Simple(file[i]) /\ Simple(file[j]) /\ Survives
        => \A a, b \in {file[i][3], file[j][3]} : Starts(a, b)

OneField(text) == Len(text) = 3 /\ text[2] \in {SP, TAB} /\ text[3] \notin {SP, TAB}

(* The daemon listens at the port of the last tcpport line, or of the last    *)
(* udpport line if there is none, when one blank separates its two words; and *)
(* that is where the tool sends its commands.                                 *)
PortsAsWritten ==
    LET key  == IF Having("tcpport") # {} THEN "tcpport" ELSE "udpport"
        text == Text(file[Max(Having(key))])
    IN  Having(key) # {} /\ OneField(text) =>
          commonport = <<text[3]>> /\ tool_port = <<text[3]>>

(* Three fields with a space between them.                                    *)
Plain(text) ==
    /\ Len(text) = 5 /\ text[2] = SP /\ text[4] = SP
    /\ text[3] \notin {SP, TAB} /\ text[5] \notin {SP, TAB}

(* The last ucast line gives the peer's address, if spaces separate its       *)
(* fields, whatever comment it has and whatever lines are before it.          *)
PeerIsUcast ==
    LET text == Text(file[Max(Having("ucast"))])
    IN  Having("ucast") # {} /\ Plain(text) => peer_addr = <<text[5]>>

=============================================================================
