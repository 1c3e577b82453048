---------------------------- MODULE HaResources ----------------------------
(* What the daemon makes of haresources (hares.cpp): one entry that names the *)
(* primary node, the VIP with its card, and the resource script; and the      *)
(* alias on the card that the VIP's label gets.                               *)
(*                                                                            *)
(* A line is the sequence of its words, blanks and separators, ending in NL   *)
(* unless it is the last of the file.                                         *)

EXTENDS SequencesExt, Integers, FiniteSets

CONSTANTS
    Tails,      \* what may follow the script in a line
    MaxLines,   \* bound on the lines of the file
    MaxAlias    \* bound on the aliases of the card

VARIABLES
    file,       \* the file's lines
    at,         \* the line that is read next
    aliases,    \* the numbers n for which ifconfig shows eth0:n
    hb_res      \* HBRes's members

vars == <<file, at, aliases, hb_res>>

SP   == "space"
CR   == "return"
NL   == "newline"

Entry == [node   : {"a", "b", "#"},     \* a line that starts with # is a comment
          num    : {"none", "0", "1"},  \* the alias written behind the card
          arp    : BOOLEAN,                \* there is a SendArp word
          script : {"s", "t"},
          tail   : Tails]

Line(e) ==
    <<e.node, SP, "IPaddr::", "vip", "/", "24", "/", "eth0">>
      \o (IF e.num # "none" THEN <<":", e.num>> ELSE <<>>)
      \o (IF e.arp THEN <<SP, "SendArp::">> ELSE <<>>)
      \o <<SP, e.script>> \o e.tail

atoi(word) == IF word = "1" THEN 1 ELSE 0

Init ==
    /\ file = <<>> /\ at = 1
    /\ aliases \in SUBSET (0..MaxAlias)
    /\ hb_res = [node |-> <<>>, eth |-> <<>>, eth_num |-> 0, script |-> <<>>]

-----------------------------------------------------------------------------
IndexOf(s, t)     == SelectInSeq(s, LAMBDA x : x = t)
IndexOfLast(s, t) == SelectLastInSeq(s, LAMBDA x : x = t)

Before(s, t)    == IF Contains(s, t) THEN SubSeq(s, 1, IndexOf(s, t) - 1) ELSE s
After(s, t)     == SubSeq(s, IndexOf(s, t) + 1, Len(s))
AfterLast(s, t) == SubSeq(s, IndexOfLast(s, t) + 1, Len(s))

Strip(s, t) ==
    LET last == SelectLastInSeq(s, LAMBDA x : x # t) IN SubSeq(s, 1, last)

Skipped(line) == Head(line) \in {"#", NL, CR}

(* Spaces at either end go, but those before a newline are not at the end.    *)
Trimmed(line) == Reverse(Strip(Reverse(Strip(line, SP)), SP))

(* Mutation: the script is what follows the card.                             *)
ScriptName_Second(line) == Strip(Strip(After(After(line, SP), SP), CR), NL)

(* The word behind the last space, with \r and then \n stripped from its end. *)
ScriptName(line) == Strip(Strip(AfterLast(line, SP), CR), NL)

Card(line) == AfterLast(After(Before(After(line, SP), SP), "IPaddr::"), "/")

(* `ifconfig | grep eth0` is searched for the greatest alias, and the next is *)
(* taken; or 0, whatever is in use, if what it says cannot be opened.         *)
FreeAlias(opened) == IF ~opened \/ aliases = {} THEN 0 ELSE Max(aliases) + 1

(* The first entry counts, and the rest of the file is not read.              *)
ReadLine ==
    /\ at <= Len(file)
    /\ LET line == Trimmed(Line(file[at]))
           card == Card(line)
       IN  IF Skipped(Line(file[at]))
             THEN at' = at + 1 /\ UNCHANGED hb_res
             ELSE /\ at' = Len(file) + 1
                  /\ \E opened \in BOOLEAN :
                       hb_res' = [node    |-> Before(line, SP),
                                  eth     |-> Before(card, ":"),
                                  eth_num |-> IF Contains(card, ":")
                                              THEN atoi(After(card, ":")[1])
                                              ELSE FreeAlias(opened),
                                  script  |-> ScriptName(line)]
    /\ UNCHANGED <<file, aliases>>

(* The file is as long as somebody has made it.                               *)
WriteLine ==
    /\ at = 1 /\ Len(file) < MaxLines
    /\ \E e \in Entry : file' = Append(file, e)
    /\ UNCHANGED <<at, aliases, hb_res>>

Next == ReadLine \/ WriteLine

Spec == Init /\ [][Next]_vars

-----------------------------------------------------------------------------
(* The line that counts is the first that is no comment.                      *)
Entries == {k \in DOMAIN file : file[k].node # "#"}
First   == file[Min(Entries)]

Read == at > Len(file) /\ Entries # {}

(* An entry that ends cleanly is read as it was written, with and without     *)
(* SendArp and comments around it.                                            *)
EntryUnderstood ==
    Read /\ First.tail \in {<<>>, <<NL>>} =>
      /\ hb_res.node = <<First.node>> /\ hb_res.eth = <<"eth0">>
      /\ hb_res.script = <<First.script>>

=============================================================================
