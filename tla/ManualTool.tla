----------------------------- MODULE ManualTool -----------------------------
(* The manual switch: hb_standby.sh and hb_takeover.sh run hb_manual twice,   *)
(* once for this node and once for its peer; each run sends one datagram, and *)
(* the manual switch thread of each node obeys what reaches it, one order at  *)
(* a time.  Nothing is acknowledged, and the two orders of a script, or of    *)
(* two scripts that two administrators run, are carried out independently.    *)
(*                                                                            *)
(* An order parks the node's main loop, which reads trouble once a turn: the  *)
(* turn it is in may still take or release the resources.                     *)

EXTENDS Naturals, Sequences

CONSTANT MaxScripts   \* bound on how many scripts are run

VARIABLES
    script,   \* the commands that the script run on each node has left
    transit,  \* how many datagrams with each order are on the way to each node
    doing,    \* the order that each manual switch thread is carrying out
    holds,    \* the nodes that hold the resources
    trouble,  \* the nodes whose main loop finds itself parked in its next turn
    turn,     \* the nodes whose main loop is in a turn, past its read of trouble
    scripts,  \* scripts run so far
    last,     \* history: where the last script was run, and which
    agreed,   \* history: the scripts that overlap with it want the same
    settled,  \* history: the nodes that stood still when the first of them ran
    lost,     \* history: the nodes that one of their orders did not get to
    strayed   \* history: the parked nodes whose main loop moved last

history == <<scripts, last, agreed, settled>>
nodeVars == <<holds, trouble, turn, strayed>>
toolVars == <<script, transit, doing, nodeVars, history, lost>>

Node  == {"primary", "backup"}
Peer(n) == IF n = "primary" THEN "backup" ELSE "primary"
Order == {"standby", "takeover"}
Other(o) == IF o = "standby" THEN "takeover" ELSE "standby"

(* hb_standby.sh and hb_takeover.sh: hb_manual's two arguments, twice.        *)
Script(o) == << [ip |-> "localhost", operation |-> o],
                [ip |-> "remoteip",  operation |-> Other(o)] >>

ToolInit ==
    /\ script = [n \in Node |-> <<>>]
    /\ transit = [n \in Node |-> [o \in Order |-> 0]]
    /\ doing = [n \in Node |-> "none"]
    /\ holds \in SUBSET Node /\ trouble = {} /\ turn = {} /\ strayed = {}
    /\ scripts = 0 /\ last = [at |-> "primary", what |-> "standby"]
    /\ agreed = FALSE /\ settled = {} /\ lost = {}

Quiet(n) ==
    /\ script[n] = <<>> /\ doing[n] = "none"
    /\ \A o \in Order : transit[n][o] = 0

AllQuiet == \A n \in Node : Quiet(n)

(* What the last script wants of a node.                                      *)
Wanted(n) == IF n = last.at THEN last.what ELSE Other(last.what)

(* An administrator runs one of the scripts on a node.                        *)
RunsScript(n, o) ==
    /\ script[n] = <<>> /\ scripts < MaxScripts
    /\ script' = [script EXCEPT ![n] = Script(o)]
    /\ scripts' = scripts + 1
    /\ last' = [at |-> n, what |-> o]
    /\ agreed' = (AllQuiet \/ (agreed /\ o = Wanted(n)))
    /\ lost' = IF AllQuiet THEN {} ELSE lost
    /\ settled' = IF AllQuiet THEN trouble \ turn ELSE settled
    /\ UNCHANGED <<transit, doing, nodeVars>>

(* hb_manual: localhost is the node itself, everything else the peer of       *)
(* ha.cf; everything but takeover is sent as standby.                         *)
peer_addr(n, ip) == IF ip = "localhost" THEN n ELSE Peer(n)

operation(o) == IF o = "takeover" THEN "takeover" ELSE "standby"

Send(n) ==
    LET c == Head(script[n]) IN
    /\ script[n] # <<>>
    /\ script' = [script EXCEPT ![n] = Tail(@)]
    /\ transit' = [transit EXCEPT ![peer_addr(n, c.ip)][operation(c.operation)] = @ + 1]
    /\ UNCHANGED <<doing, nodeVars, history, lost>>

(* The peer's address cannot be resolved, the socket cannot be bound to the   *)
(* interface, or sendto fails; the script goes on with its next line.         *)
SendFails(n) ==
    /\ script[n] # <<>>
    /\ script' = [script EXCEPT ![n] = Tail(@)]
    /\ lost' = lost \cup {peer_addr(n, Head(script[n]).ip)}
    /\ UNCHANGED <<transit, doing, nodeVars, history>>

(* The datagram is dropped, or the node has no manual switch thread.          *)
Lose(n, o) ==
    /\ transit[n][o] > 0
    /\ transit' = [transit EXCEPT ![n][o] = @ - 1]
    /\ lost' = lost \cup {n}
    /\ UNCHANGED <<script, doing, nodeVars, history>>

(* Mutation: a node that is parked ignores the next order.                    *)
Receive_OnlyOnce(n, o) ==
    /\ doing[n] = "none" /\ transit[n][o] > 0
    /\ transit' = [transit EXCEPT ![n][o] = @ - 1]
    /\ doing' = [doing EXCEPT ![n] = IF n \in trouble THEN "none" ELSE o]
    /\ trouble' = trouble \cup {n}
    /\ UNCHANGED <<script, holds, turn, strayed, history, lost>>

(* recvfrom: datagrams may overtake each other.                               *)
Receive(n, o) ==
    /\ doing[n] = "none" /\ transit[n][o] > 0
    /\ transit' = [transit EXCEPT ![n][o] = @ - 1]
    /\ doing' = [doing EXCEPT ![n] = o]
    /\ trouble' = trouble \cup {n}
    /\ UNCHANGED <<script, holds, turn, strayed, history, lost>>

(* release_resources or take_over_resources runs its command.                 *)
Switched(n) ==
    /\ doing[n] # "none"
    /\ holds' = IF doing[n] = "takeover" THEN holds \cup {n} ELSE holds \ {n}
    /\ strayed' = strayed \ {n}
    /\ doing' = [doing EXCEPT ![n] = "none"]
    /\ UNCHANGED <<script, transit, trouble, turn, history, lost>>

(* The client's and the server's loop: trouble is read at the top of a turn.  *)
TurnBegins(n) ==
    /\ n \notin trouble \cup turn
    /\ turn' = turn \cup {n}
    /\ UNCHANGED <<script, transit, doing, holds, trouble, strayed, history, lost>>

(* A turn moves the resources once at most: on a message, a timeout or the    *)
(* end of the connection, whatever the policy says then.                      *)
TurnEnds(n) ==
    /\ n \in turn /\ turn' = turn \ {n}
    /\ \/ UNCHANGED <<holds, strayed>>
       \/ /\ holds' \in {holds \cup {n}, holds \ {n}}
          /\ strayed' = strayed \cup ({n} \cap trouble)
    /\ UNCHANGED <<script, transit, doing, trouble, history, lost>>

(* The daemon ends and is started again: the orders it has had are forgotten, *)
(* the resources stay where they are.                                         *)
Restart(n) ==
    /\ turn' = turn \ {n} /\ trouble' = trouble \ {n} /\ strayed' = strayed \ {n}
    /\ doing' = [doing EXCEPT ![n] = "none"]
    /\ lost' = lost \cup {n}
    /\ UNCHANGED <<script, transit, holds, history>>

ToolNext ==
    \E n \in Node :
        \/ Send(n) \/ SendFails(n) \/ Switched(n)
        \/ TurnBegins(n) \/ TurnEnds(n) \/ Restart(n)
        \/ \E o \in Order : RunsScript(n, o) \/ Lose(n, o) \/ Receive(n, o)

ToolSpec == ToolInit /\ [][ToolNext]_toolVars

-----------------------------------------------------------------------------

ToolTypeOK ==
    /\ script \in [Node -> Seq([ip : {"localhost", "remoteip"}, operation : Order])]
    /\ transit \in [Node -> [Order -> Nat]]
    /\ doing \in [Node -> Order \cup {"none"}]
    /\ holds \in SUBSET Node /\ trouble \in SUBSET Node
    /\ turn \in SUBSET Node /\ strayed \in SUBSET Node
    /\ scripts \in Nat /\ last \in [at : Node, what : Order]
    /\ agreed \in BOOLEAN /\ settled \in SUBSET Node /\ lost \in SUBSET Node

(* Scripts that are run one at a time, or together with scripts that want the *)
(* same, are obeyed by each node that all their orders got to, whatever       *)
(* became of the other's: it is parked, and it has the resources or not as    *)
(* they say.  Only a turn that its main loop was in may still undo this, and  *)
(* not on a node that had already come to a stand when the script was run.    *)
ScriptObeyed ==
    agreed /\ AllQuiet => \A n \in Node \ lost :
        /\ n \in trouble
        /\ (n \in holds <=> Wanted(n) = "takeover") \/ n \in strayed \ settled
=============================================================================
