--------------------------- MODULE OperatorProofs ---------------------------
(* What the service script and the manual switch promise to an administrator, *)
(* for any number of daemons, commands and switch scripts.                    *)

EXTENDS ServiceScript, ManualTool, TLAPS

(* Only a daemon that has come up has a command running.                      *)
CommandsAreBorn == \A p \in Pid : ip[p] # "none" => life[p] \in {"up", "gone"}

(* In good order the file names exactly the daemon that is up, and from the   *)
(* kill to the next spawn there is no daemon at all.                          *)
InOrder ==
    /\ \A p, q \in Living : p = q
    /\ \A p \in Pid : life[p] = "up" => pid_file = <<p>>
    /\ \A p \in Pid : life[p] = "young" => pid_file = <<>>
    /\ pc = "kill" => Is("young") = {}
    /\ pc \in {"remove", "look", "unlink", "free"} => Living = {}
    /\ pc = "look" => pid_file = <<>>
    /\ pc \in {"remove", "look"} => command # "stop"
    /\ pc = "idle" /\ command = "stop"
         => Living = {} /\ (readable /\ vip => late)

ServiceInv == TypeOK /\ CommandsAreBorn /\ (~overlap => InOrder)

LEMMA InitService == Init => ServiceInv
<1> SUFFICES ASSUME Init PROVE ServiceInv
  OBVIOUS
<1>1. vip \in BOOLEAN /\ overlap \in BOOLEAN /\ late \in BOOLEAN /\ ~vip
  BY Zenon DEF Init
<1>2. /\ pc = "idle" /\ pid_file = <<>> /\ pid_file \in Seq(Pid) /\ command = "stop"
      /\ life = [p \in Pid |-> "unborn"] /\ ip = [p \in Pid |-> "none"]
  BY DEF Init
<1>3. Living = {}
  BY <1>2 DEF Living, Is
<1> QED
  BY <1>1, <1>2, <1>3 DEF ServiceInv, TypeOK, CommandsAreBorn, InOrder, Is

(* The types are kept by every step.                                          *)
LEMMA StepTypes == TypeOK /\ [Next]_vars => TypeOK'
<1> SUFFICES ASSUME TypeOK, [Next]_vars PROVE TypeOK'
  OBVIOUS
<1>1. CASE Start
  <2>1. overlap' \in BOOLEAN
    BY <1>1, Zenon DEF Start
  <2> QED
    BY <1>1, <2>1 DEF Start, Called, TypeOK
<1>2. CASE StopOrRestart
  <2>1. overlap' \in BOOLEAN
    BY <1>2, Zenon DEF StopOrRestart
  <2> QED
    BY <1>2, <2>1 DEF StopOrRestart, Called, TypeOK
<1>3. CASE Remove
  BY <1>3 DEF Remove, TypeOK
<1>4. CASE AlreadyStarted
  BY <1>4 DEF AlreadyStarted, TypeOK
<1>5. CASE Spawns
  BY <1>5 DEF Spawns, Is, TypeOK
<1>6. CASE KillProc
  BY <1>6 DEF KillProc, TypeOK
<1>7. CASE Unlink
  BY <1>7 DEF Unlink, TypeOK
<1>8. CASE FreeVip
  <2>1. vip' \in BOOLEAN /\ late' \in BOOLEAN
    BY <1>8, Zenon DEF FreeVip
  <2> QED
    BY <1>8, <2>1 DEF FreeVip, TypeOK
<1>9. ASSUME NEW p \in Pid, DaemonStep(p) PROVE TypeOK'
  <2>1. CASE WritesPid(p)
    BY <2>1 DEF WritesPid, TypeOK
  <2>2. CASE Ends(p)
    BY <2>2 DEF Ends, TypeOK
  <2>3. CASE RunsIp(p)
    BY <2>3 DEF RunsIp, TypeOK
  <2>4. CASE IpEnds(p)
    <3>1. vip' \in BOOLEAN /\ late' \in BOOLEAN
      BY <2>4, Zenon DEF IpEnds
    <3> QED
      BY <2>4, <3>1 DEF IpEnds, TypeOK
  <2> QED
    BY <1>9, <2>1, <2>2, <2>3, <2>4 DEF DaemonStep
<1>10. CASE UNCHANGED vars
  BY <1>10 DEF vars, TypeOK
<1> QED
  BY <1>1, <1>2, <1>3, <1>4, <1>5, <1>6, <1>7, <1>8, <1>9, <1>10 DEF Next

LEMMA StepBorn == TypeOK /\ CommandsAreBorn /\ [Next]_vars => CommandsAreBorn'
<1> SUFFICES ASSUME TypeOK, CommandsAreBorn, [Next]_vars PROVE CommandsAreBorn'
  OBVIOUS
<1> USE DEF TypeOK, CommandsAreBorn
<1>1. CASE Start \/ StopOrRestart \/ Remove \/ AlreadyStarted \/ Unlink \/ FreeVip
           \/ UNCHANGED vars
  <2>1. life' = life /\ ip' = ip
    BY <1>1 DEF Start, StopOrRestart, Called, Remove, AlreadyStarted, Unlink, FreeVip, vars
  <2> QED
    BY <2>1
<1>2. CASE Spawns
  BY <1>2 DEF Spawns, Is
<1>3. CASE KillProc
  BY <1>3 DEF KillProc
<1>4. ASSUME NEW p \in Pid, DaemonStep(p) PROVE CommandsAreBorn'
  BY <1>4 DEF DaemonStep, WritesPid, Ends, RunsIp, IpEnds
<1> QED
  BY <1>1, <1>2, <1>3, <1>4 DEF Next

LEMMA StepInOrder ==
    ServiceInv /\ [Next]_vars /\ ~overlap' => InOrder'
<1> SUFFICES ASSUME ServiceInv, [Next]_vars, ~overlap' PROVE InOrder'
  OBVIOUS
<1>0. InOrder /\ TypeOK
  <2>1. ~overlap
    BY Zenon DEF Next, Start, StopOrRestart, Remove, AlreadyStarted, Spawns, KillProc,
       Unlink, FreeVip, DaemonStep, WritesPid, Ends, RunsIp, IpEnds, vars
  <2> QED
    BY <2>1 DEF ServiceInv
<1> USE <1>0
<1>1. CASE Start
  <2>1. Living = {}
    BY <1>1, Zenon DEF Start, Living
  <2>2. /\ pc' = "remove" /\ command' = "start"
        /\ life' = life /\ pid_file' = pid_file /\ Living' = Living
    BY <1>1 DEF Start, Called, Living, Is
  <2> QED
    BY <2>1, <2>2 DEF InOrder, Living, Is
<1>2. CASE StopOrRestart
  <2>1. Is("young") = {}
    BY <1>2, Zenon DEF StopOrRestart
  <2>2. /\ pc' = "kill"
        /\ life' = life /\ pid_file' = pid_file /\ Living' = Living
        /\ Is("young")' = Is("young")
    BY <1>2 DEF StopOrRestart, Called, Living, Is
  <2> QED
    BY <2>1, <2>2 DEF InOrder
<1>3. CASE Remove
  BY <1>3 DEF Remove, InOrder, Living, Is
<1>4. CASE AlreadyStarted
  BY <1>4 DEF AlreadyStarted, InOrder
<1>5. CASE Spawns
  <2>1. PICK p \in Is("unborn") : life' = [life EXCEPT ![p] = "young"]
    BY <1>5 DEF Spawns
  <2>2. /\ pc = "look" /\ pid_file' = <<>> /\ pc' = "idle" /\ command' = command
    BY <1>5 DEF Spawns
  <2>3. Living' = {p}
    BY <2>1, <2>2 DEF InOrder, Living, Is, TypeOK
  <2> QED
    BY <2>1, <2>2, <2>3 DEF InOrder, Living, Is, TypeOK
<1>6. CASE KillProc
  <2>1. pc = "kill" /\ pc' = "unlink"
    BY <1>6 DEF KillProc
  <2>2. \A p \in Pid : life'[p] \notin {"young", "up"}
    BY <1>6, <2>1 DEF KillProc, InOrder, Is, TypeOK
  <2>3. Living' = {}
    BY <2>2 DEF Living, Is
  <2> QED
    BY <2>1, <2>2, <2>3 DEF InOrder
<1>7. CASE Unlink
  BY <1>7 DEF Unlink, InOrder, Living, Is
<1>8. CASE FreeVip
  <2>1. /\ pc = "free" /\ pc' \in {"remove", "idle"} /\ command' = command
        /\ pc' = "remove" => command' # "stop"
        /\ life' = life /\ pid_file' = pid_file /\ Living' = Living
        /\ Living = {}
    BY <1>8 DEF FreeVip, InOrder, Living, Is
  <2>2. readable => ~vip'
    BY <1>8, Zenon DEF FreeVip
  <2> QED
    BY <2>1, <2>2 DEF InOrder, Living, Is
<1>9. ASSUME NEW p \in Pid, DaemonStep(p) PROVE InOrder'
  <2>1. CASE WritesPid(p)
    <3>1. /\ life[p] = "young" /\ life' = [life EXCEPT ![p] = "up"]
          /\ pid_file' = Append(pid_file, p)
          /\ pc' = pc /\ command' = command
      BY <2>1 DEF WritesPid
    <3>2. p \in Living /\ pid_file = <<>>
      BY <3>1 DEF InOrder, Living, Is
    <3>3. pid_file' = <<p>>
      BY <3>1, <3>2
    <3>4. \A q \in Pid : q # p => life[q] \notin {"young", "up"}
      BY <3>2 DEF InOrder, Living, Is
    <3>5. Living' = {p} /\ Living = {p}
      BY <3>1, <3>4 DEF Living, Is, TypeOK
    <3>6. \A q \in Pid : /\ life'[q] # "young"
                         /\ life'[q] = "up" => q = p
      BY <3>1, <3>4 DEF TypeOK
    <3>7. pc' \notin {"remove", "look", "unlink", "free", "kill"}
          /\ ~(pc' = "idle" /\ command' = "stop")
      BY <3>1, <3>2 DEF InOrder, Is
    <3> QED
      BY <3>3, <3>5, <3>6, <3>7 DEF InOrder, Is
  <2>2. CASE Ends(p)
    <3>1. /\ p \in Living /\ Living' = {}
          /\ pid_file' = pid_file /\ pc' = pc /\ command' = command
          /\ \A q \in Pid : life'[q] \notin {"young", "up"}
      BY <2>2 DEF Ends, InOrder, Living, Is, TypeOK
    <3> QED
      BY <3>1 DEF InOrder, Is
  <2>3. CASE RunsIp(p)
    <3>1. p \in Living /\ UNCHANGED <<pc, command, life, pid_file, Living>>
      BY <2>3 DEF RunsIp, Living, Is
    <3>2. ~(pc = "idle" /\ command = "stop")
      BY <3>1 DEF InOrder
    <3> QED
      BY <3>1, <3>2 DEF InOrder, Is
  <2>4. CASE IpEnds(p)
    <3>1. UNCHANGED <<pc, command, life, pid_file, Living>> /\ ip[p] # "none"
      BY <2>4 DEF IpEnds, Living, Is
    <3>2. Living = {} => life[p] = "gone"
      BY <3>1 DEF ServiceInv, CommandsAreBorn, Living, Is
    <3>3. life[p] = "gone" /\ vip' => late'
      BY <2>4, Zenon DEF IpEnds
    <3> QED
      BY <3>1, <3>2, <3>3 DEF InOrder, Is
  <2> QED
    BY <1>9, <2>1, <2>2, <2>3, <2>4 DEF DaemonStep
<1>10. CASE UNCHANGED vars
  BY <1>10 DEF vars, InOrder, Living, Is
<1> QED
  BY <1>1, <1>2, <1>3, <1>4, <1>5, <1>6, <1>7, <1>8, <1>9, <1>10 DEF Next

LEMMA ServiceInvariant == Spec => []ServiceInv
<1>1. ServiceInv /\ [Next]_vars => ServiceInv'
  BY StepTypes, StepBorn, StepInOrder DEF ServiceInv
<1> QED
  BY <1>1, InitService, PTL DEF Spec

(* Started only when none runs, and stopped only when it has written its pid, *)
(* there is one daemon at most, whatever crashes (start, stop, restart).      *)
THEOREM OneDaemonHolds == Spec => []OneDaemon
<1>1. ServiceInv => OneDaemon
  BY DEF ServiceInv, InOrder, OneDaemon
<1> QED
  BY <1>1, ServiceInvariant, PTL

(* In the same good order a stop leaves no daemon behind (stop, kill_proc).   *)
THEOREM StopStopsHolds == Spec => []StopStops
<1>1. ServiceInv => StopStops
  BY DEF ServiceInv, InOrder, StopStops
<1> QED
  BY <1>1, ServiceInvariant, PTL

(* A stop also takes the VIP off the card, unless the `ip addr add` of a dead *)
(* daemon ends later than the script's own command (stop).                    *)
THEOREM StopFreesVipHolds == Spec => []StopFreesVip
<1>1. ServiceInv => StopFreesVip
  BY DEF ServiceInv, InOrder, StopFreesVip
<1> QED
  BY <1>1, ServiceInvariant, PTL

-----------------------------------------------------------------------------
(* The manual switch.  An order of the last scripts is always in exactly one  *)
(* hand: a script that has not sent it, the network, the thread that carries  *)
(* it out, or it has been obeyed or is lost; and no other order is anywhere.  *)

(* What a script on a node may have left.                                     *)
Rest(o) == { <<>>, Script(o), Tail(Script(o)) }

(* A node that carries an order out has parked its main loop.                 *)
Parked == \A n \in Node : doing[n] # "none" => n \in trouble

(* Where the order for a node can be.                                         *)
Pending(n) ==
    \/ script[n] = Script(Wanted(n)) \/ script[Peer(n)] # <<>>
    \/ transit[n][Wanted(n)] > 0 \/ doing[n] = Wanted(n)

Obeyed(n) ==
    /\ n \in trouble
    /\ (n \in holds <=> Wanted(n) = "takeover") \/ n \in strayed \ settled

(* A node that had come to a stand stays so, and its loop does not move.      *)
Stands(n) == n \in settled \ lost => n \in trouble \ turn

OnlyWanted(n) ==
    /\ script[n] \in Rest(Wanted(n))
    /\ transit[n][Other(Wanted(n))] = 0
    /\ doing[n] \in {"none", Wanted(n)}

Reached(n) == n \in lost \/ Pending(n) \/ Obeyed(n)

Orders == \A n \in Node : OnlyWanted(n) /\ Reached(n) /\ Stands(n)

Inv == ToolTypeOK /\ Parked /\ (agreed => Orders)

-----------------------------------------------------------------------------

(* The two commands of a script, and what sending each leaves.                *)
LEMMA ScriptShape ==
    ASSUME NEW o \in Order
    PROVE  /\ Script(o) # <<>> /\ Tail(Script(o)) # <<>>
           /\ Script(o) # Tail(Script(o)) /\ Tail(Tail(Script(o))) = <<>>
           /\ Head(Script(o)) = [ip |-> "localhost", operation |-> o]
           /\ Head(Tail(Script(o))) = [ip |-> "remoteip", operation |-> Other(o)]
           /\ Script(o) \in Seq([ip : {"localhost", "remoteip"}, operation : Order])
<1>1. Len(Script(o)) = 2 /\ Len(Tail(Script(o))) = 1
  BY DEF Script
<1>2. Script(o) # <<>> /\ Tail(Script(o)) # <<>> /\ Script(o) # Tail(Script(o))
  <2> DEFINE s == Script(o)
             t == Tail(Script(o))
  <2>1. Len(s) = 2 /\ Len(t) = 1 /\ Len(<<>>) = 0
    BY <1>1
  <2> HIDE DEF s, t
  <2>2. s # <<>> /\ t # <<>> /\ s # t
    BY <2>1
  <2> QED BY <2>2 DEF s, t
<1>3. Tail(Tail(Script(o))) = <<>>
  BY DEF Script
<1>4. /\ Head(Script(o)) = [ip |-> "localhost", operation |-> o]
      /\ Head(Tail(Script(o))) = [ip |-> "remoteip", operation |-> Other(o)]
  BY DEF Script
<1>5. Script(o) \in Seq([ip : {"localhost", "remoteip"}, operation : Order])
  <2> DEFINE Cmd == [ip : {"localhost", "remoteip"}, operation : Order]
  <2>1. /\ [ip |-> "localhost", operation |-> o] \in Cmd
        /\ [ip |-> "remoteip", operation |-> Other(o)] \in Cmd
    BY DEF Other, Order
  <2> HIDE DEF Cmd
  <2>2. Script(o) \in Seq(Cmd)
    BY <2>1 DEF Script
  <2> QED BY <2>2 DEF Cmd
<1> QED BY <1>2, <1>3, <1>4, <1>5

(* The peer's peer is the node, and the two wishes are opposite.              *)
LEMMA PeerFacts ==
    ASSUME ToolTypeOK, NEW n \in Node
    PROVE  /\ Peer(n) \in Node /\ Peer(n) # n /\ Peer(Peer(n)) = n
           /\ Wanted(n) \in Order /\ Wanted(Peer(n)) = Other(Wanted(n))
           /\ Other(Other(Wanted(n))) = Wanted(n) /\ Other(Wanted(n)) # Wanted(n)
           /\ operation(Wanted(n)) = Wanted(n)
           /\ operation(Other(Wanted(n))) = Other(Wanted(n))
  BY DEF ToolTypeOK, Node, Peer, Wanted, Other, Order, operation

LEMMA InitInv == ToolInit => Inv
<1> SUFFICES ASSUME ToolInit PROVE Inv
  OBVIOUS
<1>1. agreed = FALSE
  BY DEF ToolInit
<1>2. ToolTypeOK
  <2> DEFINE Cmd == [ip : {"localhost", "remoteip"}, operation : Order]
  <2>1. script \in [Node -> Seq(Cmd)]
    <3> HIDE DEF Cmd
    <3> QED BY DEF ToolInit
  <2>2. last \in [at : Node, what : Order]
    BY DEF ToolInit, Node, Order
  <2> QED BY <1>1, <2>1, <2>2 DEF ToolInit, ToolTypeOK
<1>3. Parked
  BY DEF ToolInit, Parked
<1> QED BY <1>1, <1>2, <1>3, Zenon DEF Inv

-----------------------------------------------------------------------------
(* One lemma per action; each keeps the types, then Parked, then Orders.      *)

(* What is left of a script when its next command has run, whether or not its *)
(* datagram was sent; to is the node that it was for.                         *)
LEMMA CommandRuns ==
    ASSUME ToolTypeOK, Orders, NEW n \in Node, script[n] # <<>>,
           NEW to, to = peer_addr(n, Head(script[n]).ip),
           script' = [script EXCEPT ![n] = Tail(@)],
           UNCHANGED <<doing, holds, trouble, turn, strayed, last, settled>>
    PROVE  /\ to \in Node /\ operation(Head(script[n]).operation) = Wanted(to)
           /\ \A m \in Node :
                /\ Wanted(m) \in Order /\ Wanted(m)' = Wanted(m)
                /\ Other(Wanted(m)) \in Order /\ Other(Wanted(m)) # Wanted(m)
                /\ script'[m] \in Rest(Wanted(m))
                /\ m # to /\ transit'[m] = transit[m] =>
                     /\ Pending(m) => Pending(m)'
                     /\ Obeyed(m) => Obeyed(m)'
<1> DEFINE Cmd == [ip : {"localhost", "remoteip"}, operation : Order]
           c == Head(script[n])
           o == operation(c.operation)
           w == Wanted(n)
<1>1. script \in [Node -> Seq(Cmd)] /\ script'[n] = Tail(script[n])
  BY DEF ToolTypeOK
<1>2. w \in Order /\ \A m \in Node : Wanted(m)' = Wanted(m)
  BY PeerFacts DEF Wanted
<1>3. script[n] = Script(w) \/ script[n] = Tail(Script(w))
  BY DEF Orders, OnlyWanted, Rest
<1>4. /\ to = IF script[n] = Script(w) THEN n ELSE Peer(n)
      /\ o = Wanted(to)
      /\ script'[n] = IF script[n] = Script(w) THEN Tail(Script(w)) ELSE <<>>
  <2>1. CASE script[n] = Script(w)
    <3>1. c = [ip |-> "localhost", operation |-> w]
      BY <1>2, <2>1, ScriptShape
    <3>2. to = n /\ o = w
      BY <3>1, PeerFacts DEF peer_addr
    <3> QED BY <1>1, <2>1, <3>2
  <2>2. CASE script[n] = Tail(Script(w))
    <3>1. c = [ip |-> "remoteip", operation |-> Other(w)]
      BY <1>2, <2>2, ScriptShape
    <3>2. to = Peer(n) /\ o = Wanted(Peer(n))
      BY <3>1, PeerFacts DEF peer_addr
    <3>3. script[n] # Script(w) /\ script'[n] = <<>>
      BY <1>1, <1>2, <2>2, ScriptShape
    <3> QED BY <3>2, <3>3
  <2> QED BY <1>3, <2>1, <2>2
<1> HIDE DEF o
<1>5. to \in Node
  BY <1>4, PeerFacts
<1>6. ASSUME NEW m \in Node
      PROVE  /\ Wanted(m) \in Order /\ Wanted(m)' = Wanted(m)
             /\ Other(Wanted(m)) \in Order /\ Other(Wanted(m)) # Wanted(m)
             /\ script'[m] \in Rest(Wanted(m))
             /\ m # to /\ transit'[m] = transit[m] =>
                  /\ Pending(m) => Pending(m)'
                  /\ Obeyed(m) => Obeyed(m)'
  <2>1. /\ Wanted(m) \in Order /\ Wanted(m)' = Wanted(m)
        /\ Other(Wanted(m)) \in Order /\ Other(Wanted(m)) # Wanted(m)
    BY <1>2, PeerFacts DEF Order, Other
  <2>2. script'[m] \in Rest(Wanted(m))
    BY <1>1, <1>4 DEF Orders, OnlyWanted, Rest
  <2>3. ASSUME m # to, transit'[m] = transit[m]
        PROVE  (Pending(m) => Pending(m)') /\ (Obeyed(m) => Obeyed(m)')
    <3>1. script[m] = Script(Wanted(m)) => m # n
      BY <1>4, <2>3
    <3>2. script[Peer(m)] # <<>> => script'[Peer(m)] # <<>>
      BY <1>1, <1>2, <1>4, <2>3, PeerFacts, ScriptShape
    <3> QED BY <1>1, <2>1, <2>3, <3>1, <3>2 DEF Pending, Obeyed
  <2> QED BY <2>1, <2>2, <2>3
<1> QED BY <1>4, <1>5, <1>6 DEF o

LEMMA SendInv ==
    ASSUME Inv, NEW n \in Node, Send(n)
    PROVE  Inv'
<1> DEFINE Cmd == [ip : {"localhost", "remoteip"}, operation : Order]
           c == Head(script[n])
           to == peer_addr(n, c.ip)
           o == operation(c.operation)
<1>1. /\ script \in [Node -> Seq(Cmd)] /\ script[n] \in Seq(Cmd) /\ script[n] # <<>>
      /\ transit \in [Node -> [Order -> Nat]]
  BY DEF Inv, ToolTypeOK, Send
<1>2. c \in Cmd
  <2> HIDE DEF Cmd
  <2> QED BY <1>1
<1>3. to \in Node /\ o \in Order
  BY <1>2 DEF peer_addr, Peer, operation, Node, Order
<1>4. /\ script' = [script EXCEPT ![n] = Tail(@)]
      /\ transit' = [transit EXCEPT ![to][o] = @ + 1]
      /\ UNCHANGED <<doing, holds, trouble, turn, strayed, scripts, last, agreed, settled, lost>>
  BY DEF Send, history, nodeVars
<1> HIDE DEF to, o
<1>5. ToolTypeOK'
  <2>1. script' \in [Node -> Seq(Cmd)]
    <3> HIDE DEF Cmd
    <3> QED BY <1>1, <1>4
  <2>2. transit' \in [Node -> [Order -> Nat]]
    BY <1>1, <1>3, <1>4
  <2> QED BY <1>4, <2>1, <2>2 DEF Inv, ToolTypeOK
<1>6. Parked'
  BY <1>4 DEF Inv, Parked
<1>7. ASSUME agreed
      PROVE  Orders'
  <2>1. Orders /\ ToolTypeOK
    BY <1>7 DEF Inv
  <2> SUFFICES ASSUME NEW m \in Node
               PROVE  (OnlyWanted(m) /\ Reached(m) /\ Stands(m))'
    BY DEF Orders
  <2>2. OnlyWanted(m) /\ Reached(m) /\ Stands(m)
    BY <2>1 DEF Orders
  <2>3. /\ o = Wanted(to) /\ Wanted(m) \in Order /\ Wanted(m)' = Wanted(m)
        /\ Other(Wanted(m)) \in Order /\ Other(Wanted(m)) # Wanted(m)
        /\ script'[m] \in Rest(Wanted(m))
        /\ m # to /\ transit'[m] = transit[m] =>
             (Pending(m) => Pending(m)') /\ (Obeyed(m) => Obeyed(m)')
    BY <1>1, <1>4, <2>1, CommandRuns DEF to, o
  <2>4. OnlyWanted(m)'
    <3>1. transit'[m][Other(Wanted(m))] = 0
      BY <1>1, <1>3, <1>4, <2>2, <2>3 DEF OnlyWanted
    <3> QED BY <1>4, <2>2, <2>3, <3>1 DEF OnlyWanted
  <2>5. Reached(m)'
    <3>1. CASE m = to
      <4>1. transit'[m][Wanted(m)] > 0
        BY <1>1, <1>3, <1>4, <2>3, <3>1
      <4> QED BY <4>1, <2>3 DEF Reached, Pending
    <3>2. CASE m # to
      <4>1. transit'[m] = transit[m]
        BY <1>1, <1>3, <1>4, <3>2
      <4> QED BY <1>4, <2>2, <2>3, <3>2, <4>1 DEF Reached
    <3> QED BY <3>1, <3>2
  <2>6. Stands(m)'
    BY <1>4, <2>2 DEF Stands
  <2> QED BY <2>4, <2>5, <2>6
<1> QED BY <1>4, <1>5, <1>6, <1>7 DEF Inv

LEMMA SendFailsInv ==
    ASSUME Inv, NEW n \in Node, SendFails(n)
    PROVE  Inv'
<1> DEFINE Cmd == [ip : {"localhost", "remoteip"}, operation : Order]
           to == peer_addr(n, Head(script[n]).ip)
<1>1. /\ script \in [Node -> Seq(Cmd)] /\ script[n] \in Seq(Cmd) /\ script[n] # <<>>
      /\ script' = [script EXCEPT ![n] = Tail(@)] /\ lost' = lost \cup {to}
      /\ UNCHANGED <<transit, doing, holds, trouble, turn, strayed, scripts, last, agreed, settled>>
  BY DEF Inv, ToolTypeOK, SendFails, history, nodeVars
<1>2. script' \in [Node -> Seq(Cmd)]
  <2> HIDE DEF Cmd
  <2> QED BY <1>1
<1>3. to \in Node
  BY DEF peer_addr, Peer, Node
<1> HIDE DEF to
<1>4. ToolTypeOK'
  BY <1>1, <1>2, <1>3 DEF Inv, ToolTypeOK
<1>5. Parked'
  BY <1>1 DEF Inv, Parked
<1>6. ASSUME agreed
      PROVE  Orders'
  <2>1. Orders /\ ToolTypeOK
    BY <1>6 DEF Inv
  <2> SUFFICES ASSUME NEW m \in Node
               PROVE  (OnlyWanted(m) /\ Reached(m) /\ Stands(m))'
    BY DEF Orders
  <2>2. OnlyWanted(m) /\ Reached(m) /\ Stands(m)
    BY <2>1 DEF Orders
  <2>3. /\ Wanted(m)' = Wanted(m) /\ script'[m] \in Rest(Wanted(m))
        /\ m # to => (Pending(m) => Pending(m)') /\ (Obeyed(m) => Obeyed(m)')
    BY <1>1, <2>1, CommandRuns DEF to
  <2> QED BY <1>1, <2>2, <2>3 DEF OnlyWanted, Reached, Stands
<1> QED BY <1>1, <1>4, <1>5, <1>6 DEF Inv

LEMMA LoseInv ==
    ASSUME Inv, NEW n \in Node, NEW o \in Order, Lose(n, o)
    PROVE  Inv'
<1>1. /\ transit \in [Node -> [Order -> Nat]] /\ transit[n][o] > 0
      /\ transit' = [transit EXCEPT ![n][o] = @ - 1] /\ lost' = lost \cup {n}
      /\ UNCHANGED <<script, doing, holds, trouble, turn, strayed, scripts, last, agreed, settled>>
  BY DEF Inv, ToolTypeOK, Lose, history, nodeVars
<1>2. transit' \in [Node -> [Order -> Nat]]
  BY <1>1
<1>3. ToolTypeOK'
  BY <1>1, <1>2 DEF Inv, ToolTypeOK
<1>4. Parked'
  BY <1>1 DEF Inv, Parked
<1>5. ASSUME agreed
      PROVE  Orders'
  <2>1. Orders /\ ToolTypeOK
    BY <1>5 DEF Inv
  <2> SUFFICES ASSUME NEW m \in Node
               PROVE  (OnlyWanted(m) /\ Reached(m) /\ Stands(m))'
    BY DEF Orders
  <2>2. OnlyWanted(m) /\ Reached(m) /\ Stands(m)
    BY <2>1 DEF Orders
  <2>3. /\ Wanted(m) \in Order /\ Wanted(m)' = Wanted(m)
        /\ Other(Wanted(m)) \in Order
    BY <1>1, <2>1, PeerFacts DEF Wanted, Order, Other
  <2>4. OnlyWanted(m)'
    <3>1. transit'[m][Other(Wanted(m))] = 0
      <4>1. CASE m = n /\ o = Other(Wanted(m))
        BY <1>1, <2>2, <4>1 DEF OnlyWanted
      <4>2. CASE ~(m = n /\ o = Other(Wanted(m)))
        BY <1>1, <2>2, <2>3, <4>2 DEF OnlyWanted
      <4> QED BY <4>1, <4>2
    <3> QED BY <1>1, <2>2, <2>3, <3>1 DEF OnlyWanted
  <2>5. Reached(m)'
    <3>1. CASE m = n
      BY <1>1, <3>1 DEF Reached
    <3>2. CASE m # n
      BY <1>1, <2>2, <2>3, <3>2 DEF Reached, Pending, Obeyed
    <3> QED BY <3>1, <3>2
  <2> QED BY <1>1, <2>2, <2>4, <2>5 DEF Stands
<1> QED BY <1>1, <1>3, <1>4, <1>5 DEF Inv

LEMMA ReceiveInv ==
    ASSUME Inv, NEW n \in Node, NEW o \in Order, Receive(n, o)
    PROVE  Inv'
<1>1. /\ transit \in [Node -> [Order -> Nat]] /\ transit[n][o] > 0
      /\ doing \in [Node -> Order \cup {"none"}]
      /\ transit' = [transit EXCEPT ![n][o] = @ - 1]
      /\ doing' = [doing EXCEPT ![n] = o] /\ doing[n] = "none"
      /\ trouble' = trouble \cup {n}
      /\ UNCHANGED <<script, holds, turn, strayed, scripts, last, agreed, settled, lost>>
  BY DEF Inv, ToolTypeOK, Receive, history
<1>2. ToolTypeOK'
  <2>1. transit' \in [Node -> [Order -> Nat]]
    BY <1>1
  <2>2. doing' \in [Node -> Order \cup {"none"}] /\ trouble' \in SUBSET Node
    BY <1>1 DEF Inv, ToolTypeOK
  <2> QED BY <1>1, <2>1, <2>2 DEF Inv, ToolTypeOK
<1>3. Parked'
  BY <1>1 DEF Inv, Parked
<1>4. ASSUME agreed
      PROVE  Orders'
  <2>1. Orders /\ ToolTypeOK
    BY <1>4 DEF Inv
  <2> SUFFICES ASSUME NEW m \in Node
               PROVE  (OnlyWanted(m) /\ Reached(m) /\ Stands(m))'
    BY DEF Orders
  <2>2. OnlyWanted(m) /\ Reached(m) /\ Stands(m)
    BY <2>1 DEF Orders
  <2>3. /\ Wanted(m) \in Order /\ Wanted(m)' = Wanted(m)
        /\ Other(Wanted(m)) \in Order /\ Other(Wanted(m)) # Wanted(m)
    BY <1>1, <2>1, PeerFacts DEF Wanted, Order, Other
  <2>4. m = n => o = Wanted(m)
    BY <1>1, <2>2, <2>3 DEF OnlyWanted, Order, Other
  <2>5. OnlyWanted(m)'
    BY <1>1, <2>2, <2>3, <2>4 DEF OnlyWanted
  <2>6. Reached(m)'
    <3>1. CASE m = n
      BY <1>1, <2>3, <2>4, <3>1 DEF Reached, Pending
    <3>2. CASE m # n
      BY <1>1, <2>2, <2>3, <3>2 DEF Reached, Pending, Obeyed
    <3> QED BY <3>1, <3>2
  <2> QED BY <1>1, <2>2, <2>5, <2>6 DEF Stands
<1> QED BY <1>1, <1>2, <1>3, <1>4 DEF Inv

LEMMA SwitchedInv ==
    ASSUME Inv, NEW n \in Node, Switched(n)
    PROVE  Inv'
<1>1. /\ doing \in [Node -> Order \cup {"none"}] /\ doing[n] # "none"
      /\ holds' = IF doing[n] = "takeover" THEN holds \cup {n} ELSE holds \ {n}
      /\ doing' = [doing EXCEPT ![n] = "none"] /\ strayed' = strayed \ {n}
      /\ UNCHANGED <<script, transit, trouble, turn, scripts, last, agreed, settled, lost>>
  BY DEF Inv, ToolTypeOK, Switched, history
<1>2. ToolTypeOK'
  BY <1>1 DEF Inv, ToolTypeOK
<1>3. Parked'
  BY <1>1 DEF Inv, Parked
<1>4. ASSUME agreed
      PROVE  Orders'
  <2>1. Orders /\ ToolTypeOK
    BY <1>4 DEF Inv
  <2> SUFFICES ASSUME NEW m \in Node
               PROVE  (OnlyWanted(m) /\ Reached(m) /\ Stands(m))'
    BY DEF Orders
  <2>2. OnlyWanted(m) /\ Reached(m) /\ Stands(m)
    BY <2>1 DEF Orders
  <2>3. Wanted(m) \in Order /\ Wanted(m)' = Wanted(m)
    BY <1>1, <2>1, PeerFacts DEF Wanted
  <2>4. OnlyWanted(m)'
    BY <1>1, <2>2, <2>3 DEF OnlyWanted
  <2>5. Reached(m)'
    <3>1. CASE m = n
      <4>1. doing[n] = Wanted(n) /\ n \in trouble'
        BY <1>1, <2>2, <3>1 DEF OnlyWanted, Inv, Parked
      <4>2. n \in holds' <=> Wanted(n) = "takeover"
        BY <1>1, <4>1
      <4> QED BY <2>3, <3>1, <4>1, <4>2 DEF Reached, Obeyed
    <3>2. CASE m # n
      BY <1>1, <2>2, <2>3, <3>2 DEF Reached, Pending, Obeyed
    <3> QED BY <3>1, <3>2
  <2> QED BY <1>1, <2>2, <2>4, <2>5 DEF Stands
<1> QED BY <1>1, <1>2, <1>3, <1>4 DEF Inv

LEMMA TurnInv ==
    ASSUME Inv, NEW n \in Node, TurnBegins(n) \/ TurnEnds(n)
    PROVE  Inv'
<1>1. UNCHANGED <<script, transit, doing, trouble, scripts, last, agreed, settled, lost>>
  BY DEF TurnBegins, TurnEnds, history
<1>2. /\ \/ UNCHANGED <<holds, strayed>>
         \/ /\ n \in turn /\ holds' \in {holds \cup {n}, holds \ {n}}
            /\ strayed' = strayed \cup ({n} \cap trouble)
      /\ turn' = turn \/ turn' = turn \ {n} \/ (n \notin trouble /\ turn' = turn \cup {n})
  <2>1. CASE TurnBegins(n)
    BY <2>1 DEF TurnBegins
  <2>2. CASE TurnEnds(n)
    BY <2>2 DEF TurnEnds
  <2> QED BY <2>1, <2>2
<1>3. ASSUME NEW m \in Node, m # n
      PROVE  (m \in turn' <=> m \in turn) /\ (m \in holds' <=> m \in holds)
             /\ (m \in strayed' <=> m \in strayed)
  BY <1>2, <1>3
<1>4. ToolTypeOK'
  <2>1. turn' \in SUBSET Node /\ holds' \in SUBSET Node /\ strayed' \in SUBSET Node
    BY DEF Inv, ToolTypeOK, TurnBegins, TurnEnds
  <2> QED BY <1>1, <2>1 DEF Inv, ToolTypeOK
<1>5. Parked'
  BY <1>1 DEF Inv, Parked
<1>6. ASSUME agreed
      PROVE  Orders'
  <2> SUFFICES ASSUME NEW m \in Node
               PROVE  (OnlyWanted(m) /\ Reached(m) /\ Stands(m))'
    BY DEF Orders
  <2>1. OnlyWanted(m) /\ Reached(m) /\ Stands(m)
    BY <1>6 DEF Inv, Orders
  <2>2. Wanted(m)' = Wanted(m)
    BY <1>1 DEF Wanted
  <2>3. Stands(m)'
    <3>1. m \in trouble \ turn => m \notin turn'
      BY <1>2, <1>3
    <3> QED BY <1>1, <2>1, <3>1 DEF Stands
  <2>4. m \notin lost /\ Obeyed(m) => Obeyed(m)'
    <3>1. CASE m # n
      BY <1>1, <1>3, <2>2, <3>1 DEF Obeyed
    <3>2. CASE UNCHANGED <<holds, strayed>>
      BY <1>1, <2>2, <3>2 DEF Obeyed
    <3>3. CASE m = n /\ n \in turn /\ strayed' = strayed \cup ({n} \cap trouble)
      BY <1>1, <2>1, <2>2, <3>3 DEF Obeyed, Stands
    <3> QED BY <1>2, <3>1, <3>2, <3>3
  <2> QED BY <1>1, <2>1, <2>2, <2>3, <2>4 DEF OnlyWanted, Reached, Pending
<1> QED BY <1>1, <1>4, <1>5, <1>6 DEF Inv

LEMMA RestartInv ==
    ASSUME Inv, NEW n \in Node, Restart(n)
    PROVE  Inv'
<1>1. /\ UNCHANGED <<script, transit, holds, scripts, last, agreed, settled>>
      /\ turn' = turn \ {n} /\ trouble' = trouble \ {n} /\ strayed' = strayed \ {n}
      /\ doing' = [doing EXCEPT ![n] = "none"] /\ lost' = lost \cup {n}
      /\ doing \in [Node -> Order \cup {"none"}]
  BY DEF Restart, history, Inv, ToolTypeOK
<1>2. ToolTypeOK'
  BY <1>1 DEF Inv, ToolTypeOK
<1>3. Parked'
  BY <1>1 DEF Inv, Parked
<1>4. ASSUME agreed
      PROVE  Orders'
  <2> SUFFICES ASSUME NEW m \in Node
               PROVE  (OnlyWanted(m) /\ Reached(m) /\ Stands(m))'
    BY DEF Orders
  <2>1. OnlyWanted(m) /\ Reached(m) /\ Stands(m)
    BY <1>4 DEF Inv, Orders
  <2>2. Wanted(m)' = Wanted(m)
    BY <1>1 DEF Wanted
  <2>3. CASE m = n
    BY <1>1, <2>1, <2>2, <2>3 DEF OnlyWanted, Reached, Stands
  <2>4. CASE m # n
    BY <1>1, <2>1, <2>2, <2>4 DEF OnlyWanted, Reached, Stands, Pending, Obeyed
  <2> QED BY <2>3, <2>4
<1> QED BY <1>1, <1>2, <1>3, <1>4 DEF Inv

LEMMA RunsScriptInv ==
    ASSUME Inv, NEW n \in Node, NEW o \in Order, RunsScript(n, o)
    PROVE  Inv'
<1> DEFINE Cmd == [ip : {"localhost", "remoteip"}, operation : Order]
<1>1. /\ script \in [Node -> Seq(Cmd)] /\ script[n] = <<>>
      /\ script' = [script EXCEPT ![n] = Script(o)]
      /\ scripts' = scripts + 1 /\ last' = [at |-> n, what |-> o]
      /\ UNCHANGED <<transit, doing, holds, trouble, turn, strayed>>
  BY DEF Inv, ToolTypeOK, RunsScript, nodeVars
<1>2. /\ agreed' = (AllQuiet \/ (agreed /\ o = Wanted(n)))
      /\ lost' = (IF AllQuiet THEN {} ELSE lost)
      /\ settled' = (IF AllQuiet THEN trouble \ turn ELSE settled)
  BY DEF RunsScript
<1>3. ToolTypeOK'
  <2>1. script' \in [Node -> Seq(Cmd)]
    <3>1. Script(o) \in Seq(Cmd)
      BY ScriptShape
    <3> HIDE DEF Cmd
    <3> QED BY <1>1, <3>1
  <2>2. /\ agreed' \in BOOLEAN
        /\ lost' \in SUBSET Node /\ settled' \in SUBSET Node
    <3>1. agreed' \in BOOLEAN
      BY <1>2, Zenon
    <3> QED BY <1>2, <3>1 DEF Inv, ToolTypeOK
  <2>3. scripts' \in Nat /\ last' \in [at : Node, what : Order]
    BY <1>1 DEF Inv, ToolTypeOK
  <2> QED BY <1>1, <2>1, <2>2, <2>3 DEF Inv, ToolTypeOK
<1>4. Parked'
  BY <1>1 DEF Inv, Parked
<1>5. ASSUME agreed'
      PROVE  Orders'
  <2>1. AllQuiet \/ (agreed /\ o = Wanted(n))
    BY <1>2, <1>5, Zenon
  <2>2. Wanted(n)' = o /\ Wanted(Peer(n))' = Other(o) /\ o \in Order
        /\ Peer(n) # n /\ Peer(n) \in Node /\ Peer(Peer(n)) = n
        /\ \A m \in Node : m = n \/ m = Peer(n)
    BY <1>1 DEF Wanted, Peer, Node
  <2>3. script'[n] = Script(o) /\ Script(o) # <<>> /\ script'[Peer(n)] = script[Peer(n)]
    BY <1>1, <2>2, ScriptShape
  <2>4. (Pending(n) /\ Pending(Peer(n)))'
    BY <2>2, <2>3 DEF Pending
  <2>5. OnlyWanted(n)' /\ OnlyWanted(Peer(n))'
    <3>1. CASE AllQuiet
      BY <1>1, <2>2, <2>3, <3>1 DEF AllQuiet, Quiet, OnlyWanted, Rest, Other, Order
    <3>2. CASE agreed /\ o = Wanted(n)
      <4>1. Orders /\ ToolTypeOK
        BY <3>2 DEF Inv
      <4>2. Wanted(Peer(n)) = Other(o)
        BY <3>2, <4>1, PeerFacts
      <4>3. OnlyWanted(n) /\ OnlyWanted(Peer(n))
        BY <2>2, <4>1 DEF Orders
      <4> QED BY <1>1, <2>2, <2>3, <3>2, <4>2, <4>3 DEF OnlyWanted, Rest
    <3> QED BY <2>1, <3>1, <3>2
  <2>6. ASSUME NEW m \in Node PROVE Stands(m)'
    <3>1. CASE AllQuiet
      BY <1>1, <1>2, <3>1 DEF Stands
    <3>2. CASE ~AllQuiet
      <4>1. Stands(m)
        BY <2>1, <3>2 DEF Inv, Orders
      <4> QED BY <1>1, <1>2, <3>2, <4>1 DEF Stands
    <3> QED BY <3>1, <3>2
  <2> QED BY <2>2, <2>4, <2>5, <2>6 DEF Orders, Reached
<1> QED BY <1>3, <1>4, <1>5 DEF Inv

-----------------------------------------------------------------------------

(* When nothing is pending any more, what was wanted has been obeyed.         *)
LEMMA InvObeyed == Inv => ScriptObeyed
<1> SUFFICES ASSUME Inv, agreed, AllQuiet, NEW n \in Node \ lost
             PROVE  Obeyed(n)
  BY DEF ScriptObeyed, Obeyed
<1>1. Orders /\ ToolTypeOK
  BY DEF Inv
<1>2. Wanted(n) \in Order /\ Peer(n) \in Node
  BY <1>1, PeerFacts
<1>3. ~Pending(n)
  <2>1. Quiet(n) /\ Quiet(Peer(n))
    BY <1>2 DEF AllQuiet
  <2>2. script[n] = <<>> /\ script[Peer(n)] = <<>> /\ doing[n] = "none"
    BY <2>1 DEF Quiet
  <2>3. ~(transit[n][Wanted(n)] > 0)
    <3>1. transit[n][Wanted(n)] = 0
      BY <1>2, <2>1 DEF Quiet
    <3> QED BY <3>1
  <2>4. Script(Wanted(n)) # <<>> /\ Wanted(n) # "none"
    BY <1>2, ScriptShape DEF Order
  <2> QED BY <2>2, <2>3, <2>4, Zenon DEF Pending
<1> QED BY <1>1, <1>3 DEF Orders, Reached

(* For any number of scripts, run one by one or together with scripts that    *)
(* want the same, and whatever is lost, restarted or in the middle of a turn: *)
(* each node that the orders got to ends as they say, but for the one turn it *)
(* may have been in (hb_manually.cpp, hb_*.sh, manual_switch, main's loops).  *)
THEOREM ScriptsObeyed == ToolSpec => [](ToolTypeOK /\ ScriptObeyed)
<1>1. Inv /\ [ToolNext]_toolVars => Inv'
  <2> SUFFICES ASSUME Inv, [ToolNext]_toolVars PROVE Inv'
    OBVIOUS
  <2>1. CASE UNCHANGED toolVars
    <3>1. UNCHANGED <<script, transit, doing, holds, trouble, turn, strayed,
                      scripts, last, agreed, settled, lost>>
      BY <2>1 DEF toolVars, history, nodeVars
    <3>2. ToolTypeOK' /\ Parked'
      BY <3>1 DEF Inv, ToolTypeOK, Parked
    <3>3. Orders' <=> Orders
      BY <3>1 DEF Orders, OnlyWanted, Reached, Stands, Pending, Obeyed, Wanted
    <3> QED BY <3>1, <3>2, <3>3 DEF Inv
  <2>2. CASE ToolNext
    <3> PICK n \in Node :
            \/ Send(n) \/ SendFails(n) \/ Switched(n)
            \/ TurnBegins(n) \/ TurnEnds(n) \/ Restart(n)
            \/ \E o \in Order : RunsScript(n, o) \/ Lose(n, o) \/ Receive(n, o)
      BY <2>2 DEF ToolNext
    <3> QED BY SendInv, SendFailsInv, SwitchedInv, TurnInv, RestartInv, RunsScriptInv,
               LoseInv, ReceiveInv
  <2> QED BY <2>1, <2>2
<1>2. Inv => ToolTypeOK /\ ScriptObeyed
  BY InvObeyed DEF Inv
<1> QED BY InitInv, <1>1, <1>2, PTL DEF ToolSpec

=============================================================================
