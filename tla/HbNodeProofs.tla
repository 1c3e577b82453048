---------------------------- MODULE HbNodeProofs ----------------------------
(* Type correctness of one node, and that a whole call that ran alone leaves  *)
(* the card and the resource script in agreement, for every address family,   *)
(* every spelling of the VIP and any number of events.                        *)

EXTENDS HbNode, TLAPS

USE NodeAssumption

(* What the place of a thread says of its call so far, if it runs alone.      *)
Progress(c) ==
    /\ c \in {"arp", "start", "on"} => vip
    /\ c = "on" => script = "start"
    /\ c \in {"stop", "off"} => ~vip
    /\ c = "off" => script = "stop"

(* Unless the last call was disturbed, at most one thread is in a call, that  *)
(* call has done what its place says, and outside a call card and script agree. *)
AloneInv ==
    ~mixed => /\ \A t, u \in Thread : t # u => at[t] = "idle" \/ at[u] = "idle"
              /\ \A t \in Thread : Progress(at[t])
              /\ ScriptFollowsVip

NodeInv == TypeOK /\ AloneInv

(* The next command of a call is a command, or the call is over.              *)
LEMMA FollowingType ==
    ASSUME NEW t \in Thread, NEW c \in Command
    PROVE  Following(t, c) \in Command \cup {"idle"}
  BY DEF Following, Command, Thread

LEMMA InitInv == Init => NodeInv
<1> SUFFICES ASSUME Init PROVE NodeInv
  OBVIOUS
<1>1. TypeOK
  <2>1. events \in 0..MaxEvents /\ at \in [Thread -> Command \cup {"idle"}]
    BY DEF Init
  <2> QED
    BY <2>1, Zenon DEF Init, TypeOK
<1>2. ~vip /\ script = "stop" /\ \A t \in Thread : at[t] = "idle"
  BY DEF Init
<1> QED
  BY <1>1, <1>2 DEF NodeInv, AloneInv, Progress, ScriptFollowsVip

(* What a command leaves alone, and the place it moves its thread to.         *)
LEMMA RunsType ==
    ASSUME TypeOK, NEW t \in Thread, NEW c \in Command, Runs(t, c)
    PROVE  /\ at' \in [Thread -> Command \cup {"idle"}]
           /\ alive' \in BOOLEAN /\ trouble' \in BOOLEAN /\ health' \in BOOLEAN
           /\ host_vip' \in BOOLEAN /\ host_ss' \in BOOLEAN
           /\ main' \in {"top", "wait"}
           /\ status' \in {"check", "publish", "plugins"}
           /\ check_vip_ret' \in BOOLEAN
<1>1. at' \in [Thread -> Command \cup {"idle"}]
  BY FollowingType DEF TypeOK, Runs
<1> QED
  BY <1>1 DEF TypeOK, Runs, statusVars

(* Thread t, alone in a call, moves on to place n and keeps n's promise.      *)
LEMMA MoveInv ==
    ASSUME NodeInv, NEW t \in Thread, NEW n \in Command \cup {"idle"},
           ~mixed, at[t] # "idle", at' = [at EXCEPT ![t] = n],
           Progress(n)', n = "idle" => ScriptFollowsVip'
    PROVE  AloneInv'
<1>1. \A u \in Thread \ {t} : at[u] = "idle" /\ at'[u] = "idle"
  BY DEF NodeInv, TypeOK, AloneInv
<1>2. at'[t] = n
  BY DEF NodeInv, TypeOK
<1>3. \A u \in Thread : Progress(at[u])'
  BY <1>1, <1>2 DEF Progress
<1>4. ScriptFollowsVip'
  BY <1>2 DEF ScriptFollowsVip, Idle
<1> QED
  BY <1>1, <1>2, <1>3, <1>4 DEF AloneInv

(* A command of thread t: it does what the place after it promises.           *)
LEMMA CallStepInv ==
    ASSUME NodeInv, NEW t \in Thread, CallStep(t) \/ IpAddrFails(t)
    PROVE  NodeInv'
<1>1. ASSUME NEW c \in Command, Runs(t, c)
      PROVE  /\ at' = [at EXCEPT ![t] = Following(t, c)] /\ at[t] = c
             /\ Following(t, c) \in Command \cup {"idle"} /\ c # "idle"
             /\ ~mixed => Progress(c)
  BY <1>1, FollowingType DEF Runs, NodeInv, AloneInv, Command
<1>2. CASE IpAddr(t)
  <2>1. PICK c \in {"add", "delete"} :
          /\ Runs(t, c)
          /\ vip' = (c = "add")
          /\ UNCHANGED <<script, mixed, took, events>>
    BY <1>2 DEF IpAddr
  <2>2. vip' \in BOOLEAN /\ (vip' <=> c = "add")
    BY <2>1, Zenon
  <2>3. TypeOK'
    BY <2>1, <2>2, RunsType DEF NodeInv, TypeOK, Command
  <2>4. Following(t, c) # "idle" /\ Progress(Following(t, c))'
    BY <2>1, <2>2 DEF Following, Progress
  <2>5. ~mixed => AloneInv'
    BY <1>1, <2>1, <2>4, MoveInv DEF Command
  <2> QED
    BY <2>1, <2>3, <2>5 DEF NodeInv, AloneInv
<1>3. CASE SendArp(t)
  <2>1. Runs(t, "arp") /\ UNCHANGED <<vip, script, mixed, took, events>>
    BY <1>3 DEF SendArp, cardVars
  <2>2. TypeOK'
    BY <2>1, RunsType DEF NodeInv, TypeOK, Command
  <2>3. Following(t, "arp") # "idle" /\ (~mixed => Progress(Following(t, "arp"))')
    BY <1>1, <2>1 DEF Following, Progress, Command
  <2>4. ~mixed => AloneInv'
    BY <1>1, <2>1, <2>3, MoveInv DEF Command
  <2> QED
    BY <2>1, <2>2, <2>4 DEF NodeInv, AloneInv
<1>4. CASE RunScript(t)
  <2>1. PICK c \in {"start", "stop"} :
          /\ Runs(t, c)
          /\ script' = c
          /\ UNCHANGED <<vip, mixed, took, events>>
    BY <1>4 DEF RunScript
  <2>2. TypeOK'
    BY <2>1, RunsType DEF NodeInv, TypeOK, Command
  <2>3. ~mixed => Progress(Following(t, c))' /\ ScriptFollowsVip'
    BY <1>1, <2>1 DEF Following, Progress, Command, ScriptFollowsVip
  <2>4. ~mixed => AloneInv'
    BY <1>1, <2>1, <2>3, MoveInv DEF Command
  <2> QED
    BY <2>1, <2>2, <2>4 DEF NodeInv, AloneInv
<1>5. CASE SetFlag(t)
  <2>1. PICK c \in {"on", "off"} :
          /\ Runs(t, c)
          /\ took' = (c = "on")
          /\ UNCHANGED <<vip, script, mixed, events>>
    BY <1>5 DEF SetFlag, cardVars
  <2>2. took' \in BOOLEAN
    BY <2>1, Zenon
  <2>3. TypeOK'
    BY <2>1, <2>2, RunsType DEF NodeInv, TypeOK, Command
  <2>4. ~mixed => Progress(Following(t, c))' /\ ScriptFollowsVip'
    BY <1>1, <2>1 DEF Following, Progress, Command, ScriptFollowsVip
  <2>5. ~mixed => AloneInv'
    BY <1>1, <2>1, <2>4, MoveInv DEF Command
  <2> QED
    BY <2>1, <2>3, <2>5 DEF NodeInv, AloneInv
<1>6. CASE IpAddrFails(t)
  <2>1. PICK c \in {"add", "delete"} : Runs(t, c)
    BY <1>6 DEF IpAddrFails
  <2>2. TypeOK'
    BY <1>6, <2>1, RunsType DEF IpAddrFails, Happens, NodeInv, TypeOK, Command
  <2> QED
    BY <1>6, <2>2 DEF IpAddrFails, NodeInv, AloneInv
<1> QED
  BY <1>2, <1>3, <1>4, <1>5, <1>6 DEF CallStep

LEMMA CallsType ==
    ASSUME TypeOK, NEW t \in Thread, NEW call \in Command, Calls(t, call)
    PROVE  at' \in [Thread -> Command \cup {"idle"}] /\ mixed' \in BOOLEAN
<1>1. mixed' \in BOOLEAN
  BY Zenon DEF Calls
<1>2. at' = [at EXCEPT ![t] = call]
  BY DEF Calls
<1> QED
  BY <1>1, <1>2 DEF TypeOK

(* A call starts at its first command, which promises nothing yet.            *)
LEMMA CallsInv ==
    ASSUME NodeInv, NEW t \in Thread, at[t] = "idle", UNCHANGED <<vip, script>>,
           NEW call \in {take_over_resources, release_resources}, Calls(t, call)
    PROVE  AloneInv'
<1> SUFFICES ASSUME ~mixed' PROVE AloneInv'
  BY DEF AloneInv
<1>1. \A u \in Thread \ {t} : at[u] = "idle" /\ at'[u] = "idle"
  BY DEF Calls, NodeInv, TypeOK
<1>2. at'[t] = call /\ call \in {"add", "delete"}
  BY DEF Calls, NodeInv, TypeOK, take_over_resources, release_resources
<1> QED
  BY <1>1, <1>2 DEF AloneInv, Progress, ScriptFollowsVip, Idle

(* A step that leaves the card and the threads where they are.                *)
LEMMA OtherInv ==
    ASSUME NodeInv, UNCHANGED <<cardVars, at>>
    PROVE  AloneInv'
  BY DEF NodeInv, AloneInv, Progress, ScriptFollowsVip, Idle, cardVars

LEMMA StepInv == NodeInv /\ [Next]_vars => NodeInv'
<1> SUFFICES ASSUME NodeInv, [Next]_vars PROVE NodeInv'
  OBVIOUS
<1>1. ASSUME NEW t \in Thread, CallStep(t) \/ IpAddrFails(t) PROVE NodeInv'
  BY <1>1, CallStepInv
<1>2. CASE Turn
  BY <1>2, OtherInv
     DEF Turn, InMain, NodeInv, TypeOK, cardVars, statusVars, Thread, Command
<1>3. CASE PeerLost
  <2>0. mixed' \in BOOLEAN
    BY <1>3, Zenon DEF PeerLost, InMain, Calls, NodeInv, TypeOK
  <2>1. TypeOK'
    BY <1>3, <2>0 DEF PeerLost, InMain, Calls, take_over_resources, release_resources,
                NodeInv, TypeOK, statusVars, Thread, Command
  <2>2. AloneInv'
    <3>1. CASE UNCHANGED <<at, mixed>>
      BY <1>3, <3>1, OtherInv DEF PeerLost, InMain, cardVars
    <3>2. CASE \E call \in {take_over_resources, release_resources} : Calls("main", call)
      BY <1>3, <3>2, CallsInv DEF PeerLost, InMain, Thread
    <3> QED
      BY <1>3, <3>1, <3>2 DEF PeerLost
  <2> QED
    BY <2>1, <2>2 DEF NodeInv
<1>4. CASE PeerOrders
  <2>0. /\ took' \in BOOLEAN /\ mixed' \in BOOLEAN
        /\ at' \in [Thread -> Command \cup {"idle"}]
    <3>1. took' \in BOOLEAN
      BY <1>4, Zenon DEF PeerOrders, NodeInv, TypeOK
    <3>2. CASE UNCHANGED <<at, mixed>>
      BY <3>1, <3>2 DEF NodeInv, TypeOK
    <3>3. CASE Calls("main", take_over_resources) \/ Calls("main", release_resources)
      BY <3>1, <3>3, CallsType
         DEF NodeInv, take_over_resources, release_resources, Thread, Command
    <3> QED
      BY <1>4, <3>2, <3>3 DEF PeerOrders
  <2>1. TypeOK'
    <3>1. InMain("top") /\ Happens("order")
      BY <1>4 DEF PeerOrders
    <3> QED
      BY <2>0, <3>1 DEF InMain, Happens, NodeInv, TypeOK, statusVars
  <2>2. AloneInv'
    <3>1. CASE UNCHANGED <<at, mixed>>
      BY <1>4, <3>1, OtherInv DEF PeerOrders, InMain, cardVars
    <3>2. CASE \E call \in {take_over_resources, release_resources} : Calls("main", call)
      BY <1>4, <3>2, CallsInv DEF PeerOrders, InMain, Thread
    <3> QED
      BY <1>4, <3>1, <3>2 DEF PeerOrders
  <2> QED
    BY <2>1, <2>2 DEF NodeInv
<1>5. CASE ManualSwitch
  <2>0. mixed' \in BOOLEAN /\ at' \in [Thread -> Command \cup {"idle"}]
    BY <1>5, CallsType DEF ManualSwitch, NodeInv, take_over_resources,
                           release_resources, Thread, Command
  <2>1. TypeOK'
    <3>1. /\ Happens("manual") /\ trouble' = TRUE
          /\ UNCHANGED <<alive, main, cacheVars, statusVars, vip, script, health>>
      BY <1>5 DEF ManualSwitch
    <3> QED
      BY <2>0, <3>1 DEF Happens, NodeInv, TypeOK, cacheVars, statusVars
  <2>2. AloneInv'
    BY <1>5, CallsInv DEF ManualSwitch, Thread
  <2> QED
    BY <2>1, <2>2 DEF NodeInv
<1>6. CASE StatusStep \/ CheckVipFails
  <2>1. UNCHANGED <<cardVars, at>>
    BY <1>6 DEF StatusStep, CheckVip, PublishVip, RunAllPlugin, CheckVipFails,
                InStatus, procVars
  <2>2. CASE CheckVip
    <3>1. check_virtual_ip \in BOOLEAN
      BY DEF check_virtual_ip, NodeInv, TypeOK, NodeAssumption
    <3>2. TypeOK'
      BY <2>2, <3>1 DEF CheckVip, InStatus, NodeInv, TypeOK, procVars, cardVars, cacheVars
    <3> QED
      BY <2>1, <3>2, OtherInv DEF NodeInv
  <2>3. CASE CheckVipFails
    <3>1. TypeOK'
      BY <2>3 DEF CheckVipFails, Happens, InStatus, NodeInv, TypeOK,
                  procVars, cardVars, cacheVars
    <3> QED
      BY <2>1, <3>1, OtherInv DEF NodeInv
  <2>4. CASE PublishVip
    <3>1. TypeOK'
      BY <2>4 DEF PublishVip, InStatus, NodeInv, TypeOK, procVars, cardVars
    <3> QED
      BY <2>1, <3>1, OtherInv DEF NodeInv
  <2>5. CASE RunAllPlugin
    <3>1. TypeOK'
      BY <2>5 DEF RunAllPlugin, InStatus, NodeInv, TypeOK, procVars, cardVars
    <3> QED
      BY <2>1, <3>1, OtherInv DEF NodeInv
  <2> QED
    BY <1>6, <2>2, <2>3, <2>4, <2>5 DEF StatusStep
<1>7. CASE Crash
  <2>0. mixed' \in BOOLEAN
    BY <1>7, Zenon DEF Crash
  <2>1. TypeOK'
    <3>1. /\ Happens("crash") /\ alive' = FALSE /\ at' = [t \in Thread |-> "idle"]
          /\ trouble' = FALSE /\ took' = FALSE /\ host_vip' = FALSE /\ host_ss' = FALSE
          /\ main' = "top" /\ status' = "check" /\ check_vip_ret' \in BOOLEAN
          /\ UNCHANGED <<vip, script, health>>
      BY <1>7 DEF Crash
    <3>2. at' \in [Thread -> Command \cup {"idle"}] /\ events' \in 0..MaxEvents
      BY <3>1 DEF Happens, NodeInv, TypeOK
    <3> QED
      BY <2>0, <3>1, <3>2 DEF NodeInv, TypeOK
  <2>2. AloneInv'
    <3> SUFFICES ASSUME ~mixed' PROVE AloneInv'
      BY DEF AloneInv
    <3>1. ~mixed /\ \A t \in Thread : at[t] = "idle" /\ at'[t] = "idle"
      BY <1>7 DEF Crash
    <3> QED
      BY <1>7, <3>1 DEF Crash, NodeInv, AloneInv, Progress, ScriptFollowsVip, Idle
  <2> QED
    BY <2>1, <2>2 DEF NodeInv
<1>8. CASE Restart
  <2>1. TypeOK'
    BY <1>8 DEF Restart, NodeInv, TypeOK, cardVars, cacheVars, statusVars
  <2> QED
    BY <1>8, <2>1, OtherInv DEF Restart, NodeInv
<1>10. CASE HealthFlip
  <2>1. TypeOK'
    BY <1>10 DEF HealthFlip, Happens, NodeInv, TypeOK, cardVars, cacheVars,
                 statusVars, procVars
  <2> QED
    BY <1>10, <2>1, OtherInv DEF HealthFlip, procVars, NodeInv
<1>9. CASE UNCHANGED vars
  <2>1. TypeOK'
    BY <1>9 DEF vars, NodeInv, TypeOK, cardVars, cacheVars, statusVars, procVars
  <2> QED
    BY <1>9, <2>1, OtherInv DEF vars, procVars, NodeInv
<1> QED
  BY <1>1, <1>2, <1>3, <1>4, <1>5, <1>6, <1>7, <1>8, <1>9, <1>10 DEF Next

(* TypeOK and ScriptFollowsVip hold of one node, whatever its events.         *)
THEOREM NodeCorrect == Spec => [](TypeOK /\ ScriptFollowsVip)
<1>1. NodeInv => TypeOK /\ ScriptFollowsVip
  BY DEF NodeInv, AloneInv, ScriptFollowsVip
<1> QED
  BY <1>1, InitInv, StepInv, PTL DEF Spec

=============================================================================
