------------------------------- MODULE HbNode -------------------------------
(* One node at the grain of single commands.  HbCluster moves the VIP in one  *)
(* step; here take_over_resources and release_resources are the commands they *)
(* run one after the other, any of which may fail, be interrupted by the end  *)
(* of the process, or be interleaved with the commands of the other thread    *)
(* that moves resources: the main loop and the manual switch thread call the  *)
(* same two functions without a lock.  The status thread samples the card     *)
(* meanwhile, through a program that may be killed or misled.                 *)
(*                                                                            *)
(* The peer is an environment that is silent or sends orders.                 *)

EXTENDS HbPolicy, Naturals

CONSTANTS
    spelling,   \* how `ip addr` shows the VIP of ha.cf: exact, prefix or respelt
    ipv4,       \* the VIP's address family: only IPv4 is announced by ARP
    Events,     \* kinds of faults, orders and commands that may happen
    MaxEvents   \* bound on how many of them one behaviour has

ASSUME NodeAssumption ==
    /\ spelling \in {"exact", "prefix", "respelt"}
    /\ ipv4 \in BOOLEAN
    /\ Events \subseteq {"fail", "kill", "crash", "manual", "order", "health"}
    /\ MaxEvents \in Nat

VARIABLES
    vip,       \* the VIP is on the card
    script,    \* what the resource script was last told: start or stop
    health,    \* what run_all_plugin would return
    events,    \* events so far
    alive,     \* the process runs
    trouble,   \* a manual command has parked the main loop
    took,      \* client_/server_resources_takeover_status
    host_vip,  \* host_vip_status
    host_ss,   \* host_server_status
    main,      \* the main loop: at the top of a turn, or waiting for the peer
    at,        \* the command that each thread which moves resources runs next
    status,    \* the status thread: check, publish or plugins
    check_vip_ret, \* the status thread's local, read as "= 1"
    mixed      \* history: the last call on the resources did not run whole and alone

cardVars   == <<vip, script, mixed>>
cacheVars  == <<took, host_vip, host_ss>>
statusVars == <<status, check_vip_ret>>
procVars   == <<alive, trouble, main, at>>
vars == <<cardVars, cacheVars, statusVars, procVars, health, events>>

Thread  == {"main", "manual"}
Command == {"add", "arp", "start", "on", "delete", "stop", "off"}

(* Before the first start nothing is on the card.  check_vip_ret is not       *)
(* initialised.                                                               *)
Init ==
    /\ vip = FALSE /\ script = "stop" /\ mixed = FALSE
    /\ health \in BOOLEAN /\ events = 0
    /\ alive = TRUE /\ trouble = FALSE
    /\ took = FALSE /\ host_vip = FALSE /\ host_ss = FALSE
    /\ main = "top" /\ at = [t \in Thread |-> "idle"]
    /\ status = "check" /\ check_vip_ret \in BOOLEAN

Happens(kind) ==
    /\ kind \in Events /\ events < MaxEvents
    /\ events' = events + 1

-----------------------------------------------------------------------------
(* The two calls.  Each begins with its first command, whatever the card has. *)

take_over_resources == "add"
release_resources   == "delete"

(* Mutation: a release forgets the resource script.                           *)
Following_NoScript(t, c) ==
    CASE c = "add"    -> IF ipv4 THEN "arp" ELSE "start"
      [] c = "arp"    -> "start"
      [] c = "start"  -> IF t = "main" THEN "on" ELSE "idle"
      [] c = "delete" -> IF t = "main" THEN "off" ELSE "idle"
      [] OTHER        -> "idle"

(* The command after c.  "on" and "off" are the flag, which the callers in    *)
(* the main loop write after the call; the manual thread never does.          *)
Following(t, c) ==
    CASE c = "add"    -> IF ipv4 THEN "arp" ELSE "start"
      [] c = "arp"    -> "start"
      [] c = "start"  -> IF t = "main" THEN "on" ELSE "idle"
      [] c = "delete" -> "stop"
      [] c = "stop"   -> IF t = "main" THEN "off" ELSE "idle"
      [] OTHER        -> "idle"

(* Thread t enters a call.  It runs alone only if the other thread is in none. *)
Calls(t, call) ==
    /\ at' = [at EXCEPT ![t] = call]
    /\ mixed' = \E u \in Thread \ {t} : at[u] # "idle"

(* system_to_file: the command runs in a shell and its result is ignored.     *)
Runs(t, c) ==
    /\ alive /\ at[t] = c
    /\ at' = [at EXCEPT ![t] = Following(t, c)]
    /\ UNCHANGED <<alive, trouble, main, statusVars, health, host_vip, host_ss>>

IpAddr(t) ==
    \E c \in {"add", "delete"} :
      /\ Runs(t, c)
      /\ vip' = (c = "add")
      /\ UNCHANGED <<script, mixed, took, events>>

(* `ip addr` fails: the card keeps what it has and the call goes on.          *)
IpAddrFails(t) ==
    /\ \E c \in {"add", "delete"} : Runs(t, c)
    /\ Happens("fail")
    /\ mixed' = TRUE
    /\ UNCHANGED <<vip, script, took>>

(* send_arp -c 5 -w 5: seconds in which the call has taken and not started.   *)
SendArp(t) ==
    /\ Runs(t, "arp")
    /\ UNCHANGED <<cardVars, took, events>>

RunScript(t) ==
    \E c \in {"start", "stop"} :
      /\ Runs(t, c)
      /\ script' = c
      /\ UNCHANGED <<vip, mixed, took, events>>

SetFlag(t) ==
    \E c \in {"on", "off"} :
      /\ Runs(t, c)
      /\ took' = (c = "on")
      /\ UNCHANGED <<cardVars, events>>

-----------------------------------------------------------------------------
(* The main loop, of either role.                                             *)

InMain(next) ==
    /\ alive /\ at["main"] = "idle"
    /\ main' = next
    /\ UNCHANGED <<alive, trouble, statusVars, health, host_vip, host_ss, vip, script>>

(* trouble is read once, at the head of a turn.                               *)
Turn ==
    /\ main = "top" /\ ~trouble
    /\ InMain("wait")
    /\ UNCHANGED <<at, mixed, took, events>>

(* The peer is silent, gone or cannot be reached: the stand-alone policy, on  *)
(* the cached status, carried out if the flag says that it is not done.       *)
PeerLost ==
    /\ main = "wait"
    /\ LET act == policy_stand_alone_manager(host_ss, host_vip)
       IN  IF act = NOLINK_ACT_TAKEOVER /\ ~took
             THEN Calls("main", take_over_resources)
           ELSE IF act = NOLINK_ACT_RELEASE /\ took
             THEN Calls("main", release_resources)
           ELSE UNCHANGED <<at, mixed>>
    /\ InMain("top")
    /\ UNCHANGED <<took, events>>

(* GET_RES or FREED_RES: take; FREE_RES or a policy row for the backup:       *)
(* release; GOT_RES: the flag alone.  No flag is looked at.                   *)
PeerOrders ==
    /\ main = "wait"
    /\ Happens("order")
    /\ \/ Calls("main", take_over_resources) /\ UNCHANGED took
       \/ Calls("main", release_resources) /\ UNCHANGED took
       \/ took' = FALSE /\ UNCHANGED <<at, mixed>>
    /\ InMain("top")

(* manual_switch: park the main loop, then move the resources, wherever the   *)
(* main loop is.  The next datagram waits in the socket.                      *)
ManualSwitch ==
    /\ alive /\ at["manual"] = "idle"
    /\ Happens("manual")
    /\ trouble' = TRUE
    /\ \/ Calls("manual", release_resources)
       \/ Calls("manual", take_over_resources)
    /\ UNCHANGED <<alive, main, cacheVars, statusVars, vip, script, health>>

-----------------------------------------------------------------------------
(* The status thread                                                          *)

InStatus(from, to) ==
    /\ alive /\ status = from /\ status' = to
    /\ UNCHANGED <<cardVars, procVars, health>>

(* check-virtual-ip searches `ip addr`'s output for the VIP as a substring:   *)
(* another address that begins with it counts, and an IPv6 address that ha.cf *)
(* spells differently is never found.                                         *)
check_virtual_ip == CASE spelling = "exact"   -> vip
                      [] spelling = "prefix"  -> TRUE
                      [] spelling = "respelt" -> FALSE

CheckVip ==
    /\ InStatus("check", "publish")
    /\ check_vip_ret' = check_virtual_ip
    /\ UNCHANGED <<cacheVars, events>>

(* `ip addr` or the file under /tmp fails, and the answer is 0; or the        *)
(* program is killed or cannot be started, check_vip_ret is not assigned, and *)
(* whatever the stack holds is read as the sample.                            *)
CheckVipFails ==
    /\ InStatus("check", "publish")
    /\ Happens("kill")
    /\ check_vip_ret' \in BOOLEAN
    /\ UNCHANGED cacheVars

(* Mutation: a sample without the VIP does not clear the flags.               *)
PublishVip_OnlySets ==
    /\ InStatus("publish", "plugins")
    /\ took' = (took \/ check_vip_ret)
    /\ host_vip' = check_vip_ret
    /\ UNCHANGED <<host_ss, check_vip_ret, events>>

(* Mutation: the sample goes to host_vip_status, the flags are left alone.    *)
PublishVip_NoFlags ==
    /\ InStatus("publish", "plugins")
    /\ host_vip' = check_vip_ret
    /\ UNCHANGED <<took, host_ss, check_vip_ret, events>>

PublishVip ==
    /\ InStatus("publish", "plugins")
    /\ took' = check_vip_ret
    /\ host_vip' = check_vip_ret
    /\ UNCHANGED <<host_ss, check_vip_ret, events>>

(* run_all_plugin and the sleep.                                              *)
RunAllPlugin ==
    /\ InStatus("plugins", "check")
    /\ host_ss' = health
    /\ UNCHANGED <<took, host_vip, check_vip_ret, events>>

-----------------------------------------------------------------------------
(* The process and the host                                                   *)

(* The process ends, perhaps in the middle of a call: the card and the script *)
(* stay as they are.                                                          *)
Crash ==
    /\ alive /\ Happens("crash")
    /\ alive' = FALSE
    /\ mixed' = (mixed \/ \E t \in Thread : at[t] # "idle")
    /\ at' = [t \in Thread |-> "idle"]
    /\ trouble' = FALSE /\ took' = FALSE /\ host_vip' = FALSE /\ host_ss' = FALSE
    /\ main' = "top" /\ status' = "check" /\ check_vip_ret' \in BOOLEAN
    /\ UNCHANGED <<vip, script, health>>

Restart ==
    /\ ~alive
    /\ alive' = TRUE
    /\ UNCHANGED <<cardVars, cacheVars, statusVars, trouble, main, at, health, events>>

HealthFlip ==
    /\ Happens("health")
    /\ health' \in BOOLEAN
    /\ UNCHANGED <<cardVars, cacheVars, statusVars, procVars>>

CallStep(t) == IpAddr(t) \/ SendArp(t) \/ RunScript(t) \/ SetFlag(t)
StatusStep  == CheckVip \/ PublishVip \/ RunAllPlugin

Next ==
    \/ \E t \in Thread : CallStep(t) \/ IpAddrFails(t)
    \/ Turn \/ PeerLost \/ PeerOrders \/ ManualSwitch
    \/ StatusStep \/ CheckVipFails
    \/ Crash \/ Restart \/ HealthFlip

Spec == Init /\ [][Next]_vars

(* Commands end, and a loop without a peer times out.  Nothing is assumed of  *)
(* events or restarts.                                                        *)
Fairness ==
    /\ \A t \in Thread : WF_vars(CallStep(t))
    /\ WF_vars(StatusStep) /\ WF_vars(Turn) /\ WF_vars(PeerLost)

FairSpec == Spec /\ Fairness

-----------------------------------------------------------------------------
(* Every variable keeps its type.                                             *)
TypeOK ==
    /\ vip \in BOOLEAN /\ script \in {"start", "stop"} /\ mixed \in BOOLEAN
    /\ health \in BOOLEAN /\ events \in 0..MaxEvents
    /\ alive \in BOOLEAN /\ trouble \in BOOLEAN
    /\ took \in BOOLEAN /\ host_vip \in BOOLEAN /\ host_ss \in BOOLEAN
    /\ main \in {"top", "wait"}
    /\ status \in {"check", "publish", "plugins"} /\ check_vip_ret \in BOOLEAN
    /\ at \in [Thread -> Command \cup {"idle"}]

Idle == \A t \in Thread : at[t] = "idle"

(* One whole call that ran alone brings the card and the resource script back *)
(* together, whatever failed calls, crashes and overlapping calls left before *)
(* it (take_over_resources and release_resources test nothing first).         *)
ScriptFollowsVip == Idle /\ ~mixed => (vip <=> script = "start")

(* What the flag says of a card that does not change any more becomes true:   *)
(* after failed commands, killed checks and stale samples alike, the status   *)
(* thread's next rounds put the flag right (resource-mgr.cpp:709-718).        *)
FlagRepaired ==
    /\ <>[](alive /\ vip) => <>[]took
    /\ <>[](alive /\ ~vip /\ spelling = "exact") => <>[](~took)

(* A healthy node without a peer has the VIP in the end, although `ip addr    *)
(* add` may fail and check-virtual-ip be killed: the flag that the failed     *)
(* call set is cleared by the next sample, and the loop calls again.          *)
TakenInTheEnd == <>[](alive /\ health /\ ~trouble /\ spelling = "exact") => <>[]vip

=============================================================================
