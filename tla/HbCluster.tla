------------------------------ MODULE HbCluster ------------------------------
(* The heartbeat cluster: a primary node, whose process runs                  *)
(* start_by_client_mode, and a backup node, whose process runs                *)
(* start_by_server_mode (main.cpp).  Each process has three threads: the main *)
(* loop, the status thread (resource-mgr.cpp), and the thread that takes      *)
(* manual switch commands (main.cpp).  They share the cached status, the      *)
(* takeover flag and the trouble flag without any lock.  The virtual IP is    *)
(* kernel state and outlives the process.                                     *)
(*                                                                            *)
(* The links of the code to this module are: cfd and sfd are the sockets the  *)
(* client and the server loop work on, backlog the connections that wait on   *)
(* lfd, and each connection is a pair of byte streams of telegrams.           *)

EXTENDS HbPolicy, Telegram

CONSTANTS
    Conns,         \* identities of TCP connections
    NoFd,          \* no socket
    auto_failback, \* ha.cf: the primary takes a healthy backup's VIP back
    detect_times,  \* heartbeats between two status requests
    DeadTicks,     \* deadtime in units of keepalive, rounded up
    AtomicStatus,  \* a round of the status thread is one step, not three
    Faults,        \* kinds of faults and commands that may happen
    MaxEvents,     \* bound on how many of them one behaviour has
    MaxQueue       \* bound on the unread telegrams of the client

ASSUME ClusterAssumption ==
    /\ NoFd \notin Conns
    /\ auto_failback \in BOOLEAN
    /\ detect_times \in Nat
    /\ DeadTicks \in Nat
    /\ AtomicStatus \in BOOLEAN
    /\ Faults \subseteq {"manual", "crash", "cut", "health", "late"}
    /\ MaxEvents \in Nat
    /\ MaxQueue \in Nat \ {0}

primary == "primary"
backup  == "backup"
Node    == {primary, backup}

Peer(n) == IF n = primary THEN backup ELSE primary

VARIABLES
    link,     \* the network between the nodes delivers
    events,   \* faults and commands so far
    alive,    \* the heartbeat process runs
    health,   \* what the plugins would find now
    vip,      \* the VIP is on the node's network card
    trouble,  \* a manual command has parked the main loop
    took,     \* client_/server_resources_takeover_status, the one the node reads
    host_vip, \* host_vip_status
    host_ss,  \* host_server_status
    status,   \* where the status thread is
    sampled,  \* check_vip_ret = 1

    cpc,                     \* where the client loop is
    cfd,                     \* the client's connection
    send_data,               \* what the client sends next
    none_package_send_times, \* heartbeats since the last status request
    try_time_sum,            \* time spent connecting, in units of keepalive

    spc,      \* where the server loop is
    sfd,      \* the server's accepted connection
    backlog,  \* connections the server has not accepted yet

    cli_end,  \* the client's end of each connection: open, closed or gone
    srv_end,  \* the server's end
    c2s,      \* telegrams the client wrote and the server has not read
    s2c,      \* telegrams the server wrote and the client has not read

    late,     \* the client has timed out on its current connection
    solo      \* nodes that hold a VIP they took without their peer's release

envVars    == <<link, events>>
nodeVars   == <<alive, health, trouble>>
resVars    == <<vip, took, solo>>
cacheVars  == <<host_vip, host_ss>>
statusVars == <<status, sampled>>
clientVars == <<cpc, cfd, send_data, none_package_send_times, try_time_sum, late>>
serverVars == <<spc, sfd, backlog>>
connVars   == <<cli_end, srv_end, c2s, s2c>>
vars == <<envVars, nodeVars, resVars, cacheVars, statusVars, clientVars,
          serverVars, connVars>>

-----------------------------------------------------------------------------
(* Both hosts are up, neither process has been started.  (A dead process'      *)
(* variables are kept at the values it will start with.)                      *)
HostInit ==
    /\ link = TRUE
    /\ events = 0
    /\ alive = [n \in Node |-> FALSE]
    /\ health \in [Node -> BOOLEAN]
    /\ vip = [n \in Node |-> FALSE]
    /\ trouble = [n \in Node |-> FALSE]
    /\ took = [n \in Node |-> FALSE]
    /\ host_vip = [n \in Node |-> FALSE]
    /\ host_ss = [n \in Node |-> FALSE]
    /\ status = [n \in Node |-> "start"]
    /\ sampled = [n \in Node |-> FALSE]

Init ==
    /\ HostInit
    /\ cpc = "connect" /\ cfd = NoFd /\ send_data = trans_data_set_none
    /\ none_package_send_times = 0 /\ try_time_sum = 0 /\ late = FALSE
    /\ spc = "top" /\ sfd = NoFd /\ backlog = <<>>
    /\ cli_end = [c \in Conns |-> "closed"]
    /\ srv_end = [c \in Conns |-> "closed"]
    /\ c2s = [c \in Conns |-> <<>>]
    /\ s2c = [c \in Conns |-> <<>>]
    /\ solo = {}

-----------------------------------------------------------------------------
(* Resources                                                                  *)

(* take_over_resources and release_resources, with the flag that every caller *)
(* in the main loop writes after them.  `ip addr add` of an address that is   *)
(* there already changes nothing.  A node whose right to take the VIP does    *)
(* not come from its peer's release is added to solo.                         *)
TakeOver(n, alone) ==
    /\ vip'  = [vip EXCEPT ![n] = TRUE]
    /\ took' = [took EXCEPT ![n] = TRUE]
    /\ solo' = IF alone /\ ~vip[n] THEN solo \cup {n} ELSE solo

(* Mutation: a node that thinks it has nothing releases nothing.              *)
Release_WhenFlagged(n) ==
    IF took[n]
      THEN /\ vip'  = [vip EXCEPT ![n] = FALSE]
           /\ took' = [took EXCEPT ![n] = FALSE]
           /\ solo' = solo \ {n}
      ELSE UNCHANGED resVars

Release(n) ==
    /\ vip'  = [vip EXCEPT ![n] = FALSE]
    /\ took' = [took EXCEPT ![n] = FALSE]
    /\ solo' = solo \ {n}

(* What each loss of the peer does: policy_stand_alone_manager on the cached  *)
(* status, carried out only when the takeover flag says that it is not done.  *)
StandAlone(n) ==
    LET act == policy_stand_alone_manager(host_ss[n], host_vip[n])
    IN  IF act = NOLINK_ACT_TAKEOVER /\ ~took[n] THEN TakeOver(n, TRUE)
        ELSE IF act = NOLINK_ACT_RELEASE /\ took[n] THEN Release(n)
        ELSE UNCHANGED resVars

-----------------------------------------------------------------------------
(* Connections                                                                *)

Free(c) == cli_end[c] # "open" /\ srv_end[c] # "open"

(* One side's end of c leaves "open": closed when a FIN or RST tells the      *)
(* peer, gone when the host lost power and nothing does.  What was sent to    *)
(* that end is lost.  Once both ends have left, how they did is forgotten.    *)
EndsWith(own, other, c, how) ==
    IF other[c] = "open"
      THEN [own EXCEPT ![c] = how] ELSE [own EXCEPT ![c] = "closed"]

ClientEnds(c, how) ==
    /\ cli_end' = EndsWith(cli_end, srv_end, c, how)
    /\ srv_end' = [srv_end EXCEPT ![c] = IF @ = "gone" THEN "closed" ELSE @]
    /\ s2c' = [s2c EXCEPT ![c] = <<>>]
    /\ UNCHANGED c2s

ServerEnds(C, how) ==
    /\ srv_end' = [c \in Conns |->
                     IF c \in C THEN EndsWith(srv_end, cli_end, c, how)[c]
                                ELSE srv_end[c]]
    /\ cli_end' = [c \in Conns |->
                     IF c \in C /\ cli_end[c] = "gone" THEN "closed" ELSE cli_end[c]]
    /\ c2s' = [c \in Conns |-> IF c \in C THEN <<>> ELSE c2s[c]]
    /\ UNCHANGED s2c

-----------------------------------------------------------------------------
(* The client: start_by_client_mode                                           *)

(* connect succeeds as soon as the server's kernel has queued the connection. *)
ConnectOk ==
    /\ alive[primary] /\ cpc = "connect"
    /\ link /\ alive[backup]
    /\ \E c \in Conns :
         /\ Free(c)
         /\ cfd' = c
         /\ cli_end' = [cli_end EXCEPT ![c] = "open"]
         /\ srv_end' = [srv_end EXCEPT ![c] = "open"]
         /\ backlog' = Append(backlog, c)
    /\ send_data' = trans_data_set_get_server_status
    /\ cpc' = "top"
    /\ late' = FALSE
    /\ UNCHANGED <<envVars, nodeVars, resVars, cacheVars, statusVars, spc, sfd,
                   c2s, s2c, none_package_send_times, try_time_sum>>

(* connect fails.  Once the attempts add up to deadtime the client acts alone *)
(* and starts counting again; the count also runs while trouble is set, but   *)
(* then nothing is done about it.  (A count beyond deadtime is deadtime.)     *)
ConnectFail ==
    /\ alive[primary] /\ cpc = "connect"
    /\ ~link \/ ~alive[backup]
    /\ IF ~trouble[primary] /\ try_time_sum >= DeadTicks
         THEN StandAlone(primary) /\ try_time_sum' = 0
         ELSE /\ try_time_sum' = IF try_time_sum < DeadTicks
                                   THEN try_time_sum + 1 ELSE DeadTicks
              /\ UNCHANGED resVars
    /\ UNCHANGED <<envVars, nodeVars, cacheVars, statusVars, cpc, cfd, send_data,
                   none_package_send_times, late, serverVars, connVars>>

(* The head of the loop: unless trouble is set, write send_data and wait.  A  *)
(* write to an end that is closed or gone succeeds and is lost.  MaxQueue is  *)
(* a bound: with as many telegrams unread, a heartbeat counts as merged into  *)
(* the one before it (which is what the server's Read may do), and another    *)
(* message waits.                                                             *)
Send ==
    /\ alive[primary] /\ cpc = "top" /\ ~trouble[primary]
    /\ LET full == Len(c2s[cfd]) >= MaxQueue
       IN  /\ full => send_data = trans_data_set_none
           /\ c2s' = IF full \/ srv_end[cfd] # "open" THEN c2s
                     ELSE [c2s EXCEPT ![cfd] = Append(@, send_data)]
    /\ send_data' = trans_data_set_none
    /\ cpc' = "wait"
    /\ UNCHANGED <<envVars, nodeVars, resVars, cacheVars, statusVars, cfd,
                   none_package_send_times, try_time_sum, late, serverVars,
                   cli_end, srv_end, s2c>>

(* Read returns what has arrived: at least one telegram, perhaps several.     *)
ClientReads(m) ==
    /\ alive[primary] /\ cpc = "wait" /\ link
    /\ \E k \in 1..Len(s2c[cfd]) :
         /\ m = Coalesced(SubSeq(s2c[cfd], 1, k))
         /\ s2c' = [s2c EXCEPT ![cfd] = SubSeq(@, k + 1, Len(@))]
    /\ UNCHANGED <<envVars, nodeVars, cacheVars, statusVars, cfd, try_time_sum, late,
                   serverVars, cli_end, srv_end, c2s>>

(* Mutation: every answer counts, not only those that call for a heartbeat.   *)
Prepare_CountsAll(next) ==
    LET due == none_package_send_times + 1 >= detect_times
    IN  /\ send_data' = IF due THEN trans_data_set_get_server_status ELSE next
        /\ none_package_send_times' = IF due THEN 0 ELSE none_package_send_times + 1
        /\ cpc' = "top"

(* The end of the loop body: count the heartbeats and overwrite what comes    *)
(* next with a status request when it is due.                                 *)
Prepare(next) ==
    LET times == none_package_send_times
                   + IF next.type = TRANS_TYPE_HEARTBEAT THEN 1 ELSE 0
        due   == times >= detect_times
    IN  /\ send_data' = IF due THEN trans_data_set_get_server_status ELSE next
        /\ none_package_send_times' = IF due THEN 0 ELSE times
        /\ cpc' = "top"

(* Mutation: GOT_RES handled as FREED_RES.                                    *)
GotRes_Takes ==
    /\ ClientReads(reply_action(GOT_RES))
    /\ TakeOver(primary, late)
    /\ Prepare(trans_data_set_none)

(* REPLY_ACTION/GOT_RES: the backup has the resources.                        *)
GotRes ==
    /\ ClientReads(reply_action(GOT_RES))
    /\ took' = [took EXCEPT ![primary] = FALSE]
    /\ Prepare(trans_data_set_none)
    /\ UNCHANGED <<vip, solo>>

(* REPLY_ACTION/FREED_RES: the backup has released, the primary takes over.   *)
FreedRes ==
    /\ ClientReads(reply_action(FREED_RES))
    /\ TakeOver(primary, late)
    /\ Prepare(trans_data_set_none)

(* Mutation: a primary that sees the VIP on its card orders nothing.          *)
ReplyServerStatus_KeepsBoth ==
    \E b_ss, b_vip \in BOOLEAN :
      LET policy == policy_online_manager(host_ss[primary], host_vip[primary],
                                          auto_failback, b_ss, b_vip)
      IN  /\ ClientReads(reply_server_status(b_ss, b_vip))
          /\ IF policy = LINK_ACT_BACKUP_NODE_TAKEOVER
               THEN Release(primary) /\ Prepare(trans_data_set_action(GET_RES))
               ELSE /\ Prepare(IF policy = LINK_ACT_DO_NOTHING \/ host_vip[primary]
                                 THEN trans_data_set_none
                                 ELSE trans_data_set_action(FREE_RES))
                    /\ UNCHANGED resVars

(* REPLY_SERVER_STATUS: decide between the two nodes.                         *)
ReplyServerStatus ==
    \E b_ss, b_vip \in BOOLEAN :
      LET policy == policy_online_manager(host_ss[primary], host_vip[primary],
                                          auto_failback, b_ss, b_vip)
      IN  /\ ClientReads(reply_server_status(b_ss, b_vip))
          /\ \/ /\ policy = LINK_ACT_DO_NOTHING
                /\ Prepare(trans_data_set_none)
                /\ UNCHANGED resVars
             \/ /\ policy = LINK_ACT_BACKUP_NODE_TAKEOVER
                /\ Release(primary)
                /\ Prepare(trans_data_set_action(GET_RES))
             \/ /\ policy = LINK_ACT_PRIMARY_NODE_TAKEOVER
                /\ Prepare(trans_data_set_action(FREE_RES))
                /\ UNCHANGED resVars

ClientHeartbeat ==
    /\ ClientReads(trans_data_set_none)
    /\ Prepare(trans_data_set_none)
    /\ UNCHANGED resVars

(* select timed out.  The client acts alone, stays on the connection and      *)
(* sends a heartbeat: whatever the server still answers comes later than the  *)
(* client expects it.                                                         *)
ClientTimesOut ==
    /\ alive[primary] /\ cpc = "wait"
    /\ StandAlone(primary)
    /\ send_data' = trans_data_set_none
    /\ cpc' = "top"
    /\ late' = TRUE
    /\ UNCHANGED <<link, nodeVars, cacheVars, statusVars, cfd,
                   none_package_send_times, try_time_sum, serverVars, connVars>>

(* Nothing will come before deadtime is over: the network is cut, the server  *)
(* host is down (once it is back, its kernel answers with a RST), the server  *)
(* loop is parked or busy with an older connection.                           *)
ServerSilent ==
    \/ ~link
    \/ /\ s2c[cfd] = <<>>
       /\ \/ srv_end[cfd] = "gone" /\ ~alive[backup]
          \/ trouble[backup] /\ spc = "top"
          \/ sfd \notin {NoFd, cfd}

ClientTimeout == ClientTimesOut /\ ServerSilent /\ UNCHANGED events

ClientDrops ==
    /\ ClientEnds(cfd, "closed")
    /\ cfd' = NoFd
    /\ cpc' = "connect"
    /\ send_data' = trans_data_set_none
    /\ late' = FALSE
    /\ UNCHANGED <<envVars, nodeVars, cacheVars, statusVars,
                   none_package_send_times, try_time_sum, serverVars>>

(* Read returned 0: the server closed the connection.                         *)
ClientEof ==
    /\ alive[primary] /\ cpc = "wait" /\ link
    /\ srv_end[cfd] = "closed" /\ s2c[cfd] = <<>>
    /\ StandAlone(primary)
    /\ ClientDrops

(* Mutation: an error on the socket is ignored and the loop goes on.          *)
ClientError_Continues ==
    /\ alive[primary] /\ cpc = "wait" /\ ~link
    /\ cpc' = "top"
    /\ UNCHANGED <<envVars, nodeVars, resVars, cacheVars, statusVars, cfd, send_data,
                   none_package_send_times, try_time_sum, late, serverVars, connVars>>

(* write, select or read failed: the client reconnects and decides nothing.   *)
ClientError ==
    /\ alive[primary]
    /\ cpc = "wait" \/ (cpc = "top" /\ ~trouble[primary])
    /\ ~link \/ srv_end[cfd] # "open"
    /\ ClientDrops
    /\ UNCHANGED resVars

ClientStep ==
    \/ ConnectOk \/ ConnectFail \/ Send
    \/ GotRes \/ FreedRes \/ ReplyServerStatus \/ ClientHeartbeat
    \/ ClientTimeout \/ ClientEof \/ ClientError

-----------------------------------------------------------------------------
(* The server: start_by_server_mode                                           *)

(* Mutation: trouble is not looked at.                                        *)
Select_Always ==
    /\ alive[backup] /\ spc = "top"
    /\ spc' = "select"
    /\ UNCHANGED <<envVars, nodeVars, resVars, cacheVars, statusVars, clientVars,
                   sfd, backlog, connVars>>

(* The heads of both loops: unless trouble is set, select on lfd when there   *)
(* is no client and on the client's socket when there is one.                 *)
Select ==
    /\ alive[backup] /\ spc = "top" /\ ~trouble[backup]
    /\ spc' = "select"
    /\ UNCHANGED <<envVars, nodeVars, resVars, cacheVars, statusVars, clientVars,
                   sfd, backlog, connVars>>

Accept ==
    /\ alive[backup] /\ spc = "select" /\ sfd = NoFd /\ backlog # <<>>
    /\ sfd' = Head(backlog)
    /\ backlog' = Tail(backlog)
    /\ spc' = "top"
    /\ UNCHANGED <<envVars, nodeVars, resVars, cacheVars, statusVars, clientVars,
                   connVars>>

(* Mutation: nobody connects, and the server keeps waiting.                   *)
AcceptTimesOut_Waits ==
    /\ alive[backup] /\ spc = "select" /\ sfd = NoFd /\ backlog = <<>>
    /\ spc' = "top"
    /\ UNCHANGED <<link, nodeVars, resVars, cacheVars, statusVars, clientVars, sfd,
                   backlog, connVars>>

(* No connection came for deadtime.                                           *)
AcceptTimesOut ==
    /\ alive[backup] /\ spc = "select" /\ sfd = NoFd /\ backlog = <<>>
    /\ StandAlone(backup)
    /\ spc' = "top"
    /\ UNCHANGED <<link, nodeVars, cacheVars, statusVars, clientVars, sfd, backlog,
                   connVars>>

(* Nobody will connect before deadtime is over: the network is cut, or the    *)
(* client does not run or is parked on a connection of its own.               *)
NobodyConnects ==
    ~link \/ ~alive[primary] \/ (trouble[primary] /\ cpc = "top")

AcceptTimeout == AcceptTimesOut /\ NobodyConnects /\ UNCHANGED events

(* Read one or more telegrams, handle them as the one message m and write     *)
(* the reply.  A reply to a client that has closed is lost, or its write      *)
(* fails and the server closes the connection, having handled the message.    *)
ServerAnswers(m, reply) ==
    /\ alive[backup] /\ spc = "select" /\ sfd # NoFd /\ link
    /\ \E k \in 1..Len(c2s[sfd]) :
         /\ m = Coalesced(SubSeq(c2s[sfd], 1, k))
         /\ \/ /\ c2s' = [c2s EXCEPT ![sfd] = SubSeq(@, k + 1, Len(@))]
               /\ s2c' = IF cli_end[sfd] = "open"
                           THEN [s2c EXCEPT ![sfd] = Append(@, reply)] ELSE s2c
               /\ UNCHANGED <<sfd, cli_end, srv_end>>
            \/ /\ cli_end[sfd] # "open"
               /\ ServerEnds({sfd}, "closed")
               /\ sfd' = NoFd
    /\ spc' = "top"
    /\ UNCHANGED <<envVars, nodeVars, cacheVars, statusVars, clientVars, backlog>>

(* ACTION/GET_RES: the primary has released, the backup takes over.           *)
GetRes ==
    /\ ServerAnswers(trans_data_set_action(GET_RES), reply_action(GOT_RES))
    /\ TakeOver(backup, FALSE)

(* Mutation: the release is acknowledged and not done.                        *)
FreeRes_NoRelease ==
    /\ ServerAnswers(trans_data_set_action(FREE_RES), reply_action(FREED_RES))
    /\ UNCHANGED resVars

(* ACTION/FREE_RES: release first, then say so.                               *)
FreeRes ==
    /\ ServerAnswers(trans_data_set_action(FREE_RES), reply_action(FREED_RES))
    /\ Release(backup)

(* GET_SERVER_STATUS: report the cached status.                               *)
GetServerStatus ==
    /\ ServerAnswers(trans_data_set_get_server_status,
                     reply_server_status(host_ss[backup], host_vip[backup]))
    /\ UNCHANGED resVars

(* Mutation: the server asks for the status, too.                             *)
ServerHeartbeat_Asks ==
    /\ ServerAnswers(trans_data_set_none, trans_data_set_get_server_status)
    /\ UNCHANGED resVars

ServerHeartbeat ==
    /\ ServerAnswers(trans_data_set_none, trans_data_set_none)
    /\ UNCHANGED resVars

ServerDrops ==
    /\ ServerEnds({sfd}, "closed")
    /\ sfd' = NoFd
    /\ spc' = "top"
    /\ UNCHANGED <<link, nodeVars, cacheVars, statusVars, clientVars, backlog>>

(* Mutation: the silent client's socket is not closed.                        *)
ServerTimesOut_KeepsSocket ==
    /\ alive[backup] /\ spc = "select" /\ sfd # NoFd
    /\ StandAlone(backup)
    /\ spc' = "top"
    /\ UNCHANGED <<link, nodeVars, cacheVars, statusVars, clientVars, sfd, backlog,
                   connVars>>

(* select on the client's socket timed out: act alone and hang up.            *)
ServerTimesOut ==
    /\ alive[backup] /\ spc = "select" /\ sfd # NoFd
    /\ StandAlone(backup)
    /\ ServerDrops

ClientSilent ==
    \/ ~link
    \/ /\ c2s[sfd] = <<>>
       /\ cli_end[sfd] = "gone" \/ (trouble[primary] /\ cpc = "top")

ServerTimeout == ServerTimesOut /\ ClientSilent /\ UNCHANGED events

ServerEof ==
    /\ alive[backup] /\ spc = "select" /\ sfd # NoFd /\ link
    /\ cli_end[sfd] = "closed" /\ c2s[sfd] = <<>>
    /\ StandAlone(backup)
    /\ ServerDrops
    /\ UNCHANGED events

(* select or read failed: hang up and decide nothing.                         *)
ServerError ==
    /\ alive[backup] /\ spc = "select" /\ sfd # NoFd /\ link
    /\ cli_end[sfd] # "open"
    /\ ServerDrops
    /\ UNCHANGED <<events, resVars>>

ServerStep ==
    \/ Select \/ Accept \/ AcceptTimeout
    \/ GetRes \/ FreeRes \/ GetServerStatus \/ ServerHeartbeat
    \/ ServerTimeout \/ ServerEof \/ ServerError

-----------------------------------------------------------------------------
(* The status thread: get_local_server_status_datas_thread                    *)

(* check-virtual-ip looks for the VIP on the network cards.                   *)
CheckVip(n) ==
    /\ alive[n] /\ status[n] = "start"
    /\ sampled' = [sampled EXCEPT ![n] = vip[n]]
    /\ status' = [status EXCEPT ![n] = "checked"]
    /\ UNCHANGED <<envVars, nodeVars, resVars, cacheVars, clientVars, serverVars,
                   connVars>>

(* What it found, which may be over by now, goes into the takeover flags and  *)
(* into host_vip_status.                                                      *)
PublishVip(n) ==
    /\ alive[n] /\ status[n] = "checked"
    /\ took' = [took EXCEPT ![n] = sampled[n]]
    /\ host_vip' = [host_vip EXCEPT ![n] = sampled[n]]
    /\ sampled' = [sampled EXCEPT ![n] = FALSE]
    /\ status' = [status EXCEPT ![n] = "plugins"]
    /\ UNCHANGED <<envVars, nodeVars, vip, solo, host_ss, clientVars, serverVars,
                   connVars>>

(* run_all_plugin returns, and the thread sleeps.                             *)
RunAllPlugin(n) ==
    /\ alive[n] /\ status[n] = "plugins"
    /\ host_ss' = [host_ss EXCEPT ![n] = health[n]]
    /\ status' = [status EXCEPT ![n] = "start"]
    /\ UNCHANGED <<envVars, nodeVars, resVars, host_vip, sampled, clientVars,
                   serverVars, connVars>>

(* A whole round without anything in between, for the runs whose interest is  *)
(* elsewhere: CheckVip, PublishVip and RunAllPlugin one after the other.      *)
StatusRound(n) ==
    /\ alive[n] /\ status[n] = "start"
    /\ took' = [took EXCEPT ![n] = vip[n]]
    /\ host_vip' = [host_vip EXCEPT ![n] = vip[n]]
    /\ host_ss' = [host_ss EXCEPT ![n] = health[n]]
    /\ UNCHANGED <<envVars, nodeVars, vip, solo, statusVars, clientVars, serverVars,
                   connVars>>

StatusStep(n) ==
    \/ AtomicStatus /\ StatusRound(n)
    \/ ~AtomicStatus /\ (CheckVip(n) \/ PublishVip(n) \/ RunAllPlugin(n))

-----------------------------------------------------------------------------
(* The manual switch thread: manual_switch.  Both commands set trouble and    *)
(* act on the resources; neither writes the takeover flag, and nothing but a  *)
(* restart clears trouble.                                                    *)

Budget(kind) == kind \in Faults /\ events < MaxEvents /\ events' = events + 1

Standby(n) ==
    /\ alive[n] /\ Budget("manual")
    /\ trouble' = [trouble EXCEPT ![n] = TRUE]
    /\ vip' = [vip EXCEPT ![n] = FALSE]
    /\ solo' = solo \ {n}
    /\ UNCHANGED <<link, alive, health, took, cacheVars, statusVars, clientVars,
                   serverVars, connVars>>

Takeover(n) ==
    /\ alive[n] /\ Budget("manual")
    /\ trouble' = [trouble EXCEPT ![n] = TRUE]
    /\ vip' = [vip EXCEPT ![n] = TRUE]
    /\ solo' = IF vip[n] THEN solo ELSE solo \cup {n}
    /\ UNCHANGED <<link, alive, health, took, cacheVars, statusVars, clientVars,
                   serverVars, connVars>>

-----------------------------------------------------------------------------
(* The environment                                                            *)

Start(n) ==
    /\ ~alive[n]
    /\ alive' = [alive EXCEPT ![n] = TRUE]
    /\ UNCHANGED <<envVars, health, trouble, resVars, cacheVars, statusVars,
                   clientVars, serverVars, connVars>>

(* The process of n ends, and its sockets end how.                            *)
ClientDies(how) ==
    /\ cpc' = "connect" /\ cfd' = NoFd /\ send_data' = trans_data_set_none
    /\ none_package_send_times' = 0 /\ try_time_sum' = 0 /\ late' = FALSE
    /\ IF cfd = NoFd THEN UNCHANGED connVars ELSE ClientEnds(cfd, how)
    /\ UNCHANGED serverVars

ServerDies(how) ==
    /\ spc' = "top" /\ sfd' = NoFd /\ backlog' = <<>>
    /\ ServerEnds({c \in Conns : srv_end[c] = "open"}, how)
    /\ UNCHANGED clientVars

Dies(n, how) ==
    /\ alive[n] /\ Budget("crash")
    /\ alive'    = [alive EXCEPT ![n] = FALSE]
    /\ trouble'  = [trouble EXCEPT ![n] = FALSE]
    /\ took'     = [took EXCEPT ![n] = FALSE]
    /\ host_vip' = [host_vip EXCEPT ![n] = FALSE]
    /\ host_ss'  = [host_ss EXCEPT ![n] = FALSE]
    /\ status'   = [status EXCEPT ![n] = "start"]
    /\ sampled'  = [sampled EXCEPT ![n] = FALSE]
    /\ IF n = primary THEN ClientDies(how) ELSE ServerDies(how)
    /\ UNCHANGED <<link, health>>

LosesVip(n) ==
    /\ vip' = [vip EXCEPT ![n] = FALSE]
    /\ solo' = solo \ {n}

(* The process is killed.  The kernel closes its sockets and keeps the VIP.   *)
Crash(n) == Dies(n, "closed") /\ UNCHANGED <<vip, solo>>

(* `service infosec-heartbeat stop`: kill the process and delete the VIP.     *)
ServiceStop(n) == Dies(n, "closed") /\ LosesVip(n)

(* The host loses power: no FIN is sent, and the VIP is gone with it.         *)
PowerLoss(n) == Dies(n, "gone") /\ LosesVip(n)

Cut ==
    /\ link /\ Budget("cut")
    /\ link' = FALSE
    /\ UNCHANGED <<nodeVars, resVars, cacheVars, statusVars, clientVars, serverVars,
                   connVars>>

Heal ==
    /\ ~link
    /\ link' = TRUE
    /\ UNCHANGED <<events, nodeVars, resVars, cacheVars, statusVars, clientVars,
                   serverVars, connVars>>

HealthFlip(n) ==
    /\ Budget("health")
    /\ health' = [health EXCEPT ![n] = ~@]
    /\ UNCHANGED <<link, alive, trouble, resVars, cacheVars, statusVars, clientVars,
                   serverVars, connVars>>

(* A peer that is up, or the network, is slower than deadtime.                *)
LateAnswer  == ClientTimesOut /\ ~ServerSilent /\ Budget("late")
LateRequest == ServerTimesOut /\ ~ClientSilent /\ Budget("late")
LateConnect == AcceptTimesOut /\ ~NobodyConnects /\ Budget("late")

EnvironmentStep ==
    \/ Cut \/ Heal \/ LateAnswer \/ LateRequest \/ LateConnect
    \/ \E n \in Node : \/ Standby(n) \/ Takeover(n) \/ HealthFlip(n)
                       \/ Start(n) \/ Crash(n) \/ ServiceStop(n) \/ PowerLoss(n)

Next ==
    \/ ClientStep
    \/ ServerStep
    \/ \E n \in Node : StatusStep(n)
    \/ EnvironmentStep

Spec == Init /\ [][Next]_vars

(* Every thread of a running process keeps running: the loops never block     *)
(* for longer than deadtime, and the status thread sleeps detect_interval.    *)
Fairness ==
    /\ WF_vars(ClientStep)
    /\ WF_vars(ServerStep)
    /\ \A n \in Node : WF_vars(StatusStep(n))

FairSpec == Spec /\ Fairness

-----------------------------------------------------------------------------
(* Properties                                                                 *)

End == {"open", "closed", "gone"}

EnvType == link \in BOOLEAN /\ events \in 0..MaxEvents

HostType ==
    /\ alive \in [Node -> BOOLEAN] /\ health \in [Node -> BOOLEAN]
    /\ trouble \in [Node -> BOOLEAN]
    /\ host_vip \in [Node -> BOOLEAN] /\ host_ss \in [Node -> BOOLEAN]
    /\ status \in [Node -> {"start", "checked", "plugins"}]
    /\ sampled \in [Node -> BOOLEAN]

ResType ==
    vip \in [Node -> BOOLEAN] /\ took \in [Node -> BOOLEAN] /\ solo \subseteq Node

ClientType ==
    /\ cpc \in {"connect", "top", "wait"}
    /\ cfd \in Conns \cup {NoFd} /\ (cfd = NoFd <=> cpc = "connect")
    /\ send_data \in ClientMsg
    /\ none_package_send_times \in Nat /\ try_time_sum \in 0..DeadTicks
    /\ late \in BOOLEAN

ServerType ==
    /\ spc \in {"top", "select"} /\ sfd \in Conns \cup {NoFd}
    /\ backlog \in Seq(Conns)

ConnType ==
    /\ cli_end \in [Conns -> End] /\ srv_end \in [Conns -> End]
    /\ c2s \in [Conns -> Seq(ClientMsg)] /\ s2c \in [Conns -> Seq(ServerMsg)]

TypeOK ==
    EnvType /\ HostType /\ ResType /\ ClientType /\ ServerType /\ ConnType

(* At most one node holds the VIP on the strength of an orderly handover:     *)
(* when both hold it, one of them took it alone, by hand, or on an answer     *)
(* that came after its deadtime.  This is what the release on one node before *)
(* the take on the other (trans_data_generator) is for.                       *)
Exclusive ==
    \A m, n \in Node : vip[m] /\ vip[n] /\ m \notin solo /\ n \notin solo => m = n

(* The stream has no framing, and none is needed as long as nobody times out: *)
(* a connection then carries at most one telegram in both directions taken    *)
(* together, so no Read ever returns two of them.                             *)
Lockstep == cfd # NoFd /\ ~late => Len(c2s[cfd]) + Len(s2c[cfd]) <= 1

(* A primary that gives the VIP up because the backup should have it          *)
(* (policy_online_manager = 1) asks the backup to take it with the very next  *)
(* telegram: the status request that falls due must not replace the order.    *)
HandoverAnnounced ==
    [][cpc = "wait" /\ cpc' = "top" /\ s2c' # s2c /\ vip[primary] /\ ~vip'[primary]
         => send_data' = trans_data_set_action(GET_RES)]_vars

(* Once a manual command has parked the main loop, only a restart unparks it, *)
(* and the loop leaves the VIP where the last command put it, whatever the    *)
(* peer and the network do.                                                   *)
Parked(n) ==
    /\ alive[n] /\ trouble[n]
    /\ IF n = primary THEN cpc # "wait" ELSE spc = "top"

ParkedKeepsVip ==
    [][\A n \in Node : Parked(n) /\ events' = events
         => Parked(n)' /\ vip'[n] = vip[n]]_vars

(* A node that stays healthy and running, without a peer that answers, ends   *)
(* up with the VIP: the policy of the stand-alone table, carried out.         *)
Deserted(n) ==
    /\ alive[n] /\ health[n] /\ ~trouble[n]
    /\ ~link \/ ~alive[Peer(n)] \/ trouble[Peer(n)]

Failover == \A n \in Node : <>[]Deserted(n) => <>[]vip[n]

(* When faults and commands have ended and both loops run, a cluster with a   *)
(* healthy node settles: exactly one node keeps the VIP, and it is healthy.   *)
(* Whatever the partition or the timeouts left behind is repaired.            *)
Calm == link /\ \A n \in Node : alive[n] /\ ~trouble[n]
Serves(n) == vip[n] /\ ~vip[Peer(n)] /\ health[n]

Converge ==
    <>[](Calm /\ \E n \in Node : health[n]) => \E n \in Node : <>[]Serves(n)

(* Then, too, both loops settle on one connection, whatever half-open or      *)
(* abandoned connections there were.                                          *)
Reconnect == <>[]Calm => <>[](cfd # NoFd /\ sfd = cfd)

(* The cluster implements the abstract service: no step of any thread takes   *)
(* the VIP in good order while the peer still holds it in good order, and no  *)
(* step lets go of one node's VIP and takes it on the other at once.          *)
Service == INSTANCE VipService WITH holders <- {n \in Node : vip[n]}
ServiceSpec == Service!Spec

(* --- What comments of the source say, and the code does not do ---          *)

(* resource-mgr.cpp:202 of the primary's takeover: "the backup must release   *)
(* first, then I take".  On a FREED_RES the backup does not hold the VIP,     *)
(* unless it took it back alone.                                              *)
BackupReleasedFirst ==
    [][cpc = "wait" /\ cpc' = "top" /\ s2c' # s2c /\ vip'[primary] /\ ~vip[primary]
         => ~vip[backup] \/ backup \in solo]_vars

(* main.cpp:51 of the takeover flags: "set after taking the resources over,   *)
(* cleared after releasing them".  A flag turns TRUE only with the VIP there. *)
FlagMeansTaken ==
    [][\A n \in Node : took'[n] /\ ~took[n] => vip'[n]]_vars

=============================================================================
