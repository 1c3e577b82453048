---------------------------- MODULE HandoverProofs ----------------------------
(* Proofs that the virtual IP changes hands in good order: Lockstep,          *)
(* Exclusive and ServiceSpec of HbCluster, for every value of its constants.  *)

EXTENDS HbClusterProofs

-----------------------------------------------------------------------------
(* The inductive invariant.  Lockstep and Exclusive are not inductive: a step *)
(* that takes the VIP looks at a telegram, not at the peer, so the invariant  *)
(* says what a telegram on its way proves about the two nodes.                *)

(* The client's socket is the only open client end; the server's open ends    *)
(* are accepted or wait to be, each of them once.                             *)
SocketsOK ==
    /\ \A c \in Conns : cli_end[c] = "open" <=> c = cfd
    /\ sfd # NoFd => srv_end[sfd] = "open"
    /\ \A i \in DOMAIN backlog : srv_end[backlog[i]] = "open" /\ backlog[i] # sfd
    /\ \A i, j \in DOMAIN backlog : backlog[i] = backlog[j] => i = j

(* Nothing is on its way to an end that is not open.                          *)
QuietOK ==
    \A c \in Conns : /\ cli_end[c] # "open" => s2c[c] = <<>>
                     /\ srv_end[c] # "open" => c2s[c] = <<>>

(* The client's connection is the newest: the server accepts it last, and     *)
(* answers nothing on it before.                                              *)
NewestLast ==
    cfd # NoFd =>
      \/ backlog = <<>> /\ sfd \in {cfd, NoFd}
      \/ backlog # <<>> /\ backlog[Len(backlog)] = cfd /\ s2c[cfd] = <<>>

(* As long as the client has not timed out, its connection carries the        *)
(* request or the answer that it waits for, and nothing else.                 *)
OneInFlight ==
    cfd # NoFd /\ ~late =>
      Len(c2s[cfd]) + Len(s2c[cfd]) <= IF cpc = "wait" THEN 1 ELSE 0

(* Node n does not hold the VIP in good order.                                *)
Yields(n) == vip[n] => n \in solo

(* The server has accepted connection c or will accept it.                    *)
Live(c) == c = sfd \/ \E i \in DOMAIN backlog : backlog[i] = c

Has(q, m) == \E i \in DOMAIN q : q[i] = m

(* An order to take that the client will send, or that the backup may still   *)
(* read, finds the primary without the VIP.                                   *)
GetResOK ==
    /\ send_data = trans_data_set_action(GET_RES) => cpc = "top" /\ Yields(primary)
    /\ \A c \in Conns : Live(c) /\ Has(c2s[c], trans_data_set_action(GET_RES))
                          => Yields(primary)

(* An acknowledged release, read in time, finds the backup without the VIP.   *)
FreedResOK ==
    cfd # NoFd /\ ~late /\ Has(s2c[cfd], reply_action(FREED_RES)) => Yields(backup)

(* A node on its own account holds the VIP.                                   *)
SoloOK == \A n \in solo : vip[n]

WireOK == SocketsOK /\ QuietOK /\ NewestLast /\ OneInFlight
OrderOK == GetResOK /\ FreedResOK /\ SoloOK /\ Exclusive
IInv == TypeOK /\ WireOK /\ OrderOK

-----------------------------------------------------------------------------
(* The steps as the connections see them.                                     *)

ClientGone ==
    /\ cfd # NoFd /\ cfd' = NoFd
    /\ \E how \in {"closed", "gone"} : ClientEnds(cfd, how)
    /\ UNCHANGED <<sfd, backlog>>

ServerReplies(m, reply) ==
    /\ sfd # NoFd
    /\ \E k \in 1..Len(c2s[sfd]) :
         /\ m = Coalesced(SubSeq(c2s[sfd], 1, k))
         /\ c2s' = [c2s EXCEPT ![sfd] = SubSeq(@, k + 1, Len(@))]
         /\ s2c' = IF cli_end[sfd] = "open"
                     THEN [s2c EXCEPT ![sfd] = Append(@, reply)] ELSE s2c
    /\ UNCHANGED <<sfd, backlog, cli_end, srv_end, cfd, cpc, late>>

(* The server hangs up on its client, or dies.                                *)
ServerGone ==
    /\ sfd' = NoFd
    /\ \E how \in {"closed", "gone"} :
         \/ sfd # NoFd /\ ServerEnds({sfd}, how) /\ UNCHANGED backlog
         \/ ServerEnds({c \in Conns : srv_end[c] = "open"}, how) /\ backlog' = <<>>
    /\ UNCHANGED <<cfd, cpc, late>>

NoTraffic ==
    /\ UNCHANGED <<cfd, sfd, backlog, connVars>>
    /\ cfd = NoFd \/ late' \/ UNCHANGED <<cpc, late>>

ConnStep ==
    \/ ConnectOk \/ Send \/ (\E m : ClientReads(m) /\ cpc' = "top") \/ ClientGone
    \/ Accept \/ ServerGone \/ NoTraffic
    \/ \E m : \E reply \in ServerMsg :
         /\ ServerReplies(m, reply)
         /\ reply = reply_action(FREED_RES) => Yields(backup)'

LEMMA ServerAnswersConn ==
    ASSUME NEW m, NEW reply \in ServerMsg, ServerAnswers(m, reply)
    PROVE  ServerReplies(m, reply) \/ ServerGone
BY DEF ServerAnswers, ServerReplies, ServerGone, clientVars

LEMMA ClientStepConn ==
    ASSUME TypeOK, ClientStep
    PROVE  ConnStep
<1>1. CASE ConnectFail
  BY <1>1 DEF ConnectFail, ConnStep, NoTraffic, serverVars, connVars
<1>2. CASE GotRes \/ FreedRes \/ ReplyServerStatus \/ ClientHeartbeat
  <2>1. \E m : ClientReads(m) /\ cpc' = "top"
    BY <1>2 DEF GotRes, FreedRes, ReplyServerStatus, ClientHeartbeat, Prepare
  <2> QED  BY <2>1 DEF ConnStep
<1>3. CASE ClientTimeout
  BY <1>3 DEF ClientTimeout, ClientTimesOut, ConnStep, NoTraffic, serverVars, connVars
<1>4. CASE ClientEof \/ ClientError
  <2>1. cfd # NoFd
    BY <1>4 DEF TypeOK, ClientType, ClientEof, ClientError
  <2> QED  BY <1>4, <2>1 DEF ClientEof, ClientError, ClientDrops, ConnStep, ClientGone, serverVars
<1> QED  BY <1>1, <1>2, <1>3, <1>4 DEF ClientStep, ConnStep

LEMMA ServerStepConn ==
    ASSUME TypeOK, ServerStep
    PROVE  ConnStep
<1>1. CASE Select
  BY <1>1 DEF Select, ConnStep, NoTraffic, clientVars, connVars
<1>2. CASE AcceptTimeout
  BY <1>2 DEF AcceptTimeout, AcceptTimesOut, ConnStep, NoTraffic, clientVars, connVars
<1>3. CASE GetRes \/ FreeRes \/ GetServerStatus \/ ServerHeartbeat
  <2>1. reply_server_status(host_ss[backup], host_vip[backup]) \in ServerMsg
    BY MessageFacts DEF TypeOK, HostType, Node
  <2>2. FreeRes => Yields(backup)'
    BY DEF FreeRes, Release, Yields, TypeOK, ResType, Node
  <2>3. \E m : \E reply \in ServerMsg :
          ServerAnswers(m, reply) /\ (reply = reply_action(FREED_RES) => Yields(backup)')
    <3> USE MessageFacts
    <3>1. CASE FreeRes
      BY <2>2, <3>1 DEF FreeRes
    <3>2. CASE GetRes
      BY <3>2, MessagesDiffer DEF GetRes
    <3>3. CASE GetServerStatus
      <4>1. reply_action(FREED_RES) # reply_server_status(host_ss[backup], host_vip[backup])
        BY MessagesDiffer DEF TypeOK, HostType, Node
      <4> QED  BY <2>1, <3>3, <4>1 DEF GetServerStatus
    <3>4. CASE ServerHeartbeat
      BY <3>4, MessagesDiffer DEF ServerHeartbeat
    <3> QED  BY <1>3, <3>1, <3>2, <3>3, <3>4
  <2>4. PICK m : \E reply \in ServerMsg :
          ServerAnswers(m, reply) /\ (reply = reply_action(FREED_RES) => Yields(backup)')
    BY <2>3
  <2>5. PICK reply \in ServerMsg :
          ServerAnswers(m, reply) /\ (reply = reply_action(FREED_RES) => Yields(backup)')
    BY <2>4
  <2>6. ServerReplies(m, reply) \/ ServerGone
    BY <2>5, ServerAnswersConn
  <2> QED  BY <2>5, <2>6 DEF ConnStep
<1>4. CASE ServerTimeout \/ ServerEof \/ ServerError
  BY <1>4 DEF ServerTimeout, ServerTimesOut, ServerEof, ServerError, ServerDrops, ConnStep,
     ServerGone, clientVars
<1> QED  BY <1>1, <1>2, <1>3, <1>4 DEF ServerStep, ConnStep

LEMMA DiesConn ==
    ASSUME TypeOK, NEW n \in Node, NEW how \in {"closed", "gone"}, Dies(n, how)
    PROVE  ConnStep
<1>1. CASE ClientDies(how)
  BY <1>1 DEF ClientDies, ConnStep, ClientGone, NoTraffic, serverVars
<1>2. CASE ServerDies(how)
  BY <1>2 DEF ServerDies, ConnStep, ServerGone, clientVars
<1> QED  BY <1>1, <1>2 DEF Dies

LEMMA StepConn ==
    ASSUME TypeOK, [Next]_vars
    PROVE  ConnStep
<1>1. CASE UNCHANGED <<clientVars, serverVars, connVars>>
  BY <1>1 DEF ConnStep, NoTraffic, clientVars, serverVars
<1>2. CASE LateAnswer
  BY <1>2 DEF LateAnswer, ClientTimesOut, ConnStep, NoTraffic, serverVars, connVars
<1>3. CASE LateRequest
  BY <1>3 DEF LateRequest, ServerTimesOut, ServerDrops, ConnStep, ServerGone, clientVars
<1>4. CASE LateConnect
  BY <1>4 DEF LateConnect, AcceptTimesOut, ConnStep, NoTraffic, clientVars, connVars
<1>5. ASSUME NEW n \in Node, Crash(n) \/ ServiceStop(n) \/ PowerLoss(n)
      PROVE  ConnStep
  BY <1>5, DiesConn DEF Crash, ServiceStop, PowerLoss
<1>6. CASE EnvironmentStep
  <2>1. CASE Cut \/ Heal \/ \E n \in Node : Standby(n) \/ Takeover(n) \/ HealthFlip(n) \/ Start(n)
    BY <2>1, <1>1 DEF Cut, Heal, Standby, Takeover, HealthFlip, Start
  <2> QED  BY <1>2, <1>3, <1>4, <1>5, <1>6, <2>1 DEF EnvironmentStep
<1>7. ASSUME NEW n \in Node, StatusStep(n)
      PROVE  ConnStep
  BY <1>7, <1>1 DEF StatusStep, StatusRound, CheckVip, PublishVip, RunAllPlugin
<1>8. CASE UNCHANGED vars
  BY <1>1, <1>8 DEF vars
<1> QED  BY <1>6, <1>7, <1>8, ClientStepConn, ServerStepConn DEF Next

-----------------------------------------------------------------------------
(* What the two ways to end a connection do to the ends.                      *)

LEMMA ClientGoneFacts ==
    ASSUME TypeOK, ClientGone
    PROVE  /\ cfd \in Conns /\ cfd' = NoFd
           /\ \A c \in Conns : /\ cli_end'[c] = "open" <=> cli_end[c] = "open" /\ c # cfd
                               /\ srv_end'[c] = "open" <=> srv_end[c] = "open"
                               /\ c2s'[c] = c2s[c]
                               /\ s2c'[c] = IF c = cfd THEN <<>> ELSE s2c[c]
           /\ UNCHANGED <<sfd, backlog>>
<1>1. cfd \in Conns
  BY DEF TypeOK, ClientType, ClientGone
<1>2. PICK how \in {"closed", "gone"} : ClientEnds(cfd, how)
  BY DEF ClientGone
<1>3. \A c \in Conns : cli_end'[c] = "open" <=> cli_end[c] = "open" /\ c # cfd
  BY <1>1, <1>2 DEF TypeOK, ConnType, ClientEnds, EndsWith
<1>4. \A c \in Conns : srv_end'[c] = "open" <=> srv_end[c] = "open"
  BY <1>1, <1>2 DEF TypeOK, ConnType, ClientEnds
<1>5. \A c \in Conns : c2s'[c] = c2s[c] /\ s2c'[c] = IF c = cfd THEN <<>> ELSE s2c[c]
  BY <1>1, <1>2 DEF TypeOK, ConnType, ClientEnds
<1> QED  BY <1>1, <1>3, <1>4, <1>5 DEF ClientGone

LEMMA ServerGoneFacts ==
    ASSUME TypeOK, ServerGone
    PROVE  /\ sfd' = NoFd /\ UNCHANGED <<cfd, cpc, late, s2c>>
           /\ \A c \in Conns :
                /\ cli_end'[c] = "open" <=> cli_end[c] = "open"
                /\ c2s'[c] = c2s[c] \/ c2s'[c] = <<>>
                /\ srv_end'[c] = "open" => srv_end[c] = "open"
                /\ srv_end'[c] # "open" => srv_end[c] # "open" \/ c2s'[c] = <<>>
           /\ \/ backlog' = <<>>
              \/ /\ backlog' = backlog
                 /\ \A c \in Conns : c # sfd => srv_end'[c] = srv_end[c]
<1>1. ASSUME NEW C \in SUBSET Conns, NEW how \in {"closed", "gone"}, ServerEnds(C, how)
      PROVE  /\ UNCHANGED s2c
             /\ \A c \in Conns :
                  /\ cli_end'[c] = "open" <=> cli_end[c] = "open"
                  /\ c2s'[c] = IF c \in C THEN <<>> ELSE c2s[c]
                  /\ srv_end'[c] = "open" <=> srv_end[c] = "open" /\ c \notin C
                  /\ c \notin C => srv_end'[c] = srv_end[c]
  <2>1. \A c \in Conns : EndsWith(srv_end, cli_end, c, how)[c] # "open"
    BY DEF TypeOK, ConnType, EndsWith
  <2> QED  BY <1>1, <2>1 DEF TypeOK, ConnType, ServerEnds
<1>2. PICK how \in {"closed", "gone"} :
        \/ sfd # NoFd /\ ServerEnds({sfd}, how) /\ UNCHANGED backlog
        \/ ServerEnds({c \in Conns : srv_end[c] = "open"}, how) /\ backlog' = <<>>
  BY DEF ServerGone
<1>3. CASE sfd # NoFd /\ ServerEnds({sfd}, how) /\ UNCHANGED backlog
  <2>1. {sfd} \in SUBSET Conns
    BY <1>3 DEF TypeOK, ServerType
  <2> QED  BY <1>1, <1>3, <2>1 DEF ServerGone
<1>4. CASE ServerEnds({c \in Conns : srv_end[c] = "open"}, how) /\ backlog' = <<>>
  BY <1>1, <1>4 DEF ServerGone
<1> QED  BY <1>2, <1>3, <1>4

LEMMA AcceptFacts ==
    ASSUME TypeOK, Accept
    PROVE  /\ sfd = NoFd /\ sfd' = backlog[1] /\ sfd' \in Conns
           /\ Len(backlog') = Len(backlog) - 1 /\ Len(backlog) \in Nat \ {0}
           /\ backlog' \in Seq(Conns)
           /\ \A i \in 1..(Len(backlog) - 1) : backlog'[i] = backlog[i + 1]
           /\ UNCHANGED <<cfd, cpc, late, connVars>>
<1>1. backlog \in Seq(Conns) /\ backlog # <<>>
  BY DEF TypeOK, ServerType, Accept
<1>2. /\ Len(backlog) \in Nat \ {0} /\ Head(backlog) = backlog[1] /\ Head(backlog) \in Conns
      /\ Tail(backlog) \in Seq(Conns) /\ Len(Tail(backlog)) = Len(backlog) - 1
      /\ \A i \in 1..(Len(backlog) - 1) : Tail(backlog)[i] = backlog[i + 1]
  BY <1>1, HeadTailProperties, EmptySeq, LenProperties
<1> QED  BY <1>2 DEF Accept, clientVars

LEMMA ConnectFacts ==
    ASSUME TypeOK, ConnectOk
    PROVE  \E c \in Conns :
             /\ cfd = NoFd /\ cfd' = c /\ cli_end[c] # "open" /\ srv_end[c] # "open"
             /\ \A d \in Conns : /\ cli_end'[d] = IF d = c THEN "open" ELSE cli_end[d]
                                 /\ srv_end'[d] = IF d = c THEN "open" ELSE srv_end[d]
             /\ Len(backlog) \in Nat /\ Len(backlog') = Len(backlog) + 1
             /\ backlog'[Len(backlog) + 1] = c
             /\ \A i \in 1..Len(backlog) : backlog'[i] = backlog[i] /\ backlog[i] \in Conns
             /\ cpc' = "top" /\ late' = FALSE /\ UNCHANGED <<sfd, c2s, s2c>>
<1>1. PICK c \in Conns : /\ Free(c) /\ cfd' = c
                         /\ cli_end' = [cli_end EXCEPT ![c] = "open"]
                         /\ srv_end' = [srv_end EXCEPT ![c] = "open"]
                         /\ backlog' = Append(backlog, c)
  BY DEF ConnectOk
<1>2. backlog \in Seq(Conns)
  BY DEF TypeOK, ServerType
<1>3. /\ Len(backlog) \in Nat /\ Len(backlog') = Len(backlog) + 1
      /\ backlog'[Len(backlog) + 1] = c
      /\ \A i \in 1..Len(backlog) : backlog'[i] = backlog[i] /\ backlog[i] \in Conns
  BY <1>1, <1>2, LenProperties, ElementOfSeq, AppendProperties
<1>4. \A d \in Conns : /\ cli_end'[d] = IF d = c THEN "open" ELSE cli_end[d]
                       /\ srv_end'[d] = IF d = c THEN "open" ELSE srv_end[d]
  BY <1>1 DEF TypeOK, ConnType
<1>5. cfd = NoFd
  BY DEF TypeOK, ClientType, ConnectOk
<1> QED  BY <1>1, <1>3, <1>4, <1>5 DEF ConnectOk, Free

LEMMA SendFacts ==
    ASSUME TypeOK, Send
    PROVE  /\ cfd \in Conns /\ cpc = "top" /\ cpc' = "wait"
           /\ send_data' = trans_data_set_none
           /\ \A c \in Conns : c # cfd => c2s'[c] = c2s[c]
           /\ \/ c2s'[cfd] = c2s[cfd]
              \/ srv_end[cfd] = "open" /\ c2s'[cfd] = Append(c2s[cfd], send_data)
           /\ UNCHANGED <<cfd, late, sfd, backlog, cli_end, srv_end, s2c>>
<1>1. cfd \in Conns
  BY DEF TypeOK, ClientType, Send
<1>2. /\ \A c \in Conns : c # cfd => c2s'[c] = c2s[c]
      /\ \/ c2s'[cfd] = c2s[cfd]
         \/ srv_end[cfd] = "open" /\ c2s'[cfd] = Append(c2s[cfd], send_data)
  BY <1>1 DEF TypeOK, ConnType, Send
<1> QED  BY <1>1, <1>2 DEF Send, serverVars

LEMMA ReadFacts ==
    ASSUME TypeOK, NEW m, ClientReads(m)
    PROVE  /\ cfd \in Conns /\ cpc = "wait" /\ s2c[cfd] \in Seq(ServerMsg)
           /\ \A c \in Conns : c # cfd => s2c'[c] = s2c[c]
           /\ \E k \in 1..Len(s2c[cfd]) :
                /\ m = Coalesced(SubSeq(s2c[cfd], 1, k))
                /\ s2c'[cfd] = SubSeq(s2c[cfd], k + 1, Len(s2c[cfd]))
           /\ UNCHANGED <<cfd, late, sfd, backlog, cli_end, srv_end, c2s>>
<1>1. cfd \in Conns
  BY DEF TypeOK, ClientType, ClientReads
<1>2. s2c \in [Conns -> Seq(ServerMsg)]
  BY DEF TypeOK, ConnType
<1>3. PICK k \in 1..Len(s2c[cfd]) :
        /\ m = Coalesced(SubSeq(s2c[cfd], 1, k))
        /\ s2c' = [s2c EXCEPT ![cfd] = SubSeq(@, k + 1, Len(@))]
  BY DEF ClientReads
<1>4. /\ s2c'[cfd] = SubSeq(s2c[cfd], k + 1, Len(s2c[cfd]))
      /\ \A c \in Conns : c # cfd => s2c'[c] = s2c[c]
  BY <1>1, <1>2, <1>3
<1> QED  BY <1>1, <1>2, <1>3, <1>4 DEF ClientReads, serverVars

LEMMA ReplyFacts ==
    ASSUME TypeOK, NEW m, NEW reply, ServerReplies(m, reply)
    PROVE  /\ sfd \in Conns /\ c2s[sfd] \in Seq(ClientMsg)
           /\ \A c \in Conns : c # sfd => c2s'[c] = c2s[c] /\ s2c'[c] = s2c[c]
           /\ \E k \in 1..Len(c2s[sfd]) :
                /\ m = Coalesced(SubSeq(c2s[sfd], 1, k))
                /\ c2s'[sfd] = SubSeq(c2s[sfd], k + 1, Len(c2s[sfd]))
           /\ s2c'[sfd] = IF cli_end[sfd] = "open" THEN Append(s2c[sfd], reply) ELSE s2c[sfd]
           /\ UNCHANGED <<sfd, backlog, cli_end, srv_end, cfd, cpc, late>>
<1>1. sfd \in Conns
  BY DEF TypeOK, ServerType, ServerReplies
<1>2. c2s \in [Conns -> Seq(ClientMsg)] /\ s2c \in [Conns -> Seq(ServerMsg)]
  BY DEF TypeOK, ConnType
<1>3. PICK k \in 1..Len(c2s[sfd]) :
        /\ m = Coalesced(SubSeq(c2s[sfd], 1, k))
        /\ c2s' = [c2s EXCEPT ![sfd] = SubSeq(@, k + 1, Len(@))]
        /\ s2c' = IF cli_end[sfd] = "open"
                    THEN [s2c EXCEPT ![sfd] = Append(@, reply)] ELSE s2c
  BY DEF ServerReplies
<1>4. /\ c2s'[sfd] = SubSeq(c2s[sfd], k + 1, Len(c2s[sfd]))
      /\ \A c \in Conns : c # sfd => c2s'[c] = c2s[c] /\ s2c'[c] = s2c[c]
      /\ s2c'[sfd] = IF cli_end[sfd] = "open" THEN Append(s2c[sfd], reply) ELSE s2c[sfd]
  BY <1>1, <1>2, <1>3
<1> QED  BY <1>1, <1>2, <1>3, <1>4 DEF ServerReplies

-----------------------------------------------------------------------------
(* Each part of WireOK is kept by every step.                                 *)

LEMMA SocketsStep ==
    ASSUME TypeOK, SocketsOK, ConnStep
    PROVE  SocketsOK'
<1>1. backlog \in Seq(Conns) /\ DOMAIN backlog = 1..Len(backlog) /\ Len(backlog) \in Nat
  BY LenProperties DEF TypeOK, ServerType
<1>2. NoFd \notin Conns /\ cfd \in Conns \cup {NoFd} /\ sfd \in Conns \cup {NoFd}
      /\ \A i \in 1..Len(backlog) : backlog[i] \in Conns
  BY ClusterAssumption, <1>1, ElementOfSeq DEF TypeOK, ClientType, ServerType
<1>3. CASE UNCHANGED <<cfd, sfd, backlog, cli_end, srv_end>>
  BY <1>3 DEF SocketsOK
<1>4. CASE ConnectOk
  <2>1. PICK c \in Conns :
             /\ cfd = NoFd /\ cfd' = c /\ cli_end[c] # "open" /\ srv_end[c] # "open"
             /\ \A d \in Conns : /\ cli_end'[d] = IF d = c THEN "open" ELSE cli_end[d]
                                 /\ srv_end'[d] = IF d = c THEN "open" ELSE srv_end[d]
             /\ Len(backlog') = Len(backlog) + 1
             /\ backlog'[Len(backlog) + 1] = c
             /\ \A i \in 1..Len(backlog) : backlog'[i] = backlog[i]
             /\ UNCHANGED sfd
    BY <1>4, ConnectFacts
  <2>2. DOMAIN backlog' = 1..(Len(backlog) + 1)
    BY <1>4, <2>1, StepType, LenProperties DEF TypeOK, ServerType, ConnectOk
  <2>3. \A i \in 1..(Len(backlog) + 1) : i \in 1..Len(backlog) \/ i = Len(backlog) + 1
    BY <1>1
  <2>4. \A c1 \in Conns : cli_end'[c1] = "open" <=> c1 = cfd'
    BY <2>1, <1>2 DEF SocketsOK
  <2>5. sfd' # NoFd => srv_end'[sfd'] = "open"
    BY <2>1, <1>2 DEF SocketsOK
  <2>6. \A i \in 1..(Len(backlog) + 1) :
           srv_end'[backlog'[i]] = "open" /\ backlog'[i] # sfd'
    BY <2>1, <2>3, <1>1, <1>2 DEF SocketsOK
  <2>7. ASSUME NEW i \in 1..(Len(backlog) + 1), NEW j \in 1..(Len(backlog) + 1),
               backlog'[i] = backlog'[j]
        PROVE  i = j
    <3>1. \A k \in 1..Len(backlog) : backlog'[k] # c
      BY <2>1, <1>1 DEF SocketsOK
    <3>2. CASE i \in 1..Len(backlog) /\ j \in 1..Len(backlog)
      <4>1. backlog[i] = backlog[j]
        BY <2>1, <2>7, <3>2
      <4> QED  BY <4>1, <3>2, <1>1 DEF SocketsOK
    <3>3. CASE ~(i \in 1..Len(backlog) /\ j \in 1..Len(backlog))
      BY <2>1, <2>3, <2>7, <3>1, <3>3
    <3> QED  BY <3>2, <3>3
  <2>8. \A i, j \in DOMAIN backlog' : backlog'[i] = backlog'[j] => i = j
    BY <2>2, <2>7
  <2> QED  BY <2>2, <2>4, <2>5, <2>6, <2>8 DEF SocketsOK
<1>5. CASE ClientGone
  <2>1. /\ UNCHANGED <<sfd, backlog>> /\ cfd' = NoFd
        /\ \A c \in Conns : /\ cli_end'[c] = "open" <=> cli_end[c] = "open" /\ c # cfd
                            /\ srv_end'[c] = "open" <=> srv_end[c] = "open"
    BY <1>5, ClientGoneFacts
  <2>2. \A c \in Conns : cli_end'[c] = "open" <=> c = cfd'
    <3>1. \A c \in Conns : cli_end[c] = "open" <=> c = cfd
      BY DEF SocketsOK
    <3> QED  BY <1>2, <2>1, <3>1
  <2>3. sfd' # NoFd => srv_end'[sfd'] = "open"
    BY <1>2, <2>1 DEF SocketsOK
  <2>4. \A i \in DOMAIN backlog' : srv_end'[backlog'[i]] = "open" /\ backlog'[i] # sfd'
    BY <1>1, <1>2, <2>1 DEF SocketsOK
  <2>5. \A i, j \in DOMAIN backlog' : backlog'[i] = backlog'[j] => i = j
    BY <2>1 DEF SocketsOK
  <2> QED  BY <2>2, <2>3, <2>4, <2>5 DEF SocketsOK
<1>6. CASE Accept
  <2> USE <1>6, AcceptFacts
  <2>1. DOMAIN backlog' = 1..(Len(backlog) - 1)
    BY LenProperties
  <2>2. UNCHANGED <<cfd, cli_end, srv_end>>
    BY DEF connVars
  <2>3. \A i \in 1..(Len(backlog) - 1) : i + 1 \in 1..Len(backlog) /\ i + 1 # 1
    BY <1>1
  <2>4. \A i, j \in 1..(Len(backlog) - 1) : i + 1 = j + 1 => i = j
    BY <1>1
  <2>5. sfd' # NoFd => srv_end'[sfd'] = "open"
    BY <1>1, <2>2 DEF SocketsOK
  <2>6. \A i \in DOMAIN backlog' : srv_end'[backlog'[i]] = "open" /\ backlog'[i] # sfd'
    <3>1. 1 \in 1..Len(backlog)
      BY <1>1
    <3>2. \A i \in 1..(Len(backlog) - 1) :
             srv_end[backlog[i + 1]] = "open" /\ backlog[i + 1] # backlog[1]
      BY <1>1, <2>3, <3>1 DEF SocketsOK
    <3> QED  BY <2>1, <2>2, <3>2
  <2>7. ASSUME NEW i \in DOMAIN backlog', NEW j \in DOMAIN backlog',
               backlog'[i] = backlog'[j]
        PROVE  i = j
    <3>1. backlog[i + 1] = backlog[j + 1]
      BY <2>1, <2>7
    <3>2. i + 1 = j + 1
      BY <1>1, <2>1, <2>3, <3>1 DEF SocketsOK
    <3> QED  BY <2>1, <2>4, <3>2
  <2>8. \A c \in Conns : cli_end'[c] = "open" <=> c = cfd'
    BY <2>2 DEF SocketsOK
  <2> QED  BY <2>5, <2>6, <2>7, <2>8 DEF SocketsOK
<1>7. CASE ServerGone
  <2>1. \A c \in Conns : cli_end'[c] = "open" <=> c = cfd'
    BY <1>7, ServerGoneFacts DEF SocketsOK
  <2>2. CASE backlog' = <<>>
    BY <1>7, <2>1, <2>2, ServerGoneFacts DEF SocketsOK
  <2>3. CASE backlog' = backlog /\ \A c \in Conns : c # sfd => srv_end'[c] = srv_end[c]
    BY <1>1, <1>2, <1>7, <2>1, <2>3, ServerGoneFacts DEF SocketsOK
  <2> QED  BY <1>7, <2>2, <2>3, ServerGoneFacts
<1> QED
  BY <1>3, <1>4, <1>5, <1>6, <1>7
  DEF ConnStep, Send, ClientReads, serverVars, ServerReplies, NoTraffic, connVars

LEMMA QuietStep ==
    ASSUME TypeOK, SocketsOK, QuietOK, ConnStep
    PROVE  QuietOK'
<1>1. cfd \in Conns => cli_end[cfd] = "open"
  BY DEF SocketsOK
<1>2. sfd \in Conns => srv_end[sfd] = "open"
  BY ClusterAssumption DEF SocketsOK
<1>3. CASE ConnectOk
  BY <1>3, ConnectFacts DEF QuietOK
<1>4. CASE Send
  BY <1>4, SendFacts DEF QuietOK
<1>5. ASSUME NEW m, ClientReads(m)
      PROVE  QuietOK'
  BY <1>1, <1>5, ReadFacts DEF QuietOK
<1>6. CASE ClientGone
  BY <1>6, ClientGoneFacts DEF QuietOK
<1>7. CASE Accept
  BY <1>7 DEF QuietOK, Accept, connVars
<1>8. CASE ServerGone
  BY <1>8, ServerGoneFacts DEF QuietOK
<1>9. CASE NoTraffic
  BY <1>9 DEF QuietOK, NoTraffic, connVars
<1>10. ASSUME NEW m, NEW reply \in ServerMsg, ServerReplies(m, reply)
       PROVE  QuietOK'
  BY <1>2, <1>10, ReplyFacts DEF QuietOK
<1> QED
  BY <1>3, <1>4, <1>5, <1>6, <1>7, <1>8, <1>9, <1>10 DEF ConnStep

LEMMA NewestStep ==
    ASSUME TypeOK, SocketsOK, QuietOK, NewestLast, ConnStep
    PROVE  NewestLast'
<1>0. NoFd \notin Conns
  BY ClusterAssumption
<1>1. backlog \in Seq(Conns) /\ Len(backlog) \in Nat /\ DOMAIN backlog = 1..Len(backlog)
      /\ (backlog # <<>> <=> Len(backlog) # 0)
  BY LenProperties, EmptySeq DEF TypeOK, ServerType
<1>2. CASE ConnectOk
  <2>1. PICK c \in Conns :
             /\ cfd' = c /\ cli_end[c] # "open"
             /\ Len(backlog') = Len(backlog) + 1
             /\ backlog'[Len(backlog) + 1] = c
             /\ UNCHANGED s2c
    BY <1>2, ConnectFacts
  <2>2. backlog' # <<>>
    BY <1>1, <2>1
  <2> QED  BY <2>1, <2>2 DEF NewestLast, QuietOK
<1>3. CASE Send
  BY <1>3, SendFacts DEF NewestLast
<1>4. ASSUME NEW m, ClientReads(m)
      PROVE  NewestLast'
  <2>1. s2c[cfd] # <<>> /\ UNCHANGED <<cfd, sfd, backlog>>
    BY <1>4, ReadFacts
  <2> QED  BY <2>1 DEF NewestLast
<1>5. CASE ClientGone
  BY <1>5, ClientGoneFacts DEF NewestLast
<1>6. CASE Accept
  <2>1. backlog # <<>> /\ backlog'= Tail(backlog)
    BY <1>6 DEF Accept
  <2>2. CASE Len(backlog) = 1
    <3>1. backlog' = <<>>
      BY <1>6, <2>2, AcceptFacts, EmptySeq
    <3> QED  BY <1>6, <2>1, <2>2, <3>1, AcceptFacts DEF NewestLast
  <2>3. CASE Len(backlog) # 1
    <3>1. Len(backlog) - 1 \in 1..(Len(backlog) - 1) /\ Len(backlog') = Len(backlog) - 1
      BY <1>6, <2>3, AcceptFacts
    <3>2. backlog' # <<>> /\ backlog'[Len(backlog')] = backlog[Len(backlog)]
      BY <1>6, <3>1, AcceptFacts
    <3> QED  BY <1>6, <2>1, <3>2, AcceptFacts DEF NewestLast, connVars
  <2> QED  BY <2>2, <2>3
<1>7. CASE ServerGone
  BY <1>7, ServerGoneFacts DEF NewestLast
<1>8. CASE NoTraffic
  BY <1>8 DEF NewestLast, NoTraffic, connVars
<1>9. ASSUME NEW m, NEW reply \in ServerMsg, ServerReplies(m, reply)
      PROVE  NewestLast'
  <2>1. CASE backlog = <<>>
    BY <1>9, <2>1, ReplyFacts DEF NewestLast
  <2>2. CASE backlog # <<>> /\ cfd # NoFd
    <3>1. backlog[Len(backlog)] = cfd /\ s2c[cfd] = <<>>
      BY <2>2 DEF NewestLast
    <3>2. cfd # sfd
      BY <1>1, <2>2, <3>1 DEF SocketsOK
    <3>3. cfd \in Conns
      BY <2>2 DEF TypeOK, ClientType
    <3> QED  BY <1>9, <2>2, <3>1, <3>2, <3>3, ReplyFacts DEF NewestLast
  <2>3. CASE cfd = NoFd
    BY <1>9, <2>3, ReplyFacts DEF NewestLast
  <2> QED  BY <2>1, <2>2, <2>3
<1> QED
  BY <1>2, <1>3, <1>4, <1>5, <1>6, <1>7, <1>8, <1>9 DEF ConnStep

LEMMA Shorter ==
    ASSUME NEW a \in Nat, NEW b \in Nat, NEW n \in Nat, NEW k \in 1..n,
           a + b <= 1, n = b
    PROVE  a + (b - k) <= 0
OBVIOUS

LEMMA NoLonger ==
    ASSUME NEW a \in Nat, NEW b \in Nat, NEW a1 \in Nat, NEW b1 \in Nat,
           NEW bound \in Nat, NEW k \in Nat,
           a + b <= bound, a1 + k <= a, b1 <= b + k
    PROVE  a1 + b1 <= bound
OBVIOUS

LEMMA Longer ==
    ASSUME NEW a \in Nat, NEW b \in Nat, NEW a1 \in Nat, a + b <= 0, a1 <= a + 1
    PROVE  a1 + b <= 1
OBVIOUS

LEMMA InFlightStep ==
    ASSUME TypeOK, SocketsOK, QuietOK, OneInFlight, ConnStep
    PROVE  OneInFlight'
<1>0. NoFd \notin Conns /\ cfd \in Conns \cup {NoFd}
      /\ \A c \in Conns : Len(c2s[c]) \in Nat /\ Len(s2c[c]) \in Nat
  BY ClusterAssumption, LenProperties DEF TypeOK, ClientType, ConnType
<1>2. CASE ConnectOk
  <2>1. PICK c \in Conns : /\ cfd' = c /\ cli_end[c] # "open" /\ srv_end[c] # "open"
                           /\ cpc' = "top" /\ UNCHANGED <<c2s, s2c>>
    BY <1>2, ConnectFacts
  <2>2. Len(c2s[c]) = 0 /\ Len(s2c[c]) = 0
    BY <2>1 DEF QuietOK
  <2> QED  BY <2>1, <2>2 DEF OneInFlight
<1>3. CASE Send
  <2>1. Len(c2s'[cfd]) <= Len(c2s[cfd]) + 1
    BY <1>0, <1>3, SendFacts, AppendProperties DEF TypeOK, ConnType, ClientType
  <2>2. Len(c2s'[cfd]) \in Nat
    BY <1>0, <1>3, StepType, SendFacts, AppendProperties DEF TypeOK, ConnType, ClientType
  <2>3. cfd \in Conns /\ cpc = "top" /\ cpc' = "wait" /\ UNCHANGED <<cfd, late, s2c>>
    BY <1>3, SendFacts
  <2>4. cfd # NoFd /\ ~late => Len(c2s[cfd]) + Len(s2c[cfd]) <= 0
    BY <2>3 DEF OneInFlight
  <2>5. ASSUME cfd # NoFd, ~late
        PROVE  Len(c2s'[cfd]) + Len(s2c[cfd]) <= 1
    <3>1. Len(c2s[cfd]) \in Nat /\ Len(s2c[cfd]) \in Nat
      BY <1>0, <2>3
    <3>2. Len(c2s[cfd]) + Len(s2c[cfd]) <= 0
      BY <2>4, <2>5
    <3> QED  BY <2>1, <2>2, <3>1, <3>2, Longer
  <2> QED  BY <2>3, <2>5 DEF OneInFlight
<1>4. ASSUME NEW m, ClientReads(m), cpc' = "top"
      PROVE  OneInFlight'
  <2>1. PICK k \in 1..Len(s2c[cfd]) : s2c'[cfd] = SubSeq(s2c[cfd], k + 1, Len(s2c[cfd]))
    BY <1>4, ReadFacts
  <2>2. Len(s2c'[cfd]) = Len(s2c[cfd]) - k
    BY <1>4, <2>1, ReadFacts, SuffixType
  <2>3. cfd \in Conns /\ cpc = "wait" /\ UNCHANGED <<cfd, late, c2s>>
    BY <1>4, ReadFacts
  <2>4. cfd # NoFd /\ ~late => Len(c2s[cfd]) + Len(s2c[cfd]) <= 1
    BY <2>3 DEF OneInFlight
  <2>5. ASSUME cfd # NoFd, ~late
        PROVE  Len(c2s[cfd]) + Len(s2c'[cfd]) <= 0
    <3>1. Len(c2s[cfd]) \in Nat /\ Len(s2c[cfd]) \in Nat
      BY <1>0, <2>3
    <3> QED  BY <2>2, <2>4, <2>5, <3>1, Shorter
  <2> QED  BY <1>4, <2>3, <2>5 DEF OneInFlight
<1>5. CASE ClientGone
  BY <1>5, ClientGoneFacts DEF OneInFlight
<1>6. CASE Accept
  BY <1>6, AcceptFacts DEF OneInFlight, connVars
<1>7. CASE ServerGone
  <2>1. cfd # NoFd => c2s'[cfd] = c2s[cfd] \/ c2s'[cfd] = <<>>
    BY <1>0, <1>7, ServerGoneFacts
  <2>2. Len(<<>>) = 0
    OBVIOUS
  <2>3. UNCHANGED <<cfd, cpc, late, s2c>>
    BY <1>7, ServerGoneFacts
  <2>4. ASSUME cfd # NoFd, ~late, NEW bound \in Nat,
               Len(c2s[cfd]) + Len(s2c[cfd]) <= bound
        PROVE  Len(c2s'[cfd]) + Len(s2c[cfd]) <= bound
    <3>1. Len(c2s[cfd]) \in Nat /\ Len(s2c[cfd]) \in Nat
      BY <1>0, <2>4
    <3>2. CASE c2s'[cfd] = c2s[cfd]
      BY <2>4, <3>2
    <3>3. CASE c2s'[cfd] = <<>>
      <4>1. Len(c2s'[cfd]) \in Nat /\ Len(c2s'[cfd]) + 0 <= Len(c2s[cfd])
        BY <2>2, <3>1, <3>3
      <4>2. Len(s2c[cfd]) <= Len(s2c[cfd]) + 0
        BY <3>1
      <4> QED  BY <2>4, <3>1, <4>1, <4>2, NoLonger
    <3> QED  BY <2>1, <2>4, <3>2, <3>3
  <2>6. cfd # NoFd /\ ~late =>
          Len(c2s'[cfd]) + Len(s2c[cfd]) <= IF cpc = "wait" THEN 1 ELSE 0
    BY <2>4 DEF OneInFlight
  <2> QED  BY <2>3, <2>6 DEF OneInFlight
<1>8. CASE NoTraffic
  BY <1>8 DEF OneInFlight, NoTraffic, connVars
<1>9. ASSUME NEW m, NEW reply \in ServerMsg, ServerReplies(m, reply)
      PROVE  OneInFlight'
  <2>1. CASE sfd # cfd
    BY <1>0, <1>9, <2>1, ReplyFacts DEF OneInFlight
  <2>2. CASE sfd = cfd
    <3>1. PICK k \in 1..Len(c2s[sfd]) : c2s'[sfd] = SubSeq(c2s[sfd], k + 1, Len(c2s[sfd]))
      BY <1>9, ReplyFacts
    <3>2. Len(c2s'[sfd]) = Len(c2s[sfd]) - k
      BY <1>9, <3>1, ReplyFacts, SuffixType
    <3>3. s2c[sfd] \in Seq(ServerMsg)
      BY <1>9, ReplyFacts DEF TypeOK, ConnType
    <3>4. s2c'[sfd] = Append(s2c[sfd], reply) \/ s2c'[sfd] = s2c[sfd]
      BY <1>9, ReplyFacts
    <3>5. /\ Len(s2c[sfd]) \in Nat /\ Len(c2s[sfd]) \in Nat
          /\ Len(s2c'[sfd]) = Len(s2c[sfd]) + 1 \/ Len(s2c'[sfd]) = Len(s2c[sfd])
      <4>1. Len(Append(s2c[sfd], reply)) = Len(s2c[sfd]) + 1
        BY <3>3
      <4>2. sfd \in Conns
        BY <1>9, ReplyFacts
      <4> QED  BY <1>0, <3>4, <4>1, <4>2
    <3>6. UNCHANGED <<cfd, cpc, late, sfd>>
      BY <1>9, ReplyFacts
    <3>7. ASSUME cfd # NoFd, ~late, NEW bound \in Nat,
                 Len(c2s[cfd]) + Len(s2c[cfd]) <= bound
          PROVE  Len(c2s'[cfd]) + Len(s2c'[cfd]) <= bound
      <4>1. Len(c2s'[cfd]) \in Nat /\ Len(c2s'[cfd]) + 1 <= Len(c2s[cfd])
        BY <2>2, <3>1, <3>2, <3>5
      <4>2. Len(s2c'[cfd]) \in Nat /\ Len(s2c'[cfd]) <= Len(s2c[cfd]) + 1
        BY <2>2, <3>5
      <4> QED  BY <2>2, <3>5, <3>7, <4>1, <4>2, NoLonger
    <3>9. cfd # NoFd /\ ~late =>
            Len(c2s'[cfd]) + Len(s2c'[cfd]) <= IF cpc = "wait" THEN 1 ELSE 0
      BY <3>7 DEF OneInFlight
    <3> QED  BY <3>6, <3>9 DEF OneInFlight
  <2> QED  BY <2>1, <2>2
<1> QED
  BY <1>2, <1>3, <1>4, <1>5, <1>6, <1>7, <1>8, <1>9 DEF ConnStep

LEMMA WireStep ==
    ASSUME TypeOK, WireOK, [Next]_vars
    PROVE  WireOK'
BY StepConn, SocketsStep, QuietStep, NewestStep, InFlightStep DEF WireOK

LEMMA WireInit == Init => WireOK
<1> SUFFICES ASSUME Init PROVE WireOK
  OBVIOUS
<1> QED
  BY ClusterAssumption DEF Init, WireOK, SocketsOK, QuietOK, NewestLast, OneInFlight

-----------------------------------------------------------------------------
(* Every step as the telegrams see it: where an order or an acknowledgement   *)
(* that is on its way after the step comes from.                              *)

LEMMA HasPart ==
    ASSUME NEW S, NEW q \in Seq(S), NEW k \in 1..Len(q), NEW m
    PROVE  /\ Has(SubSeq(q, k + 1, Len(q)), m) => Has(q, m)
           /\ Has(SubSeq(q, 1, k), m) => Has(q, m)
<1>1. k \in Nat /\ Len(q) \in Nat /\ DOMAIN q = 1..Len(q)
  BY LenProperties
<1>2. ASSUME NEW i \in DOMAIN SubSeq(q, k + 1, Len(q)), SubSeq(q, k + 1, Len(q))[i] = m
      PROVE  Has(q, m)
  <2>1. i \in 1..(Len(q) - k)
    BY <1>1, <1>2, SuffixType, LenProperties
  <2>2. k + i \in DOMAIN q /\ q[k + i] = m
    BY <1>1, <1>2, <2>1, SuffixType
  <2> QED  BY <2>2 DEF Has
<1>3. ASSUME NEW i \in DOMAIN SubSeq(q, 1, k), SubSeq(q, 1, k)[i] = m
      PROVE  Has(q, m)
  <2>1. i \in 1..k
    BY <1>1, <1>3, PrefixType, LenProperties
  <2>2. i \in DOMAIN q /\ q[i] = m
    BY <1>1, <1>3, <2>1, PrefixType
  <2> QED  BY <2>2 DEF Has
<1> QED  BY <1>2, <1>3 DEF Has

LEMMA HasAppend ==
    ASSUME NEW S, NEW q \in Seq(S), NEW x \in S, NEW m, Has(Append(q, x), m)
    PROVE  Has(q, m) \/ x = m
<1>1. PICK i \in DOMAIN Append(q, x) : Append(q, x)[i] = m
  BY DEF Has
<1>2. i \in 1..(Len(q) + 1) /\ Len(q) \in Nat /\ DOMAIN q = 1..Len(q)
  BY AppendProperties, LenProperties
<1>3. CASE i \in 1..Len(q)
  BY <1>1, <1>2, <1>3, AppendProperties DEF Has
<1>4. CASE i = Len(q) + 1
  BY <1>1, <1>4, AppendProperties
<1> QED  BY <1>2, <1>3, <1>4

LEMMA HasNothing ==
    ASSUME NEW m
    PROVE  ~Has(<<>>, m)
BY DEF Has

LEMMA OrdersStep ==
    ASSUME TypeOK, TypeOK', WireOK, ConnStep, NEW c \in Conns, Live(c)',
           Has(c2s'[c], trans_data_set_action(GET_RES))
    PROVE  \/ Live(c) /\ Has(c2s[c], trans_data_set_action(GET_RES))
           \/ send_data = trans_data_set_action(GET_RES)
<1> DEFINE order == trans_data_set_action(GET_RES)
<1>0. /\ NoFd \notin Conns /\ c2s[c] \in Seq(ClientMsg) /\ send_data \in ClientMsg
      /\ Len(backlog) \in Nat /\ DOMAIN backlog = 1..Len(backlog)
      /\ DOMAIN backlog' = 1..Len(backlog') /\ Has(c2s'[c], order)
  BY ClusterAssumption, LenProperties DEF TypeOK, ConnType, ClientType, ServerType
<1> SUFFICES \/ Live(c) /\ Has(c2s[c], order)
             \/ send_data = order
  OBVIOUS
<1> HIDE DEF order
<1>1. CASE ConnectOk
  <2>1. PICK d \in Conns :
             /\ srv_end[d] # "open"
             /\ Len(backlog') = Len(backlog) + 1
             /\ backlog'[Len(backlog) + 1] = d
             /\ \A i \in 1..Len(backlog) : backlog'[i] = backlog[i]
             /\ UNCHANGED <<sfd, c2s>>
    BY <1>1, ConnectFacts
  <2>2. c # d
    BY <1>0, <2>1, HasNothing DEF WireOK, QuietOK
  <2>3. \A i \in 1..(Len(backlog) + 1) : i \in 1..Len(backlog) \/ i = Len(backlog) + 1
    BY <1>0
  <2>4. Live(c)
    BY <1>0, <2>1, <2>2, <2>3 DEF Live
  <2> QED  BY <1>0, <2>1, <2>4
<1>2. CASE Send
  <2>1. Live(c)
    BY <1>2, SendFacts DEF Live
  <2>2. c2s'[c] = c2s[c] \/ c2s'[c] = Append(c2s[c], send_data)
    BY <1>2, SendFacts
  <2> QED  BY <1>0, <2>1, <2>2, HasAppend
<1>3. ASSUME NEW m, ClientReads(m) PROVE Live(c) /\ Has(c2s[c], order)
  BY <1>0, <1>3, ReadFacts DEF Live
<1>4. CASE ClientGone
  BY <1>0, <1>4, ClientGoneFacts DEF Live
<1>5. CASE Accept
  <2>1. /\ sfd' = backlog[1] /\ Len(backlog') = Len(backlog) - 1 /\ Len(backlog) \in Nat \ {0}
        /\ \A i \in 1..(Len(backlog) - 1) : backlog'[i] = backlog[i + 1]
        /\ UNCHANGED c2s
    BY <1>5, AcceptFacts DEF connVars
  <2>2. 1 \in 1..Len(backlog) /\ \A i \in 1..(Len(backlog) - 1) : i + 1 \in 1..Len(backlog)
    BY <2>1
  <2>3. Live(c)
    BY <1>0, <2>1, <2>2 DEF Live
  <2> QED  BY <1>0, <2>1, <2>3
<1>6. CASE ServerGone
  <2>1. Has(c2s[c], order)
    BY <1>0, <1>6, ServerGoneFacts, HasNothing
  <2>2. Live(c)
    BY <1>0, <1>6, ServerGoneFacts DEF Live
  <2> QED  BY <2>1, <2>2
<1>7. CASE NoTraffic
  BY <1>0, <1>7 DEF NoTraffic, connVars, Live
<1>8. ASSUME NEW m, NEW reply \in ServerMsg, ServerReplies(m, reply)
      PROVE  Live(c) /\ Has(c2s[c], order)
  <2>1. Live(c)
    BY <1>8, ReplyFacts DEF Live
  <2>2. CASE c # sfd
    BY <1>0, <1>8, <2>1, <2>2, ReplyFacts
  <2>3. CASE c = sfd
    <3>1. PICK k \in 1..Len(c2s[sfd]) : c2s'[sfd] = SubSeq(c2s[sfd], k + 1, Len(c2s[sfd]))
      BY <1>8, ReplyFacts
    <3> QED  BY <1>0, <2>1, <2>3, <3>1, HasPart
  <2> QED  BY <2>2, <2>3
<1> QED
  BY <1>1, <1>2, <1>3, <1>4, <1>5, <1>6, <1>7, <1>8 DEF ConnStep

LEMMA ReleasesStep ==
    ASSUME TypeOK, TypeOK', WireOK, ConnStep, cfd' # NoFd, ~late',
           Has(s2c'[cfd'], reply_action(FREED_RES))
    PROVE  \/ cfd # NoFd /\ ~late /\ Has(s2c[cfd], reply_action(FREED_RES))
           \/ Yields(backup)'
<1> DEFINE answer == reply_action(FREED_RES)
<1>0. /\ NoFd \notin Conns /\ cfd' \in Conns /\ Has(s2c'[cfd'], answer)
      /\ \A c \in Conns : s2c[c] \in Seq(ServerMsg)
  BY ClusterAssumption DEF TypeOK, ConnType, ClientType
<1> SUFFICES (cfd # NoFd /\ ~late /\ Has(s2c[cfd], answer)) \/ Yields(backup)'
  OBVIOUS
<1>1. CASE ConnectOk
  <2>1. s2c'[cfd'] = <<>>
    BY <1>1, ConnectFacts DEF WireOK, QuietOK
  <2> QED  BY <1>0, <2>1, HasNothing
<1>2. CASE Send
  BY <1>0, <1>2, SendFacts
<1>3. ASSUME NEW m, ClientReads(m)
      PROVE  cfd # NoFd /\ ~late /\ Has(s2c[cfd], answer)
  <2>1. PICK k \in 1..Len(s2c[cfd]) : s2c'[cfd] = SubSeq(s2c[cfd], k + 1, Len(s2c[cfd]))
    BY <1>3, ReadFacts
  <2>2. cfd \in Conns /\ UNCHANGED <<cfd, late>> /\ s2c[cfd] \in Seq(ServerMsg)
    BY <1>3, ReadFacts
  <2>3. Has(SubSeq(s2c[cfd], k + 1, Len(s2c[cfd])), answer)
    BY <1>0, <2>1, <2>2
  <2>4. Has(s2c[cfd], answer)
    <3> HIDE DEF answer
    <3> QED  BY <2>2, <2>3, HasPart
  <2> QED  BY <1>0, <2>2, <2>4
<1>4. CASE ClientGone
  BY <1>4, ClientGoneFacts
<1>5. CASE Accept
  BY <1>0, <1>5, AcceptFacts DEF connVars
<1>6. CASE ServerGone
  BY <1>0, <1>6, ServerGoneFacts
<1>7. CASE NoTraffic
  BY <1>0, <1>7 DEF NoTraffic, connVars
<1>8. ASSUME NEW m, NEW reply \in ServerMsg, ServerReplies(m, reply),
             reply = reply_action(FREED_RES) => Yields(backup)'
      PROVE  (cfd # NoFd /\ ~late /\ Has(s2c[cfd], answer)) \/ Yields(backup)'
  <2>1. UNCHANGED <<cfd, late>>
    BY <1>8, ReplyFacts
  <2>2. \/ s2c'[cfd] = s2c[cfd]
        \/ s2c'[cfd] = Append(s2c[cfd], reply)
    BY <1>0, <1>8, <2>1, ReplyFacts
  <2>3. Has(s2c[cfd], answer) \/ reply = answer
    <3> HIDE DEF answer
    <3> QED  BY <1>0, <2>1, <2>2, HasAppend
  <2> QED  BY <1>0, <1>8, <2>1, <2>3
<1> QED
  BY <1>1, <1>2, <1>3, <1>4, <1>5, <1>6, <1>7, <1>8 DEF ConnStep

-----------------------------------------------------------------------------
(* The steps as the resources see them: all but two of them can only give the *)
(* VIP up or take it on the node's own account.                               *)

TakesAlone(n) ==
    /\ vip' = [vip EXCEPT ![n] = TRUE]
    /\ solo' = IF ~vip[n] THEN solo \cup {n} ELSE solo

SafeRes == UNCHANGED <<vip, solo>> \/ \E n \in Node : LosesVip(n) \/ TakesAlone(n)

LEMMA StandAloneRes ==
    ASSUME NEW n \in Node, StandAlone(n)
    PROVE  SafeRes
<1>1. CASE TakeOver(n, TRUE)
  BY <1>1 DEF TakeOver, SafeRes, TakesAlone
<1>2. CASE Release(n)
  BY <1>2 DEF Release, SafeRes, LosesVip
<1>3. CASE UNCHANGED resVars
  BY <1>3 DEF resVars, SafeRes
<1> QED  BY <1>1, <1>2, <1>3 DEF StandAlone

LEMMA StepRes ==
    ASSUME TypeOK, [Next]_vars
    PROVE  SafeRes \/ GetRes \/ (FreedRes /\ ~late)
<1>0. primary \in Node /\ backup \in Node
  BY DEF Node
<1>1. ASSUME UNCHANGED resVars PROVE SafeRes
  BY <1>1 DEF resVars, SafeRes
<1>2. CASE ClientStep
  <2>1. CASE ConnectOk \/ Send \/ ClientHeartbeat \/ ClientError
    BY <1>1, <2>1 DEF ConnectOk, Send, ClientHeartbeat, ClientError
  <2>2. CASE ConnectFail \/ ClientTimeout \/ ClientEof
    BY <1>0, <1>1, <2>2, StandAloneRes DEF ConnectFail, ClientTimeout, ClientTimesOut, ClientEof
  <2>3. CASE GotRes
    BY <2>3 DEF GotRes, SafeRes
  <2>4. CASE FreedRes /\ late
    BY <1>0, <2>4 DEF FreedRes, TakeOver, SafeRes, TakesAlone
  <2>5. CASE ReplyServerStatus
    <3>1. UNCHANGED resVars \/ Release(primary)
      BY <2>5 DEF ReplyServerStatus
    <3> QED  BY <1>0, <1>1, <3>1 DEF Release, SafeRes, LosesVip
  <2> QED  BY <1>2, <2>1, <2>2, <2>3, <2>4, <2>5 DEF ClientStep
<1>3. CASE ServerStep
  <2>1. CASE Select \/ Accept \/ GetServerStatus \/ ServerHeartbeat \/ ServerError
    BY <1>1, <2>1 DEF Select, Accept, GetServerStatus, ServerHeartbeat, ServerError
  <2>2. CASE AcceptTimeout \/ ServerTimeout \/ ServerEof
    BY <1>0, <2>2, StandAloneRes
    DEF AcceptTimeout, AcceptTimesOut, ServerTimeout, ServerTimesOut, ServerEof
  <2>3. CASE FreeRes
    BY <1>0, <2>3 DEF FreeRes, Release, SafeRes, LosesVip
  <2> QED  BY <1>3, <2>1, <2>2, <2>3 DEF ServerStep
<1>4. ASSUME NEW n \in Node, StatusStep(n)
      PROVE  SafeRes
  BY <1>4 DEF StatusStep, StatusRound, CheckVip, PublishVip, RunAllPlugin, resVars, SafeRes
<1>5. CASE EnvironmentStep
  <2>1. CASE Cut \/ Heal
    BY <1>1, <2>1 DEF Cut, Heal
  <2>2. CASE LateAnswer \/ LateRequest \/ LateConnect
    BY <1>0, <2>2, StandAloneRes
    DEF LateAnswer, ClientTimesOut, LateRequest, ServerTimesOut, LateConnect, AcceptTimesOut
  <2>3. ASSUME NEW n \in Node, HealthFlip(n) \/ Start(n)
        PROVE  SafeRes
    <3>1. UNCHANGED resVars
      BY <2>3 DEF HealthFlip, Start
    <3> QED  BY <1>1, <3>1
  <2>4. ASSUME NEW n \in Node, Standby(n) \/ ServiceStop(n) \/ PowerLoss(n)
        PROVE  SafeRes
    BY <2>4 DEF Standby, ServiceStop, PowerLoss, SafeRes, LosesVip
  <2>5. ASSUME NEW n \in Node, Takeover(n)
        PROVE  SafeRes
    BY <2>5 DEF Takeover, SafeRes, TakesAlone
  <2>6. ASSUME NEW n \in Node, Crash(n)
        PROVE  SafeRes
    BY <2>6 DEF Crash, SafeRes
  <2> QED  BY <1>5, <2>1, <2>2, <2>3, <2>4, <2>5, <2>6 DEF EnvironmentStep
<1>6. CASE UNCHANGED vars
  BY <1>1, <1>6 DEF vars
<1> QED  BY <1>2, <1>3, <1>4, <1>5, <1>6 DEF Next

LEMMA SafeResKeeps ==
    ASSUME TypeOK, SoloOK, Exclusive, SafeRes
    PROVE  /\ SoloOK' /\ Exclusive'
           /\ \A n \in Node : Yields(n) => Yields(n)'
<1>1. CASE UNCHANGED <<vip, solo>>
  BY <1>1 DEF SoloOK, Exclusive, Yields
<1>2. ASSUME NEW n \in Node, LosesVip(n)
      PROVE  /\ SoloOK' /\ Exclusive'
             /\ \A m \in Node : Yields(m) => Yields(m)'
  BY <1>2 DEF LosesVip, TypeOK, ResType, SoloOK, Exclusive, Yields
<1>3. ASSUME NEW n \in Node, TakesAlone(n)
      PROVE  /\ SoloOK' /\ Exclusive'
             /\ \A m \in Node : Yields(m) => Yields(m)'
  BY <1>3 DEF TakesAlone, TypeOK, ResType, SoloOK, Exclusive, Yields
<1> QED  BY <1>1, <1>2, <1>3 DEF SafeRes

(* The client only ever has an order to take in hand because it has just      *)
(* released.                                                                  *)
LEMMA SendDataStep ==
    ASSUME TypeOK, [Next]_vars, send_data' = trans_data_set_action(GET_RES)
    PROVE  \/ UNCHANGED <<send_data, cpc>>
           \/ cpc' = "top" /\ Release(primary)
<1>1. CASE UNCHANGED clientVars
  BY <1>1 DEF clientVars
<1>2. CASE ClientStep
  <2>1. CASE ConnectOk \/ Send \/ ClientTimeout \/ ClientEof \/ ClientError
    BY <2>1, MessagesDiffer
    DEF ConnectOk, Send, ClientTimeout, ClientTimesOut, ClientEof, ClientError, ClientDrops
  <2>2. CASE ConnectFail
    BY <2>2 DEF ConnectFail
  <2>3. CASE GotRes \/ FreedRes \/ ClientHeartbeat
    BY <2>3, MessagesDiffer DEF GotRes, FreedRes, ClientHeartbeat, Prepare
  <2>4. CASE ReplyServerStatus
    <3>1. \/ Prepare(trans_data_set_none)
          \/ Release(primary) /\ Prepare(trans_data_set_action(GET_RES))
          \/ Prepare(trans_data_set_action(FREE_RES))
      BY <2>4 DEF ReplyServerStatus
    <3> QED  BY <3>1, MessagesDiffer DEF Prepare
  <2> QED  BY <1>2, <2>1, <2>2, <2>3, <2>4 DEF ClientStep
<1>3. CASE ServerStep
  BY <1>1, <1>3
  DEF ServerStep, Select, Accept, AcceptTimeout, AcceptTimesOut, GetRes, FreeRes,
      GetServerStatus, ServerHeartbeat, ServerAnswers, ServerTimeout, ServerTimesOut,
      ServerEof, ServerError, ServerDrops
<1>4. ASSUME NEW n \in Node, StatusStep(n)
      PROVE  UNCHANGED clientVars
  BY <1>4 DEF StatusStep, StatusRound, CheckVip, PublishVip, RunAllPlugin
<1>5. CASE EnvironmentStep
  <2>1. CASE Cut \/ Heal \/ LateRequest \/ LateConnect
    BY <1>1, <2>1
    DEF Cut, Heal, LateRequest, ServerTimesOut, ServerDrops, LateConnect, AcceptTimesOut
  <2>2. CASE LateAnswer
    BY <2>2, MessagesDiffer DEF LateAnswer, ClientTimesOut
  <2>3. ASSUME NEW n \in Node, Standby(n) \/ Takeover(n) \/ HealthFlip(n) \/ Start(n)
        PROVE  UNCHANGED clientVars
    BY <2>3 DEF Standby, Takeover, HealthFlip, Start
  <2>4. ASSUME NEW n \in Node, Crash(n) \/ ServiceStop(n) \/ PowerLoss(n)
        PROVE  UNCHANGED clientVars
    <3>1. PICK how \in {"closed", "gone"} : Dies(n, how)
      BY <2>4 DEF Crash, ServiceStop, PowerLoss
    <3>2. ClientDies(how) \/ ServerDies(how)
      BY <3>1 DEF Dies
    <3> QED  BY <3>2, MessagesDiffer DEF ClientDies, ServerDies
  <2> QED  BY <1>1, <1>5, <2>1, <2>2, <2>3, <2>4 DEF EnvironmentStep
<1>6. CASE UNCHANGED vars
  BY <1>1, <1>6 DEF vars
<1> QED  BY <1>1, <1>2, <1>3, <1>4, <1>5, <1>6 DEF Next

-----------------------------------------------------------------------------
(* The two steps that take the VIP on a telegram.                             *)

(* An order to take that the backup acts on was sent by a primary that has    *)
(* let the VIP go and has not taken it back in good order since.              *)
LEMMA GetResYields ==
    ASSUME IInv, GetRes
    PROVE  Yields(primary)
<1>1. PICK k \in 1..Len(c2s[sfd]) :
        trans_data_set_action(GET_RES) = Coalesced(SubSeq(c2s[sfd], 1, k))
  BY DEF GetRes, ServerAnswers
<1>2. sfd \in Conns /\ c2s[sfd] \in Seq(ClientMsg)
  BY DEF IInv, TypeOK, ServerType, ConnType, GetRes, ServerAnswers
<1>3. Has(SubSeq(c2s[sfd], 1, k), trans_data_set_action(GET_RES))
  <2>1. SubSeq(c2s[sfd], 1, k) \in Seq(ClientMsg)
    BY <1>2, PrefixType
  <2>2. SubSeq(c2s[sfd], 1, k) \in Seq(AnyMsg)
    BY <2>1 DEF AnyMsg, Msg
  <2> QED  BY <1>1, <2>2, GetResGenuine DEF Has
<1>4. Has(c2s[sfd], trans_data_set_action(GET_RES))
  BY <1>2, <1>3, HasPart
<1> QED  BY <1>2, <1>4 DEF IInv, OrderOK, GetResOK, Live

(* A client that has not timed out has one telegram to read, and nothing of   *)
(* its own on the way or waiting.                                             *)
LEMMA AnswerAlone ==
    ASSUME IInv, cfd # NoFd, ~late, s2c[cfd] # <<>>
    PROVE  /\ cfd \in Conns /\ s2c[cfd] \in Seq(ServerMsg) /\ Len(s2c[cfd]) = 1
           /\ c2s[cfd] = <<>>
           /\ \A c \in Conns : Live(c) => c = cfd
<1>1. cfd \in Conns /\ s2c[cfd] \in Seq(ServerMsg) /\ c2s[cfd] \in Seq(ClientMsg)
  BY DEF IInv, TypeOK, ClientType, ConnType
<1>2. Len(s2c[cfd]) \in Nat /\ Len(c2s[cfd]) \in Nat /\ Len(s2c[cfd]) # 0
  BY <1>1, LenProperties, EmptySeq
<1>3. Len(c2s[cfd]) + Len(s2c[cfd]) <= 1 \/ Len(c2s[cfd]) + Len(s2c[cfd]) <= 0
  BY DEF IInv, WireOK, OneInFlight
<1>4. ASSUME NEW a \in Nat, NEW b \in Nat, b # 0, a + b <= 1 \/ a + b <= 0
      PROVE  a = 0 /\ b = 1
  BY <1>4
<1>5. Len(s2c[cfd]) = 1 /\ Len(c2s[cfd]) = 0
  BY <1>2, <1>3, <1>4
<1>6. backlog = <<>> /\ sfd \in {cfd, NoFd}
  BY DEF IInv, WireOK, NewestLast
<1>7. \A c \in Conns : Live(c) => c = cfd
  BY <1>6, ClusterAssumption DEF Live
<1> QED  BY <1>1, <1>5, <1>7, EmptySeq

(* A release that the client is told of in time has been done, and the backup *)
(* has not taken the VIP back in good order since.                            *)
LEMMA FreedResYields ==
    ASSUME IInv, FreedRes, ~late
    PROVE  Yields(backup)
<1>1. cfd \in Conns /\ cfd # NoFd
  BY ClusterAssumption DEF IInv, TypeOK, ClientType, FreedRes, ClientReads
<1>2. PICK k \in 1..Len(s2c[cfd]) :
        reply_action(FREED_RES) = Coalesced(SubSeq(s2c[cfd], 1, k))
  BY DEF FreedRes, ClientReads
<1>3. s2c[cfd] # <<>>
  BY <1>2
<1>4. s2c[cfd] \in Seq(ServerMsg) /\ Len(s2c[cfd]) = 1
  BY <1>1, <1>3, AnswerAlone
<1>5. k = 1
  BY <1>2, <1>4
<1>6. /\ SubSeq(s2c[cfd], 1, k) \in Seq(ServerMsg) /\ Len(SubSeq(s2c[cfd], 1, k)) = 1
      /\ SubSeq(s2c[cfd], 1, k)[1] = s2c[cfd][1]
  BY <1>2, <1>4, <1>5, PrefixType
<1>7. s2c[cfd][1] \in ServerMsg /\ 1 \in DOMAIN s2c[cfd]
  BY <1>4, ElementOfSeq, LenProperties
<1>8. SubSeq(s2c[cfd], 1, k) \in Seq(AnyMsg)
  BY <1>6 DEF AnyMsg, Msg
<1>9. Coalesced(SubSeq(s2c[cfd], 1, k)) = s2c[cfd][1]
  <2>1. DOMAIN SubSeq(s2c[cfd], 1, k) = {1}
    BY <1>6, <1>8, LenProperties
  <2> QED
    BY <1>6, <1>8, <2>1, ReadAlone
<1>10. Has(s2c[cfd], reply_action(FREED_RES))
  BY <1>2, <1>7, <1>9 DEF Has
<1> QED  BY <1>1, <1>10 DEF IInv, OrderOK, FreedResOK

LEMMA OrderStep ==
    ASSUME IInv, [Next]_vars
    PROVE  OrderOK'
<1> USE DEF IInv
<1>0. TypeOK' /\ ConnStep /\ NoFd \notin Conns
  BY StepType, StepConn, ClusterAssumption
<1>1. (send_data = trans_data_set_action(GET_RES) => Yields(primary)')
        /\ (\A c \in Conns : Live(c) /\ Has(c2s[c], trans_data_set_action(GET_RES))
                               => Yields(primary)')
      => GetResOK'
  <2>1. ASSUME send_data = trans_data_set_action(GET_RES) => Yields(primary)',
               send_data' = trans_data_set_action(GET_RES)
        PROVE  cpc' = "top" /\ Yields(primary)'
    <3>1. CASE UNCHANGED <<send_data, cpc>>
      BY <2>1, <3>1 DEF OrderOK, GetResOK
    <3>2. CASE cpc' = "top" /\ Release(primary)
      BY <3>2 DEF Release, Yields, TypeOK, ResType, Node
    <3> QED  BY <2>1, <3>1, <3>2, SendDataStep
  <2>2. ASSUME send_data = trans_data_set_action(GET_RES) => Yields(primary)',
               \A c \in Conns : Live(c) /\ Has(c2s[c], trans_data_set_action(GET_RES))
                                  => Yields(primary)',
               NEW c \in Conns, Live(c)', Has(c2s'[c], trans_data_set_action(GET_RES))
        PROVE  Yields(primary)'
    BY <1>0, <2>2, OrdersStep
  <2> QED  BY <2>1, <2>2 DEF GetResOK
<1>2. (cfd # NoFd /\ ~late /\ Has(s2c[cfd], reply_action(FREED_RES)) => Yields(backup)')
      => FreedResOK'
  BY <1>0, ReleasesStep DEF FreedResOK
<1>3. CASE SafeRes
  <2>1. SoloOK' /\ Exclusive' /\ \A n \in Node : Yields(n) => Yields(n)'
    BY <1>3, SafeResKeeps DEF OrderOK
  <2>2. primary \in Node /\ backup \in Node
    BY DEF Node
  <2>3. GetResOK'
    BY <1>1, <2>1, <2>2 DEF OrderOK, GetResOK
  <2>4. FreedResOK'
    BY <1>2, <2>1, <2>2 DEF OrderOK, FreedResOK
  <2> QED  BY <2>1, <2>3, <2>4 DEF OrderOK
<1>4. CASE GetRes
  <2>1. Yields(primary) /\ TakeOver(backup, FALSE)
    BY <1>4, GetResYields DEF GetRes
  <2>2. SoloOK' /\ Exclusive' /\ Yields(primary)'
    BY <2>1
    DEF TakeOver, OrderOK, SoloOK, Exclusive, Yields, TypeOK, ResType, Node, primary, backup
  <2>3. ~(cfd # NoFd /\ ~late /\ Has(s2c[cfd], reply_action(FREED_RES)))
    <3> SUFFICES ASSUME cfd # NoFd, ~late, Has(s2c[cfd], reply_action(FREED_RES))
                 PROVE  FALSE
      OBVIOUS
    <3>1. s2c[cfd] # <<>>
      BY HasNothing
    <3>2. sfd \in Conns /\ Live(sfd) /\ c2s[sfd] # <<>>
      BY <1>4 DEF GetRes, ServerAnswers, TypeOK, ServerType, Live
    <3> QED  BY <3>1, <3>2, AnswerAlone
  <2> QED  BY <1>1, <1>2, <2>2, <2>3 DEF OrderOK
<1>5. CASE FreedRes /\ ~late
  <2>1. Yields(backup) /\ TakeOver(primary, FALSE)
    BY <1>5, FreedResYields DEF FreedRes, TypeOK, ClientType
  <2>2. SoloOK' /\ Exclusive' /\ Yields(backup)'
    BY <2>1
    DEF TakeOver, OrderOK, SoloOK, Exclusive, Yields, TypeOK, ResType, Node, primary, backup
  <2>3. cfd # NoFd /\ cpc = "wait" /\ s2c[cfd] # <<>>
    BY <1>5 DEF FreedRes, ClientReads, TypeOK, ClientType
  <2>4. send_data # trans_data_set_action(GET_RES)
    BY <2>3 DEF OrderOK, GetResOK
  <2>5. \A c \in Conns : ~(Live(c) /\ Has(c2s[c], trans_data_set_action(GET_RES)))
    BY <1>5, <2>3, AnswerAlone, HasNothing
  <2> QED  BY <1>1, <1>2, <2>2, <2>4, <2>5 DEF OrderOK
<1> QED  BY <1>3, <1>4, <1>5, StepRes

-----------------------------------------------------------------------------
LEMMA OrderInit == Init => OrderOK
<1> SUFFICES ASSUME Init PROVE OrderOK
  OBVIOUS
<1>1. send_data # trans_data_set_action(GET_RES)
  BY MessagesDiffer DEF Init
<1>2. \A c \in Conns : ~Has(c2s[c], trans_data_set_action(GET_RES))
  BY HasNothing DEF Init
<1>3. SoloOK /\ Exclusive
  BY DEF Init, HostInit, SoloOK, Exclusive
<1> QED  BY <1>1, <1>2, <1>3 DEF Init, OrderOK, GetResOK, FreedResOK

THEOREM Invariance == Spec => []IInv
<1>1. Init => IInv
  BY InitType, WireInit, OrderInit DEF IInv
<1>2. IInv /\ [Next]_vars => IInv'
  BY StepType, WireStep, OrderStep DEF IInv
<1> QED  BY <1>1, <1>2, PTL DEF Spec

(* As long as the client has not timed out on it, a connection carries one    *)
(* telegram at most, so no Read runs two of them together (the stream has no  *)
(* framing).                                                                  *)
THEOREM LockstepHolds == Spec => []Lockstep
<1>1. IInv => Lockstep
  <2> SUFFICES ASSUME IInv, cfd # NoFd, ~late
               PROVE  Len(c2s[cfd]) + Len(s2c[cfd]) <= 1
    BY DEF Lockstep
  <2>1. Len(c2s[cfd]) \in Nat /\ Len(s2c[cfd]) \in Nat
    BY LenProperties DEF IInv, TypeOK, ClientType, ConnType
  <2>2. Len(c2s[cfd]) + Len(s2c[cfd]) <= IF cpc = "wait" THEN 1 ELSE 0
    BY DEF IInv, WireOK, OneInFlight
  <2>3. ASSUME NEW a \in Nat, NEW b \in Nat, a + b <= 0
        PROVE  a + b <= 1
    BY <2>3
  <2> QED  BY <2>1, <2>2, <2>3
<1> QED  BY <1>1, Invariance, PTL

(* Whatever the two main loops, the status threads, the operators and the     *)
(* network do, the two nodes never both hold the VIP in good order.           *)
THEOREM ExclusiveHolds == Spec => []Exclusive
<1>1. IInv => Exclusive
  BY DEF IInv, OrderOK
<1> QED  BY <1>1, Invariance, PTL

(* The cluster implements VipService: every step is a Take, a Seize or a      *)
(* Release of one node, or changes neither the VIPs nor whose they are.       *)
THEOREM ServiceImplemented == Spec => ServiceSpec
<1> DEFINE holders == {n \in Node : vip[n]}
<1>1. Init => Service!Init
  BY DEF Init, HostInit, Service!Init
<1>2. ASSUME IInv, [Next]_vars
      PROVE  [Service!Next]_<<holders, solo>>
  <2>0. primary \in Node /\ backup \in Node /\ vip \in [Node -> BOOLEAN] /\ solo \subseteq Node
    BY <1>2 DEF Node, IInv, TypeOK, ResType
  <2>1. CASE UNCHANGED <<vip, solo>>
    BY <2>1
  <2>2. ASSUME NEW n \in Node, LosesVip(n)
        PROVE  Service!Release(n) \/ UNCHANGED <<holders, solo>>
    <3>1. holders' = holders \ {n} /\ solo' = solo \ {n}
      BY <2>0, <2>2 DEF LosesVip
    <3>2. CASE vip[n]
      BY <3>1, <3>2 DEF Service!Release
    <3>3. CASE ~vip[n]
      BY <1>2, <3>1, <3>3 DEF IInv, OrderOK, SoloOK
    <3> QED  BY <3>2, <3>3
  <2>3. ASSUME NEW n \in Node, TakesAlone(n)
        PROVE  Service!Seize(n) \/ UNCHANGED <<holders, solo>>
    <3>1. holders' = holders \cup {n}
      BY <2>0, <2>3 DEF TakesAlone
    <3>2. CASE vip[n]
      BY <2>3, <3>1, <3>2 DEF TakesAlone
    <3>3. CASE ~vip[n]
      BY <2>3, <3>1, <3>3 DEF TakesAlone, Service!Seize
    <3> QED  BY <3>2, <3>3
  <2>4. ASSUME NEW n \in Node, NEW m \in Node, Node = {n, m}, TakeOver(n, FALSE), Yields(m)
        PROVE  Service!Take(n) \/ UNCHANGED <<holders, solo>>
    <3>1. holders' = holders \cup {n} /\ UNCHANGED solo
      BY <2>0, <2>4 DEF TakeOver
    <3>2. CASE vip[n]
      BY <3>1, <3>2
    <3>3. CASE ~vip[n]
      BY <2>4, <3>1, <3>3 DEF Yields, Service!Take
    <3> QED  BY <3>2, <3>3
  <2>5. CASE GetRes
    BY <1>2, <2>0, <2>4, <2>5, GetResYields DEF GetRes, Node, Service!Next
  <2>6. CASE FreedRes /\ ~late
    <3>1. TakeOver(primary, FALSE) /\ Yields(backup)
      BY <1>2, <2>6, FreedResYields DEF FreedRes, IInv, TypeOK, ClientType
    <3> QED  BY <2>0, <2>4, <3>1 DEF Node, Service!Next
  <2>7. CASE SafeRes
    BY <2>1, <2>2, <2>3, <2>7 DEF SafeRes, Service!Next
  <2> QED  BY <1>2, <2>5, <2>6, <2>7, StepRes DEF IInv
<1> QED  BY <1>1, <1>2, Invariance, PTL DEF Spec, ServiceSpec, Service!Spec

=============================================================================
