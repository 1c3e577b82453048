--------------------------- MODULE HbClusterProofs ---------------------------
(* Proofs about HbCluster for every value of its constants.                   *)

EXTENDS HbCluster, TelegramProofs

-----------------------------------------------------------------------------
(* Type correctness: what the pieces that several actions share do to the     *)
(* types, then the actions one by one.                                        *)

LEMMA TakeOverType ==
    ASSUME ResType, NEW n \in Node, NEW alone \in BOOLEAN, TakeOver(n, alone)
    PROVE  ResType'
BY DEF ResType, TakeOver

LEMMA ReleaseType ==
    ASSUME ResType, NEW n \in Node, Release(n)
    PROVE  ResType'
BY DEF ResType, Release

LEMMA StandAloneType ==
    ASSUME ResType, NEW n \in Node, StandAlone(n)
    PROVE  ResType'
<1>1. CASE TakeOver(n, TRUE)  BY <1>1, TakeOverType
<1>2. CASE Release(n)         BY <1>2, ReleaseType
<1>3. CASE UNCHANGED resVars  BY <1>3 DEF ResType, resVars
<1> QED  BY <1>1, <1>2, <1>3 DEF StandAlone

LEMMA ClientEndsType ==
    ASSUME ConnType, NEW c \in Conns, NEW how \in End, ClientEnds(c, how)
    PROVE  ConnType'
<1>1. cli_end' \in [Conns -> End]
  BY DEF ConnType, ClientEnds, EndsWith, End
<1>2. srv_end' \in [Conns -> End]
  BY DEF ConnType, ClientEnds, End
<1>3. s2c' \in [Conns -> Seq(ServerMsg)]
  BY EmptySeq DEF ConnType, ClientEnds
<1> QED  BY <1>1, <1>2, <1>3 DEF ConnType, ClientEnds

LEMMA ServerEndsType ==
    ASSUME ConnType, NEW C \in SUBSET Conns, NEW how \in End, ServerEnds(C, how)
    PROVE  ConnType'
<1>1. \A c \in Conns : EndsWith(srv_end, cli_end, c, how)[c] \in End
  BY DEF ConnType, EndsWith, End
<1>2. srv_end' \in [Conns -> End]
  BY <1>1 DEF ConnType, ServerEnds
<1>3. cli_end' \in [Conns -> End]
  BY DEF ConnType, ServerEnds, End
<1>4. c2s' \in [Conns -> Seq(ClientMsg)]
  BY EmptySeq DEF ConnType, ServerEnds
<1> QED  BY <1>2, <1>3, <1>4 DEF ConnType, ServerEnds

LEMMA PrepareType ==
    ASSUME ClientType, cpc = "wait", cfd' = cfd, UNCHANGED <<try_time_sum, late>>,
           NEW next \in ClientMsg, Prepare(next)
    PROVE  ClientType'
<1>1. none_package_send_times' \in Nat
  BY DEF ClientType, Prepare
<1>2. send_data' \in ClientMsg
  BY MessageFacts DEF Prepare
<1>3. cpc' = "top"
  BY DEF Prepare
<1> QED  BY <1>1, <1>2, <1>3 DEF ClientType

LEMMA SuffixType ==
    ASSUME NEW S, NEW s \in Seq(S), NEW k \in 1..Len(s)
    PROVE  /\ SubSeq(s, k + 1, Len(s)) \in Seq(S)
           /\ Len(SubSeq(s, k + 1, Len(s))) = Len(s) - k
           /\ \A i \in 1..(Len(s) - k) : SubSeq(s, k + 1, Len(s))[i] = s[k + i]
<1>1. Len(s) \in Nat /\ k \in Int /\ k + 1 \in Int /\ \A i \in (k + 1)..Len(s) : s[i] \in S
  BY LenProperties, ElementOfSeq
<1> QED  BY <1>1, SubSeqProperties

LEMMA PrefixType ==
    ASSUME NEW S, NEW s \in Seq(S), NEW k \in 1..Len(s)
    PROVE  /\ SubSeq(s, 1, k) \in Seq(S)
           /\ Len(SubSeq(s, 1, k)) = k
           /\ \A i \in 1..k : SubSeq(s, 1, k)[i] = s[i]
<1>1. Len(s) \in Nat /\ k \in Int /\ \A i \in 1..k : s[i] \in S
  BY LenProperties, ElementOfSeq
<1> QED  BY <1>1, SubSeqProperties

LEMMA Frames ==
    /\ EnvType /\ UNCHANGED envVars => EnvType'
    /\ HostType /\ UNCHANGED <<nodeVars, cacheVars, statusVars>> => HostType'
    /\ ResType /\ UNCHANGED resVars => ResType'
    /\ ClientType /\ UNCHANGED clientVars => ClientType'
    /\ ServerType /\ UNCHANGED serverVars => ServerType'
    /\ ConnType /\ UNCHANGED connVars => ConnType'
<1>1. EnvType /\ UNCHANGED envVars => EnvType'
  BY DEF EnvType, envVars
<1>2. HostType /\ UNCHANGED <<nodeVars, cacheVars, statusVars>> => HostType'
  BY DEF HostType, nodeVars, cacheVars, statusVars
<1>3. ResType /\ UNCHANGED resVars => ResType'
  BY DEF ResType, resVars
<1>4. ClientType /\ UNCHANGED clientVars => ClientType'
  BY DEF ClientType, clientVars
<1>5. ServerType /\ UNCHANGED serverVars => ServerType'
  BY DEF ServerType, serverVars
<1>6. ConnType /\ UNCHANGED connVars => ConnType'
  BY DEF ConnType, connVars
<1> QED  BY <1>1, <1>2, <1>3, <1>4, <1>5, <1>6

LEMMA ClientReadsType ==
    ASSUME TypeOK, NEW m, ClientReads(m)
    PROVE  EnvType' /\ HostType' /\ ServerType' /\ ConnType' /\ cfd \in Conns
<1>1. cfd \in Conns
  BY DEF TypeOK, ClientType, ClientReads
<1>2. PICK k \in 1..Len(s2c[cfd]) : s2c' = [s2c EXCEPT ![cfd] = SubSeq(@, k + 1, Len(@))]
  BY DEF ClientReads
<1>3. s2c[cfd] \in Seq(ServerMsg)
  BY <1>1 DEF TypeOK, ConnType
<1>4. SubSeq(s2c[cfd], k + 1, Len(s2c[cfd])) \in Seq(ServerMsg)
  BY <1>3, SuffixType
<1>5. s2c' \in [Conns -> Seq(ServerMsg)]
  BY <1>2, <1>4 DEF TypeOK, ConnType
<1>6. ConnType'
  BY <1>5 DEF TypeOK, ConnType, ClientReads
<1> QED
  BY <1>1, <1>6, Frames DEF TypeOK, ClientReads

LEMMA ServerAnswersType ==
    ASSUME TypeOK, NEW m, NEW reply \in ServerMsg, ServerAnswers(m, reply)
    PROVE  EnvType' /\ HostType' /\ ClientType' /\ ServerType' /\ ConnType' /\ sfd \in Conns
<1>1. sfd \in Conns
  BY DEF TypeOK, ServerType, ServerAnswers
<1>2. PICK k \in 1..Len(c2s[sfd]) :
        \/ /\ c2s' = [c2s EXCEPT ![sfd] = SubSeq(@, k + 1, Len(@))]
           /\ s2c' = IF cli_end[sfd] = "open"
                       THEN [s2c EXCEPT ![sfd] = Append(@, reply)] ELSE s2c
           /\ UNCHANGED <<sfd, cli_end, srv_end>>
        \/ /\ cli_end[sfd] # "open"
           /\ ServerEnds({sfd}, "closed")
           /\ sfd' = NoFd
  BY DEF ServerAnswers
<1>3. c2s[sfd] \in Seq(ClientMsg) /\ s2c[sfd] \in Seq(ServerMsg)
  BY <1>1 DEF TypeOK, ConnType
<1>4. ConnType'
  <2>1. CASE /\ c2s' = [c2s EXCEPT ![sfd] = SubSeq(@, k + 1, Len(@))]
             /\ s2c' = IF cli_end[sfd] = "open"
                         THEN [s2c EXCEPT ![sfd] = Append(@, reply)] ELSE s2c
             /\ UNCHANGED <<sfd, cli_end, srv_end>>
    <3>1. SubSeq(c2s[sfd], k + 1, Len(c2s[sfd])) \in Seq(ClientMsg)
      BY <1>3, SuffixType
    <3>2. Append(s2c[sfd], reply) \in Seq(ServerMsg)
      BY <1>3
    <3> QED
      BY <2>1, <3>1, <3>2 DEF TypeOK, ConnType
  <2>2. CASE ServerEnds({sfd}, "closed")
    BY <1>1, <2>2, ServerEndsType DEF TypeOK, End
  <2> QED  BY <1>2, <2>1, <2>2
<1>5. ServerType'
  BY <1>1, <1>2 DEF TypeOK, ServerType, ServerAnswers
<1> QED
  BY <1>1, <1>4, <1>5, Frames DEF TypeOK, ServerAnswers

-----------------------------------------------------------------------------
LEMMA InitType == Init => TypeOK
<1> SUFFICES ASSUME Init PROVE TypeOK
  OBVIOUS
<1>1. EnvType /\ HostType /\ ResType
  BY ClusterAssumption DEF Init, HostInit, EnvType, HostType, ResType
<1>2. ClientType
  <2>1. 0 \in 0..DeadTicks
    BY ClusterAssumption
  <2>2. trans_data_set_none \in ClientMsg
    BY MessageFacts
  <2> QED  BY <2>1, <2>2 DEF Init, ClientType
<1>3. ServerType /\ ConnType
  BY EmptySeq DEF Init, ServerType, ConnType, End
<1> QED  BY <1>1, <1>2, <1>3 DEF TypeOK

(* The answers that the client handles.                                       *)
LEMMA AnswerType ==
    ASSUME TypeOK, GotRes \/ FreedRes \/ ReplyServerStatus \/ ClientHeartbeat
    PROVE  TypeOK'
<1>1. ASSUME NEW m, NEW next \in ClientMsg, ClientReads(m), Prepare(next), ResType'
      PROVE  TypeOK'
  <2>1. cpc = "wait" /\ cfd' = cfd /\ UNCHANGED <<try_time_sum, late>>
    BY <1>1 DEF ClientReads
  <2>2. ClientType'
    BY <1>1, <2>1, PrepareType DEF TypeOK
  <2> QED  BY <1>1, <2>2, ClientReadsType DEF TypeOK
<1> USE MessageFacts
<1>2. CASE GotRes
  BY <1>1, <1>2 DEF GotRes, TypeOK, ResType
<1>3. CASE FreedRes
  <2>1. ResType'
    BY <1>3, TakeOverType DEF FreedRes, TypeOK, ClientType, Node
  <2> QED  BY <1>1, <1>3, <2>1 DEF FreedRes
<1>4. CASE ReplyServerStatus
  <2>1. PICK b_ss, b_vip \in BOOLEAN :
          /\ ClientReads(reply_server_status(b_ss, b_vip))
          /\ \/ Prepare(trans_data_set_none) /\ UNCHANGED resVars
             \/ Release(primary) /\ Prepare(trans_data_set_action(GET_RES))
             \/ Prepare(trans_data_set_action(FREE_RES)) /\ UNCHANGED resVars
    BY <1>4 DEF ReplyServerStatus
  <2>2. UNCHANGED resVars => ResType'
    BY Frames DEF TypeOK
  <2>3. Release(primary) => ResType'
    BY ReleaseType DEF TypeOK, Node
  <2> QED  BY <1>1, <2>1, <2>2, <2>3
<1>5. CASE ClientHeartbeat
  BY <1>1, <1>5, Frames DEF ClientHeartbeat, TypeOK
<1> QED  BY <1>2, <1>3, <1>4, <1>5

LEMMA ClientTimesOutType ==
    ASSUME TypeOK, ClientTimesOut, EnvType'
    PROVE  TypeOK'
<1>1. ClientType'
  BY MessageFacts DEF TypeOK, ClientType, ClientTimesOut
<1>2. ResType'
  BY StandAloneType DEF TypeOK, ClientTimesOut, Node
<1> QED  BY <1>1, <1>2, Frames DEF TypeOK, ClientTimesOut

LEMMA ClientDropsType ==
    ASSUME TypeOK, cfd # NoFd, ClientDrops, ResType'
    PROVE  TypeOK'
<1>1. ConnType'
  BY ClientEndsType DEF TypeOK, ClientType, ClientDrops, End
<1>2. ClientType'
  BY MessageFacts, ClusterAssumption DEF TypeOK, ClientType, ClientDrops
<1> QED  BY <1>1, <1>2, Frames DEF TypeOK, ClientDrops

LEMMA ClientStepType ==
    ASSUME TypeOK, ClientStep
    PROVE  TypeOK'
<1>1. CASE ConnectOk
  <2>1. PICK c \in Conns : /\ cfd' = c
                           /\ cli_end' = [cli_end EXCEPT ![c] = "open"]
                           /\ srv_end' = [srv_end EXCEPT ![c] = "open"]
                           /\ backlog' = Append(backlog, c)
    BY <1>1 DEF ConnectOk
  <2>2. ConnType'
    BY <1>1, <2>1 DEF ConnectOk, TypeOK, ConnType, End
  <2>3. ServerType'
    BY <1>1, <2>1 DEF ConnectOk, TypeOK, ServerType
  <2>4. ClientType'
    BY <1>1, <2>1, MessageFacts, ClusterAssumption DEF ConnectOk, TypeOK, ClientType
  <2> QED  BY <1>1, <2>2, <2>3, <2>4, Frames DEF ConnectOk, TypeOK
<1>2. CASE ConnectFail
  <2>1. ResType'
    BY <1>2, StandAloneType, Frames DEF ConnectFail, TypeOK, Node
  <2>2. ClientType'
    BY <1>2, ClusterAssumption DEF ConnectFail, TypeOK, ClientType
  <2> QED  BY <1>2, <2>1, <2>2, Frames DEF ConnectFail, TypeOK
<1>3. CASE Send
  <2>1. cfd \in Conns /\ c2s[cfd] \in Seq(ClientMsg) /\ send_data \in ClientMsg
    BY <1>3 DEF Send, TypeOK, ClientType, ConnType
  <2>2. Append(c2s[cfd], send_data) \in Seq(ClientMsg)
    BY <2>1
  <2>3. c2s' \in [Conns -> Seq(ClientMsg)]
    BY <1>3, <2>2 DEF Send, TypeOK, ConnType
  <2>4. ClientType' /\ ConnType'
    BY <1>3, <2>3, MessageFacts DEF Send, TypeOK, ClientType, ConnType
  <2> QED  BY <1>3, <2>4, Frames DEF Send, TypeOK
<1>4. CASE GotRes \/ FreedRes \/ ReplyServerStatus \/ ClientHeartbeat
  BY <1>4, AnswerType
<1>5. CASE ClientTimeout
  BY <1>5, ClientTimesOutType DEF ClientTimeout, ClientTimesOut, TypeOK, EnvType
<1>6. CASE ClientEof
  BY <1>6, StandAloneType, ClientDropsType DEF ClientEof, TypeOK, ClientType, Node
<1>7. CASE ClientError
  BY <1>7, Frames, ClientDropsType DEF ClientError, TypeOK, ClientType
<1> QED
  BY <1>1, <1>2, <1>3, <1>4, <1>5, <1>6, <1>7 DEF ClientStep

LEMMA AcceptTimesOutType ==
    ASSUME TypeOK, AcceptTimesOut, EnvType'
    PROVE  TypeOK'
<1>1. ServerType'
  BY DEF TypeOK, ServerType, AcceptTimesOut
<1>2. ResType'
  BY StandAloneType DEF TypeOK, AcceptTimesOut, Node
<1> QED  BY <1>1, <1>2, Frames DEF TypeOK, AcceptTimesOut

LEMMA ServerDropsType ==
    ASSUME TypeOK, sfd # NoFd, ServerDrops, ResType', EnvType'
    PROVE  TypeOK'
<1>1. sfd \in Conns
  BY DEF TypeOK, ServerType
<1>2. ConnType'
  BY <1>1, ServerEndsType DEF TypeOK, ServerDrops, End
<1>3. ServerType'
  BY DEF TypeOK, ServerType, ServerDrops
<1> QED  BY <1>2, <1>3, Frames DEF TypeOK, ServerDrops

LEMMA ServerTimesOutType ==
    ASSUME TypeOK, ServerTimesOut, EnvType'
    PROVE  TypeOK'
BY ServerDropsType, StandAloneType DEF ServerTimesOut, TypeOK, Node

LEMMA ServerStepType ==
    ASSUME TypeOK, ServerStep
    PROVE  TypeOK'
<1> USE MessageFacts
<1>1. CASE Select
  BY <1>1, Frames DEF Select, TypeOK, ServerType
<1>2. CASE Accept
  <2>1. Head(backlog) \in Conns /\ Tail(backlog) \in Seq(Conns)
    BY <1>2, HeadTailProperties DEF Accept, TypeOK, ServerType
  <2> QED  BY <1>2, <2>1, Frames DEF Accept, TypeOK, ServerType
<1>3. CASE AcceptTimeout
  BY <1>3, AcceptTimesOutType DEF AcceptTimeout, AcceptTimesOut, TypeOK, EnvType
<1>4. CASE GetRes
  BY <1>4, ServerAnswersType, TakeOverType DEF GetRes, TypeOK, Node
<1>5. CASE FreeRes
  BY <1>5, ServerAnswersType, ReleaseType DEF FreeRes, TypeOK, Node
<1>6. CASE GetServerStatus
  <2>1. reply_server_status(host_ss[backup], host_vip[backup]) \in ServerMsg
    BY DEF TypeOK, HostType, Node
  <2> QED  BY <1>6, <2>1, ServerAnswersType, Frames DEF GetServerStatus, TypeOK
<1>7. CASE ServerHeartbeat
  BY <1>7, ServerAnswersType, Frames DEF ServerHeartbeat, TypeOK
<1>8. CASE ServerTimeout
  BY <1>8, ServerTimesOutType DEF ServerTimeout, ServerTimesOut, ServerDrops, TypeOK, EnvType
<1>9. CASE ServerEof
  BY <1>9, StandAloneType, ServerDropsType
  DEF ServerEof, ServerDrops, TypeOK, EnvType, Node
<1>10. CASE ServerError
  BY <1>10, Frames, ServerDropsType
  DEF ServerError, ServerDrops, TypeOK, EnvType
<1> QED
  BY <1>1, <1>2, <1>3, <1>4, <1>5, <1>6, <1>7, <1>8, <1>9, <1>10 DEF ServerStep

LEMMA StatusStepType ==
    ASSUME TypeOK, NEW n \in Node, StatusStep(n)
    PROVE  TypeOK'
<1>1. HostType' /\ ResType'
  <2>1. CASE StatusRound(n)
    BY <2>1 DEF StatusRound, TypeOK, HostType, ResType, nodeVars, statusVars
  <2>2. CASE CheckVip(n)
    BY <2>2 DEF CheckVip, TypeOK, HostType, ResType, nodeVars, cacheVars, resVars
  <2>3. CASE PublishVip(n)
    BY <2>3 DEF PublishVip, TypeOK, HostType, ResType, nodeVars
  <2>4. CASE RunAllPlugin(n)
    BY <2>4 DEF RunAllPlugin, TypeOK, HostType, ResType, nodeVars, resVars
  <2> QED  BY <2>1, <2>2, <2>3, <2>4 DEF StatusStep
<1>2. UNCHANGED <<envVars, clientVars, serverVars, connVars>>
  BY DEF StatusStep, StatusRound, CheckVip, PublishVip, RunAllPlugin
<1> QED  BY <1>1, <1>2, Frames DEF TypeOK

-----------------------------------------------------------------------------
LEMMA BudgetType ==
    ASSUME TypeOK, NEW kind, Budget(kind)
    PROVE  events' \in 0..MaxEvents
BY ClusterAssumption DEF TypeOK, EnvType, Budget

LEMMA DiesType ==
    ASSUME TypeOK, NEW n \in Node, NEW how \in End, Dies(n, how)
    PROVE  EnvType' /\ HostType' /\ ClientType' /\ ServerType' /\ ConnType'
<1>1. EnvType' /\ HostType'
  BY BudgetType DEF TypeOK, EnvType, HostType, Dies
<1>2. CASE ClientDies(how)
  <2>1. ConnType'
    BY <1>2, ClientEndsType, Frames DEF TypeOK, ClientType, ClientDies
  <2>2. ClientType'
    <3>1. 0 \in 0..DeadTicks
      BY ClusterAssumption
    <3>2. trans_data_set_none \in ClientMsg
      BY MessageFacts
    <3> QED  BY <1>2, <3>1, <3>2 DEF ClientDies, ClientType
  <2> QED  BY <1>1, <1>2, <2>1, <2>2, Frames DEF TypeOK, ClientDies
<1>3. CASE ServerDies(how)
  <2>1. ConnType'
    BY <1>3, ServerEndsType DEF TypeOK, ServerDies
  <2>2. ServerType'
    BY <1>3, EmptySeq DEF TypeOK, ServerType, ServerDies
  <2> QED  BY <1>1, <1>3, <2>1, <2>2, Frames DEF TypeOK, ServerDies
<1> QED  BY <1>2, <1>3 DEF Dies

LEMMA EnvironmentStepType ==
    ASSUME TypeOK, EnvironmentStep
    PROVE  TypeOK'
<1>1. CASE Cut \/ Heal
  BY <1>1, BudgetType, Frames DEF Cut, Heal, TypeOK, EnvType
<1>2. CASE LateAnswer
  BY <1>2, BudgetType, ClientTimesOutType DEF LateAnswer, ClientTimesOut, TypeOK, EnvType
<1>3. CASE LateRequest
  BY <1>3, BudgetType, ServerTimesOutType
  DEF LateRequest, ServerTimesOut, ServerDrops, TypeOK, EnvType
<1>4. CASE LateConnect
  BY <1>4, BudgetType, AcceptTimesOutType DEF LateConnect, AcceptTimesOut, TypeOK, EnvType
<1>5. ASSUME NEW n \in Node, Standby(n) \/ Takeover(n)
      PROVE  TypeOK'
  <2>1. EnvType' /\ HostType' /\ ResType'
    BY <1>5, BudgetType
    DEF Standby, Takeover, TypeOK, EnvType, HostType, ResType, cacheVars, statusVars
  <2> QED  BY <1>5, <2>1, Frames DEF Standby, Takeover, TypeOK
<1>6. ASSUME NEW n \in Node, HealthFlip(n)
      PROVE  TypeOK'
  <2>1. EnvType' /\ HostType'
    BY <1>6, BudgetType
    DEF HealthFlip, TypeOK, EnvType, HostType, cacheVars, statusVars
  <2> QED  BY <1>6, <2>1, Frames DEF HealthFlip, TypeOK
<1>7. ASSUME NEW n \in Node, Start(n)
      PROVE  TypeOK'
  <2>1. HostType'
    BY <1>7 DEF Start, TypeOK, HostType, cacheVars, statusVars
  <2> QED  BY <1>7, <2>1, Frames DEF Start, TypeOK
<1>8. ASSUME NEW n \in Node, Crash(n) \/ ServiceStop(n) \/ PowerLoss(n)
      PROVE  TypeOK'
  <2>1. ResType'
    BY <1>8 DEF Crash, ServiceStop, PowerLoss, LosesVip, Dies, TypeOK, ResType
  <2> QED
    BY <1>8, <2>1, DiesType DEF Crash, ServiceStop, PowerLoss, TypeOK, End
<1> QED
  BY <1>1, <1>2, <1>3, <1>4, <1>5, <1>6, <1>7, <1>8 DEF EnvironmentStep

LEMMA StepType ==
    ASSUME TypeOK, [Next]_vars
    PROVE  TypeOK'
<1>1. CASE UNCHANGED vars
  BY <1>1, Frames DEF vars, TypeOK
<1> QED
  BY <1>1, ClientStepType, ServerStepType, StatusStepType, EnvironmentStepType DEF Next

(* Every variable keeps its type: in particular the client has a socket       *)
(* exactly while it is not connecting, and the two directions of a connection *)
(* carry what their sender's half of trans_data_generator can produce.        *)
THEOREM TypeCorrect == Spec => []TypeOK
<1>1. Init => TypeOK
  BY InitType
<1>2. TypeOK /\ [Next]_vars => TypeOK'
  BY StepType
<1> QED  BY <1>1, <1>2, PTL DEF Spec

-----------------------------------------------------------------------------
(* The action properties: what one step may never do.                         *)

(* The heartbeats are never left at the count at which a status request is    *)
(* due: the step that reaches it resets it.                                   *)
CountOK == none_package_send_times < detect_times

LEMMA CountStep ==
    ASSUME detect_times # 0, TypeOK, CountOK, [Next]_vars
    PROVE  CountOK'
<1>0. detect_times \in Nat /\ 0 < detect_times
  BY ClusterAssumption
<1>1. CASE UNCHANGED none_package_send_times
  BY <1>1 DEF CountOK
<1>2. CASE \E next : Prepare(next)
  <2>1. PICK next : Prepare(next)
    BY <1>2
  <2>2. none_package_send_times + 1 \in Nat /\ none_package_send_times \in Nat
    BY DEF TypeOK, ClientType
  <2> QED  BY <1>0, <2>1, <2>2 DEF Prepare, CountOK
<1>3. CASE none_package_send_times' = 0
  BY <1>0, <1>3 DEF CountOK
<1>4. ClientStep => \/ UNCHANGED none_package_send_times
                    \/ \E next : Prepare(next)
  BY DEF ClientStep, ConnectOk, ConnectFail, Send, GotRes, FreedRes, ReplyServerStatus,
         ClientHeartbeat, ClientTimeout, ClientTimesOut, ClientEof, ClientError, ClientDrops
<1>5. ServerStep \/ (\E n \in Node : StatusStep(n)) => UNCHANGED none_package_send_times
  BY DEF ServerStep, Select, Accept, AcceptTimeout, AcceptTimesOut, GetRes, FreeRes,
         GetServerStatus, ServerHeartbeat, ServerAnswers, ServerTimeout, ServerTimesOut,
         ServerEof, ServerError, ServerDrops, StatusStep, StatusRound, CheckVip,
         PublishVip, RunAllPlugin, clientVars
<1>6. EnvironmentStep => \/ UNCHANGED none_package_send_times
                         \/ none_package_send_times' = 0
  BY DEF EnvironmentStep, Cut, Heal, LateAnswer, LateRequest, LateConnect, Standby,
         Takeover, HealthFlip, Start, Crash, ServiceStop, PowerLoss, Dies, ClientDies,
         ServerDies, ClientTimesOut, ServerTimesOut, AcceptTimesOut, ServerDrops, clientVars
<1>7. UNCHANGED vars => UNCHANGED none_package_send_times
  BY DEF vars, clientVars
<1> QED  BY <1>1, <1>2, <1>3, <1>4, <1>5, <1>6, <1>7 DEF Next

(* A step of the main loop that reads an answer and gives the VIP up can only *)
(* be the one that follows the policy's order to hand over.                   *)
LEMMA OnlyTheOrderGivesUp ==
    ASSUME TypeOK, [Next]_vars,
           cpc = "wait", cpc' = "top", s2c' # s2c, vip[primary], ~vip'[primary]
    PROVE  Prepare(trans_data_set_action(GET_RES))
<1>1. ~UNCHANGED vars /\ ~UNCHANGED clientVars
  BY DEF vars, clientVars, connVars
<1>2. vip \in [Node -> BOOLEAN] /\ primary \in Node
  BY DEF TypeOK, ResType, Node
<1>3. ~ServerStep /\ ~\E n \in Node : StatusStep(n)
  BY <1>1 DEF ServerStep, Select, Accept, AcceptTimeout, AcceptTimesOut, GetRes, FreeRes,
         GetServerStatus, ServerHeartbeat, ServerAnswers, ServerTimeout, ServerTimesOut,
         ServerEof, ServerError, ServerDrops, StatusStep, StatusRound, CheckVip,
         PublishVip, RunAllPlugin
<1>4. ~EnvironmentStep
  BY <1>1 DEF EnvironmentStep, Cut, Heal, LateAnswer, LateRequest, LateConnect, Standby,
         Takeover, HealthFlip, Start, Crash, ServiceStop, PowerLoss, Dies, ClientDies,
         ServerDies, ClientTimesOut, ServerTimesOut, AcceptTimesOut, ServerDrops,
         connVars
<1>5. ~(ConnectOk \/ ConnectFail \/ Send \/ ClientHeartbeat \/ GotRes)
  BY DEF ConnectOk, ConnectFail, Send, ClientHeartbeat, GotRes, resVars
<1>6. ~(ClientTimeout \/ ClientEof \/ ClientError)
  BY DEF ClientTimeout, ClientTimesOut, ClientEof, ClientError, ClientDrops, connVars
<1>7. ~FreedRes
  BY <1>2 DEF FreedRes, TakeOver
<1>8. ReplyServerStatus
  BY <1>1, <1>3, <1>4, <1>5, <1>6, <1>7 DEF Next, ClientStep
<1> QED  BY <1>8 DEF ReplyServerStatus, resVars

(* With at least one heartbeat between two status requests (detect_interval   *)
(* no shorter than keepalive), the order with which the primary hands the VIP *)
(* over is always the next telegram it sends.                                 *)
THEOREM HandoverAnnouncedHolds ==
    ASSUME detect_times # 0
    PROVE  Spec => HandoverAnnounced
<1>1. Init => CountOK
  BY ClusterAssumption DEF Init, CountOK
<1>2. TypeOK /\ CountOK /\ [Next]_vars => CountOK'
  BY CountStep
<1>3. TypeOK /\ CountOK /\ [Next]_vars
        => [cpc = "wait" /\ cpc' = "top" /\ s2c' # s2c /\ vip[primary] /\ ~vip'[primary]
              => send_data' = trans_data_set_action(GET_RES)]_vars
  <2> SUFFICES ASSUME TypeOK, CountOK, [Next]_vars,
                      cpc = "wait", cpc' = "top", s2c' # s2c, vip[primary], ~vip'[primary]
               PROVE  send_data' = trans_data_set_action(GET_RES)
    OBVIOUS
  <2>1. Prepare(trans_data_set_action(GET_RES))
    BY OnlyTheOrderGivesUp
  <2>2. trans_data_set_action(GET_RES).type # TRANS_TYPE_HEARTBEAT
    BY DEF trans_data_set_action, Message, TRANS_TYPE_ACTION, TRANS_TYPE_HEARTBEAT
  <2>3. ~(none_package_send_times + 0 >= detect_times)
    BY ClusterAssumption DEF CountOK, TypeOK, ClientType
  <2> QED  BY <2>1, <2>2, <2>3 DEF Prepare
<1> QED  BY <1>1, <1>2, <1>3, TypeCorrect, PTL DEF Spec, HandoverAnnounced

-----------------------------------------------------------------------------

(* What the main loop of node n does to node m's VIP, if n is another node.   *)
LEMMA OtherVip ==
    ASSUME ResType, NEW n \in Node, NEW m \in Node, m # n,
           \/ StandAlone(n) \/ Release(n) \/ UNCHANGED resVars
           \/ \E alone \in BOOLEAN : TakeOver(n, alone)
    PROVE  vip'[m] = vip[m]
BY DEF ResType, StandAlone, Release, TakeOver, resVars

(* Every fault and every command counts as an event; the rest is harmless.    *)
LEMMA QuietEnvironment ==
    ASSUME TypeOK, EnvironmentStep, events' = events
    PROVE  Heal \/ \E n \in Node : Start(n)
<1>1. \A kind : ~Budget(kind)
  BY DEF TypeOK, EnvType, Budget
<1> QED
  BY <1>1 DEF EnvironmentStep, Cut, LateAnswer, LateRequest, LateConnect, Standby, Takeover,
              HealthFlip, Crash, ServiceStop, PowerLoss, Dies

LEMMA ParkedClient ==
    ASSUME TypeOK, [Next]_vars, Parked(primary), events' = events
    PROVE  Parked(primary)' /\ vip'[primary] = vip[primary]
<1>0. primary \in Node /\ backup \in Node /\ primary # backup
  BY DEF Node, primary, backup
<1>1. CASE UNCHANGED vars
  BY <1>1 DEF vars, nodeVars, resVars, clientVars, Parked
<1>2. CASE ConnectOk
  BY <1>2 DEF ConnectOk, Parked, nodeVars, resVars
<1>3. CASE ConnectFail
  BY <1>3 DEF ConnectFail, Parked, nodeVars, resVars
<1>4. ClientStep => ConnectOk \/ ConnectFail
  BY DEF ClientStep, Send, GotRes, FreedRes, ReplyServerStatus, ClientHeartbeat,
         ClientReads, ClientTimeout, ClientTimesOut, ClientEof, ClientError, Parked
<1>5. CASE ServerStep
  <2>1. UNCHANGED nodeVars /\ UNCHANGED clientVars
    BY <1>5
    DEF ServerStep, Select, Accept, AcceptTimeout, AcceptTimesOut, GetRes, FreeRes,
        GetServerStatus, ServerHeartbeat, ServerAnswers, ServerTimeout, ServerTimesOut,
        ServerEof, ServerError, ServerDrops
  <2>2. \/ StandAlone(backup) \/ Release(backup) \/ UNCHANGED resVars
        \/ TakeOver(backup, FALSE)
    BY <1>5
    DEF ServerStep, Select, Accept, AcceptTimeout, AcceptTimesOut, GetRes, FreeRes,
        GetServerStatus, ServerHeartbeat, ServerTimeout, ServerTimesOut,
        ServerEof, ServerError
  <2>3. vip'[primary] = vip[primary]
    BY <1>0, <2>2, OtherVip DEF TypeOK
  <2> QED  BY <2>1, <2>3 DEF Parked, nodeVars, clientVars
<1>6. CASE \E n \in Node : StatusStep(n)
  BY <1>6 DEF StatusStep, StatusRound, CheckVip, PublishVip, RunAllPlugin, Parked,
              nodeVars, resVars, clientVars
<1>7. CASE EnvironmentStep
  BY <1>0, <1>7, QuietEnvironment
  DEF Heal, Start, Parked, TypeOK, HostType, nodeVars, resVars, clientVars
<1> QED  BY <1>1, <1>2, <1>3, <1>4, <1>5, <1>6, <1>7 DEF Next

LEMMA ParkedServer ==
    ASSUME TypeOK, [Next]_vars, Parked(backup), events' = events
    PROVE  Parked(backup)' /\ vip'[backup] = vip[backup]
<1>0. primary \in Node /\ backup \in Node /\ primary # backup
  BY DEF Node, primary, backup
<1>1. CASE UNCHANGED vars
  BY <1>1 DEF vars, nodeVars, resVars, serverVars, Parked, primary, backup
<1>2. ~ServerStep
  BY <1>0
  DEF ServerStep, Select, Accept, AcceptTimeout, AcceptTimesOut, GetRes, FreeRes,
      GetServerStatus, ServerHeartbeat, ServerAnswers, ServerTimeout, ServerTimesOut,
      ServerEof, ServerError, Parked
<1>3. CASE ClientStep
  <2>1. UNCHANGED nodeVars /\ spc' = spc
    BY <1>3
    DEF ClientStep, ConnectOk, ConnectFail, Send, GotRes, FreedRes, ReplyServerStatus,
        ClientHeartbeat, ClientReads, ClientTimeout, ClientTimesOut, ClientEof,
        ClientError, ClientDrops, serverVars
  <2>2. \/ StandAlone(primary) \/ Release(primary) \/ vip' = vip
        \/ \E alone \in BOOLEAN : TakeOver(primary, alone)
    BY <1>3
    DEF ClientStep, ConnectOk, ConnectFail, Send, GotRes, FreedRes, ReplyServerStatus,
        ClientHeartbeat, ClientTimeout, ClientTimesOut, ClientEof, ClientError, resVars,
        TypeOK, ClientType
  <2>3. vip'[backup] = vip[backup]
    BY <1>0, <2>2, OtherVip DEF TypeOK
  <2> QED  BY <2>1, <2>3 DEF Parked, nodeVars, primary, backup
<1>4. CASE \E n \in Node : StatusStep(n)
  BY <1>0, <1>4 DEF StatusStep, StatusRound, CheckVip, PublishVip, RunAllPlugin, Parked,
              nodeVars, resVars, serverVars
<1>5. CASE EnvironmentStep
  BY <1>0, <1>5, QuietEnvironment
  DEF Heal, Start, Parked, TypeOK, HostType, nodeVars, resVars, serverVars
<1> QED  BY <1>1, <1>2, <1>3, <1>4, <1>5 DEF Next

(* A node that a manual command has parked stays parked and keeps its VIP     *)
(* where it is, until the next command or the end of its process.             *)
THEOREM ParkedKeepsVipHolds == Spec => ParkedKeepsVip
<1>1. TypeOK /\ [Next]_vars
        => [\A n \in Node : Parked(n) /\ events' = events
              => Parked(n)' /\ vip'[n] = vip[n]]_vars
  BY ParkedClient, ParkedServer DEF Node
<1> QED  BY <1>1, TypeCorrect, PTL DEF Spec, ParkedKeepsVip

=============================================================================
