---------------------------- MODULE PluginProofs ----------------------------
(* What a round of the plugin manager says of a node's health, for any        *)
(* plugins and whatever comes and goes meanwhile, what the NetSign plugin's   *)
(* check promises, which conf.ini a plugin obeys, for files of any length     *)
(* that are edited any number of times, and what it makes of the detection    *)
(* string.                                                                    *)

EXTENDS MCPlugins, Integers, SequenceTheorems, TLAPS

ManagerType ==
    /\ manager_pc \in {"list", "load", "idle", "run"}
    /\ unread \subseteq Files
    /\ plugins_path \in Seq(Files) /\ plug_data_vector \in Seq(Files)
    /\ i \in Nat \ {0} /\ result \in {0, 1}
    /\ found \in Seq({"up", "down", "failed", "unresolved"})

Path(f)   == \E k \in 1..Len(plugins_path) : plugins_path[k] = f
Loaded(f) == \E k \in 1..Len(plug_data_vector) : plug_data_vector[k] = f

(* While the directory is listed, a plugin has been found or is still to come. *)
ListingOK ==
    manager_pc = "list" =>
        /\ i = 1 /\ plug_data_vector = <<>>
        /\ \A f \in Named : Path(f) \/ f \in unread

(* While they are loaded, those before i have been, if they can be.           *)
LoadingOK ==
    manager_pc = "load" =>
        /\ directory => \A f \in Named : Path(f)
        /\ slash => \A k \in 1..Len(plugins_path) :
                        k < i /\ plugins_path[k] \in Loadable => Loaded(plugins_path[k])

(* Afterwards either nothing has been loaded or everything that can be.       *)
LoadedOK ==
    /\ manager_pc \in {"list", "load"} => found = <<>>
    /\ ~directory => plugins_path = <<>>
    /\ ~directory \/ ~slash => plug_data_vector = <<>>
    /\ manager_pc \in {"idle", "run"} /\ directory /\ slash
         => \A f \in Named \cap Loadable : Loaded(f)

(* The result is what the plugins asked in this round have met.               *)
Fine(m) == m \in {"up", "unresolved"}

RoundOK ==
    /\ manager_pc = "run" => Len(found) = i - 1
    /\ Len(found) <= Len(plug_data_vector)
    /\ result = 1 <=> \A k \in 1..Len(found) : Fine(found[k])
    /\ \A k \in 1..Len(found) : found[k] = "unresolved" => plug_data_vector[k] = icmp

ManagerInv == ManagerType /\ ListingOK /\ LoadingOK /\ LoadedOK /\ RoundOK

-----------------------------------------------------------------------------

LEMMA InitManager == Manager!Init => ManagerInv
<1> SUFFICES ASSUME Manager!Init PROVE ManagerInv
  OBVIOUS
<1>1. /\ manager_pc = "list" /\ unread = Files /\ plugins_path = <<>>
      /\ plug_data_vector = <<>> /\ i = 1 /\ result = 1 /\ found = <<>>
  BY DEF Manager!Init
<1>2. Len(found) = 0
  BY <1>1
<1>3. ManagerType
  BY <1>1 DEF ManagerType
<1>4. ListingOK /\ LoadingOK /\ LoadedOK
  BY <1>1, ManagerAssumption DEF ListingOK, LoadingOK, LoadedOK
<1>5. RoundOK
  BY <1>1, <1>2 DEF RoundOK
<1> QED
  BY <1>3, <1>4, <1>5 DEF ManagerInv

LEMMA ListEntryInv == ManagerInv /\ Manager!ListEntry => ManagerInv'
<1> SUFFICES ASSUME ManagerInv, Manager!ListEntry PROVE ManagerInv'
  OBVIOUS
<1> USE DEF ManagerInv, ManagerType
<1>1. PICK f \in unread : Manager!Listed(f) /\ unread' = unread \ {f}
  BY DEF Manager!ListEntry
<1>2. /\ manager_pc = "list" /\ directory
      /\ UNCHANGED <<manager_pc, plug_data_vector, i, result, found>>
  BY DEF Manager!ListEntry
<1>3. plugins_path' \in Seq(Files)
  BY <1>1 DEF Manager!Listed
<1>4. \A g \in Named : Path(g)' \/ g \in unread'
  <2> SUFFICES ASSUME NEW g \in Named, g \notin unread' PROVE Path(g)'
    OBVIOUS
  <2>1. CASE f \in Named
    <3>1. plugins_path' = Append(plugins_path, f)
      BY <1>1, <2>1 DEF Manager!Listed
    <3>2. g = f \/ Path(g)
      BY <1>1, <1>2 DEF ListingOK
    <3> QED
      BY <1>1, <3>1, <3>2 DEF Path
  <2>2. CASE f \notin Named
    <3>1. plugins_path' = plugins_path
      BY <1>1, <2>2 DEF Manager!Listed
    <3> QED
      BY <1>1, <1>2, <2>2, <3>1 DEF ListingOK, Path
  <2> QED
    BY <2>1, <2>2
<1> QED
  BY <1>1, <1>2, <1>3, <1>4 DEF ListingOK, LoadingOK, LoadedOK, RoundOK, Fine

LEMMA ListEndsInv == ManagerInv /\ Manager!ListEnds => ManagerInv'
<1> SUFFICES ASSUME ManagerInv, Manager!ListEnds PROVE ManagerInv'
  OBVIOUS
<1>1. /\ manager_pc = "list" /\ manager_pc' = "load" /\ (unread = {} \/ ~directory)
      /\ UNCHANGED <<unread, plugins_path, plug_data_vector, i, result, found>>
  BY DEF Manager!ListEnds, Manager!tables
<1> QED
  BY <1>1
  DEF ManagerInv, ManagerType, ListingOK, LoadingOK, LoadedOK, RoundOK, Path, Loaded, Fine

LEMMA LoadInv == ManagerInv /\ Manager!load_plugin => ManagerInv'
<1> SUFFICES ASSUME ManagerInv, Manager!load_plugin PROVE ManagerInv'
  OBVIOUS
<1> USE DEF ManagerInv, ManagerType
<1>1. /\ manager_pc = "load" /\ i <= Len(plugins_path) /\ i' = i + 1
      /\ UNCHANGED <<manager_pc, unread, plugins_path, result, found>>
  BY DEF Manager!load_plugin
<1>2. PICK f \in Files : f = plugins_path[i]
  BY <1>1
<1>3. plug_data_vector' \in Seq(Files) /\ Len(found) = 0
  BY <1>1, <1>2 DEF Manager!load_plugin, LoadedOK
<1>4. \A g : Loaded(g) => Loaded(g)'
  BY <1>2 DEF Loaded, Manager!load_plugin
<1>5. ASSUME slash, f \in Loadable PROVE Loaded(f)'
  <2>1. plug_data_vector' = Append(plug_data_vector, f)
    BY <1>2, <1>5 DEF Manager!load_plugin, Manager!dlopen
  <2>2. plug_data_vector'[Len(plug_data_vector')] = f
        /\ Len(plug_data_vector') \in 1..Len(plug_data_vector')
    BY <1>2, <2>1
  <2> QED
    BY <2>2 DEF Loaded
<1>6. LoadingOK'
  BY <1>1, <1>2, <1>4, <1>5 DEF LoadingOK, Path
<1>7. LoadedOK'
  BY <1>1 DEF LoadedOK, Manager!load_plugin, Manager!dlopen
<1>8. RoundOK'
  BY <1>1, <1>3 DEF RoundOK
<1> QED
  BY <1>1, <1>3, <1>6, <1>7, <1>8 DEF ListingOK

LEMMA AllLoadedInv == ManagerInv /\ Manager!AllLoaded => ManagerInv'
<1> SUFFICES ASSUME ManagerInv, Manager!AllLoaded PROVE ManagerInv'
  OBVIOUS
<1> USE DEF ManagerInv, ManagerType
<1>1. /\ manager_pc = "load" /\ manager_pc' = "idle" /\ i > Len(plugins_path)
      /\ UNCHANGED <<unread, plugins_path, plug_data_vector, i, result, found>>
  BY DEF Manager!AllLoaded, Manager!tables
<1>2. directory /\ slash => \A f \in Named \cap Loadable : Loaded(f)
  BY <1>1 DEF LoadingOK, Path
<1> QED
  BY <1>1, <1>2 DEF ListingOK, LoadingOK, LoadedOK, RoundOK, Loaded, Fine

LEMMA RoundStartsInv == ManagerInv /\ Manager!RoundStarts => ManagerInv'
<1> SUFFICES ASSUME ManagerInv, Manager!RoundStarts PROVE ManagerInv'
  OBVIOUS
<1> USE DEF ManagerInv, ManagerType
<1>1. /\ manager_pc = "idle" /\ manager_pc' = "run" /\ i' = 1 /\ result' = 1
      /\ found' = <<>> /\ UNCHANGED <<unread, plugins_path, plug_data_vector>>
  BY DEF Manager!RoundStarts, Manager!tables
<1>2. Len(found') = 0
  BY <1>1
<1> QED
  BY <1>1, <1>2 DEF ListingOK, LoadingOK, LoadedOK, RoundOK, Loaded

LEMMA RunPluginInv == ManagerInv /\ Manager!RunPlugin => ManagerInv'
<1> SUFFICES ASSUME ManagerInv, Manager!RunPlugin PROVE ManagerInv'
  OBVIOUS
<1> USE DEF ManagerInv, ManagerType
<1>1. /\ manager_pc = "run" /\ i <= Len(plug_data_vector) /\ i' = i + 1
      /\ UNCHANGED <<manager_pc, unread, plugins_path, plug_data_vector>>
  BY DEF Manager!RunPlugin, Manager!tables
<1>2. PICK m \in Manager!Meets(plug_data_vector[i]) :
           /\ result' = result * Manager!plug_run(m)
           /\ found' = Append(found, m)
  BY DEF Manager!RunPlugin
<1>3. /\ m \in {"up", "down", "failed", "unresolved"}
      /\ m = "unresolved" => plug_data_vector[i] = icmp
  BY <1>2 DEF Manager!Meets
<1>4. found' \in Seq({"up", "down", "failed", "unresolved"})
  BY <1>2, <1>3
<1>5. /\ Len(found') = Len(found) + 1 /\ Len(found) = i - 1
      /\ \A k \in 1..Len(found) : found'[k] = found[k]
      /\ found'[i] = m
  BY <1>1, <1>2, <1>3 DEF RoundOK
<1>6. result' \in {0, 1} /\ (result' = 1 <=> result = 1 /\ Fine(m))
  BY <1>2 DEF Manager!plug_run, Fine
<1>7. result' = 1 <=> \A k \in 1..Len(found') : Fine(found'[k])
  BY <1>1, <1>5, <1>6 DEF RoundOK
<1>8. \A k \in 1..Len(found') : found'[k] = "unresolved" => plug_data_vector'[k] = icmp
  BY <1>1, <1>3, <1>5 DEF RoundOK
<1>9. RoundOK'
  BY <1>1, <1>5, <1>7, <1>8 DEF RoundOK
<1> QED
  BY <1>1, <1>4, <1>6, <1>9 DEF ListingOK, LoadingOK, LoadedOK, Loaded

LEMMA OtherInv ==
    ManagerInv /\ (Manager!RoundEnds \/ Manager!Flip \/ UNCHANGED Manager!vars)
      => ManagerInv'
<1> SUFFICES ASSUME ManagerInv,
                    Manager!RoundEnds \/ Manager!Flip \/ UNCHANGED Manager!vars
             PROVE  ManagerInv'
  OBVIOUS
<1>1. /\ manager_pc' = manager_pc \/ (manager_pc = "run" /\ manager_pc' = "idle")
      /\ UNCHANGED <<unread, plugins_path, plug_data_vector, i, result, found>>
  BY DEF Manager!RoundEnds, Manager!Flip, Manager!vars, Manager!tables
<1> QED
  BY <1>1
  DEF ManagerInv, ManagerType, ListingOK, LoadingOK, LoadedOK, RoundOK, Path, Loaded, Fine

LEMMA ManagerInvariant == Manager!Spec => []ManagerInv
<1>1. ManagerInv /\ [Manager!Next]_Manager!vars => ManagerInv'
  BY ListEntryInv, ListEndsInv, LoadInv, AllLoadedInv, RoundStartsInv, RunPluginInv,
     OtherInv DEF Manager!Next
<1> QED
  BY InitManager, <1>1, PTL DEF Manager!Spec

(* A healthy round has asked every plugin of the directory that can be loaded *)
(* and met its service up; only ICMP may speak for a target whose name was    *)
(* not resolved (run_all_plugin, plug_run).                                   *)
THEOREM HealthIsProbedHolds == Manager!Spec => []HealthIsProbed
<1>1. ManagerInv => HealthIsProbed
  <2> SUFFICES ASSUME ManagerInv, Manager!RoundOver, found # <<>>, result = 1,
                      NEW f \in Named \cap Loadable
               PROVE  \/ <<f, "up">> \in Manager!ToSet(Manager!Asked)
                      \/ f = icmp /\ <<f, "unresolved">> \in Manager!ToSet(Manager!Asked)
    BY DEF HealthIsProbed, Manager!HealthIsProbed
  <2> USE DEF ManagerInv, ManagerType
  <2>1. Len(found) = Len(plug_data_vector) /\ Len(found) # 0 /\ manager_pc = "idle"
    BY DEF Manager!RoundOver
  <2>2. plug_data_vector # <<>>
    BY <2>1
  <2>3. PICK k \in 1..Len(plug_data_vector) : plug_data_vector[k] = f
    BY <2>1, <2>2 DEF LoadedOK, Loaded
  <2>4. /\ found[k] \in {"up", "unresolved"}
        /\ found[k] = "unresolved" => f = icmp
    BY <2>1, <2>3 DEF RoundOK, Fine
  <2>5. <<f, found[k]>> \in Manager!ToSet(Manager!Asked)
    BY <2>3 DEF Manager!ToSet, Manager!Asked
  <2> QED
    BY <2>4, <2>5
<1> QED
  BY <1>1, ManagerInvariant, PTL

(* An unhealthy round has a plugin of this round to blame: what an earlier    *)
(* round found does not last (run_all_plugin).                                *)
THEOREM IllnessHasCauseHolds == Manager!Spec => []IllnessHasCause
<1>1. ManagerInv => IllnessHasCause
  <2> SUFFICES ASSUME ManagerInv, result = 0
               PROVE  {"down", "failed"} \cap Manager!ToSet(found) # {}
    BY DEF IllnessHasCause, Manager!IllnessHasCause
  <2> USE DEF ManagerInv, ManagerType
  <2>1. PICK k \in 1..Len(found) : ~Fine(found[k])
    BY DEF RoundOK
  <2>2. found[k] \in {"down", "failed"}
    BY <2>1 DEF Fine
  <2>3. found[k] \in Manager!ToSet(found)
    BY <2>1 DEF Manager!ToSet
  <2> QED
    BY <2>2, <2>3
<1> QED
  BY <1>1, ManagerInvariant, PTL

-----------------------------------------------------------------------------
(* The check itself.  What a round of the NetSign plugin promises for any     *)
(* number of services, retries, lengths and seconds: a service that is called *)
(* normal has answered, and every socket is closed.                           *)

USE ProbeAssumption

ProbeTypeOK ==
    /\ pc \in {"idle", "service", "connect", "select", "send", "total", "tag", "content"}
    /\ service \in Nat /\ sockets \in Int
    /\ peer \in {"open", "closed"} /\ end \in {"open", "timeout", "eof", "error"}
    /\ asked \in Int /\ nleft \in Int /\ waited \in Nat
    /\ iRecTotalLen \in 0..MaxLen /\ iRecSofarLen \in Int /\ iRecCRSegLen \in -1..MaxLen
    /\ heard \in Nat

(* An attempt has one socket from its connect to its end.                     *)
SocketInv ==
    sockets = IF pc \in {"idle", "service", "connect"} THEN 0 ELSE 1

(* What the current readn has received, which its result never exceeds.       *)
Got == asked - nleft

ReadInv ==
    /\ nleft <= asked /\ (nleft >= 0 \/ nleft = asked)
    /\ pc \in {"total", "tag", "content"} /\ end = "eof" => peer = "closed"
    /\ end # "open" => asked > 0

(* Everything that counts as received was heard, up to the limit of the       *)
(* history variable.  Only a header that the end of the stream has cut short  *)
(* is taken for a whole one, and after that nothing is received any more.     *)
HeardInv ==
    /\ pc = "total" =>
         /\ asked = HeadLen /\ iRecSofarLen = 0
         /\ heard = HeardLimit \/ heard >= Got
    /\ pc \in {"tag", "content"} =>
         /\ iRecTotalLen >= 1
         /\ \/ heard = HeardLimit
            \/ heard >= HeadLen + iRecSofarLen + Got
            \/ peer = "closed" /\ iRecSofarLen <= 0 /\ Got = 0

ProbeInv == ProbeTypeOK /\ SocketInv /\ ReadInv /\ HeardInv

-----------------------------------------------------------------------------

LEMMA InitProbe == Init => ProbeInv
  BY DEF Init, ProbeInv, ProbeTypeOK, SocketInv, ReadInv, HeardInv, HeadLen

(* A read's result is an integer, at most what it received; a positive one is *)
(* all that was asked for, unless the stream has ended.                       *)
LEMMA ReadResult ==
    ASSUME ProbeTypeOK, ReadInv, Returned, pc \in {"total", "tag", "content"}
    PROVE  /\ iRet \in Int /\ iRet <= Got
           /\ iRet > 0 => iRet = Got /\ (Got = asked \/ peer = "closed")
<1> USE DEF ProbeTypeOK, ReadInv, Returned, Got
<1>1. CASE asked < 0
  <2>1. iRet = -1 /\ nleft = asked
    BY <1>1 DEF iRet
  <2> QED
    BY <1>1, <2>1
<1>2. CASE asked >= 0 /\ end \in {"timeout", "error"}
  <2>1. iRet \in {-1, -2}
    BY <1>2 DEF iRet
  <2> QED
    BY <1>2, <2>1
<1>3. CASE asked >= 0 /\ end \in {"open", "eof"}
  <2>1. iRet = asked - nleft
    BY <1>3 DEF iRet
  <2> QED
    BY <1>3, <2>1
<1> QED
  BY <1>1, <1>2, <1>3

(* A new read has received nothing.                                           *)
LEMMA NewRead ==
    ASSUME NEW n \in Int, Readn(n)
    PROVE  /\ asked' \in Int /\ nleft' \in Int /\ waited' \in Nat /\ end' = "open"
           /\ asked' = n /\ nleft' <= asked' /\ nleft' = asked' /\ Got' = 0
  BY DEF Readn, Got

(* The end of an attempt leads to one of three places.                        *)
LEMMA AfterAttempt ==
    ASSUME ProbeTypeOK, NEW ret, AttemptEnds(ret \in {0, 1})
    PROVE  /\ pc' \in {"idle", "service", "connect"} /\ service' \in Nat
           /\ ret \notin {0, 1} => service' = service
  BY DEF ProbeTypeOK, AttemptEnds

LEMMA AfterFailure ==
    ASSUME ProbeTypeOK, AttemptEnds(FALSE)
    PROVE  /\ pc' \in {"idle", "service", "connect"} /\ service' = service
  BY DEF ProbeTypeOK, AttemptEnds

(* The steps of readn.                                                        *)
LEMMA ReadStep ==
    ProbeInv /\ (Waits \/ TimesOut \/ Recv \/ Closes) => ProbeInv'
<1> SUFFICES ASSUME ProbeInv, Waits \/ TimesOut \/ Recv \/ Closes PROVE ProbeInv'
  OBVIOUS
<1> USE DEF ProbeInv, ProbeTypeOK, SocketInv, ReadInv, HeardInv, Got,
            callVars, serviceVars, parseVars
<1>1. CASE Waits
  BY <1>1 DEF Waits
<1>2. CASE TimesOut
  BY <1>2 DEF TimesOut, Reading
<1>3. CASE Recv
  <2>1. PICK k \in 1..nleft :
          /\ nleft' = nleft - k
          /\ heard' = IF heard + k < HeardLimit THEN heard + k ELSE HeardLimit
    BY <1>3 DEF Recv
  <2>2. k \in Nat /\ k >= 1 /\ nleft >= k /\ nleft' >= 0
    BY <2>1
  <2>3. heard' \in Nat
    BY <2>1, <2>2 DEF HeardLimit, HeadLen
  <2>4. heard' = HeardLimit \/ heard' = heard + k
    BY <2>1
  <2>5. /\ pc' = pc /\ asked' = asked /\ end' = end /\ peer' = peer /\ peer = "open"
        /\ service' = service /\ sockets' = sockets /\ waited' = waited
        /\ iRecTotalLen' = iRecTotalLen /\ iRecSofarLen' = iRecSofarLen
        /\ iRecCRSegLen' = iRecCRSegLen /\ end = "open"
    BY <1>3 DEF Recv, Reading
  <2>6. ProbeTypeOK' /\ SocketInv' /\ ReadInv'
    BY <2>1, <2>2, <2>3, <2>5
  <2>7. pc = "total" => HeardInv'
    BY <2>1, <2>2, <2>4, <2>5 DEF HeadLen, HeardLimit
  <2>8. pc # "total" => HeardInv'
    BY <2>1, <2>2, <2>4, <2>5 DEF HeadLen, HeardLimit
  <2> QED
    BY <2>6, <2>7, <2>8
<1>4. CASE Closes
  BY <1>4 DEF Closes, Reading
<1> QED
  BY <1>1, <1>2, <1>3, <1>4

(* The steps between the attempts.                                            *)
LEMMA RoundStep ==
    /\ ProbeInv
    /\ RoundStarts \/ AllDone \/ Unchecked \/ Misconfigured \/ Checked
       \/ NoSocket \/ Connects \/ SelectFails \/ ConnectError \/ FcntlFails
       \/ DetectConnect \/ socket_send \/ NothingToSend
    => ProbeInv'
<1> SUFFICES ASSUME ProbeInv,
                    RoundStarts \/ AllDone \/ Unchecked \/ Misconfigured \/ Checked
                    \/ NoSocket \/ Connects \/ SelectFails \/ ConnectError \/ FcntlFails
                    \/ DetectConnect \/ socket_send \/ NothingToSend
             PROVE  ProbeInv'
  OBVIOUS
<1> USE DEF ProbeInv, ProbeTypeOK, SocketInv, ReadInv, HeardInv, Got
<1>1. CASE RoundStarts
  BY <1>1 DEF RoundStarts, readVars, parseVars
<1>2. CASE AllDone \/ Unchecked \/ Misconfigured \/ Checked
  BY <1>2 DEF AllDone, Unchecked, Misconfigured, Checked, answerVars, readVars, parseVars
<1>3. CASE NoSocket
  BY <1>3, AfterFailure DEF NoSocket, answerVars, readVars, parseVars
<1>4. CASE Connects \/ DetectConnect
  BY <1>4 DEF Connects, DetectConnect, serviceVars, answerVars, readVars, parseVars
<1>5. CASE SelectFails \/ ConnectError \/ FcntlFails \/ NothingToSend
  <2>1. pc \in {"select", "send"} /\ GivesUp
    BY <1>5 DEF SelectFails, ConnectError, FcntlFails, NothingToSend
  <2>2. pc' \in {"idle", "service", "connect"} /\ service' = service
    BY <2>1, AfterFailure DEF GivesUp
  <2> QED
    BY <2>1, <2>2 DEF GivesUp, answerVars, readVars, parseVars
<1>6. CASE socket_send
  BY <1>6 DEF socket_send, serviceVars, Readn, HeadLen
<1> QED
  BY <1>1, <1>2, <1>3, <1>4, <1>5, <1>6

(* An answer that is over ends the attempt and closes its socket.             *)
LEMMA AnswerOver ==
    ASSUME ProbeInv, NEW ret, ParseReceive(ret), peer' = peer, heard' = heard,
           pc \notin {"idle", "service", "connect"},
           iRecTotalLen' \in 0..MaxLen, iRecSofarLen' \in Int, iRecCRSegLen' \in -1..MaxLen
    PROVE  ProbeInv'
<1>1. /\ pc' \in {"idle", "service", "connect"} /\ service' \in Nat
  BY AfterAttempt DEF ParseReceive, ProbeInv
<1> QED
  BY <1>1 DEF ParseReceive, readVars, ProbeInv, ProbeTypeOK, SocketInv, ReadInv, HeardInv

LEMMA TotalStep == ProbeInv /\ receiveTotalLen => ProbeInv'
<1> SUFFICES ASSUME ProbeInv, receiveTotalLen PROVE ProbeInv'
  OBVIOUS
<1>1. /\ pc = "total" /\ peer' = peer /\ heard' = heard
      /\ iRecSofarLen' = iRecSofarLen /\ iRecCRSegLen' = iRecCRSegLen
  BY DEF receiveTotalLen
<1>2. CASE /\ ParseReceive(1) \/ ParseReceive(Err_RecvDataFromServer)
           /\ iRecTotalLen' \in 0..MaxLen
  BY <1>1, <1>2, AnswerOver DEF ProbeInv, ProbeTypeOK
<1>3. ASSUME NEW len \in 0..MaxLen, len # 0, iRet > 0, iRecTotalLen' = len,
             pc' = "tag", Readn(HeadLen), UNCHANGED serviceVars
      PROVE  ProbeInv'
  <2>1. /\ asked' \in Int /\ nleft' \in Int /\ waited' \in Nat /\ end' = "open"
        /\ nleft' <= asked' /\ nleft' = asked' /\ Got' = 0
    BY <1>3, NewRead DEF HeadLen
  <2>2. heard = HeardLimit \/ heard >= HeadLen \/ peer = "closed"
    BY <1>1, <1>3, ReadResult DEF receiveTotalLen, ProbeInv, HeardInv
  <2> QED
    BY <1>1, <1>3, <2>1, <2>2
    DEF serviceVars, ProbeInv, ProbeTypeOK, SocketInv, ReadInv, HeardInv, HeadLen
<1>4. CASE iRet > 0 /\ if_chk_detect_ret
  <2>1. PICK len \in 0..MaxLen :
          /\ iRecTotalLen' = len
          /\ IF len = 0 THEN ParseReceive(Err_RecvDataFromServer)
             ELSE pc' = "tag" /\ Readn(HeadLen) /\ UNCHANGED serviceVars
    BY <1>4, ReadResult DEF receiveTotalLen, ProbeInv
  <2> QED
    BY <1>2, <1>3, <1>4, <2>1
<1>5. CASE ~(iRet > 0 /\ if_chk_detect_ret)
  <2>1. ParseReceive(1) \/ ParseReceive(Err_RecvDataFromServer)
    BY <1>5, ReadResult DEF receiveTotalLen, ProbeInv
  <2>2. iRecTotalLen' = iRecTotalLen
    BY <1>5, ReadResult DEF receiveTotalLen, ProbeInv
  <2> QED
    BY <1>2, <2>1, <2>2 DEF ProbeInv, ProbeTypeOK
<1> QED
  BY <1>4, <1>5

LEMMA TagStep == ProbeInv /\ receiveTagAndLen => ProbeInv'
<1> SUFFICES ASSUME ProbeInv, receiveTagAndLen PROVE ProbeInv'
  OBVIOUS
<1>1. iRecCRSegLen' \in -1..MaxLen
  BY DEF receiveTagAndLen, ProbeInv, ProbeTypeOK
<1>2. /\ asked' \in Int /\ nleft' \in Int /\ waited' \in Nat /\ end' = "open"
      /\ nleft' <= asked' /\ nleft' = asked' /\ Got' = 0
  BY <1>1, NewRead DEF receiveTagAndLen
<1>3. /\ iRet \in Int /\ iRet <= Got /\ Got \in Int
  BY ReadResult DEF receiveTagAndLen, ProbeInv, ProbeTypeOK, Got
<1>4. /\ pc = "tag" /\ pc' = "content" /\ iRecSofarLen' = iRecSofarLen + iRet
      /\ peer' = peer /\ heard' = heard /\ iRecTotalLen' = iRecTotalLen
      /\ service' = service /\ sockets' = sockets
  BY DEF receiveTagAndLen, serviceVars
<1> QED
  BY <1>1, <1>2, <1>3, <1>4
  DEF ProbeInv, ProbeTypeOK, SocketInv, ReadInv, HeardInv, HeadLen

LEMMA ContentStep == ProbeInv /\ receiveContent => ProbeInv'
<1> SUFFICES ASSUME ProbeInv, receiveContent PROVE ProbeInv'
  OBVIOUS
<1>1. /\ pc = "content" /\ iRecSofarLen' = iRecSofarLen + iRet
      /\ peer' = peer /\ heard' = heard /\ iRecTotalLen' = iRecTotalLen
      /\ iRecCRSegLen' = iRecCRSegLen
  BY DEF receiveContent
<1>2. /\ iRet \in Int /\ iRet <= Got /\ Got \in Int
  BY ReadResult DEF receiveContent, ProbeInv, ProbeTypeOK, Got
<1>3. CASE ParseReceive(iRet) \/ ParseReceive(iReturnValue')
  BY <1>1, <1>2, <1>3, AnswerOver DEF ProbeInv, ProbeTypeOK
<1>4. CASE pc' = "tag" /\ Readn(HeadLen) /\ UNCHANGED serviceVars
  <2>1. /\ asked' \in Int /\ nleft' \in Int /\ waited' \in Nat /\ end' = "open"
        /\ nleft' <= asked' /\ nleft' = asked' /\ Got' = 0
    BY <1>4, NewRead DEF HeadLen
  <2> QED
    BY <1>1, <1>2, <1>4, <2>1
    DEF serviceVars, ProbeInv, ProbeTypeOK, SocketInv, ReadInv, HeardInv, HeadLen
<1> QED
  BY <1>3, <1>4 DEF receiveContent

LEMMA StepProbe == ProbeInv /\ [Next]_vars => ProbeInv'
<1>1. ProbeInv /\ UNCHANGED vars => ProbeInv'
  BY DEF vars, serviceVars, readVars, parseVars,
         ProbeInv, ProbeTypeOK, SocketInv, ReadInv, HeardInv, Got
<1> QED
  BY <1>1, ReadStep, RoundStep, TotalStep, TagStep, ContentStep DEF Next

-----------------------------------------------------------------------------
(* A round leaves no socket behind, whichever of its ways an attempt ended    *)
(* (DetectConnect, DetectResponse), for any number of services and retries.   *)
THEOREM SocketsClosedHolds == Spec => []SocketsClosed
<1>1. ProbeInv => SocketsClosed
  BY DEF ProbeInv, SocketInv, SocketsClosed
<1> QED
  BY <1>1, InitProbe, StepProbe, PTL DEF Spec

(* A step after which the service counts as normal is the end of an answer:   *)
(* of its header, or of a content.                                            *)
LEMMA SuccessHeard ==
    ASSUME ProbeInv, Next, Succeeds
    PROVE  heard > 0 /\ (if_chk_detect_ret => heard >= HeadLen + iRecTotalLen)
<1>1. service \in Nat /\ service' = service + 1
  BY DEF ProbeInv, ProbeTypeOK, Succeeds
<1>2. receiveTotalLen \/ receiveContent
  <2>1. ~(Waits \/ TimesOut \/ Recv \/ Closes \/ socket_send \/ receiveTagAndLen)
    BY <1>1
    DEF Waits, TimesOut, Recv, Closes, socket_send, receiveTagAndLen, callVars, serviceVars
  <2>2. ~(RoundStarts \/ AllDone \/ Unchecked \/ Misconfigured \/ Checked)
    BY DEF Succeeds, RoundStarts, AllDone, Unchecked, Misconfigured, Checked
  <2>3. ~(NoSocket \/ Connects \/ SelectFails \/ ConnectError \/ FcntlFails)
    BY DEF Succeeds, NoSocket, Connects, SelectFails, ConnectError, FcntlFails
  <2>4. ~(DetectConnect \/ NothingToSend)
    BY DEF Succeeds, DetectConnect, NothingToSend
  <2> QED
    BY <2>1, <2>2, <2>3, <2>4 DEF Next
<1>3. CASE receiveTotalLen
  <2>1. iRet > 0 /\ ~if_chk_detect_ret
    BY <1>1, <1>3, AfterAttempt
    DEF receiveTotalLen, ParseReceive, serviceVars, ProbeInv, Err_RecvDataFromServer,
        Succeeds
  <2>2. Got > 0 /\ (heard = HeardLimit \/ heard >= Got) /\ Got \in Int /\ heard \in Nat
    BY <1>3, <2>1, ReadResult DEF receiveTotalLen, ProbeInv, ProbeTypeOK, HeardInv, Got
  <2> QED
    BY <2>1, <2>2 DEF HeardLimit, HeadLen
<1>4. CASE receiveContent
  <2>1. iRet \in Int /\ iRet <= Got /\ Got \in Int
    BY <1>4, ReadResult DEF receiveContent, ProbeInv, ProbeTypeOK, Got
  <2>2. iRecSofarLen + iRet >= iRecTotalLen
    <3>1. ~(iRet < 0)
      <4> SUFFICES ASSUME iRet < 0 PROVE FALSE
        OBVIOUS
      <4>1. AttemptEnds(iRet \in {0, 1})
        BY <1>4 DEF receiveContent, ParseReceive
      <4> QED
        BY <1>1, <2>1, <4>1, AfterAttempt DEF ProbeInv
    <3>2. ~UNCHANGED serviceVars
      BY <1>1 DEF serviceVars
    <3> QED
      BY <1>4, <2>1, <3>1, <3>2 DEF receiveContent, ProbeInv, ProbeTypeOK
  <2> QED
    BY <1>4, <2>1, <2>2
    DEF receiveContent, ProbeInv, ProbeTypeOK, HeardInv, HeardLimit, HeadLen
<1> QED
  BY <1>2, <1>3, <1>4

(* No service is called normal on an answer that did not come, or not whole,  *)
(* for any lengths it declares and any order of bytes, silence and closing    *)
(* (ParseReceive, readn).                                                     *)
THEOREM AnswerHeardHolds == Spec => AnswerHeard
<1>1. ProbeInv /\ [Next]_vars
        => [Succeeds => /\ heard > 0
                        /\ if_chk_detect_ret => heard >= HeadLen + iRecTotalLen]_vars
  BY SuccessHeard
<1> QED
  BY <1>1, InitProbe, StepProbe, PTL DEF Spec, AnswerHeard

-----------------------------------------------------------------------------
(* conf.ini                                                                   *)

(* Line k of c is the last of the first m that sets name for plugin p.        *)
LastOf(c, p, m, name, k) ==
    /\ Conf!Sets(p, c[k], name)
    /\ \A j \in (k + 1)..m : ~Conf!Sets(p, c[j], name)

(* g is what the first m lines of file c make of b.                           *)
Heeded(c, g, b, p, m) ==
    \A name \in Conf!Setting :
        /\ (\A k \in 1..m : ~Conf!Sets(p, c[k], name)) => g[name] = b[name]
        /\ \A k \in 1..m : LastOf(c, p, m, name, k) => g[name] = Conf!atoi(c[k].value)

(* g is what p has in force then.                                             *)
Obeyed(c, g, b, p, m) ==
    \A name \in Conf!Setting :
        /\ (\A k \in 1..m : ~Conf!Sets(p, c[k], name))
             => g[name] = Conf!InForce(p, name, b[name])
        /\ \A k \in 1..m :
             LastOf(c, p, m, name, k)
               => g[name] = Conf!InForce(p, name, Conf!atoi(c[k].value))

NoneBad(c, p, m) == \A j \in 1..m : ~Conf!Bad(p, c[j])

(* All of file c that counts for p: its lines up to the end or to a bad one.  *)
AllObeyed(c, g, b, p) ==
    \E m \in 0..Len(c) :
        /\ Obeyed(c, g, b, p, m) /\ NoneBad(c, p, m)
        /\ m = Len(c) \/ Conf!Bad(p, c[m + 1])

Unread(g, b, p) ==
    \A name \in Conf!Setting : g[name] = Conf!InForce(p, name, b[name])

HasRead(p) ==
    IF there THEN AllObeyed(conf, globals[p], before[p], p)
             ELSE Unread(globals[p], before[p], p)

(* A plugin that reads has heeded the lines before the next; one that has     *)
(* read, those up to the end or to a bad line.                                *)
ConfInv ==
    /\ conf \in Seq(Conf!Line)
    /\ DOMAIN globals = Conf!Plugin /\ DOMAIN before = Conf!Plugin
    /\ globals = [p \in Conf!Plugin |-> globals[p]]
    /\ before = [p \in Conf!Plugin |-> before[p]]
    /\ read \subseteq Conf!Plugin
    /\ \/ reader = "none"
       \/ /\ reader \in Conf!Plugin \ read /\ there
          /\ at \in 1..(Len(conf) + 1)
          /\ Heeded(conf, globals[reader], before[reader], reader, at - 1)
          /\ NoneBad(conf, reader, at - 1)
    /\ \A p \in read : HasRead(p)

LEMMA HeededMore ==
    ASSUME NEW c \in Seq(Conf!Line), NEW p \in Conf!Plugin, NEW g, NEW b,
           NEW n \in 1..Len(c), Heeded(c, g, b, p, n - 1)
    PROVE  Heeded(c, Conf!Applied(p, g, c[n]), b, p, n)
<1> DEFINE h == Conf!Applied(p, g, c[n])
<1>1. \A x \in Conf!Setting :
        h[x] = IF Conf!Sets(p, c[n], x) THEN Conf!atoi(c[n].value) ELSE g[x]
  BY DEF Conf!Applied
<1> HIDE DEF h
<1>2. Len(c) \in Nat /\ n \in Nat
  BY LenProperties
<1>3. ASSUME NEW name \in Conf!Setting
      PROVE  /\ (\A k \in 1..n : ~Conf!Sets(p, c[k], name)) => h[name] = b[name]
             /\ \A k \in 1..n :
                  LastOf(c, p, n, name, k) => h[name] = Conf!atoi(c[k].value)
  <2>1. ASSUME \A k \in 1..n : ~Conf!Sets(p, c[k], name) PROVE h[name] = b[name]
    <3>1. \A k \in 1..(n - 1) : ~Conf!Sets(p, c[k], name)
      BY <1>2, <2>1
    <3>2. ~Conf!Sets(p, c[n], name)
      BY <1>2, <2>1
    <3> QED
      BY <1>1, <3>1, <3>2 DEF Heeded
  <2>2. ASSUME NEW k \in 1..n, LastOf(c, p, n, name, k)
        PROVE  h[name] = Conf!atoi(c[k].value)
    <3>1. CASE k = n
      BY <1>1, <2>2, <3>1 DEF LastOf
    <3>2. CASE k # n
      <4>1. k \in 1..(n - 1) /\ n \in (k + 1)..n
        BY <1>2, <3>2
      <4>2. ~Conf!Sets(p, c[n], name)
        BY <2>2, <4>1 DEF LastOf
      <4>3. \A j \in (k + 1)..(n - 1) : j \in (k + 1)..n
        BY <1>2
      <4>4. LastOf(c, p, n - 1, name, k)
        BY <2>2, <4>3 DEF LastOf
      <4>5. g[name] = Conf!atoi(c[k].value)
        BY <4>1, <4>4 DEF Heeded
      <4> QED
        BY <1>1, <4>2, <4>5
    <3> QED
      BY <3>1, <3>2
  <2> QED
    BY <2>1, <2>2
<1>4. Heeded(c, h, b, p, n)
  BY <1>3 DEF Heeded
<1> QED
  BY <1>4 DEF h

(* What p has in force when its reading ends.                                 *)
Final(p, g) == [name \in Conf!Setting |-> Conf!InForce(p, name, g[name])]

LEMMA HeededThenObeyed ==
    ASSUME NEW c, NEW g, NEW b, NEW p, NEW m, Heeded(c, g, b, p, m)
    PROVE  Obeyed(c, Final(p, g), b, p, m)
<1> DEFINE h == Final(p, g)
<1>1. \A name \in Conf!Setting : h[name] = Conf!InForce(p, name, g[name])
  BY DEF Final
<1> HIDE DEF h
<1>2. Obeyed(c, h, b, p, m)
  BY <1>1 DEF Heeded, Obeyed
<1> QED
  BY <1>2 DEF h

LEMMA FilesAreSequences == Conf!ConfFiles \subseteq Seq(Conf!Line)
<1> SUFFICES ASSUME NEW c \in Conf!ConfFiles PROVE c \in Seq(Conf!Line)
  OBVIOUS
<1>1. PICK m \in 0..MaxLines : c \in [1..m -> Conf!Line]
  BY DEF Conf!ConfFiles, Conf!BoundedSeq, Conf!SeqOf
<1>2. m \in Nat
  OBVIOUS
<1> QED
  BY <1>1, <1>2

LEMMA ConfStep == ConfInv /\ [Conf!Next]_Conf!vars => ConfInv'
<1> SUFFICES ASSUME ConfInv, [Conf!Next]_Conf!vars PROVE ConfInv'
  OBVIOUS
<1>0. /\ conf \in Seq(Conf!Line) /\ Len(conf) \in Nat
      /\ DOMAIN globals = Conf!Plugin /\ DOMAIN before = Conf!Plugin
      /\ globals = [p \in Conf!Plugin |-> globals[p]]
      /\ before = [p \in Conf!Plugin |-> before[p]]
      /\ read \subseteq Conf!Plugin /\ \A p \in read : HasRead(p)
  BY LenProperties DEF ConfInv
<1>1. CASE UNCHANGED Conf!vars
  BY <1>1 DEF ConfInv, HasRead, Conf!vars, Conf!history
<1>2. ASSUME NEW p \in Conf!Plugin, Conf!Open(p) PROVE ConfInv'
  <2>1. /\ conf' = conf /\ there' = there /\ reader = "none"
        /\ before' = [before EXCEPT ![p] = globals[p]]
    BY <1>2 DEF Conf!Open
  <2>2. /\ DOMAIN before' = Conf!Plugin /\ before'[p] = globals[p]
        /\ before' = [q \in Conf!Plugin |-> before'[q]]
        /\ \A q \in Conf!Plugin \ {p} : before'[q] = before[q]
    BY <1>0, <2>1
  <2>3. CASE there
    <3>1. reader' = p /\ at' = 1 /\ read' = read \ {p} /\ globals' = globals
      BY <1>2, <2>3 DEF Conf!Open
    <3>2. Heeded(conf, globals[p], globals[p], p, 0) /\ NoneBad(conf, p, 0)
      BY DEF Heeded, NoneBad
    <3>3. at' \in 1..(Len(conf) + 1) /\ at' - 1 = 0 /\ p \in Conf!Plugin \ read'
      BY <1>0, <3>1
    <3>4. \A q \in read' : HasRead(q)'
      BY <1>0, <2>1, <2>2, <3>1 DEF HasRead
    <3> QED
      BY <1>0, <2>1, <2>2, <2>3, <3>1, <3>2, <3>3, <3>4 DEF ConfInv
  <2>4. CASE ~there
    <3>1. /\ reader' = reader /\ read' = read \cup {p}
          /\ globals' = [globals EXCEPT ![p] = Final(p, globals[p])]
      BY <1>2, <2>4 DEF Conf!Open, Conf!Ends, Final
    <3>2. /\ DOMAIN globals' = Conf!Plugin /\ globals'[p] = Final(p, globals[p])
          /\ globals' = [q \in Conf!Plugin |-> globals'[q]]
          /\ \A q \in Conf!Plugin \ {p} : globals'[q] = globals[q]
      BY <1>0, <3>1
    <3>3. Unread(Final(p, globals[p]), globals[p], p)
      BY DEF Unread, Final
    <3>4. HasRead(p)'
      BY <2>1, <2>2, <2>4, <3>2, <3>3 DEF HasRead
    <3>5. \A q \in read \ {p} : HasRead(q)'
      BY <1>0, <2>1, <2>2, <2>4, <3>2 DEF HasRead
    <3> QED
      BY <1>0, <2>1, <2>2, <3>1, <3>2, <3>4, <3>5 DEF ConfInv
  <2> QED
    BY <2>3, <2>4
<1>3. ASSUME NEW p \in Conf!Plugin, Conf!ReadLine(p) PROVE ConfInv'
  <2>1. conf' = conf /\ there' = there /\ before' = before /\ reader = p /\ p # "none"
    BY <1>3 DEF Conf!ReadLine, Conf!Plugin
  <2>2. /\ p \notin read /\ at \in 1..(Len(conf) + 1) /\ there
        /\ Heeded(conf, globals[p], before[p], p, at - 1) /\ NoneBad(conf, p, at - 1)
    BY <2>1 DEF ConfInv
  <2>3. CASE at > Len(conf) \/ Conf!Bad(p, conf[at])
    <3>1. /\ reader' = "none" /\ read' = read \cup {p}
          /\ globals' = [globals EXCEPT ![p] = Final(p, globals[p])]
      BY <1>3, <2>3 DEF Conf!ReadLine, Conf!Ends, Final
    <3>2. /\ DOMAIN globals' = Conf!Plugin /\ globals'[p] = Final(p, globals[p])
          /\ globals' = [q \in Conf!Plugin |-> globals'[q]]
          /\ \A q \in Conf!Plugin \ {p} : globals'[q] = globals[q]
      BY <1>0, <3>1
    <3>3. PICK m \in Nat : m = at - 1
      BY <2>2
    <3>4. m \in 0..Len(conf) /\ m + 1 = at /\ (at > Len(conf) => m = Len(conf))
      BY <1>0, <2>2, <3>3
    <3>5. Obeyed(conf, Final(p, globals[p]), before[p], p, m) /\ NoneBad(conf, p, m)
      BY <2>2, <3>3, HeededThenObeyed
    <3>6. m = Len(conf) \/ Conf!Bad(p, conf[m + 1])
      BY <2>3, <3>4
    <3>7. HasRead(p)'
      BY <2>1, <2>2, <3>2, <3>4, <3>5, <3>6 DEF HasRead, AllObeyed
    <3>8. \A q \in read : HasRead(q)'
      BY <1>0, <2>1, <2>2, <3>2 DEF HasRead
    <3> QED
      BY <1>0, <2>1, <3>1, <3>2, <3>7, <3>8 DEF ConfInv
  <2>4. CASE ~(at > Len(conf) \/ Conf!Bad(p, conf[at]))
    <3> DEFINE g == Conf!Applied(p, globals[p], conf[at])
    <3>1. /\ globals' = [globals EXCEPT ![p] = g]
          /\ at' = at + 1 /\ reader' = p /\ read' = read
      BY <1>3, <2>1, <2>4 DEF Conf!ReadLine
    <3>2. at \in 1..Len(conf) /\ at' \in 1..(Len(conf) + 1) /\ at' - 1 = at
      BY <1>0, <2>2, <2>4, <3>1
    <3>3. Heeded(conf, g, before[p], p, at)
      BY <1>0, <2>2, <3>2, HeededMore
    <3>4. NoneBad(conf, p, at)
      <4>1. \A j \in 1..at : j = at \/ j \in 1..(at - 1)
        BY <3>2
      <4> QED
        BY <2>2, <2>4, <4>1 DEF NoneBad
    <3> HIDE DEF g
    <3>5. /\ DOMAIN globals' = Conf!Plugin /\ globals'[p] = g
          /\ globals' = [q \in Conf!Plugin |-> globals'[q]]
          /\ \A q \in read : globals'[q] = globals[q]
      BY <1>0, <2>2, <3>1
    <3>6. \A q \in read' : HasRead(q)'
      BY <1>0, <2>1, <3>1, <3>5 DEF HasRead
    <3> QED
      BY <1>0, <2>1, <2>2, <3>1, <3>2, <3>3, <3>4, <3>5, <3>6 DEF ConfInv
  <2> QED
    BY <2>3, <2>4
<1>4. CASE Conf!Edit
  <2>1. /\ conf' \in Seq(Conf!Line) /\ reader' = "none" /\ read' = {}
        /\ globals' = globals /\ before' = before
    BY <1>4, FilesAreSequences DEF Conf!Edit
  <2> QED
    BY <1>0, <2>1 DEF ConfInv
<1>5. CASE Conf!Restart
  <2>1. /\ conf' = conf /\ reader' = "none" /\ read' = {} /\ before' = globals'
        /\ globals' = [p \in Conf!Plugin |-> Conf!Defaults]
    BY <1>5 DEF Conf!Restart
  <2>2. DOMAIN globals' = Conf!Plugin /\ globals' = [p \in Conf!Plugin |-> globals'[p]]
    BY <2>1
  <2> QED
    BY <1>0, <2>1, <2>2 DEF ConfInv
<1> QED
  <2>1. "netsign" \in Conf!Plugin /\ "icmp" \in Conf!Plugin
    BY DEF Conf!Plugin
  <2> QED
    BY <1>1, <1>2, <1>3, <1>4, <1>5, <2>1
    DEF Conf!Next, Conf!LoadMonSrvConf, Conf!loadconfig

LEMMA ConfInvariant == Conf!Spec => []ConfInv
<1>1. Conf!Init => ConfInv
  <2> SUFFICES ASSUME Conf!Init PROVE ConfInv
    OBVIOUS
  <2>1. /\ conf \in Seq(Conf!Line) /\ reader = "none" /\ read = {}
        /\ globals = [p \in Conf!Plugin |-> Conf!Defaults] /\ before = globals
    BY FilesAreSequences DEF Conf!Init
  <2>2. DOMAIN globals = Conf!Plugin /\ globals = [p \in Conf!Plugin |-> globals[p]]
    BY <2>1
  <2> QED
    BY <2>1, <2>2 DEF ConfInv
<1> QED
  BY <1>1, ConfStep, PTL DEF Conf!Spec

(* After any number of edits and restarts, for files of any length and for    *)
(* any numbers in them, a plugin has in force what the file that it has read  *)
(* last says, or what it had before (LoadMonSrvConf, loadconfig, plug_init).  *)
THEOREM LastFileCountsHolds == Conf!Spec => []LastFileCounts
<1>1. ConfInv => LastFileCounts
  <2> SUFFICES ASSUME ConfInv, NEW p \in read, NEW name \in Conf!Setting
               PROVE  /\ Conf!Counting(p, name) = {}
                           => globals[p][name] = Conf!InForce(p, name, before[p][name])
                      /\ \A k \in Conf!Counting(p, name) :
                           (\A j \in Conf!Counting(p, name) : j <= k)
                             => globals[p][name]
                                  = Conf!InForce(p, name, Conf!atoi(conf[k].value))
    BY DEF LastFileCounts, Conf!LastFileCounts
  <2>1. HasRead(p) /\ conf \in Seq(Conf!Line) /\ Len(conf) \in Nat
        /\ DOMAIN conf = 1..Len(conf)
    BY LenProperties DEF ConfInv
  <2>2. CASE ~there
    BY <2>1, <2>2 DEF HasRead, Unread, Conf!Counting
  <2>3. CASE there
    <3> DEFINE Before(k) == \A j \in 1..k : ~Conf!Bad(p, conf[j])
    <3>1. PICK m \in 0..Len(conf) :
              /\ Obeyed(conf, globals[p], before[p], p, m) /\ NoneBad(conf, p, m)
              /\ m = Len(conf) \/ Conf!Bad(p, conf[m + 1])
      BY <2>1, <2>3 DEF HasRead, AllObeyed
    <3>2. /\ m \in Nat /\ Len(conf) \in Nat /\ m <= Len(conf)
          /\ DOMAIN conf = 1..Len(conf)
      <4>1. m \in 0..Len(conf)
        BY <3>1
      <4> QED
        BY <2>1, <4>1
    <3>3. \A k : k \in Conf!Counting(p, name)
                   <=> /\ k \in 1..Len(conf) /\ Conf!Sets(p, conf[k], name)
                       /\ Before(k)
      BY <2>3, <3>2, Zenon DEF Conf!Counting
    <3>4. \A k \in Conf!Counting(p, name) : k \in 1..m /\ Conf!Sets(p, conf[k], name)
      <4>1. \A k \in 1..Len(conf) : k \in 1..m \/ m + 1 \in 1..k
        BY <3>2
      <4>2. \A k \in 1..Len(conf) : Before(k) => m + 1 \notin 1..k
        <5> SUFFICES ASSUME NEW k \in 1..Len(conf), Before(k), m + 1 \in 1..k
                     PROVE  FALSE
          OBVIOUS
        <5>1. PICK n \in Nat : n = Len(conf)
          BY <3>2, Zenon
        <5>2. m # n
          BY <5>1, <3>2
        <5> QED
          BY <3>1, <5>1, <5>2
      <4> QED
        BY <3>3, <4>1, <4>2, Zenon
    <3>5. \A k \in 1..m : Conf!Sets(p, conf[k], name) => k \in Conf!Counting(p, name)
      <4>1. \A k \in 1..m : k \in 1..Len(conf) /\ \A j \in 1..k : j \in 1..m
        BY <3>2
      <4>2. \A k \in 1..m : Before(k)
        BY <3>1, <4>1 DEF NoneBad
      <4> QED
        BY <3>3, <4>1, <4>2, Zenon
    <3>6. ASSUME Conf!Counting(p, name) = {}
          PROVE  globals[p][name] = Conf!InForce(p, name, before[p][name])
      BY <3>1, <3>5, <3>6 DEF Obeyed
    <3>7. ASSUME NEW k \in Conf!Counting(p, name),
                 \A j \in Conf!Counting(p, name) : j <= k
          PROVE  globals[p][name] = Conf!InForce(p, name, Conf!atoi(conf[k].value))
      <4>1. k \in 1..m /\ Conf!Sets(p, conf[k], name)
        BY <3>4
      <4>2. \A j \in (k + 1)..m : j \in 1..m /\ ~(j <= k)
        BY <3>2, <4>1
      <4>3. LastOf(conf, p, m, name, k)
        BY <3>5, <3>7, <4>1, <4>2 DEF LastOf
      <4> QED
        BY <3>1, <4>1, <4>3 DEF Obeyed
    <3> QED
      BY <3>6, <3>7
  <2> QED
    BY <2>2, <2>3
<1> QED
  BY <1>1, ConfInvariant, PTL

-----------------------------------------------------------------------------
(* The detection string.  Six bits of a text's character go into eight bits   *)
(* of the bytes, in fours that give three bytes, or fewer at the end.         *)

Octet == 0..255

(* The characters of three bytes, and that they give them back.               *)
Three(x, y, z, p, q, r, s) ==
    /\ p = x \div 4
    /\ q = 16 * (x % 4) + y \div 16
    /\ r = 4 * (y % 16) + z \div 64
    /\ s = z % 64

Given(x, y, z, p, q, r, s) ==
    /\ p \in 0..63 /\ q \in 0..63 /\ r \in 0..63 /\ s \in 0..63
    /\ Detect!Joined(p, 4, q \div 16) = x
    /\ Detect!Joined(q, 16, r \div 4) = y
    /\ Detect!Joined(r, 64, s) = z

LEMMA ThreeGiven ==
    ASSUME NEW x \in Octet, NEW y \in Octet, NEW z \in Octet,
           NEW p, NEW q, NEW r, NEW s, Three(x, y, z, p, q, r, s)
    PROVE  Given(x, y, z, p, q, r, s)
<1> USE DEF Octet
<1>1. p = x \div 4 /\ q = 16 * (x % 4) + y \div 16
  BY DEF Three
<1>2. r = 4 * (y % 16) + z \div 64 /\ s = z % 64
  BY DEF Three
<1>3. p \in 0..63 /\ q \in 0..63 /\ q \div 16 = x % 4 /\ x % 4 \in 0..3
  BY <1>1
<1>4. r \in 0..63 /\ s \in 0..63 /\ r \div 4 = y % 16 /\ y % 16 \in 0..15
  BY <1>2
<1>5. /\ (p * 4) % 256 = p * 4 /\ (q * 16) % 256 = 16 * (y \div 16)
      /\ (r * 64) % 256 = 64 * (z \div 64)
  BY <1>1, <1>2
<1>6. Detect!Joined(p, 4, q \div 16) = x
  BY <1>1, <1>3, <1>5 DEF Detect!Joined
<1>7. Detect!Joined(q, 16, r \div 4) = y
  BY <1>4, <1>5 DEF Detect!Joined
<1>8. Detect!Joined(r, 64, s) = z
  BY <1>2, <1>4, <1>5 DEF Detect!Joined
<1> QED
  BY <1>3, <1>4, <1>6, <1>7, <1>8 DEF Given

(* src has the characters of x, y and z behind its k-th.                      *)
Holds(src, k, x, y, z) == Three(x, y, z, src[k + 1], src[k + 2], src[k + 3], src[k + 4])

(* They are all there, and decoding them gives the bytes.                     *)
Whole(src, k, x, y, z) ==
    /\ Detect!Quantum(src, k) = <<x, y, z>>
    /\ Detect!LastQuantum(src, k) = <<x, y, z>>
    /\ src[k + 3] # Detect!Pad /\ src[k + 4] # Detect!Pad

LEMMA Concats ==
    ASSUME NEW x, NEW y, NEW z
    PROVE  /\ <<x>> \o <<>> \o <<>> = <<x>>
           /\ <<x>> \o <<y>> \o <<>> = <<x, y>>
           /\ <<x>> \o <<>> \o <<y>> = <<x, y>>
           /\ <<x>> \o <<y>> \o <<z>> = <<x, y, z>>
<1> DEFINE S == {x, y, z}
<1>1. <<x>> \in Seq(S) /\ <<y>> \in Seq(S) /\ <<z>> \in Seq(S) /\ <<x, y>> \in Seq(S)
  OBVIOUS
<1>2. <<x>> \o <<>> = <<x>> /\ <<x, y>> \o <<>> = <<x, y>>
  BY <1>1, ConcatEmptySeq
<1>3. <<x>> \o <<y>> = <<x, y>>
  <2> DEFINE s == <<x>> \o <<y>>
             t == <<x, y>>
  <2>1. s \in Seq(S) /\ Len(s) = 2 /\ s[1] = x /\ s[2] = y
    BY <1>1, ConcatProperties
  <2>2. t \in Seq(S) /\ Len(t) = 2 /\ t[1] = x /\ t[2] = y
    BY <1>1
  <2>3. \A k \in 1..Len(s) : s[k] = t[k]
    BY <2>1, <2>2
  <2> HIDE DEF s, t
  <2>4. s = t
    BY <2>1, <2>2, <2>3, SeqEqual
  <2> QED
    BY <2>4 DEF s, t
<1>4. <<x, y>> \o <<z>> = <<x, y, z>>
  <2> DEFINE s == <<x, y>> \o <<z>>
             t == <<x, y, z>>
  <2>1. s \in Seq(S) /\ Len(s) = 3 /\ s[1] = x /\ s[2] = y /\ s[3] = z
    BY <1>1, ConcatProperties
  <2>2. t \in Seq(S) /\ Len(t) = 3 /\ t[1] = x /\ t[2] = y /\ t[3] = z
    OBVIOUS
  <2>3. \A k \in 1..Len(s) : s[k] = t[k]
    BY <2>1, <2>2
  <2> HIDE DEF s, t
  <2>4. s = t
    BY <2>1, <2>2, <2>3, SeqEqual
  <2> QED
    BY <2>4 DEF s, t
<1> QED
  BY <1>2, <1>3, <1>4

LEMMA MapIs == \A c \in 0..63 : Detect!base64_decode_map(c) = c /\ c # Detect!Pad
BY DEF Detect!base64_decode_map, Detect!Pad

LEMMA QuantumIs ==
    ASSUME NEW k \in Nat, NEW src, NEW x \in Octet, NEW y \in Octet, NEW z \in Octet,
           Holds(src, k, x, y, z)
    PROVE  Whole(src, k, x, y, z)
<1>1. Given(x, y, z, src[k + 1], src[k + 2], src[k + 3], src[k + 4])
  BY ThreeGiven DEF Holds
<1>2. src[k + 3] # Detect!Pad /\ src[k + 4] # Detect!Pad
  BY <1>1, MapIs DEF Given
<1>3. Detect!Quantum(src, k) = <<x, y, z>>
  BY <1>1, MapIs DEF Detect!Quantum, Given
<1>4. Detect!LastQuantum(src, k) = <<x>> \o <<y>> \o <<z>>
  BY <1>2, <1>3 DEF Detect!LastQuantum
<1>5. <<x>> \o <<y>> \o <<z>> = <<x, y, z>>
  BY Concats
<1> QED
  BY <1>2, <1>3, <1>4, <1>5 DEF Whole

LEMMA Zero == 0 \in Octet
BY DEF Octet

(* What the last characters give: a byte, and one more for either of the last *)
(* two that is no padding.                                                    *)
Shape(s, q, third, fourth) ==
    s = IF third = Detect!Pad
        THEN IF fourth = Detect!Pad THEN <<q[1]>> ELSE <<q[1], q[3]>>
        ELSE IF fourth = Detect!Pad THEN <<q[1], q[2]>> ELSE <<q[1], q[2], q[3]>>

LEMMA LastShape ==
    ASSUME NEW src, NEW k
    PROVE  Shape(Detect!LastQuantum(src, k), Detect!Quantum(src, k), src[k + 3], src[k + 4])
<1> DEFINE q == Detect!Quantum(src, k)
           second == IF src[k + 3] # Detect!Pad THEN <<q[2]>> ELSE <<>>
           third  == IF src[k + 4] # Detect!Pad THEN <<q[3]>> ELSE <<>>
<1>1. Detect!LastQuantum(src, k) = <<q[1]>> \o second \o third
  BY DEF Detect!LastQuantum
<1> HIDE DEF q
<1>2. \A x, y : /\ <<x>> \o <<>> \o <<>> = <<x>> /\ <<x>> \o <<y>> \o <<>> = <<x, y>>
                /\ <<x>> \o <<>> \o <<y>> = <<x, y>>
  BY Concats
<1>3. \A x, y, z : <<x>> \o <<y>> \o <<z>> = <<x, y, z>>
  BY Concats
<1> QED
  BY <1>1, <1>2, <1>3, Zenon DEF Shape, q

(* Between one byte and three come of them.                                   *)
Lengths(s, q, third, fourth) ==
    /\ Len(s) \in 1..3 /\ s[1] = q[1]
    /\ third # Detect!Pad => Len(s) >= 2 /\ s[2] = q[2]
    /\ third = Detect!Pad \/ fourth = Detect!Pad => Len(s) <= 2
    /\ third = Detect!Pad /\ fourth = Detect!Pad => Len(s) = 1

LEMMA ShapeLen ==
    ASSUME NEW s, NEW q, NEW third, NEW fourth, Shape(s, q, third, fourth)
    PROVE  Lengths(s, q, third, fourth)
BY DEF Shape, Lengths

(* src has the characters of x and y, and they give them back.                *)
Two(src, k, x, y) ==
    /\ Detect!Quantum(src, k)[1] = x /\ Detect!Quantum(src, k)[2] = y
    /\ src[k + 3] # Detect!Pad

(* What the last characters give of two bytes, and of one, whatever is in the *)
(* place of the missing padding.                                              *)
LEMMA LastOfTwo ==
    ASSUME NEW k \in Nat, NEW src, NEW x \in Octet, NEW y \in Octet,
           Three(x, y, 0, src[k + 1], src[k + 2], src[k + 3], 0)
    PROVE  Two(src, k, x, y)
<1> DEFINE q == Detect!Quantum(src, k)
<1>1. \A p, q2, r, s : Three(x, y, 0, p, q2, r, s) => Given(x, y, 0, p, q2, r, s)
  BY Zero, ThreeGiven, Zenon
<1>2. Given(x, y, 0, src[k + 1], src[k + 2], src[k + 3], 0)
  BY <1>1
<1>3. q[1] = x /\ q[2] = y
  BY <1>2, MapIs DEF Detect!Quantum, Given
<1>4. src[k + 3] # Detect!Pad
  BY <1>2, MapIs DEF Given
<1> QED
  BY <1>3, <1>4 DEF Two

LEMMA LastOfOne ==
    ASSUME NEW k \in Nat, NEW src, NEW x \in Octet,
           Three(x, 0, 0, src[k + 1], src[k + 2], 0, 0)
    PROVE  Detect!Quantum(src, k)[1] = x
<1>1. \A p, q2, r, s : Three(x, 0, 0, p, q2, r, s) => Given(x, 0, 0, p, q2, r, s)
  BY Zero, ThreeGiven, Zenon
<1>2. Given(x, 0, 0, src[k + 1], src[k + 2], 0, 0)
  BY <1>1
<1> QED
  BY <1>2, MapIs DEF Detect!Quantum, Given

(* The k-th character of b, in fours that stand for x, y and z.               *)
Sextets(b, k, x, y, z) ==
    /\ k % 4 = 1 => Detect!Sextet(b, k) = x \div 4
    /\ k % 4 = 2 => Detect!Sextet(b, k) = 16 * (x % 4) + y \div 16
    /\ k % 4 = 3 => Detect!Sextet(b, k) = 4 * (y % 16) + z \div 64
    /\ k % 4 = 0 => Detect!Sextet(b, k) = z % 64

LEMMA InFours ==
    ASSUME NEW g \in Nat, NEW k \in Nat, k = 4 * g, NEW m \in Nat
    PROVE  /\ m = k + 1 => m % 4 = 1 /\ (m - 1) \div 4 = g
           /\ m = k + 2 => m % 4 = 2 /\ (m - 1) \div 4 = g
           /\ m = k + 3 => m % 4 = 3 /\ (m - 1) \div 4 = g
           /\ m = k + 4 => m % 4 = 0 /\ (m - 1) \div 4 = g
OBVIOUS

LEMMA SextetIs ==
    ASSUME NEW b, NEW k \in Nat, NEW g \in Nat, (k - 1) \div 4 = g
    PROVE  Sextets(b, k, Detect!Byte(b, 3 * g + 1), Detect!Byte(b, 3 * g + 2),
                   Detect!Byte(b, 3 * g + 3))
<1> DEFINE x == Detect!Byte(b, 3 * g + 1)
           y == Detect!Byte(b, 3 * g + 2)
           z == Detect!Byte(b, 3 * g + 3)
<1>1. k % 4 = 1 => Detect!Sextet(b, k) = x \div 4
  BY DEF Detect!Sextet
<1>2. k % 4 = 2 => Detect!Sextet(b, k) = 16 * (x % 4) + y \div 16
  BY DEF Detect!Sextet
<1>3. k % 4 = 3 => Detect!Sextet(b, k) = 4 * (y % 16) + z \div 64
  BY DEF Detect!Sextet
<1>4. k % 4 = 0 => Detect!Sextet(b, k) = z % 64
  BY DEF Detect!Sextet
<1> QED
  BY <1>1, <1>2, <1>3, <1>4 DEF Sextets

Fits(b) == b \in Seq(Octet) /\ Len(b) \in 0..MaxString

(* The first n characters of src are those of the text of b, the first n      *)
(* bytes of d those of b.                                                     *)
Cleaned(src, b, n) == \A m \in 1..n : src[m] = Detect!Encoded(b)[m]
Decoded(d, b, n)   == \A m \in 1..n : d[m] = b[m]

(* How much of the text of b there has to be: all but padding.                *)
Enough(b, n) == n \in Detect!Chars(b)..Detect!TextLen(b)

(* The four characters behind the k-th are those of the bytes behind the      *)
(* 3g-th, of three or, at the end of the text, of fewer, and padding as far   *)
(* as the text's n characters have it.                                        *)
FourAt(src, b, n, g, k) ==
    /\ Detect!TextLen(b) \in Nat /\ k + 4 <= Detect!TextLen(b)
    /\ k + 4 = Detect!TextLen(b) <=> Len(b) <= 3 * g + 3
    /\ Len(b) >= 3 * g + 3 => Holds(src, k, b[3 * g + 1], b[3 * g + 2], b[3 * g + 3])
    /\ Len(b) = 3 * g + 2 =>
         /\ Three(b[3 * g + 1], b[3 * g + 2], 0, src[k + 1], src[k + 2], src[k + 3], 0)
         /\ n >= k + 4 => src[k + 4] = Detect!Pad
         /\ n >= k + 3
    /\ Len(b) = 3 * g + 1 =>
         /\ Three(b[3 * g + 1], 0, 0, src[k + 1], src[k + 2], 0, 0)
         /\ n >= k + 3 => src[k + 3] = Detect!Pad
         /\ n >= k + 4 => src[k + 4] = Detect!Pad
         /\ n >= k + 2

LEMMA TextIs ==
    ASSUME NEW b \in Seq(Octet), NEW g \in Nat, 3 * g < Len(b), NEW k \in Nat, k = 4 * g,
           NEW src, NEW len \in Nat, Enough(b, len), Cleaned(src, b, len)
    PROVE  FourAt(src, b, len, g, k)
<1> DEFINE n == Len(b)
           x == Detect!Byte(b, 3 * g + 1)
           y == Detect!Byte(b, 3 * g + 2)
           z == Detect!Byte(b, 3 * g + 3)
           last == Detect!Chars(b)
           size == Detect!TextLen(b)
<1>1. n \in Nat
  OBVIOUS
<1>2. size = 4 * ((n + 2) \div 3)
  BY DEF Detect!TextLen
<1>3. x = b[3 * g + 1] /\ y = (IF 3 * g + 2 <= n THEN b[3 * g + 2] ELSE 0)
      /\ z = (IF 3 * g + 3 <= n THEN b[3 * g + 3] ELSE 0)
  BY DEF Detect!Byte
<1>4. \A m \in Nat :
        /\ m = k + 1 => Detect!Sextet(b, m) = x \div 4
        /\ m = k + 2 => Detect!Sextet(b, m) = 16 * (x % 4) + y \div 16
        /\ m = k + 3 => Detect!Sextet(b, m) = 4 * (y % 16) + z \div 64
        /\ m = k + 4 => Detect!Sextet(b, m) = z % 64
  <2> SUFFICES ASSUME NEW m \in Nat, m \in (k + 1)..(k + 4)
               PROVE  /\ m = k + 1 => Detect!Sextet(b, m) = x \div 4
                      /\ m = k + 2 => Detect!Sextet(b, m) = 16 * (x % 4) + y \div 16
                      /\ m = k + 3 => Detect!Sextet(b, m) = 4 * (y % 16) + z \div 64
                      /\ m = k + 4 => Detect!Sextet(b, m) = z % 64
    OBVIOUS
  <2> HIDE DEF x, y, z, n, last, size
  <2>1. /\ m = k + 1 => m % 4 = 1 /\ (m - 1) \div 4 = g
        /\ m = k + 2 => m % 4 = 2 /\ (m - 1) \div 4 = g
        /\ m = k + 3 => m % 4 = 3 /\ (m - 1) \div 4 = g
        /\ m = k + 4 => m % 4 = 0 /\ (m - 1) \div 4 = g
    BY InFours
  <2>2. (m - 1) \div 4 = g
    BY <2>1
  <2>3. Sextets(b, m, x, y, z)
    BY <2>2, SextetIs DEF x, y, z
  <2> QED
    BY <2>1, <2>3 DEF Sextets
<1>5. /\ last = (4 * n + 2) \div 3 /\ len \in last..size
      /\ \A m \in 1..size : Detect!Encoded(b)[m] = IF m <= last THEN Detect!Sextet(b, m)
                                                   ELSE Detect!Pad
  BY DEF Detect!Encoded, Detect!Chars, Enough
<1> HIDE DEF x, y, z, last, size, n
<1>6. size \in Nat /\ k + 4 <= size /\ (k + 4 = size <=> n <= 3 * g + 3)
  BY <1>1, <1>2 DEF n
<1>7. last \in Nat /\ last >= k + 2 /\ (last >= k + 3 <=> n >= 3 * g + 2)
      /\ (last >= k + 4 <=> n >= 3 * g + 3)
  BY <1>1, <1>5 DEF n
<1>8. /\ src[k + 1] = x \div 4
      /\ src[k + 2] = 16 * (x % 4) + y \div 16
      /\ len >= k + 3 => src[k + 3] = IF n >= 3 * g + 2 THEN 4 * (y % 16) + z \div 64
                                      ELSE Detect!Pad
      /\ len >= k + 4 => src[k + 4] = IF n >= 3 * g + 3 THEN z % 64 ELSE Detect!Pad
  <2>1. \A m \in 1..len : src[m] = IF m <= last THEN Detect!Sextet(b, m) ELSE Detect!Pad
    <3>1. \A m \in 1..len : src[m] = Detect!Encoded(b)[m]
      BY DEF Cleaned
    <3>2. \A m \in 1..len : m \in 1..size
      BY <1>5, <1>6, <1>7
    <3> QED
      BY <1>5, <3>1, <3>2, Zenon
  <2>2. /\ k + 1 \in 1..len /\ k + 2 \in 1..len
        /\ len >= k + 3 => k + 3 \in 1..len
        /\ len >= k + 4 => k + 4 \in 1..len
    BY <1>5, <1>6, <1>7
  <2> QED
    BY <2>1, <2>2, <1>4, <1>7
<1>9. /\ n >= 3 * g + 3 => len >= k + 4
      /\ n >= 3 * g + 2 => len >= k + 3
      /\ len >= k + 2
  BY <1>5, <1>6, <1>7
<1> HIDE DEF Holds, Three
<1>10. n >= 3 * g + 3 => Holds(src, k, b[3 * g + 1], b[3 * g + 2], b[3 * g + 3])
  BY <1>1, <1>3, <1>8, <1>9 DEF Holds, Three
<1>11. n = 3 * g + 2 =>
                /\ Three(b[3 * g + 1], b[3 * g + 2], 0, src[k + 1], src[k + 2], src[k + 3], 0)
                /\ len >= k + 4 => src[k + 4] = Detect!Pad
                /\ len >= k + 3
  BY <1>1, <1>3, <1>8, <1>9 DEF Three
<1>12. n = 3 * g + 1 =>
                /\ Three(b[3 * g + 1], 0, 0, src[k + 1], src[k + 2], 0, 0)
                /\ len >= k + 3 => src[k + 3] = Detect!Pad
                /\ len >= k + 4 => src[k + 4] = Detect!Pad
                /\ len >= k + 2
  BY <1>1, <1>3, <1>8, <1>9 DEF Three
<1> QED
  BY <1>6, <1>10, <1>11, <1>12 DEF n, size, FourAt

(* Whatever the buffers had before, the loops have put the text's characters  *)
(* and then its bytes in their place as far as they have come.                *)
CleanOK ==
    stage = "clean" =>
      /\ Fits(wanted) /\ given \in 0..Detect!TextLen(wanted)
      /\ Cleaned(b64_det_str_no_trash, wanted, given)

DecodeOK ==
    stage = "decode" =>
      /\ Fits(wanted) /\ Enough(wanted, b64_det_str_no_trash_len)
      /\ Cleaned(b64_det_str_no_trash, wanted, b64_det_str_no_trash_len)
      /\ \E g \in Nat : /\ 3 * g < Len(wanted) \/ (g = 0 /\ Len(wanted) = 0)
                        /\ taken = 4 * g /\ given = 3 * g
                        /\ Decoded(detect_string, wanted, 3 * g)

(* There are between as many bytes as b has and all that may be too many.     *)
Sent(b, len, n) ==
    /\ n \in Nat /\ Len(b) <= n
    /\ IF Len(b) = 0 THEN n <= 3 ELSE n <= Len(b) + (Detect!TextLen(b) - len)

SentOK ==
    stage = "none" =>
      /\ b64_det_str_no_trash_len \in Nat
      /\ Sent(wanted, b64_det_str_no_trash_len, detect_strLen)
      /\ Decoded(detect_string, wanted, Len(wanted))

StringInv ==
    /\ stage \in {"none", "clean", "decode"} /\ wanted \in Seq(Octet)
    /\ DOMAIN b64_det_str_no_trash = 1..Detect!Size /\ DOMAIN detect_string = 1..Detect!Size
    /\ CleanOK /\ DecodeOK /\ SentOK

LEMMA SizeIs ==
    ASSUME NEW b, Fits(b)
    PROVE  /\ Detect!TextLen(b) \in Nat /\ Detect!TextLen(b) <= Detect!Size
           /\ Detect!Chars(b) \in Nat /\ Detect!Chars(b) <= Detect!TextLen(b)
           /\ Len(b) \in Nat /\ Len(b) <= Detect!Size /\ Detect!Size \in Nat
BY DetectAssumption DEF Fits, Detect!TextLen, Detect!Chars, Detect!Size

LEMMA InitString == Detect!Init => StringInv
<1> SUFFICES ASSUME Detect!Init PROVE StringInv
  OBVIOUS
<1>1. /\ wanted = <<>> /\ stage = "none" /\ detect_strLen = 0
      /\ b64_det_str_no_trash_len = 0
      /\ b64_det_str_no_trash = [k \in 1..Detect!Size |-> Detect!Trash]
      /\ detect_string = [k \in 1..Detect!Size |-> 0]
  BY DEF Detect!Init
<1>2. wanted \in Seq(Octet) /\ Len(wanted) = 0
  BY <1>1
<1>3. SentOK
  BY <1>1, <1>2 DEF SentOK, Sent, Decoded
<1> QED
  BY <1>1, <1>2, <1>3 DEF StringInv, CleanOK, DecodeOK

LEMMA LoadString == StringInv /\ Detect!LoadDetectString => StringInv'
<1> SUFFICES ASSUME StringInv, Detect!LoadDetectString PROVE StringInv'
  OBVIOUS
<1>1. /\ stage' = "clean" /\ given' = 0 /\ wanted' \in Detect!Strings
      /\ UNCHANGED <<b64_det_str_no_trash, detect_string>>
  BY DEF Detect!LoadDetectString, Detect!Enters, Detect!cleaned, Detect!decoded
<1>2. PICK n \in MinLen..MaxString : wanted' \in [1..n -> Bytes]
  BY <1>1 DEF Detect!Strings
<1>3. n \in 0..MaxString
  BY DetectAssumption
<1>4. wanted' \in Seq(Octet) /\ Len(wanted') = n
  <2>1. Bytes \subseteq Octet /\ n \in Nat
    BY <1>3, DetectAssumption DEF Octet
  <2>2. wanted' \in [1..n -> Octet] /\ n \in Nat
    BY <1>2, <2>1
  <2>3. DOMAIN wanted' = 1..n
    BY <2>2
  <2> QED
    BY <2>2, <2>3
<1>5. Fits(wanted)'
  BY <1>3, <1>4 DEF Fits
<1>6. Detect!TextLen(wanted') \in Nat
  BY <1>4, <1>3, DetectAssumption DEF Detect!TextLen
<1>7. CleanOK'
  BY <1>1, <1>5, <1>6 DEF CleanOK, Cleaned
<1> QED
  BY <1>1, <1>4, <1>7 DEF StringInv, DecodeOK, SentOK

LEMMA ClearString == StringInv /\ Detect!ClearB64Trash => StringInv'
<1> SUFFICES ASSUME StringInv, Detect!ClearB64Trash PROVE StringInv'
  OBVIOUS
<1> DEFINE src == b64_det_str_no_trash
           len == Detect!TextLen(wanted)
<1>1. stage = "clean" /\ UNCHANGED <<wanted, stage, detect_string>>
  BY DEF Detect!ClearB64Trash, Detect!decoded
<1>2. PICK c \in Detect!NextChars :
        IF Detect!IsLegalChar(c)
          THEN src' = Detect!Over(src, given, <<c>>) /\ given' = given + 1
          ELSE UNCHANGED <<src, given>>
  BY DEF Detect!ClearB64Trash
<1>3. /\ Fits(wanted) /\ given \in 0..len /\ Cleaned(src, wanted, given)
      /\ DOMAIN src = 1..Detect!Size /\ len \in Nat /\ len <= Detect!Size /\ Detect!Size \in Nat
  BY <1>1, SizeIs DEF StringInv, CleanOK
<1>4. /\ given' \in 0..len /\ Cleaned(src, wanted, given)'
      /\ DOMAIN src' = 1..Detect!Size
  <2>1. CASE ~Detect!IsLegalChar(c)
    BY <1>1, <1>2, <1>3, <2>1 DEF Cleaned
  <2>2. CASE Detect!IsLegalChar(c)
    <3>1. given < len /\ c = Detect!Encoded(wanted)[given + 1]
      BY <1>2, <2>2 DEF Detect!NextChars, Detect!IsLegalChar
    <3>2. src' = Detect!Over(src, given, <<c>>) /\ given' = given + 1
      BY <1>2, <2>2
    <3>3. DOMAIN src' = 1..Detect!Size
      BY <1>3, <3>2 DEF Detect!Over
    <3>4. \A m \in 1..Detect!Size : src'[m] = IF m = given + 1 THEN c ELSE src[m]
      <4>1. Len(<<c>>) = 1 /\ <<c>>[1] = c
        OBVIOUS
      <4> SUFFICES ASSUME NEW m \in 1..Detect!Size
                   PROVE  src'[m] = IF m = given + 1 THEN c ELSE src[m]
        OBVIOUS
      <4>2. src'[m] = IF m > given /\ m <= given + Len(<<c>>) THEN <<c>>[m - given] ELSE src[m]
        BY <1>3, <3>2 DEF Detect!Over
      <4>3. CASE m = given + 1
        BY <1>3, <4>1, <4>2, <4>3
      <4>4. CASE m # given + 1
        BY <1>3, <4>1, <4>2, <4>4
      <4> QED
        BY <4>3, <4>4
    <3>5. Cleaned(src', wanted, given')
      <4> SUFFICES ASSUME NEW m \in 1..given' PROVE src'[m] = Detect!Encoded(wanted)[m]
        BY DEF Cleaned
      <4>1. m \in 1..Detect!Size /\ (m = given + 1 \/ m \in 1..given)
        BY <1>3, <3>1, <3>2
      <4> QED
        BY <1>3, <3>1, <3>4, <4>1 DEF Cleaned
    <3> QED
      BY <1>1, <1>3, <3>1, <3>2, <3>3, <3>5
  <2> QED
    BY <2>1, <2>2
<1>5. CleanOK'
  BY <1>1, <1>3, <1>4 DEF CleanOK
<1> QED
  BY <1>1, <1>4, <1>5 DEF StringInv, DecodeOK, SentOK

LEMMA ClearedString == StringInv /\ Detect!TrashCleared => StringInv'
<1> SUFFICES ASSUME StringInv, Detect!TrashCleared PROVE StringInv'
  OBVIOUS
<1>1. /\ stage = "clean" /\ given >= Detect!Chars(wanted)
      /\ b64_det_str_no_trash_len' = given
      /\ stage' = "decode" /\ taken' = 0 /\ given' = 0
      /\ UNCHANGED <<wanted, b64_det_str_no_trash, detect_string>>
  BY DEF Detect!TrashCleared, Detect!Enters, Detect!decoded
<1>2. /\ Fits(wanted) /\ given \in 0..Detect!TextLen(wanted)
      /\ Cleaned(b64_det_str_no_trash, wanted, given)
  BY <1>1 DEF StringInv, CleanOK
<1>3. /\ Detect!Chars(wanted) \in Nat /\ Detect!TextLen(wanted) \in Nat
      /\ Len(wanted) \in Nat
  BY <1>2, SizeIs
<1>4. Enough(wanted, given)
  BY <1>1, <1>2, <1>3 DEF Enough
<1>5. /\ 3 * 0 < Len(wanted) \/ (0 = 0 /\ Len(wanted) = 0)
      /\ taken' = 4 * 0 /\ given' = 3 * 0 /\ Decoded(detect_string', wanted, 3 * 0)
  BY <1>1, <1>3 DEF Decoded
<1>6. DecodeOK'
  BY <1>1, <1>2, <1>4, <1>5 DEF DecodeOK
<1> QED
  BY <1>1, <1>6 DEF StringInv, CleanOK, SentOK

(* Writing behind the first n bytes leaves those alone; if c of what is       *)
(* written are the bytes that follow, those are there too.                    *)
LEMMA DecodedMore ==
    ASSUME NEW d, NEW n \in Nat, NEW s, Len(s) \in Nat, NEW size \in Nat,
           DOMAIN d = 1..size, NEW b, NEW c \in Nat, c <= Len(s), n + c <= size,
           Decoded(d, b, n), \A m \in 1..c : s[m] = b[n + m]
    PROVE  /\ DOMAIN Detect!Over(d, n, s) = 1..size
           /\ Decoded(Detect!Over(d, n, s), b, n + c)
<1>1. DOMAIN Detect!Over(d, n, s) = 1..size
  BY DEF Detect!Over
<1>2. ASSUME NEW m \in 1..(n + c) PROVE Detect!Over(d, n, s)[m] = b[m]
  <2>1. Detect!Over(d, n, s)[m] = IF m > n /\ m <= n + Len(s) THEN s[m - n] ELSE d[m]
    BY DEF Detect!Over
  <2>2. CASE m > n
    <3>1. m - n \in 1..c /\ n + (m - n) = m
      BY <2>2
    <3>2. s[m - n] = b[m]
      BY <3>1
    <3> QED
      BY <2>1, <2>2, <3>2
  <2>3. CASE m <= n
    BY <2>1, <2>3 DEF Decoded
  <2> QED
    BY <2>2, <2>3
<1> QED
  BY <1>1, <1>2 DEF Decoded

LEMMA ByteIs ==
    ASSUME NEW b \in Seq(Octet), NEW m \in 1..Len(b)
    PROVE  b[m] \in Octet
BY ElementOfSeq

LEMMA HoldsGives ==
    ASSUME NEW b \in Seq(Octet), NEW src, NEW k \in Nat, NEW p, NEW q, NEW r,
           p \in 1..Len(b), q \in 1..Len(b), r \in 1..Len(b),
           Holds(src, k, b[p], b[q], b[r])
    PROVE  Whole(src, k, b[p], b[q], b[r])
<1>1. b[p] \in Octet /\ b[q] \in Octet /\ b[r] \in Octet
  BY ByteIs
<1> QED
  BY <1>1, QuantumIs, Zenon

LEMMA UpToThree == \A m \in 1..3 : m = 1 \/ m = 2 \/ m = 3
OBVIOUS

LEMMA SmallLen ==
    /\ 1 \in 1..3 /\ 2 \in 1..3 /\ 3 \in 1..3 /\ 3 <= 3
    /\ \A n \in 1..3 : 1 <= n
    /\ \A n \in 2..3 : n \in 1..3 /\ 2 <= n
OBVIOUS

(* One turn of the loop decodes three bytes more.                             *)
LEMMA GroupDecoded ==
    ASSUME NEW b \in Seq(Octet), NEW src, NEW len \in Nat, Enough(b, len),
           Cleaned(src, b, len),
           NEW g \in Nat, 3 * g < Len(b), NEW k \in Nat, k = 4 * g, NEW n \in Nat, n = 3 * g,
           k < len - 4, NEW s, s = Detect!Quantum(src, k)
    PROVE  /\ n + 3 < Len(b) /\ Len(s) = 3
           /\ \A m \in 1..Len(s) : s[m] = b[n + m]
<1>1. FourAt(src, b, len, g, k)
  BY TextIs
<1>2. Len(b) > n + 3 /\ Holds(src, k, b[n + 1], b[n + 2], b[n + 3])
  <2>1. /\ Detect!TextLen(b) \in Nat /\ len <= Detect!TextLen(b)
        /\ k + 4 = Detect!TextLen(b) <=> Len(b) <= n + 3
        /\ Len(b) >= n + 3 => Holds(src, k, b[n + 1], b[n + 2], b[n + 3])
    BY <1>1 DEF FourAt, Enough
  <2> QED
    BY <2>1
<1>3. n + 1 \in 1..Len(b) /\ n + 2 \in 1..Len(b) /\ n + 3 \in 1..Len(b)
  BY <1>2
<1>4. Whole(src, k, b[n + 1], b[n + 2], b[n + 3])
  BY <1>2, <1>3, HoldsGives, Zenon
<1>5. s = <<b[n + 1], b[n + 2], b[n + 3]>>
  BY <1>4 DEF Whole
<1>6. Len(s) = 3 /\ s[1] = b[n + 1] /\ s[2] = b[n + 2] /\ s[3] = b[n + 3]
  BY <1>5
<1>7. \A m \in 1..3 : s[m] = b[n + m]
  BY <1>6, UpToThree, Zenon
<1> QED
  BY <1>2, <1>6, <1>7

(* s brings the c bytes of b behind the n-th, and more at most for padding    *)
(* that the text's len characters lack.                                       *)
Brings(s, b, len, n, c) ==
    /\ Len(s) \in 1..3 /\ c \in 1..3 /\ c <= Len(s) /\ Len(b) = n + c
    /\ Len(s) <= c + (Detect!TextLen(b) - len)
    /\ \A m \in 1..c : s[m] = b[n + m]

(* What is behind the loop decodes the rest.                                  *)
LEMMA RestDecoded ==
    ASSUME NEW b \in Seq(Octet), NEW src, NEW len \in Nat, Enough(b, len),
           Cleaned(src, b, len),
           NEW g \in Nat, 3 * g < Len(b), NEW k \in Nat, k = 4 * g, NEW n \in Nat, n = 3 * g,
           k >= len - 4, NEW s, s = Detect!LastQuantum(src, k)
    PROVE  \E c \in 1..3 : Brings(s, b, len, n, c)
<1> DEFINE q == Detect!Quantum(src, k)
<1>1. FourAt(src, b, len, g, k)
  BY TextIs
<1>2. /\ k + 4 = Detect!TextLen(b) /\ len <= k + 4
      /\ Len(b) = n + 1 \/ Len(b) = n + 2 \/ Len(b) = n + 3
  <2>1. /\ Detect!TextLen(b) \in Nat /\ k + 4 <= Detect!TextLen(b)
        /\ k + 4 = Detect!TextLen(b) <=> Len(b) <= n + 3
        /\ len >= Detect!Chars(b) /\ len <= Detect!TextLen(b)
    BY <1>1 DEF FourAt, Enough
  <2>2. Len(b) \in Nat
    OBVIOUS
  <2>3. PICK h \in Nat : Detect!TextLen(b) = 4 * h /\ Detect!Chars(b) >= 4 * h - 2
    <3>1. /\ (Len(b) + 2) \div 3 \in Nat
          /\ (4 * Len(b) + 2) \div 3 >= 4 * ((Len(b) + 2) \div 3) - 2
      BY <2>2
    <3> QED
      BY <3>1 DEF Detect!TextLen, Detect!Chars
  <2>4. Detect!Chars(b) \in Int
    BY <2>2 DEF Detect!Chars
  <2>5. k + 4 = Detect!TextLen(b)
    BY <2>1, <2>3, <2>4
  <2> QED
    BY <2>1, <2>2, <2>5
<1>3. Shape(s, q, src[k + 3], src[k + 4])
  BY LastShape
<1>4. Lengths(s, q, src[k + 3], src[k + 4])
  BY <1>3, ShapeLen
<1>5. PICK l \in 1..3 : l = Len(s)
  BY <1>4 DEF Lengths
<1>6. k + 4 = Detect!TextLen(b) /\ len <= k + 4
  BY <1>2
<1>7. /\ src[k + 3] = Detect!Pad \/ src[k + 4] = Detect!Pad => l <= 2
      /\ src[k + 3] = Detect!Pad /\ src[k + 4] = Detect!Pad => l = 1
  BY <1>4, <1>5, Zenon DEF Lengths
<1>8. CASE Len(b) = n + 3
  <2>1. Holds(src, k, b[n + 1], b[n + 2], b[n + 3])
    BY <1>1, <1>8 DEF FourAt
  <2>2. n + 1 \in 1..Len(b) /\ n + 2 \in 1..Len(b) /\ n + 3 \in 1..Len(b)
    BY <1>8
  <2>3. Whole(src, k, b[n + 1], b[n + 2], b[n + 3])
    BY <2>1, <2>2, HoldsGives, Zenon
  <2>4. s = <<b[n + 1], b[n + 2], b[n + 3]>>
    BY <2>3 DEF Whole
  <2>5. Len(s) = 3 /\ s[1] = b[n + 1] /\ s[2] = b[n + 2] /\ s[3] = b[n + 3]
    BY <2>4
  <2>6. \A m \in 1..3 : s[m] = b[n + m]
    BY <2>5, UpToThree, Zenon
  <2>7. Len(s) <= 3 + (Detect!TextLen(b) - len)
    <3>1. l <= 3 + (Detect!TextLen(b) - len)
      BY <1>6
    <3> QED
      BY <1>5, <3>1, Zenon
  <2>8. Brings(s, b, len, n, 3)
    <3>1. Len(s) \in 1..3 /\ 3 \in 1..3 /\ 3 <= Len(s)
      BY <2>5, SmallLen, Zenon
    <3> QED
      BY <1>8, <2>6, <2>7, <3>1, Zenon DEF Brings
  <2> QED
    BY <2>8
<1>9. CASE Len(b) = n + 2
  <2>1. /\ Three(b[n + 1], b[n + 2], 0, src[k + 1], src[k + 2], src[k + 3], 0)
        /\ len >= k + 4 => src[k + 4] = Detect!Pad
        /\ len >= k + 3
    BY <1>1, <1>9 DEF FourAt
  <2>2. n + 1 \in 1..Len(b) /\ n + 2 \in 1..Len(b)
    BY <1>9
  <2>3. b[n + 1] \in Octet /\ b[n + 2] \in Octet
    BY <2>2, ByteIs
  <2>4. q[1] = b[n + 1] /\ q[2] = b[n + 2] /\ src[k + 3] # Detect!Pad
    <3>1. Two(src, k, b[n + 1], b[n + 2])
      BY <2>1, <2>3, LastOfTwo, Zenon
    <3> QED
      BY <3>1 DEF Two
  <2> HIDE DEF q
  <2>5. Len(s) \in 2..3 /\ s[1] = b[n + 1] /\ s[2] = b[n + 2]
    BY <1>4, <2>4 DEF Lengths
  <2>6. \A m \in 1..2 : s[m] = b[n + m]
    BY <2>5
  <2>7. len >= k + 4 => l <= 2
    BY <1>7, <2>1
  <2>8. Len(s) <= 2 + (Detect!TextLen(b) - len)
    <3>1. l <= 2 + (Detect!TextLen(b) - len)
      BY <1>6, <2>1, <2>7
    <3> QED
      BY <1>5, <3>1, Zenon
  <2>9. Brings(s, b, len, n, 2)
    <3>1. Len(s) \in 1..3 /\ 2 \in 1..3 /\ 2 <= Len(s)
      BY <2>5, SmallLen, Zenon
    <3> QED
      BY <1>9, <2>6, <2>8, <3>1, Zenon DEF Brings
  <2> QED
    BY <2>9
<1>10. CASE Len(b) = n + 1
  <2>1. /\ Three(b[n + 1], 0, 0, src[k + 1], src[k + 2], 0, 0)
        /\ len >= k + 3 => src[k + 3] = Detect!Pad
        /\ len >= k + 4 => src[k + 4] = Detect!Pad
        /\ len >= k + 2
    BY <1>1, <1>10 DEF FourAt
  <2>2. n + 1 \in 1..Len(b)
    BY <1>10
  <2>3. b[n + 1] \in Octet
    BY <2>2, ByteIs
  <2>4. q[1] = b[n + 1]
    BY <2>1, <2>3, LastOfOne, Zenon
  <2> HIDE DEF q
  <2>5. Len(s) \in 1..3 /\ s[1] = b[n + 1]
    BY <1>4, <2>4 DEF Lengths
  <2>6. \A m \in 1..1 : s[m] = b[n + m]
    BY <2>5
  <2>7. /\ len >= k + 3 => l <= 2
        /\ len >= k + 4 => l = 1
    BY <1>7, <2>1
  <2>8. Len(s) <= 1 + (Detect!TextLen(b) - len)
    <3>1. l <= 1 + (Detect!TextLen(b) - len)
      BY <1>6, <2>1, <2>7
    <3> QED
      BY <1>5, <3>1, Zenon
  <2>9. Brings(s, b, len, n, 1)
    <3>1. Len(s) \in 1..3 /\ 1 \in 1..3 /\ 1 <= Len(s)
      BY <2>5, SmallLen, Zenon
    <3> QED
      BY <1>10, <2>6, <2>8, <3>1, Zenon DEF Brings
  <2> QED
    BY <2>9
<1> QED
  BY <1>2, <1>8, <1>9, <1>10

LEMMA DecodeString == StringInv /\ Detect!Base64Decode => StringInv'
<1> SUFFICES ASSUME StringInv, Detect!Base64Decode PROVE StringInv'
  OBVIOUS
<1> DEFINE len == b64_det_str_no_trash_len
<1>1. /\ stage = "decode" /\ taken < len - 4
      /\ taken' = taken + 4 /\ given' = given + 3
      /\ UNCHANGED <<wanted, stage, b64_det_str_no_trash, b64_det_str_no_trash_len>>
  BY DEF Detect!Base64Decode, Detect!cleaned
<1>2. PICK s : /\ s = Detect!Quantum(b64_det_str_no_trash, taken)
               /\ detect_string' = Detect!Over(detect_string, given, s)
  BY DEF Detect!Base64Decode
<1>3. /\ Fits(wanted) /\ Enough(wanted, len)
      /\ Cleaned(b64_det_str_no_trash, wanted, len)
      /\ DOMAIN detect_string = 1..Detect!Size
  BY <1>1 DEF StringInv, DecodeOK
<1>4. PICK g \in Nat : /\ 3 * g < Len(wanted) \/ (g = 0 /\ Len(wanted) = 0)
                       /\ taken = 4 * g /\ given = 3 * g
                       /\ Decoded(detect_string, wanted, 3 * g)
  BY <1>1 DEF StringInv, DecodeOK
<1>5. /\ wanted \in Seq(Octet) /\ Len(wanted) \in Nat
      /\ Len(wanted) <= Detect!Size /\ Detect!Size \in Nat
  BY <1>3, SizeIs DEF Fits
<1>6. len \in Nat /\ len <= Detect!TextLen(wanted) /\ Detect!TextLen(wanted) \in Nat
  BY <1>3, SizeIs DEF Enough
<1>7. taken \in Nat /\ given \in Nat /\ 3 * g < Len(wanted)
  <2>1. Len(wanted) = 0 => Detect!TextLen(wanted) = 0
    BY DEF Detect!TextLen
  <2> QED
    BY <1>1, <1>4, <1>5, <1>6, <2>1
<1>8. /\ given + 3 < Len(wanted) /\ Len(s) = 3
      /\ \A m \in 1..Len(s) : s[m] = wanted[given + m]
  BY <1>1, <1>2, <1>3, <1>4, <1>5, <1>6, <1>7, GroupDecoded
<1>9. /\ given + 3 <= Detect!Size /\ Len(s) \in Nat /\ 3 <= Len(s) /\ 3 \in Nat
      /\ Decoded(detect_string, wanted, given)
      /\ \A m \in 1..3 : s[m] = wanted[given + m]
  BY <1>4, <1>5, <1>7, <1>8
<1>10. /\ DOMAIN Detect!Over(detect_string, given, s) = 1..Detect!Size
       /\ Decoded(Detect!Over(detect_string, given, s), wanted, given + 3)
  BY <1>3, <1>5, <1>7, <1>9, DecodedMore, Zenon
<1>11. /\ DOMAIN detect_string' = 1..Detect!Size
       /\ Decoded(detect_string', wanted, given + 3)
  BY <1>2, <1>10
<1>12. PICK h \in Nat : /\ given + 3 = 3 * h /\ taken' = 4 * h /\ given' = 3 * h
                        /\ 3 * h < Len(wanted)
  <2>1. /\ given + 3 = 3 * (g + 1) /\ taken' = 4 * (g + 1) /\ given' = 3 * (g + 1)
        /\ 3 * (g + 1) < Len(wanted) /\ g + 1 \in Nat
    BY <1>1, <1>4, <1>8
  <2> QED
    BY <2>1
<1>13. DecodeOK'
  BY <1>1, <1>3, <1>11, <1>12 DEF DecodeOK
<1> QED
  BY <1>1, <1>11, <1>13 DEF StringInv, CleanOK, SentOK

LEMMA LastString == StringInv /\ Detect!DecodesLast => StringInv'
<1> SUFFICES ASSUME StringInv, Detect!DecodesLast PROVE StringInv'
  OBVIOUS
<1> DEFINE len == b64_det_str_no_trash_len
<1>1. /\ stage = "decode" /\ taken >= len - 4 /\ stage' = "none"
      /\ UNCHANGED <<wanted, b64_det_str_no_trash, b64_det_str_no_trash_len>>
  BY DEF Detect!DecodesLast, Detect!Enters, Detect!cleaned
<1>2. PICK s : /\ s = Detect!LastQuantum(b64_det_str_no_trash, taken)
               /\ detect_string' = Detect!Over(detect_string, given, s)
               /\ detect_strLen' = given + Len(s)
  BY DEF Detect!DecodesLast
<1>3. /\ Fits(wanted) /\ Enough(wanted, len)
      /\ Cleaned(b64_det_str_no_trash, wanted, len)
      /\ DOMAIN detect_string = 1..Detect!Size
  BY <1>1 DEF StringInv, DecodeOK
<1>4. PICK g \in Nat : /\ 3 * g < Len(wanted) \/ (g = 0 /\ Len(wanted) = 0)
                       /\ taken = 4 * g /\ given = 3 * g
                       /\ Decoded(detect_string, wanted, 3 * g)
  BY <1>1 DEF StringInv, DecodeOK
<1>5. /\ wanted \in Seq(Octet) /\ Len(wanted) \in Nat
      /\ Len(wanted) <= Detect!Size /\ Detect!Size \in Nat
  BY <1>3, SizeIs DEF Fits
<1>6. /\ len \in Nat /\ len <= Detect!TextLen(wanted) /\ Detect!TextLen(wanted) \in Nat
      /\ taken \in Nat /\ given \in Nat /\ Decoded(detect_string, wanted, given)
  BY <1>3, <1>4, SizeIs DEF Enough
<1>7. Len(s) \in 1..3
  <2>1. Shape(s, Detect!Quantum(b64_det_str_no_trash, taken),
              b64_det_str_no_trash[taken + 3], b64_det_str_no_trash[taken + 4])
    BY <1>2, LastShape
  <2> QED
    BY <2>1, ShapeLen DEF Lengths
<1>8. PICK c \in Nat : /\ c <= Len(s) /\ given + c = Len(wanted)
                       /\ \A m \in 1..c : s[m] = wanted[given + m]
                       /\ Sent(wanted, len, given + Len(s))
  <2>1. CASE Len(wanted) = 0
    <3>1. given = 0 /\ \A m \in 1..0 : s[m] = wanted[given + m]
      BY <1>4, <2>1
    <3>2. Sent(wanted, len, given + Len(s))
      <4>1. PICK l \in 1..3 : Len(s) = l
        BY <1>7
      <4>2. given + Len(s) = l
        BY <3>1, <4>1
      <4> QED
        BY <2>1, <4>2 DEF Sent
    <3>3. 0 \in Nat /\ 0 <= Len(s) /\ given + 0 = Len(wanted)
      BY <1>7, <2>1, <3>1
    <3> QED
      BY <3>1, <3>2, <3>3
  <2>2. CASE Len(wanted) # 0
    <3>1. 3 * g < Len(wanted)
      BY <1>4, <2>2
    <3>2. PICK c \in 1..3 : Brings(s, wanted, len, given, c)
      BY <1>1, <1>2, <1>3, <1>4, <1>5, <1>6, <3>1, RestDecoded
    <3>3. /\ c \in Nat /\ c <= Len(s) /\ given + c = Len(wanted)
          /\ \A m \in 1..c : s[m] = wanted[given + m]
          /\ Len(s) <= c + (Detect!TextLen(wanted) - len)
      BY <3>2 DEF Brings
    <3>4. Sent(wanted, len, given + Len(s))
      BY <1>5, <1>6, <1>7, <2>2, <3>3 DEF Sent
    <3> QED
      BY <3>3, <3>4
  <2> QED
    BY <2>1, <2>2
<1>9. /\ given + c <= Detect!Size /\ Len(s) \in Nat
  BY <1>5, <1>7, <1>8
<1>10. /\ DOMAIN Detect!Over(detect_string, given, s) = 1..Detect!Size
       /\ Decoded(Detect!Over(detect_string, given, s), wanted, given + c)
  BY <1>3, <1>5, <1>6, <1>8, <1>9, DecodedMore, Zenon
<1>11. /\ DOMAIN detect_string' = 1..Detect!Size
       /\ Decoded(detect_string', wanted, Len(wanted))
  BY <1>2, <1>8, <1>10
<1>12. SentOK'
  BY <1>1, <1>2, <1>6, <1>8, <1>11 DEF SentOK
<1> QED
  BY <1>1, <1>5, <1>11, <1>12 DEF StringInv, CleanOK, DecodeOK

LEMMA StringInvariant == Detect!Spec => []StringInv
<1>1. StringInv /\ UNCHANGED Detect!vars => StringInv'
  BY DEF Detect!vars, Detect!loop, Detect!cleaned, Detect!decoded,
         StringInv, CleanOK, DecodeOK, SentOK, Cleaned, Decoded
<1>2. StringInv /\ [Detect!Next]_Detect!vars => StringInv'
  BY <1>1, LoadString, ClearString, ClearedString, DecodeString, LastString DEF Detect!Next
<1> QED
  BY <1>2, InitString, PTL DEF Detect!Spec

(* What is sent begins with what the text stands for and has no more bytes    *)
(* behind it than the text lacks padding, for texts of any length, the empty  *)
(* one included, of any bytes, and whatever longer text was decoded before    *)
(* (LoadMonSrvConf, Base64Decode).                                            *)
THEOREM SendsWhatIsMeantHolds == Detect!Spec => []SendsWhatIsMeant
<1>1. StringInv => SendsWhatIsMeant
  <2> SUFFICES ASSUME StringInv, stage = "none"
               PROVE  /\ SubSeq(detect_string, 1, Len(wanted)) = wanted
                      /\ detect_strLen \in Len(wanted)..(Len(wanted) + Detect!Surplus)
    BY DEF SendsWhatIsMeant, Detect!SendsWhatIsMeant
  <2>1. /\ wanted \in Seq(Octet) /\ Len(wanted) \in Nat
        /\ b64_det_str_no_trash_len \in Nat
        /\ Sent(wanted, b64_det_str_no_trash_len, detect_strLen)
        /\ \A m \in 1..Len(wanted) : detect_string[m] = wanted[m]
    BY DEF StringInv, SentOK, Decoded
  <2>2. SubSeq(detect_string, 1, Len(wanted)) = wanted
    <3>1. SubSeq(detect_string, 1, Len(wanted)) = [m \in 1..Len(wanted) |-> detect_string[m]]
      BY <2>1
    <3>2. wanted = [m \in 1..Len(wanted) |-> wanted[m]]
      BY <2>1
    <3> QED
      BY <2>1, <3>1, <3>2
  <2>3. detect_strLen \in Len(wanted)..(Len(wanted) + Detect!Surplus)
    <3>1. Len(wanted) = 0 <=> wanted = <<>>
      BY <2>1, EmptySeq
    <3>2. Detect!TextLen(wanted) \in Nat
      BY <2>1 DEF Detect!TextLen
    <3> QED
      BY <2>1, <3>1, <3>2 DEF Sent, Detect!Surplus
  <2> QED
    BY <2>2, <2>3
<1> QED
  BY <1>1, StringInvariant, PTL

=============================================================================
