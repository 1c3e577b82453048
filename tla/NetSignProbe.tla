---------------------------- MODULE NetSignProbe ----------------------------
(* The NetSign plugin's check of the services on this host: connect, send the *)
(* detection string, read the answer in pieces, try again, and give a verdict *)
(* that decides who holds the VIP.  The status thread runs it round after     *)
(* round and can do nothing else meanwhile.                                   *)
(*                                                                            *)
(* Bytes are counted, not read: what a number in the answer says is chosen    *)
(* when it is looked at.  Headers are Head bytes long.                        *)

EXTENDS Integers

CONSTANTS
    Services,      \* how many services service.xml has
    connect_retry, \* conf.ini: connectretrytimes
    TIMEOUT,       \* seconds that one readn may last
    MaxLen,        \* bound on the lengths that an answer declares
    MaxBack        \* bound on how far iRecSofarLen falls below 0

ASSUME ProbeAssumption ==
    /\ Services \in Nat /\ connect_retry \in Int
    /\ TIMEOUT \in Nat /\ MaxLen \in Nat /\ MaxBack \in Nat

VARIABLES
    if_chk_detect_ret, \* conf.ini's checkdetectret, as this round has read it
    pc,            \* idle, service, connect, select, send, or the part of the
                   \* answer being read
    verdict,       \* what the last round returned: healthy, unhealthy or none
    service,       \* services done in this round
    ConnectCount,  \* the attempt on the next one
    sockets,       \* sockets that are open
    peer,          \* the service's end: open, or closed after its last byte
    asked, nleft,  \* readn: bytes wanted, and wanted still
    waited,        \* readn: seconds since t0
    end,           \* readn: open, or why it returns early
    iRecTotalLen, iRecSofarLen, iRecCRSegLen, TAG, iReturnValue, \* ParseReceive's locals
    heard          \* history: bytes received in this attempt, up to HeardLimit

serviceVars == <<verdict, service, ConnectCount, sockets>>
readVars    == <<asked, nleft, waited, end>>
parseVars   == <<iRecTotalLen, iRecSofarLen, iRecCRSegLen, TAG, iReturnValue>>
callVars    == <<if_chk_detect_ret, pc, serviceVars, parseVars>> \* readn's callers
answerVars  == <<if_chk_detect_ret, readVars, parseVars, heard>>
vars == <<if_chk_detect_ret, pc, serviceVars, peer, readVars, parseVars, heard>>

HeadLen == 2
HeardLimit == HeadLen + MaxLen
Err_RecvDataFromServer == 8005

Init ==
    /\ if_chk_detect_ret = FALSE /\ pc = "idle" /\ verdict = "none"
    /\ service = 0 /\ ConnectCount = 0 /\ sockets = 0
    /\ peer = "closed" /\ heard = 0
    /\ asked = 0 /\ nleft = 0 /\ waited = 0 /\ end = "open"
    /\ iRecTotalLen = 0 /\ iRecSofarLen = 0 /\ iRecCRSegLen = 0
    /\ TAG = "other" /\ iReturnValue = -1

-----------------------------------------------------------------------------
(* readn                                                                      *)

Readn(n) == asked' = n /\ nleft' = n /\ waited' = 0 /\ end' = "open"

Reading == pc \in {"total", "tag", "content"} /\ nleft > 0 /\ end = "open"

Returned == nleft <= 0 \/ end # "open"

iRet == CASE asked < 0        -> -1
          [] end = "timeout"  -> -2
          [] end = "error"    -> -1
          [] OTHER            -> asked - nleft

(* select waits for a second in vain.                                         *)
Waits ==
    /\ Reading /\ waited <= TIMEOUT /\ peer = "open"
    /\ waited < TIMEOUT \/ iRecSofarLen > -MaxBack
    /\ waited' = waited + 1
    /\ UNCHANGED <<callVars, peer, asked, nleft, end, heard>>

(* Mutation: the clock starts again before it runs out.                       *)
TimesOut_Restarts ==
    /\ Reading /\ waited > TIMEOUT
    /\ waited' = 0
    /\ UNCHANGED <<callVars, peer, asked, nleft, end, heard>>

(* t0 is taken once a call, so that bytes one by one do not stretch it.       *)
TimesOut ==
    /\ Reading /\ waited > TIMEOUT
    /\ end' = "timeout"
    /\ UNCHANGED <<callVars, peer, asked, nleft, waited, heard>>

Recv ==
    /\ Reading /\ waited <= TIMEOUT /\ peer = "open"
    /\ \E k \in 1..nleft : /\ nleft' = nleft - k
                           /\ heard' = IF heard + k < HeardLimit THEN heard + k
                                       ELSE HeardLimit
    /\ UNCHANGED <<callVars, peer, asked, waited, end>>

(* The service closes or resets; from then on every read is at its end.       *)
Closes ==
    /\ Reading /\ waited <= TIMEOUT
    /\ \/ end' = "eof"
       \/ end' = "error" /\ peer = "open"
    /\ peer' = "closed"
    /\ UNCHANGED <<callVars, asked, nleft, waited, heard>>

-----------------------------------------------------------------------------
(* GetSrvStatus                                                               *)

(* conf.ini and service.xml are read anew in each round; without the latter   *)
(* the verdict is LOADXML_ERROR.                                              *)
RoundStarts ==
    /\ pc = "idle"
    /\ \/ pc' = "service" /\ verdict' = "none"
       \/ pc' = "idle" /\ verdict' = "unhealthy"
    /\ if_chk_detect_ret' \in BOOLEAN
    /\ service' = 0 /\ ConnectCount' = 0
    /\ UNCHANGED <<sockets, peer, readVars, parseVars, heard>>

AllDone ==
    /\ pc = "service" /\ service = Services
    /\ pc' = "idle" /\ verdict' = "healthy"
    /\ UNCHANGED <<service, ConnectCount, sockets, peer, answerVars>>

(* checkService is not "true"; or connect_retry is negative, and the loop     *)
(* leaves Ret at 0.                                                           *)
Unchecked ==
    /\ pc = "service" /\ service < Services
    /\ service' = service + 1
    /\ UNCHANGED <<pc, verdict, ConnectCount, sockets, peer, answerVars>>

(* The service has no name or no port.                                        *)
Misconfigured ==
    /\ pc = "service" /\ service < Services
    /\ pc' = "idle" /\ verdict' = "unhealthy"
    /\ UNCHANGED <<service, ConnectCount, sockets, peer, answerVars>>

Checked ==
    /\ pc = "service" /\ service < Services /\ connect_retry >= 0
    /\ pc' = "connect" /\ ConnectCount' = 0
    /\ UNCHANGED <<verdict, service, sockets, peer, answerVars>>

(* The attempt is over: on to the next service, the next attempt or the end.  *)
AttemptEnds(ok) ==
    IF ok THEN /\ pc' = "service" /\ service' = service + 1
               /\ UNCHANGED <<verdict, ConnectCount>>
    ELSE IF ConnectCount < connect_retry
      THEN /\ pc' = "connect" /\ ConnectCount' = ConnectCount + 1
           /\ UNCHANGED <<verdict, service>>
    ELSE /\ pc' = "idle" /\ verdict' = "unhealthy"
         /\ UNCHANGED <<service, ConnectCount>>

-----------------------------------------------------------------------------
(* DetectConnect                                                              *)

NoSocket ==
    /\ pc = "connect"
    /\ AttemptEnds(FALSE)
    /\ UNCHANGED <<sockets, peer, answerVars>>

(* The socket does not block: connect returns at once, and select waits.      *)
Connects ==
    /\ pc = "connect" /\ pc' = "select"
    /\ sockets' = sockets + 1
    /\ UNCHANGED <<verdict, service, ConnectCount, peer, answerVars>>

(* An exit of its own for each of the failures, with a close of its own.      *)
GivesUp ==
    /\ AttemptEnds(FALSE)
    /\ sockets' = sockets - 1
    /\ UNCHANGED <<peer, answerVars>>

(* Not connected in time, or select fails.                                    *)
SelectFails == pc = "select" /\ GivesUp

(* Mutation: this exit has no close.                                          *)
ConnectError_Leaks ==
    /\ pc = "select"
    /\ AttemptEnds(FALSE)
    /\ UNCHANGED <<sockets, peer, answerVars>>

(* Readable and writable: refused, or the service has written or closed       *)
(* already, which counts as an error.                                         *)
ConnectError == pc = "select" /\ GivesUp

(* The socket stays without blocking.                                         *)
FcntlFails == pc = "select" /\ GivesUp

DetectConnect ==
    /\ pc = "select" /\ pc' = "send"
    /\ peer' = "open" /\ heard' = 0
    /\ UNCHANGED <<if_chk_detect_ret, serviceVars, readVars, parseVars>>

-----------------------------------------------------------------------------
(* DetectResponse                                                             *)

(* The string is sent, unless the service resets the connection before it has *)
(* all of it; either way the answer is read.                                  *)
socket_send ==
    /\ pc = "send"
    /\ pc' = "total"
    /\ peer' \in {"open", "closed"}
    /\ Readn(HeadLen)
    /\ iRecTotalLen' = 0 /\ iRecSofarLen' = 0 /\ iRecCRSegLen' = 0
    /\ TAG' = "other" /\ iReturnValue' = -1
    /\ UNCHANGED <<if_chk_detect_ret, serviceVars, heard>>

(* No conf.ini has had a detectstring yet.                                    *)
NothingToSend == pc = "send" /\ GivesUp

(* DetectResponse turns ParseReceive's 1 into 0, returns everything else as   *)
(* it is, and 0 is success.                                                   *)
ParseReceive(ret) ==
    /\ AttemptEnds(ret \in {0, 1})
    /\ sockets' = sockets - 1
    /\ UNCHANGED readVars

-----------------------------------------------------------------------------
(* ParseReceive                                                               *)

receiveTotalLen ==
    /\ pc = "total" /\ Returned
    /\ IF iRet > 0 /\ ~if_chk_detect_ret
         THEN ParseReceive(1) /\ UNCHANGED iRecTotalLen
       ELSE IF iRet <= 0
         THEN ParseReceive(Err_RecvDataFromServer) /\ UNCHANGED iRecTotalLen
       ELSE \E len \in 0..MaxLen :
              /\ iRecTotalLen' = len
              /\ IF len = 0 THEN ParseReceive(Err_RecvDataFromServer)
                 ELSE pc' = "tag" /\ Readn(HeadLen) /\ UNCHANGED serviceVars
    /\ UNCHANGED <<if_chk_detect_ret, peer, heard>>
    /\ UNCHANGED <<iRecSofarLen, iRecCRSegLen, TAG, iReturnValue>>

(* Its error is Err_RecvDataFromServer, which is positive: ParseReceive's     *)
(* "iRet < 0" does not see it and goes on with the last tag and length.       *)
receiveTagAndLen ==
    /\ pc = "tag" /\ Returned
    /\ iRecSofarLen' = iRecSofarLen + iRet
    /\ IF iRet > 0 THEN /\ TAG' \in {"result", "other"}
                        /\ iRecCRSegLen' \in -1..MaxLen
                   ELSE UNCHANGED <<TAG, iRecCRSegLen>>
    /\ pc' = "content" /\ Readn(iRecCRSegLen')
    /\ UNCHANGED <<if_chk_detect_ret, serviceVars, peer, heard>>
    /\ UNCHANGED <<iRecTotalLen, iReturnValue>>

(* The number in a TAG_RESULT is kept; an empty one is 0.                     *)
handleResult ==
    IF TAG # "result" \/ iRet < 0 THEN UNCHANGED iReturnValue
    ELSE IF iRet = 0 THEN iReturnValue' = 0
    ELSE iReturnValue' \in 0..2

(* Mutation: the length that was declared is added, not what came.            *)
receiveContent_Declared ==
    /\ pc = "content" /\ Returned
    /\ iRecSofarLen' = iRecSofarLen + asked
    /\ handleResult
    /\ IF iRet < 0 THEN ParseReceive(iRet)
       ELSE IF iRecSofarLen' < iRecTotalLen
         THEN pc' = "tag" /\ Readn(HeadLen) /\ UNCHANGED serviceVars
       ELSE ParseReceive(iReturnValue')
    /\ UNCHANGED <<if_chk_detect_ret, peer, heard, iRecTotalLen, iRecCRSegLen, TAG>>

(* The content of one tag, and after it the next tag or the end.              *)
receiveContent ==
    /\ pc = "content" /\ Returned
    /\ iRecSofarLen' = iRecSofarLen + iRet
    /\ handleResult
    /\ IF iRet < 0 THEN ParseReceive(iRet)
       ELSE IF iRecSofarLen' < iRecTotalLen
         THEN pc' = "tag" /\ Readn(HeadLen) /\ UNCHANGED serviceVars
       ELSE ParseReceive(iReturnValue')
    /\ UNCHANGED <<if_chk_detect_ret, peer, heard, iRecTotalLen, iRecCRSegLen, TAG>>

Next ==
    \/ Waits \/ TimesOut \/ Recv \/ Closes
    \/ RoundStarts \/ AllDone \/ Unchecked \/ Misconfigured \/ Checked
    \/ NoSocket \/ Connects \/ SelectFails \/ ConnectError \/ FcntlFails
    \/ DetectConnect \/ socket_send \/ NothingToSend
    \/ receiveTotalLen \/ receiveTagAndLen \/ receiveContent

Spec == Init /\ [][Next]_vars

(* The thread runs, and every second ends.                                    *)
FairSpec == Spec /\ WF_vars(Next)

-----------------------------------------------------------------------------
Succeeds == pc \in {"total", "content"} /\ service' = service + 1

(* A service is never called normal on an answer that did not come, or not    *)
(* whole: if results are checked, the header and all the bytes it declared    *)
(* have been received, errors and timeouts on the way included.               *)
AnswerHeard ==
    [][Succeeds => /\ heard > 0
                   /\ if_chk_detect_ret => heard >= HeadLen + iRecTotalLen]_vars

(* An attempt leaves no socket behind, at whichever of the exits of the       *)
(* connect and of the answer it ended.                                        *)
SocketsClosed == pc \in {"idle", "service", "connect"} => sockets = 0

(* A round that does not check the results ends, whatever the services do:    *)
(* silence, single bytes and closed connections included (readn's deadline).  *)
RoundEnds == pc # "idle" /\ ~if_chk_detect_ret ~> pc = "idle"

(* MonitorSrv.cpp:65, "get the services' status; return 0 if it is normal and *)
(* something else if not": every round ends.                                  *)
EveryRoundEnds == []<>(pc = "idle")

=============================================================================
