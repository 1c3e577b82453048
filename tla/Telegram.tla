------------------------------ MODULE Telegram ------------------------------
(* The messages of heartbeat-tcp (struct TRANS_DATA) and what one Read of the *)
(* TCP stream makes of them.  The stream has no framing: Read returns the     *)
(* bytes that have arrived, which are the telegrams of one or more messages   *)
(* back to back, and parse_telegram hands them to protobuf as one message.    *)
(* Protobuf then merges them field by field, as if the fields of all of them  *)
(* had been written into one telegram.                                        *)

EXTENDS Naturals, Sequences

TRANS_TYPE_HEARTBEAT           == "HEARTBEAT"
TRANS_TYPE_ACTION              == "ACTION"
TRANS_TYPE_GET_SERVER_STATUS   == "GET_SERVER_STATUS"
TRANS_TYPE_GET_DATA            == "GET_DATA"
TRANS_TYPE_REPLY_ACTION        == "REPLY_ACTION"
TRANS_TYPE_REPLY_SERVER_STATUS == "REPLY_SERVER_STATUS"
TRANS_TYPE_REPLY_DATA          == "REPLY_DATA"

GET_RES   == "GET_RES"
GOT_RES   == "GOT_RES"
FREE_RES  == "FREE_RES"
FREED_RES == "FREED_RES"

(* A TRANS_DATA.  The union's member trans_action_data is read only in ACTION *)
(* and REPLY_ACTION messages, server_status_datas only in the status          *)
(* messages; in the others the fields keep the zero values that bzero gives   *)
(* them (ACTION_TYPE_GET_RES is 0).  The size and the result are never read.  *)
Message(t, a, ss, vip) == [type |-> t, act |-> a, ss |-> ss, vip |-> vip]
Zeroed(t) == Message(t, GET_RES, FALSE, FALSE)

trans_data_set_none              == Zeroed(TRANS_TYPE_HEARTBEAT)
trans_data_set_get_server_status == Zeroed(TRANS_TYPE_GET_SERVER_STATUS)
trans_data_set_action(a) == Message(TRANS_TYPE_ACTION, a, FALSE, FALSE)

reply_action(a) == Message(TRANS_TYPE_REPLY_ACTION, a, FALSE, FALSE)
reply_server_status(ss, vip) ==
    Message(TRANS_TYPE_REPLY_SERVER_STATUS, GET_RES, ss, vip)

ActionType == {GET_RES, GOT_RES, FREE_RES, FREED_RES}
StatusType == {TRANS_TYPE_GET_SERVER_STATUS, TRANS_TYPE_REPLY_SERVER_STATUS}

(* What the two programs send to each other.  (GET_DATA has a handler, but    *)
(* nothing sends it.)                                                         *)
ClientMsg == {trans_data_set_none, trans_data_set_get_server_status}
                \cup {trans_data_set_action(a) : a \in {GET_RES, FREE_RES}}
ServerMsg == {trans_data_set_none}
                \cup {reply_action(a) : a \in {GOT_RES, FREED_RES}}
                \cup {reply_server_status(ss, vip) : ss, vip \in BOOLEAN}
Msg == ClientMsg \cup ServerMsg

(* The member of the oneof that a message of type t sets. *)
OneofCase(t) == CASE t \in {TRANS_TYPE_ACTION, TRANS_TYPE_REPLY_ACTION} -> "trans_action_data"
                  [] t \in StatusType -> "server_status_datas"
                  [] t \in {TRANS_TYPE_GET_DATA, TRANS_TYPE_REPLY_DATA} -> "data_collection"
                  [] OTHER -> "none"

-----------------------------------------------------------------------------
(* Coalesced(s): what parse_telegram returns for the telegrams of s, which is *)
(* not empty, read as one.  HEARTBEAT is 0, the default of its field, so a    *)
(* heartbeat writes no type and leaves what came before it standing: the type *)
(* is that of the last message that is not a heartbeat.  The payload is       *)
(* merged over the messages since the oneof last changed its member: GET_RES  *)
(* is 0 too and cannot overwrite an earlier action, and a status bit once set *)
(* stays set.                                                                 *)

Loud(s) == {i \in DOMAIN s : s[i].type # TRANS_TYPE_HEARTBEAT}
LastOf(S) == CHOOSE i \in S : \A j \in S : j <= i

(* The positions whose payload survives to the end of s. *)
Merged(s) ==
    LET member == OneofCase(s[LastOf(Loud(s))].type)
    IN  {i \in Loud(s) : \A j \in Loud(s) : j >= i => OneofCase(s[j].type) = member}

(* Mutation: the last message's action is the action.                         *)
MergedAction_Last(s) == s[LastOf(Loud(s))].act

(* The last action among them that is written at all.                         *)
MergedAction(s) ==
    LET written == {i \in Merged(s) : s[i].act # GET_RES}
    IN  IF written = {} THEN GET_RES ELSE s[LastOf(written)].act

Coalesced(s) ==
    IF Loud(s) = {} THEN trans_data_set_none
    ELSE LET last == s[LastOf(Loud(s))]
         IN  Message(last.type, MergedAction(s),
                     \E i \in Merged(s) : s[i].ss, \E i \in Merged(s) : s[i].vip)

=============================================================================
