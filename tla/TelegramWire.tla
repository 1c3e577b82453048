---------------------------- MODULE TelegramWire ----------------------------
(* What the bytes of several telegrams in a row parse to, step by step: each  *)
(* message is serialised by make_telegram, the reader's buffer holds the      *)
(* fields written so far, and parse_telegram reads that buffer.  This is the  *)
(* reference that Telegram's Coalesced has to agree with.                     *)
(*                                                                            *)
(* A telegram is the record of its fields; the zero of a field (HEARTBEAT,    *)
(* GET_RES, FALSE) is what proto3 does not write at all.                      *)

EXTENDS Telegram, Functions

CONSTANT MaxLen  \* bound on the telegrams that one Read returns

VARIABLES
    sent,   \* the messages sent since the last Read
    buf     \* the fields in their telegrams, as protobuf's parser sees them

get_data   == Zeroed(TRANS_TYPE_GET_DATA)
reply_data == Zeroed(TRANS_TYPE_REPLY_DATA)

make_telegram(m) ==
    LET member == OneofCase(m.type)
    IN  [type   |-> m.type,
         member |-> member,
         act    |-> IF member = "trans_action_data" THEN m.act ELSE GET_RES,
         ss     |-> member = "server_status_datas" /\ m.ss,
         vip    |-> member = "server_status_datas" /\ m.vip]

(* Mutation: only the last telegram of the buffer counts.                     *)
Followed_LastOnly(w, t) == t

(* ParseFromString on w's bytes followed by t's: a scalar that is written     *)
(* replaces the earlier one; a member of the oneof that is written again is   *)
(* merged, and another member clears it.                                      *)
Followed(w, t) ==
    LET kept == IF t.member \in {"none", w.member} THEN w
                ELSE [w EXCEPT !.act = GET_RES, !.ss = FALSE, !.vip = FALSE]
    IN  [type   |-> IF t.type = TRANS_TYPE_HEARTBEAT THEN w.type ELSE t.type,
         member |-> IF t.member = "none" THEN w.member ELSE t.member,
         act    |-> IF t.act = GET_RES THEN kept.act ELSE t.act,
         ss     |-> kept.ss \/ t.ss,
         vip    |-> kept.vip \/ t.vip]

(* Mutation: the action is not copied.                                        *)
parse_telegram_NoAction(w) ==
    Message(w.type, GET_RES, w.ss, w.vip)

(* parse_telegram reads the members that the type calls for.                  *)
parse_telegram(w) ==
    LET member == OneofCase(w.type)
    IN  [type |-> w.type,
         act  |-> IF member = "trans_action_data" /\ w.member = member
                    THEN w.act ELSE GET_RES,
         ss   |-> member = "server_status_datas" /\ w.member = member /\ w.ss,
         vip  |-> member = "server_status_datas" /\ w.member = member /\ w.vip]

Nothing == make_telegram(trans_data_set_none)

Init == sent = <<>> /\ buf = Nothing

(* One side sends; the two directions of a connection do not mix.             *)
Sends(m) ==
    /\ Len(sent) < MaxLen
    /\ sent' = Append(sent, m)
    /\ buf' = Followed(buf, make_telegram(m))

Next ==
    \/ \E m \in ClientMsg \cup {get_data} :
         Range(sent) \subseteq ClientMsg \cup {get_data} /\ Sends(m)
    \/ \E m \in ServerMsg \cup {reply_data} :
         Range(sent) \subseteq ServerMsg \cup {reply_data} /\ Sends(m)

Spec == Init /\ [][Next]_<<sent, buf>>

-----------------------------------------------------------------------------
(* One Read of all that was sent gives what Coalesced says: the closed form   *)
(* that the cluster model reads messages with is protobuf's field-wise merge. *)
CoalescedIsMerge == sent # <<>> => parse_telegram(buf) = Coalesced(sent)

(* Heartbeats around a message do not change it: a reader that gets one       *)
(* message with any number of heartbeats acts on the message.                 *)
HeartbeatsTransparent ==
    \A i \in DOMAIN sent :
      (\A j \in DOMAIN sent \ {i} : sent[j] = trans_data_set_none)
        => parse_telegram(buf) = sent[i]

(* A message that says "take" is never made up: GET_RES is the zero of its    *)
(* field, but only an order to take, alone among actions, reads as one.       *)
GetResIsGenuine ==
    parse_telegram(buf) = trans_data_set_action(GET_RES)
      => trans_data_set_action(GET_RES) \in Range(sent)

=============================================================================
