--------------------------- MODULE TelegramProofs ---------------------------
(* What the telegrams of several messages mean when one Read returns them all *)
(* (parse_telegram): the lemmas about Coalesced that the proofs about the     *)
(* cluster and about the bytes on a connection rest on.                       *)

EXTENDS Telegram, SequenceTheorems, FiniteSetTheorems, TLAPS

(* The messages and their fields, for the steps that only need these facts.   *)
LEMMA MessageFacts ==
    /\ trans_data_set_none \in ClientMsg
    /\ trans_data_set_get_server_status \in ClientMsg
    /\ trans_data_set_action(GET_RES) \in ClientMsg
    /\ trans_data_set_action(FREE_RES) \in ClientMsg
    /\ trans_data_set_none \in ServerMsg
    /\ reply_action(GOT_RES) \in ServerMsg
    /\ reply_action(FREED_RES) \in ServerMsg
    /\ \A ss, v \in BOOLEAN : reply_server_status(ss, v) \in ServerMsg
BY DEF ClientMsg, ServerMsg

LEMMA MessagesDiffer ==
    /\ trans_data_set_action(GET_RES) # trans_data_set_none
    /\ trans_data_set_action(GET_RES) # trans_data_set_get_server_status
    /\ trans_data_set_action(GET_RES) # trans_data_set_action(FREE_RES)
    /\ reply_action(FREED_RES) # trans_data_set_none
    /\ reply_action(FREED_RES) # reply_action(GOT_RES)
    /\ \A ss, v \in BOOLEAN : reply_action(FREED_RES) # reply_server_status(ss, v)
BY DEF trans_data_set_action, trans_data_set_none, trans_data_set_get_server_status,
       reply_action, reply_server_status, Message, Zeroed, GET_RES, GOT_RES, FREE_RES,
       FREED_RES, TRANS_TYPE_ACTION, TRANS_TYPE_HEARTBEAT,
       TRANS_TYPE_GET_SERVER_STATUS, TRANS_TYPE_REPLY_ACTION,
       TRANS_TYPE_REPLY_SERVER_STATUS

(* With the two that have a handler and no sender.                            *)
AnyMsg == Msg \cup {Zeroed(TRANS_TYPE_GET_DATA), Zeroed(TRANS_TYPE_REPLY_DATA)}

(* A message whose fields are zero where its type does not use them.          *)
Shaped(m) ==
    /\ m.ss \in BOOLEAN /\ m.vip \in BOOLEAN
    /\ m = Message(m.type, m.act, m.ss, m.vip)
    /\ OneofCase(m.type) # "trans_action_data" => m.act = GET_RES
    /\ OneofCase(m.type) # "server_status_datas" => ~m.ss /\ ~m.vip
    /\ m.type = TRANS_TYPE_HEARTBEAT <=> OneofCase(m.type) = "none"

LEMMA MessageField ==
    ASSUME NEW t, NEW a, NEW ss, NEW v
    PROVE  /\ Message(t, a, ss, v).type = t /\ Message(t, a, ss, v).act = a
           /\ Message(t, a, ss, v).ss = ss /\ Message(t, a, ss, v).vip = v
BY DEF Message

LEMMA Members ==
    /\ OneofCase(TRANS_TYPE_HEARTBEAT) = "none"
    /\ OneofCase(TRANS_TYPE_ACTION) = "trans_action_data"
    /\ OneofCase(TRANS_TYPE_REPLY_ACTION) = "trans_action_data"
    /\ OneofCase(TRANS_TYPE_GET_SERVER_STATUS) = "server_status_datas"
    /\ OneofCase(TRANS_TYPE_REPLY_SERVER_STATUS) = "server_status_datas"
    /\ OneofCase(TRANS_TYPE_GET_DATA) = "data_collection"
    /\ OneofCase(TRANS_TYPE_REPLY_DATA) = "data_collection"
BY DEF OneofCase, StatusType, TRANS_TYPE_HEARTBEAT, TRANS_TYPE_ACTION,
       TRANS_TYPE_REPLY_ACTION, TRANS_TYPE_GET_SERVER_STATUS,
       TRANS_TYPE_REPLY_SERVER_STATUS, TRANS_TYPE_GET_DATA, TRANS_TYPE_REPLY_DATA

LEMMA TypesDiffer ==
    /\ TRANS_TYPE_HEARTBEAT \notin {TRANS_TYPE_ACTION, TRANS_TYPE_REPLY_ACTION,
          TRANS_TYPE_GET_SERVER_STATUS, TRANS_TYPE_REPLY_SERVER_STATUS,
          TRANS_TYPE_GET_DATA, TRANS_TYPE_REPLY_DATA}
    /\ TRANS_TYPE_ACTION \notin {TRANS_TYPE_REPLY_ACTION,
          TRANS_TYPE_GET_SERVER_STATUS, TRANS_TYPE_REPLY_SERVER_STATUS,
          TRANS_TYPE_GET_DATA, TRANS_TYPE_REPLY_DATA}
BY DEF TRANS_TYPE_HEARTBEAT, TRANS_TYPE_ACTION,
       TRANS_TYPE_REPLY_ACTION, TRANS_TYPE_GET_SERVER_STATUS,
       TRANS_TYPE_REPLY_SERVER_STATUS, TRANS_TYPE_GET_DATA, TRANS_TYPE_REPLY_DATA

LEMMA AnyMsgShaped ==
    ASSUME NEW m \in AnyMsg
    PROVE  Shaped(m)
<1>1. ASSUME NEW t, NEW a, NEW ss \in BOOLEAN, NEW v \in BOOLEAN,
             m = Message(t, a, ss, v),
             OneofCase(t) # "trans_action_data" => a = GET_RES,
             OneofCase(t) # "server_status_datas" => ~ss /\ ~v,
             t = TRANS_TYPE_HEARTBEAT <=> OneofCase(t) = "none"
      PROVE  Shaped(m)
  BY <1>1, MessageField DEF Shaped
<1>2. ASSUME NEW t \in {TRANS_TYPE_HEARTBEAT, TRANS_TYPE_GET_SERVER_STATUS,
                        TRANS_TYPE_GET_DATA, TRANS_TYPE_REPLY_DATA},
             m = Zeroed(t)
      PROVE  Shaped(m)
  <2>1. m = Message(t, GET_RES, FALSE, FALSE)
    BY <1>2 DEF Zeroed
  <2>2. t = TRANS_TYPE_HEARTBEAT <=> OneofCase(t) = "none"
    BY Members, TypesDiffer
  <2> QED
    BY <1>1, <2>1, <2>2
<1>3. ASSUME NEW a, m = trans_data_set_action(a) \/ m = reply_action(a)
      PROVE  Shaped(m)
  <2>1. PICK t \in {TRANS_TYPE_ACTION, TRANS_TYPE_REPLY_ACTION} :
               m = Message(t, a, FALSE, FALSE)
    BY <1>3 DEF trans_data_set_action, reply_action
  <2>2. OneofCase(t) = "trans_action_data" /\ t # TRANS_TYPE_HEARTBEAT
    BY Members, TypesDiffer
  <2> QED
    BY <1>1, <2>1, <2>2
<1>4. ASSUME NEW ss \in BOOLEAN, NEW v \in BOOLEAN, m = reply_server_status(ss, v)
      PROVE  Shaped(m)
  BY <1>1, <1>4, Members, TypesDiffer DEF reply_server_status
<1> QED
  BY <1>2, <1>3, <1>4
  DEF AnyMsg, Msg, ClientMsg, ServerMsg, trans_data_set_none,
      trans_data_set_get_server_status

-----------------------------------------------------------------------------
(* The last position of a set of positions.                                   *)

LEMMA LastExists ==
    ASSUME NEW n \in Nat, NEW S \in SUBSET (1..n), S # {}
    PROVE  LastOf(S) \in S /\ \A j \in S : j <= LastOf(S)
<1> DEFINE From(k) == {i \in S : k <= i}
           Tails == {From(k) : k \in S}
<1>1. IsWellFoundedOn(StrictSubsetOrdering(1..n), FiniteSubsetsOf(1..n))
  BY FS_StrictSubsetOrderingWellFounded
<1>2. ASSUME NEW T \in SUBSET (1..n) PROVE IsFiniteSet(T)
  <2>1. IsFiniteSet(1..n)
    BY FS_Interval
  <2> QED  BY <2>1, FS_Subset
<1>3. Tails \subseteq FiniteSubsetsOf(1..n)
  BY <1>2 DEF FiniteSubsetsOf
<1>4. Tails # {}
  OBVIOUS
<1>5. PICK x \in Tails : \A y \in Tails : <<y, x>> \notin StrictSubsetOrdering(1..n)
  <2> HIDE DEF Tails
  <2> QED  BY <1>1, <1>3, <1>4, WFMin
<1>6. PICK k \in S : x = From(k)
  OBVIOUS
<1>7. ASSUME NEW j \in S, ~(j <= k)
      PROVE  FALSE
  <2>0. S \subseteq Int
    OBVIOUS
  <2>1. k \in From(k) /\ k \notin From(j)
    BY <1>7, <2>0
  <2>2. From(j) \subseteq From(k)
    <3>1. ASSUME NEW i \in S, j <= i PROVE k <= i
      <4>1. i \in Int /\ j \in Int /\ k \in Int
        BY <2>0
      <4> QED  BY <1>7, <3>1, <4>1
    <3> QED  BY <3>1
  <2>3. From(j) \in Tails /\ From(j) \in SUBSET (1..n) /\ From(k) \in SUBSET (1..n)
    OBVIOUS
  <2>4. <<From(j), x>> \in StrictSubsetOrdering(1..n)
    <3> HIDE DEF From
    <3> QED  BY <2>1, <2>2, <2>3, <1>6 DEF StrictSubsetOrdering
  <2> QED  BY <2>3, <2>4, <1>5
<1>8. \E i \in S : \A j \in S : j <= i
  BY <1>7
<1> QED  BY <1>8 DEF LastOf

LEMMA LastIs ==
    ASSUME NEW n \in Nat, NEW S \in SUBSET (1..n), NEW k \in S, \A j \in S : j <= k
    PROVE  LastOf(S) = k
<1>1. LastOf(S) \in S /\ \A j \in S : j <= LastOf(S)
  BY LastExists
<1>2. \A j \in S : j \in Int
  OBVIOUS
<1>3. k <= LastOf(S) /\ LastOf(S) <= k
  BY <1>1
<1>4. k \in Int /\ LastOf(S) \in Int
  BY <1>1, <1>2
<1> QED
  BY <1>3, <1>4

-----------------------------------------------------------------------------
(* Coalesced, message by message.                                             *)

LEMMA LoudLast ==
    ASSUME NEW S, NEW s \in Seq(S), Loud(s) # {}
    PROVE  /\ LastOf(Loud(s)) \in Loud(s)
           /\ LastOf(Loud(s)) \in Merged(s)
           /\ \A j \in Loud(s) : j <= LastOf(Loud(s))
<1>1. Len(s) \in Nat /\ Loud(s) \subseteq 1..Len(s)
  BY LenProperties DEF Loud
<1>2. LastOf(Loud(s)) \in Loud(s) /\ \A j \in Loud(s) : j <= LastOf(Loud(s))
  BY <1>1, LastExists
<1>3. \A j \in Loud(s) : j >= LastOf(Loud(s)) => j = LastOf(Loud(s))
  BY <1>1, <1>2
<1> QED  BY <1>2, <1>3 DEF Merged

(* A message that has nothing but heartbeats around it is read as it is.      *)
LEMMA ReadAlone ==
    ASSUME NEW s \in Seq(AnyMsg), NEW i \in DOMAIN s,
           \A j \in DOMAIN s \ {i} : s[j] = trans_data_set_none
    PROVE  Coalesced(s) = s[i]
<1>0. Len(s) \in Nat /\ DOMAIN s = 1..Len(s) /\ s[i] \in AnyMsg
  BY LenProperties, ElementOfSeq
<1>1. trans_data_set_none.type = TRANS_TYPE_HEARTBEAT
  BY DEF trans_data_set_none, Zeroed, Message
<1>2. CASE s[i].type = TRANS_TYPE_HEARTBEAT
  <2>1. Loud(s) = {}
    BY <1>1, <1>2 DEF Loud
  <2>2. s[i] = trans_data_set_none
    <3>1. ~s[i].ss /\ ~s[i].vip /\ s[i].act = GET_RES
      BY <1>0, <1>2, AnyMsgShaped, Members DEF Shaped
    <3>2. s[i].ss = FALSE /\ s[i].vip = FALSE
      BY <1>0, <3>1, AnyMsgShaped DEF Shaped
    <3> QED
      BY <1>0, <1>2, <3>1, <3>2, AnyMsgShaped DEF Shaped, trans_data_set_none, Zeroed
  <2> QED
    BY <2>1, <2>2 DEF Coalesced
<1>3. CASE s[i].type # TRANS_TYPE_HEARTBEAT
  <2>1. Loud(s) = {i}
    BY <1>1, <1>3 DEF Loud
  <2>2. LastOf({i}) = i
    BY DEF LastOf
  <2>3. Merged(s) = {i}
    BY <2>1, <2>2 DEF Merged
  <2>4. MergedAction(s) = s[i].act
    <3>1. CASE s[i].act = GET_RES
      BY <3>1, <2>3 DEF MergedAction
    <3>2. CASE s[i].act # GET_RES
      <4>1. {j \in Merged(s) : s[j].act # GET_RES} = {i}
        BY <3>2, <2>3
      <4> QED  BY <4>1, <2>2 DEF MergedAction
    <3> QED  BY <3>1, <3>2
  <2>5. /\ (\E j \in Merged(s) : s[j].ss) = s[i].ss
        /\ (\E j \in Merged(s) : s[j].vip) = s[i].vip
    BY <1>0, <2>3, AnyMsgShaped DEF Shaped
  <2>6. Coalesced(s) = Message(s[i].type, s[i].act, s[i].ss, s[i].vip)
    BY <2>1, <2>2, <2>4, <2>5 DEF Coalesced
  <2> QED
    BY <1>0, <2>6, AnyMsgShaped DEF Shaped
<1> QED
  BY <1>2, <1>3

(* What reads as an order to take is or contains an order to take.            *)
LEMMA GetResGenuine ==
    ASSUME NEW s \in Seq(AnyMsg), Coalesced(s) = trans_data_set_action(GET_RES)
    PROVE  \E i \in DOMAIN s : s[i] = trans_data_set_action(GET_RES)
<1> DEFINE last == LastOf(Loud(s))
           written == {i \in Merged(s) : s[i].act # GET_RES}
<1>1. Loud(s) # {}
  BY MessagesDiffer DEF Coalesced
<1>2. s[last].type = TRANS_TYPE_ACTION /\ MergedAction(s) = GET_RES
  BY <1>1 DEF Coalesced, trans_data_set_action, Message
<1>3. last \in Loud(s) /\ last \in Merged(s)
  BY <1>1, LoudLast
<1>4. written = {}
  <2> SUFFICES ASSUME written # {} PROVE FALSE
    OBVIOUS
  <2>1. Len(s) \in Nat /\ written \in SUBSET (1..Len(s))
    BY LenProperties DEF Merged, Loud
  <2>2. LastOf(written) \in written
    BY <2>1, LastExists
  <2> QED  BY <2>2, <1>2 DEF MergedAction
<1>5. s[last].act = GET_RES
  BY <1>3, <1>4
<1>6. last \in DOMAIN s /\ s[last] \in AnyMsg
  BY <1>3, ElementOfSeq, LenProperties DEF Loud
<1>7. ~s[last].ss /\ ~s[last].vip /\ s[last].ss \in BOOLEAN /\ s[last].vip \in BOOLEAN
  BY <1>2, <1>6, AnyMsgShaped, Members DEF Shaped
<1>8. s[last].ss = FALSE /\ s[last].vip = FALSE
  BY <1>7
<1>9. s[last] = trans_data_set_action(GET_RES)
  BY <1>2, <1>5, <1>6, <1>8, AnyMsgShaped DEF Shaped, trans_data_set_action
<1> QED  BY <1>6, <1>9

(* A heartbeat at the end changes nothing.                                    *)
LEMMA AppendQuiet ==
    ASSUME NEW s \in Seq(AnyMsg), NEW m \in AnyMsg, m.type = TRANS_TYPE_HEARTBEAT
    PROVE  Coalesced(Append(s, m)) = Coalesced(s)
<1> DEFINE t == Append(s, m)
<1>1. /\ Len(s) \in Nat /\ DOMAIN s = 1..Len(s) /\ DOMAIN t = 1..(Len(s) + 1)
      /\ \A j \in 1..Len(s) : t[j] = s[j]
      /\ t[Len(s) + 1] = m
  BY AppendProperties, LenProperties
<1> HIDE DEF t
<1>2. Loud(t) = Loud(s) /\ Loud(s) \subseteq 1..Len(s)
  BY <1>1 DEF Loud
<1>3. \A j \in Loud(s) : t[j] = s[j]
  BY <1>1, <1>2
<1>4. CASE Loud(s) = {}
  BY <1>2, <1>4 DEF Coalesced, t
<1>5. CASE Loud(s) # {}
  <2>1. t[LastOf(Loud(t))] = s[LastOf(Loud(s))]
    BY <1>2, <1>3, <1>5, LoudLast
  <2>2. Merged(t) = Merged(s)
    BY <1>2, <1>3, <2>1 DEF Merged
  <2>3. \A j \in Merged(s) : t[j] = s[j]
    BY <1>3 DEF Merged
  <2>4. { j \in Merged(t) : t[j].act # GET_RES } = { j \in Merged(s) : s[j].act # GET_RES }
    BY <2>2, <2>3
  <2>5. MergedAction(t) = MergedAction(s)
    <3> DEFINE written == { j \in Merged(s) : s[j].act # GET_RES }
    <3>1. written \in SUBSET (1..Len(s))
      BY <1>2 DEF Merged
    <3>2. written # {} => LastOf(written) \in Merged(s)
      BY <1>1, <3>1, LastExists
    <3> QED
      BY <2>3, <2>4, <3>2 DEF MergedAction
  <2>6. /\ (\E j \in Merged(t) : t[j].ss) = (\E j \in Merged(s) : s[j].ss)
        /\ (\E j \in Merged(t) : t[j].vip) = (\E j \in Merged(s) : s[j].vip)
    BY <2>2, <2>3
  <2> QED
    BY <1>2, <1>5, <2>1, <2>5, <2>6 DEF Coalesced, t
<1> QED
  BY <1>4, <1>5

(* Another message takes over the type.  What was merged so far stays if it   *)
(* is of the same member, and is cleared if not.                              *)
Kept(s, m) == Loud(s) # {} /\ OneofCase(s[LastOf(Loud(s))].type) = OneofCase(m.type)

LEMMA AppendMerged ==
    ASSUME NEW s \in Seq(AnyMsg), NEW m \in AnyMsg, m.type # TRANS_TYPE_HEARTBEAT
    PROVE  LET t == Append(s, m)
               n == Len(s) + 1
           IN  /\ n \in Nat /\ Loud(t) \subseteq 1..n /\ LastOf(Loud(t)) = n /\ t[n] = m
               /\ \A j \in 1..Len(s) : t[j] = s[j] /\ j # n
               /\ Merged(s) \subseteq 1..Len(s)
               /\ Merged(t) = {n} \cup (IF Kept(s, m) THEN Merged(s) ELSE {})
<1> DEFINE t == Append(s, m)
           n == Len(s) + 1
<1>1. /\ Len(s) \in Nat /\ DOMAIN s = 1..Len(s) /\ DOMAIN t = 1..n
      /\ \A j \in 1..Len(s) : t[j] = s[j] /\ j # n
      /\ t[n] = m /\ n \in Nat /\ n \in 1..n /\ 1..n = 1..Len(s) \cup {n}
  BY AppendProperties, LenProperties
<1> HIDE DEF t
<1>2. Loud(t) = Loud(s) \cup {n} /\ Loud(s) \subseteq 1..Len(s)
  BY <1>1 DEF Loud
<1>3. \A j \in Loud(t) : j <= n
  BY <1>1, <1>2
<1>4. Loud(t) \in SUBSET (1..n) /\ n \in Loud(t)
  BY <1>1, <1>2
<1>5. LastOf(Loud(t)) = n
  <2> HIDE DEF n
  <2> QED
    BY <1>1, <1>3, <1>4, LastIs
<1>6. Merged(s) \subseteq 1..Len(s) /\ Merged(s) \subseteq Loud(s)
  BY <1>2 DEF Merged
<1>7. \A j \in Loud(s) : t[j] = s[j] /\ j \in 1..Len(s)
  BY <1>1, <1>2
<1>8. n \in Merged(t) /\ Merged(t) \subseteq Loud(s) \cup {n}
  <2>1. \A j \in Loud(t) : j >= n => j = n
    BY <1>1, <1>3, <1>4
  <2> QED
    BY <1>1, <1>2, <1>4, <1>5, <2>1 DEF Merged
<1>9. CASE Kept(s, m)
  <2>1. \A i \in Loud(s) :
          i \in Merged(t) <=> \A j \in Loud(s) : j >= i => OneofCase(s[j].type) = OneofCase(m.type)
    BY <1>1, <1>2, <1>5, <1>7 DEF Merged
  <2>2. \A i \in Loud(s) : i \in Merged(t) <=> i \in Merged(s)
    BY <1>9, <2>1 DEF Merged, Kept
  <2>3. Merged(t) = {n} \cup Merged(s)
    BY <1>6, <1>8, <2>2
  <2> QED
    BY <1>1, <1>4, <1>5, <1>6, <1>9, <2>3 DEF t
<1>10. CASE ~Kept(s, m)
  <2>1. ASSUME NEW i \in Loud(s), i \in Merged(t) PROVE FALSE
    <3> DEFINE last == LastOf(Loud(s))
    <3>1. last \in Loud(s) /\ i <= last
      BY <2>1, LoudLast
    <3>2. last \in Loud(t) /\ last >= i
      BY <1>2, <1>7, <2>1, <3>1
    <3>3. OneofCase(t[last].type) = OneofCase(m.type)
      BY <1>1, <1>5, <2>1, <3>2 DEF Merged
    <3> QED
      BY <1>7, <1>10, <2>1, <3>1, <3>3 DEF Kept
  <2>2. Merged(t) = {n}
    BY <1>8, <2>1
  <2> QED
    BY <1>1, <1>4, <1>5, <1>6, <1>10, <2>2 DEF t
<1> QED
  BY <1>9, <1>10

LEMMA AppendLoud ==
    ASSUME NEW s \in Seq(AnyMsg), NEW m \in AnyMsg, m.type # TRANS_TYPE_HEARTBEAT,
           NEW c, c = Coalesced(s), Shaped(c),
           NEW d, d = Coalesced(Append(s, m))
    PROVE  LET same == OneofCase(c.type) = OneofCase(m.type)
           IN  /\ d = Message(d.type, d.act, d.ss, d.vip)
               /\ d.type = m.type
               /\ d.act = IF m.act # GET_RES THEN m.act ELSE IF same THEN c.act ELSE GET_RES
               /\ d.ss \in BOOLEAN /\ (d.ss <=> m.ss \/ (same /\ c.ss))
               /\ d.vip \in BOOLEAN /\ (d.vip <=> m.vip \/ (same /\ c.vip))
<1> DEFINE t == Append(s, m)
           n == Len(s) + 1
           same == OneofCase(c.type) = OneofCase(m.type)
<1>1. /\ n \in Nat /\ Loud(t) \subseteq 1..n /\ LastOf(Loud(t)) = n /\ t[n] = m
      /\ \A j \in 1..Len(s) : t[j] = s[j] /\ j # n
      /\ Merged(s) \subseteq 1..Len(s)
      /\ Merged(t) = {n} \cup (IF Kept(s, m) THEN Merged(s) ELSE {})
  BY AppendMerged
<1> HIDE DEF t, n
<1>2. Loud(t) # {}
  BY <1>1 DEF Merged
<1>3. d = Message(m.type, MergedAction(t), \E i \in Merged(t) : t[i].ss,
                                          \E i \in Merged(t) : t[i].vip)
  BY <1>1, <1>2 DEF Coalesced, t
<1>4. /\ d.type = m.type /\ d.act = MergedAction(t)
      /\ d.ss = \E i \in Merged(t) : t[i].ss
      /\ d.vip = \E i \in Merged(t) : t[i].vip
  BY <1>3 DEF Message
<1>5. Loud(s) # {} =>
        /\ c.type = s[LastOf(Loud(s))].type /\ c.act = MergedAction(s)
        /\ c.ss = \E i \in Merged(s) : s[i].ss
        /\ c.vip = \E i \in Merged(s) : s[i].vip
  BY DEF Coalesced, Message
<1>6. Kept(s, m) <=> same
  <2>1. CASE Loud(s) = {}
    <3>1. c.type = TRANS_TYPE_HEARTBEAT
      BY <2>1 DEF Coalesced, trans_data_set_none, Zeroed, Message
    <3>2. OneofCase(m.type) # "none" /\ OneofCase(c.type) = "none"
      BY <3>1, AnyMsgShaped, Members DEF Shaped
    <3> QED
      BY <2>1, <3>2 DEF Kept
  <2>2. CASE Loud(s) # {}
    BY <1>5, <2>2 DEF Kept
  <2> QED
    BY <2>1, <2>2
<1>7. same => Loud(s) # {}
  BY <1>6 DEF Kept
<1>8. \A i \in Merged(s) : t[i] = s[i]
  BY <1>1
<1>9. d.act = IF m.act # GET_RES THEN m.act ELSE IF same THEN c.act ELSE GET_RES
  <2> DEFINE written == { i \in Merged(t) : t[i].act # GET_RES }
  <2>0. written \in SUBSET (1..n)
    BY <1>1 DEF Merged
  <2>1. CASE m.act # GET_RES
    <3>1. n \in written /\ \A i \in written : i <= n
      BY <1>1, <2>0, <2>1
    <3>2. LastOf(written) = n
      <4> HIDE DEF written
      <4> QED
        BY <1>1, <2>0, <3>1, LastIs
    <3> QED
      BY <1>1, <1>4, <2>1, <3>1, <3>2 DEF MergedAction
  <2>2. CASE m.act = GET_RES /\ same
    <3>1. written = { i \in Merged(s) : s[i].act # GET_RES }
      BY <1>1, <1>6, <1>8, <2>2
    <3>2. written # {} => LastOf(written) \in Merged(s)
      BY <1>1, <2>0, <3>1, LastExists
    <3>3. MergedAction(t) = MergedAction(s)
      BY <1>8, <3>1, <3>2 DEF MergedAction
    <3> QED
      BY <1>4, <1>5, <1>7, <2>2, <3>3
  <2>3. CASE m.act = GET_RES /\ ~same
    <3>1. written = {}
      BY <1>1, <1>6, <2>3
    <3> QED
      BY <1>4, <2>3, <3>1 DEF MergedAction
  <2> QED
    BY <2>1, <2>2, <2>3
<1>10. d.ss \in BOOLEAN /\ (d.ss <=> m.ss \/ (same /\ c.ss))
  <2>1. d.ss <=> t[n].ss \/ (Kept(s, m) /\ \E i \in Merged(s) : t[i].ss)
    BY <1>1, <1>4
  <2>2. Kept(s, m) => (c.ss <=> \E i \in Merged(s) : t[i].ss)
    BY <1>5, <1>6, <1>7, <1>8
  <2> QED
    BY <1>1, <1>4, <1>6, <2>1, <2>2
<1>11. d.vip \in BOOLEAN /\ (d.vip <=> m.vip \/ (same /\ c.vip))
  <2>1. d.vip <=> t[n].vip \/ (Kept(s, m) /\ \E i \in Merged(s) : t[i].vip)
    BY <1>1, <1>4
  <2>2. Kept(s, m) => (c.vip <=> \E i \in Merged(s) : t[i].vip)
    BY <1>5, <1>6, <1>7, <1>8
  <2> QED
    BY <1>1, <1>4, <1>6, <2>1, <2>2
<1> QED
  BY <1>3, <1>4, <1>9, <1>10, <1>11

=============================================================================
