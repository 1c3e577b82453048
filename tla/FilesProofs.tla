----------------------------- MODULE FilesProofs -----------------------------
(* Proofs about what the daemons read and write: any number of telegrams that *)
(* one Read returns; the log for any number of threads and days; ha.cf and    *)
(* haresources of any length.                                                 *)

EXTENDS MCFiles, Integers, TelegramProofs

-----------------------------------------------------------------------------
(* The connection.  What the reader's buffer holds is the telegram of what    *)
(* the messages sent so far mean together.                                    *)

WireInv ==
    /\ sent \in Seq(AnyMsg)
    /\ Shaped(Coalesced(sent))
    /\ buf = make_telegram(Coalesced(sent))

LEMMA InitWire == Init => WireInv
<1> SUFFICES ASSUME Init PROVE WireInv
  OBVIOUS
<1>1. sent = <<>> /\ buf = make_telegram(trans_data_set_none)
  BY DEF Init, Nothing
<1>2. Loud(sent) = {}
  BY <1>1 DEF Loud
<1>3. Coalesced(sent) = trans_data_set_none
  BY <1>2 DEF Coalesced
<1>4. Shaped(trans_data_set_none)
  BY MessageFacts, AnyMsgShaped DEF AnyMsg, Msg
<1> QED
  BY <1>1, <1>3, <1>4 DEF WireInv

(* A telegram says what its message says, and of what member.                 *)
LEMMA TelegramFields ==
    ASSUME NEW m, Shaped(m), NEW w, w = make_telegram(m)
    PROVE  /\ w.type = m.type /\ w.member = OneofCase(m.type) /\ w.act = m.act
           /\ w.ss = m.ss /\ w.vip = m.vip
           /\ w = [type |-> m.type, member |-> OneofCase(m.type), act |-> m.act,
                   ss |-> m.ss, vip |-> m.vip]
BY DEF Shaped, make_telegram

LEMMA SendsWire == WireInv /\ (\E m \in AnyMsg : Sends(m)) => WireInv'
<1> SUFFICES ASSUME WireInv, NEW m \in AnyMsg, Sends(m) PROVE WireInv'
  OBVIOUS
<1> DEFINE w == make_telegram(m)
           c == Coalesced(sent)
           d == Coalesced(sent')
<1>1. sent' = Append(sent, m) /\ buf' = Followed(buf, w) /\ sent' \in Seq(AnyMsg)
  BY DEF Sends, WireInv
<1>2. sent \in Seq(AnyMsg) /\ Shaped(c) /\ buf = make_telegram(c) /\ Shaped(m)
  BY AnyMsgShaped DEF WireInv
<1>3. CASE m.type = TRANS_TYPE_HEARTBEAT
  <2>1. d = c
    BY <1>1, <1>2, <1>3, AppendQuiet
  <2>2. /\ w.member = "none" /\ w.type = TRANS_TYPE_HEARTBEAT /\ w.act = GET_RES
        /\ ~w.ss /\ ~w.vip
    BY <1>2, <1>3, TelegramFields, Members DEF Shaped
  <2>3. Followed(buf, w) = buf
    BY <1>2, <2>2, TelegramFields DEF Followed, Shaped
  <2> QED
    BY <1>1, <1>2, <2>1, <2>3 DEF WireInv
<1>4. CASE m.type # TRANS_TYPE_HEARTBEAT
  <2> DEFINE same == OneofCase(c.type) = OneofCase(m.type)
  <2>1. /\ d = Message(d.type, d.act, d.ss, d.vip)
        /\ d.type = m.type
        /\ d.act = IF m.act # GET_RES THEN m.act ELSE IF same THEN c.act ELSE GET_RES
        /\ d.ss \in BOOLEAN /\ (d.ss <=> m.ss \/ (same /\ c.ss))
        /\ d.vip \in BOOLEAN /\ (d.vip <=> m.vip \/ (same /\ c.vip))
    BY <1>1, <1>2, <1>4, AppendLoud
  <2>2. Shaped(d)
    BY <1>2, <2>1 DEF Shaped
  <2> HIDE DEF c, d, w
  <2>3. /\ OneofCase(m.type) # "none"
        /\ w = [type |-> m.type, member |-> OneofCase(m.type), act |-> m.act,
                ss |-> m.ss, vip |-> m.vip]
        /\ buf = [type |-> c.type, member |-> OneofCase(c.type), act |-> c.act,
                  ss |-> c.ss, vip |-> c.vip]
    BY <1>2, <1>4, TelegramFields DEF Shaped, w
  <2>4. Followed(buf, w) = [type |-> d.type, member |-> OneofCase(d.type), act |-> d.act,
                            ss |-> d.ss, vip |-> d.vip]
    BY <1>2, <1>4, <2>1, <2>3 DEF Followed, Shaped
  <2>5. Followed(buf, w) = make_telegram(d)
    BY <2>2, <2>4, TelegramFields
  <2> QED
    BY <1>1, <2>2, <2>5 DEF WireInv, d
<1> QED
  BY <1>3, <1>4

LEMMA WireInvariant == Spec => []WireInv
<1>1. WireInv /\ [Next]_<<sent, buf>> => WireInv'
  <2>1. Next => \E m \in AnyMsg : Sends(m)
    BY DEF Next, AnyMsg, Msg, get_data, reply_data
  <2>2. WireInv /\ UNCHANGED <<sent, buf>> => WireInv'
    BY DEF WireInv
  <2> QED
    BY <2>1, <2>2, SendsWire
<1> QED
  BY <1>1, InitWire, PTL DEF Spec

LEMMA ReadsMeaning == WireInv => parse_telegram(buf) = Coalesced(sent)
<1> SUFFICES ASSUME WireInv PROVE parse_telegram(buf) = Coalesced(sent)
  OBVIOUS
<1> DEFINE c == Coalesced(sent)
<1>1. Shaped(c) /\ buf = make_telegram(c)
  BY DEF WireInv
<1> HIDE DEF c
<1>2. parse_telegram(buf) = Message(c.type, c.act, c.ss, c.vip)
  BY <1>1, TelegramFields DEF parse_telegram, Shaped, Message
<1> QED
  BY <1>1, <1>2 DEF Shaped, c

(* The closed form of what several telegrams mean is protobuf's merge, for    *)
(* any number of them (parse_telegram).                                       *)
THEOREM CoalescedIsMergeHolds == Spec => []CoalescedIsMerge
<1>1. WireInv => CoalescedIsMerge
  BY ReadsMeaning DEF CoalescedIsMerge
<1> QED
  BY <1>1, WireInvariant, PTL

(* A message among any number of heartbeats is read as it was sent.           *)
THEOREM HeartbeatsTransparentHolds == Spec => []HeartbeatsTransparent
<1>1. WireInv => HeartbeatsTransparent
  BY ReadsMeaning, ReadAlone DEF HeartbeatsTransparent, WireInv
<1> QED
  BY <1>1, WireInvariant, PTL

(* An order to take is never made up of other messages, although GET_RES is   *)
(* the zero that no telegram writes.                                          *)
THEOREM GetResIsGenuineHolds == Spec => []GetResIsGenuine
<1>1. WireInv => GetResIsGenuine
  BY ReadsMeaning, GetResGenuine DEF GetResIsGenuine, WireInv, Range
<1> QED
  BY <1>1, WireInvariant, PTL

-----------------------------------------------------------------------------
(* The log.  A date that is in the file, or that a call has read from it, is  *)
(* old enough whoever has written it and however many days have passed since. *)

Points == {"idle", "date", "write", "read", "unlink", "old", "remove", "append"}

DatesOK ==
    /\ today \in Nat
    /\ tmp \in Int /\ tmp <= today - max_keep_day
    /\ ago \in [Threads -> Int]
    /\ \A t \in Threads : ago[t] <= today - max_keep_day

LEMMA NoDates ==
    /\ Log!NoDay \in Int /\ Log!Empty \in Int
    /\ \A n \in Nat : Log!NoDay <= n - max_keep_day /\ Log!Empty <= n - max_keep_day
BY LogAssumption DEF Log!NoDay, Log!Empty

LEMMA DatesStep == DatesOK /\ [Log!Next]_Log!vars => DatesOK'
<1> SUFFICES ASSUME DatesOK, [Log!Next]_Log!vars PROVE DatesOK'
  OBVIOUS
<1> USE NoDates, LogAssumption DEF DatesOK
<1>1. CASE Log!Midnight
  BY <1>1 DEF Log!Midnight, Log!file
<1>2. ASSUME NEW t \in Threads, Log!Begin(t) PROVE DatesOK'
  BY <1>2 DEF Log!Begin, Log!file, Log!world
<1>3. ASSUME NEW t \in Threads, Log!DateOpens(t) PROVE DatesOK'
  BY <1>3 DEF Log!DateOpens, Log!world
<1>4. ASSUME NEW t \in Threads, Log!DateWrites(t) PROVE DatesOK'
  BY <1>4 DEF Log!DateWrites, Log!world
<1>5. ASSUME NEW t \in Threads, Log!ReadsDate(t) PROVE DatesOK'
  BY <1>5 DEF Log!ReadsDate, Log!file, Log!world
<1>6. ASSUME NEW t \in Threads, Log!Unlinks(t) PROVE DatesOK'
  BY <1>6 DEF Log!Unlinks, Log!world
<1>7. ASSUME NEW t \in Threads,
             \/ Log!OpensOld(t) \/ Log!NoOld(t) \/ Log!RemovesOld(t) \/ Log!RemoveFails(t)
             \/ Log!Appends(t) \/ Log!Exits(t)
      PROVE  DatesOK'
  BY <1>7 DEF Log!OpensOld, Log!NoOld, Log!RemovesOld, Log!RemoveFails, Log!Appends,
              Log!Exits, Log!file, Log!world
<1>8. CASE UNCHANGED Log!vars
  BY <1>8 DEF Log!vars, Log!file, Log!world
<1> QED
  BY <1>1, <1>2, <1>3, <1>4, <1>5, <1>6, <1>7, <1>8 DEF Log!Next

LEMMA DatesInvariant == Log!Spec => []DatesOK
<1>1. Log!Init => DatesOK
  BY NoDates, LogAssumption DEF Log!Init, DatesOK
<1> QED
  BY <1>1, DatesStep, PTL DEF Log!Spec

(* No log is deleted before its time, for any number of threads and days and  *)
(* however their calls share the date file (hb_log).                          *)
THEOREM KeepsRecentHolds == Log!Spec => KeepsRecent
<1>1. DatesOK /\ [Log!Next]_Log!vars
        => [\A d \in logs \ logs' : today - d >= max_keep_day]_Log!vars
  <2> SUFFICES ASSUME DatesOK, Log!Next, NEW d \in logs \ logs'
               PROVE  today - d >= max_keep_day
    OBVIOUS
  <2>1. PICK t \in Threads : Log!RemovesOld(t)
    BY DEF Log!Next, Log!Midnight, Log!Begin, Log!DateOpens, Log!DateWrites,
           Log!ReadsDate, Log!Unlinks, Log!OpensOld, Log!NoOld, Log!RemoveFails,
           Log!Appends, Log!Exits
  <2>2. d = ago[t]
    BY <2>1 DEF Log!RemovesOld
  <2> QED
    BY <2>2, LogAssumption DEF DatesOK
<1> QED
  BY <1>1, DatesInvariant, PTL DEF Log!Spec, KeepsRecent, Log!KeepsRecent

(* The calls that are about to delete a log which is still there.  The first  *)
(* of those that want the same log pays for the others, |Threads| at most;    *)
(* one that fails pays for itself.                                            *)
Removers == { t \in Threads : pc[t] = "remove" /\ ago[t] \in logs }

Paid == Cardinality(Threads) * removals + failures

LeaksInv ==
    /\ pc \in [Threads -> Points]
    /\ leaked \in Nat /\ removals \in Nat /\ failures \in Nat
    /\ leaked <= Paid + Cardinality(Removers)

LEMMA RemoversFinite ==
    /\ Cardinality(Threads) \in Nat
    /\ IsFiniteSet(Removers) /\ Cardinality(Removers) \in Nat
    /\ Cardinality(Removers) <= Cardinality(Threads)
    /\ IsFiniteSet(Removers') /\ Cardinality(Removers') \in Nat
    /\ Cardinality(Removers') <= Cardinality(Threads)
<1>1. Removers \in SUBSET Threads /\ Removers' \in SUBSET Threads
  BY DEF Removers
<1> QED
  BY <1>1, LogAssumption, FS_Subset, FS_CardinalityType

LEMMA PaidNat ==
    ASSUME LeaksInv
    PROVE  /\ Paid \in Nat
           /\ removals' = removals + 1 /\ failures' = failures
                => Paid' = Paid + Cardinality(Threads)
           /\ removals' = removals /\ failures' = failures + 1 => Paid' = Paid + 1
<1> DEFINE n == Cardinality(Threads)
<1>1. n \in Nat /\ removals \in Nat /\ failures \in Nat
  BY RemoversFinite DEF LeaksInv
<1>2. n * removals \in Nat /\ n * (removals + 1) = n * removals + n
  <2> HIDE DEF n
  <2> QED BY <1>1
<1>3. Paid = n * removals + failures /\ Paid' = n * removals' + failures'
  BY DEF Paid
<1> HIDE DEF n
<1>4. Paid \in Nat
  BY <1>1, <1>2, <1>3
<1>5. removals' = removals + 1 /\ failures' = failures => Paid' = Paid + n
  BY <1>1, <1>2, <1>3
<1>6. removals' = removals /\ failures' = failures + 1 => Paid' = Paid + 1
  BY <1>1, <1>2, <1>3
<1> QED
  BY <1>4, <1>5, <1>6 DEF n

(* A step that leaks nothing and loses no remover keeps the bound.            *)
LEMMA MoreRemovers ==
    ASSUME LeaksInv, pc' \in [Threads -> Points],
           Removers \subseteq Removers', UNCHANGED <<leaked, removals, failures>>
    PROVE  LeaksInv'
<1>1. Cardinality(Removers) <= Cardinality(Removers')
  BY RemoversFinite, FS_Subset
<1>2. Paid \in Nat /\ Paid' = Paid
  BY PaidNat DEF Paid
<1> QED
  BY <1>1, <1>2, RemoversFinite DEF LeaksInv

LEMMA OpensOldLeaks ==
    ASSUME LeaksInv, NEW t \in Threads, Log!OpensOld(t)
    PROVE  LeaksInv'
<1>1. /\ pc' \in [Threads -> Points] /\ pc[t] = "old" /\ logs' = logs /\ ago' = ago
      /\ removals' = removals /\ failures' = failures
      /\ ago[t] \in logs /\ leaked' = leaked + 1
  BY DEF Log!OpensOld, Log!Goes, Log!file, Log!world, LeaksInv, Points
<1>2. Removers' = Removers \cup {t} /\ t \notin Removers
  BY <1>1 DEF Log!OpensOld, Log!Goes, Removers, LeaksInv
<1>3. Cardinality(Removers') = Cardinality(Removers) + 1
  BY <1>2, RemoversFinite, FS_AddElement
<1>4. Paid \in Nat /\ Paid' = Paid
  BY <1>1, PaidNat DEF Paid
<1> QED
  BY <1>1, <1>3, <1>4, RemoversFinite DEF LeaksInv

LEMMA RemovesOldLeaks ==
    ASSUME LeaksInv, NEW t \in Threads, Log!RemovesOld(t)
    PROVE  LeaksInv'
<1>1. /\ pc' \in [Threads -> Points] /\ pc[t] = "remove" /\ ago' = ago
      /\ leaked' = leaked /\ logs' = logs \ {ago[t]}
  BY DEF Log!RemovesOld, Log!Goes, Log!file, LeaksInv, Points
<1>2. CASE ago[t] \in logs
  <2>1. removals' = removals + 1 /\ failures' = failures
    BY <1>2 DEF Log!RemovesOld
  <2>2. Paid \in Nat /\ Paid' = Paid + Cardinality(Threads)
    BY <2>1, PaidNat
  <2> QED
    BY <1>1, <2>1, <2>2, RemoversFinite DEF LeaksInv
<1>3. CASE ago[t] \notin logs
  <2>1. UNCHANGED <<leaked, removals, failures>> /\ logs' = logs
    BY <1>1, <1>3 DEF Log!RemovesOld
  <2>2. Removers \subseteq Removers'
    BY <1>1, <1>3, <2>1 DEF Log!RemovesOld, Log!Goes, Removers, LeaksInv
  <2> QED
    BY <1>1, <2>1, <2>2, MoreRemovers
<1> QED
  BY <1>2, <1>3

LEMMA RemoveFailsLeaks ==
    ASSUME LeaksInv, NEW t \in Threads, Log!RemoveFails(t)
    PROVE  LeaksInv'
<1>1. /\ pc' \in [Threads -> Points] /\ pc[t] = "remove" /\ UNCHANGED <<ago, leaked, logs>>
      /\ ago[t] \in logs /\ removals' = removals /\ failures' = failures + 1
  BY DEF Log!RemoveFails, Log!Goes, Log!file, LeaksInv, Points
<1>2. Removers \ {t} = Removers' /\ t \in Removers
  BY <1>1 DEF Log!RemoveFails, Log!Goes, Removers, LeaksInv
<1>3. Cardinality(Removers') = Cardinality(Removers) - 1
  BY <1>2, RemoversFinite, FS_RemoveElement
<1>4. Paid \in Nat /\ Paid' = Paid + 1
  BY <1>1, PaidNat
<1> QED
  BY <1>1, <1>3, <1>4, RemoversFinite DEF LeaksInv

LEMMA LeaksStep == DatesOK /\ LeaksInv /\ [Log!Next]_Log!vars => LeaksInv'
<1> SUFFICES ASSUME DatesOK, LeaksInv, [Log!Next]_Log!vars PROVE LeaksInv'
  OBVIOUS
<1>1. CASE Log!Midnight \/ UNCHANGED Log!vars
  <2>1. UNCHANGED <<pc, ago, logs, leaked, removals, failures>>
    BY <1>1 DEF Log!Midnight, Log!vars, Log!world
  <2> QED
    BY <2>1, MoreRemovers DEF LeaksInv, Removers
<1>2. ASSUME NEW t \in Threads,
             \/ Log!Begin(t) \/ Log!DateOpens(t) \/ Log!DateWrites(t)
             \/ Log!ReadsDate(t) \/ Log!Unlinks(t)
      PROVE  LeaksInv'
  <2>1. UNCHANGED <<logs, leaked, removals, failures>>
    BY <1>2
    DEF Log!Begin, Log!DateOpens, Log!DateWrites, Log!ReadsDate, Log!Unlinks, Log!world
  <2>2. /\ pc' \in [Threads -> Points] /\ pc[t] # "remove"
        /\ \A u \in Threads \ {t} : pc'[u] = pc[u]
    BY <1>2
    DEF Log!Begin, Log!DateOpens, Log!DateWrites, Log!ReadsDate, Log!Unlinks, Log!Goes,
        LeaksInv, Points
  <2>3. \A u \in Threads \ {t} : ago'[u] = ago[u]
    BY <1>2
    DEF Log!Begin, Log!DateOpens, Log!DateWrites, Log!ReadsDate, Log!Unlinks, DatesOK
  <2> QED
    BY <2>1, <2>2, <2>3, MoreRemovers DEF Removers
<1>3. ASSUME NEW t \in Threads, Log!NoOld(t) \/ Log!Appends(t) \/ Log!Exits(t)
      PROVE  LeaksInv'
  <2>1. /\ pc' \in [Threads -> Points] /\ pc[t] # "remove"
        /\ \A u \in Threads \ {t} : pc'[u] = pc[u]
        /\ UNCHANGED <<ago, leaked, removals, failures>> /\ logs \subseteq logs'
    BY <1>3 DEF Log!NoOld, Log!Appends, Log!Exits, Log!Goes, Log!file, Log!world, LeaksInv, Points
  <2> QED
    BY <2>1, MoreRemovers DEF Removers
<1> QED
  BY <1>1, <1>2, <1>3, OpensOldLeaks, RemovesOldLeaks, RemoveFailsLeaks DEF Log!Next

(* The files that hb_log forgets to close are bounded by the logs that have   *)
(* gone and the attempts that failed, for any number of threads, days and     *)
(* lines (hb_log).                                                            *)
THEOREM LeaksBoundedHolds == Log!Spec => []LeaksBounded
<1>1. Log!Init => LeaksInv
  BY RemoversFinite DEF Log!Init, LeaksInv, Points, Paid
<1>2. LeaksInv => LeaksBounded
  <2> SUFFICES ASSUME LeaksInv PROVE LeaksBounded
    OBVIOUS
  <2> DEFINE R == { t \in Threads : pc[t] = "remove" }
  <2>1. R \in SUBSET Threads /\ Removers \in SUBSET R
    BY DEF Removers
  <2>2. Cardinality(R) \in Nat /\ Cardinality(Removers) <= Cardinality(R)
    BY <2>1, LogAssumption, FS_Subset, FS_CardinalityType
  <2> HIDE DEF R
  <2>3. leaked <= Paid + Cardinality(R)
    BY <2>2, PaidNat, RemoversFinite DEF LeaksInv
  <2> QED
    BY <2>3 DEF LeaksBounded, Log!LeaksBounded, Paid, R, Cardinality, Log!Cardinality
<1> QED
  BY <1>1, <1>2, LeaksStep, DatesInvariant, PTL DEF Log!Spec

-----------------------------------------------------------------------------
(* The configuration files.  A line is a sequence of words; what the code     *)
(* looks for in it, it finds at an index.                                     *)

(* The literals are strings too, but the provers do not know that.            *)
Word ==
    STRING \cup {SP, TAB, HASH, "newline", "return", "node", "a", "b", "s", "t",
                 "IPaddr::", "vip", "/", "24", "eth0", ":", "none", "0", "1", "SendArp::"}

LEMMA LinesAreWords ==
    /\ Lines \subseteq Seq(Word) /\ Host \subseteq Word
    /\ Tails \subseteq Seq(Word)
<1>1. STRING \subseteq Word
  BY DEF Word
<1>2. ASSUME NEW s \in Seq(STRING) PROVE s \in Seq(Word)
  BY <1>1, SeqMonotonic
<1> QED
  BY <1>1, <1>2, LinesAssumption, TailsAssumption

LEMMA NotEmpty == ASSUME NEW s, Len(s) # 0 PROVE s # <<>>
OBVIOUS

LEMMA FirstExists ==
    ASSUME NEW n \in Nat, NEW S \in SUBSET (1..n), S # {}
    PROVE  \E k \in S : \A j \in S : k <= j
<1> DEFINE Q == {n + 1 - i : i \in S}
<1>0. \A i \in S : i \in Int /\ 1 <= i /\ i <= n
  OBVIOUS
<1>1. Q \in SUBSET (1..n) /\ Q # {}
  <2>1. \A i \in S : n + 1 - i \in 1..n
    BY <1>0
  <2> QED
    BY <2>1
<1>2. LastOf(Q) \in Q /\ \A j \in Q : j <= LastOf(Q)
  <2> HIDE DEF Q
  <2> QED
    BY <1>1, LastExists
<1>3. PICK k \in S : LastOf(Q) = n + 1 - k
  BY <1>2
<1>4. ASSUME NEW j \in S PROVE k <= j
  <2>1. n + 1 - j <= n + 1 - k
    BY <1>2, <1>3
  <2> QED
    BY <1>0, <2>1
<1> QED
  BY <1>4

LEMMA MinMaxAre ==
    ASSUME NEW S, \A j \in S : j \in Int, NEW k \in S
    PROVE  /\ (\A j \in S : k <= j) => HaCf!Min(S) = k /\ HaRes!Min(S) = k
           /\ (\A j \in S : j <= k) => HaCf!Max(S) = k /\ HaRes!Max(S) = k
<1>1. ASSUME \A j \in S : k <= j PROVE HaCf!Min(S) = k /\ HaRes!Min(S) = k
  <2> DEFINE x == CHOOSE x \in S : \A y \in S : x <= y
  <2>1. x \in S /\ \A y \in S : x <= y
    BY <1>1
  <2> HIDE DEF x
  <2>2. x = k
    BY <1>1, <2>1
  <2> QED
    BY <2>2 DEF HaCf!Min, HaRes!Min, x
<1>2. ASSUME \A j \in S : j <= k PROVE HaCf!Max(S) = k /\ HaRes!Max(S) = k
  <2> DEFINE x == CHOOSE x \in S : \A y \in S : x >= y
  <2>0. \A y \in S : k >= y
    BY <1>2
  <2>1. x \in S /\ \A y \in S : x >= y
    BY <2>0
  <2> HIDE DEF x
  <2>2. x = k
    BY <1>2, <2>1
  <2> QED
    BY <2>2 DEF HaCf!Max, HaRes!Max, x
<1> QED
  BY <1>1, <1>2

LEMMA FirstIs ==
    ASSUME NEW s, NEW t, Len(s) \in Nat, NEW k \in 1..Len(s), s[k] = t,
           \A i \in 1..(k - 1) : s[i] # t
    PROVE  HaCf!First(s, t) = k /\ HaRes!IndexOf(s, t) = k
<1> DEFINE I == {i \in 1..Len(s) : s[i] = t}
<1>1. k \in I /\ \A i \in I : i \in Int /\ k <= i
  OBVIOUS
<1>2. HaCf!SelectInSeq(s, LAMBDA x : x = t) = k /\ HaRes!SelectInSeq(s, LAMBDA x : x = t) = k
  <2> HIDE DEF I
  <2>1. HaCf!Min(I) = k /\ HaRes!Min(I) = k
    BY <1>1, MinMaxAre
  <2> QED
    BY <1>1, <2>1 DEF HaCf!SelectInSeq, HaRes!SelectInSeq, I
<1> QED
  BY <1>2 DEF HaCf!First, HaRes!IndexOf

LEMMA LastIndexIs ==
    ASSUME NEW s, NEW t, Len(s) \in Nat, NEW k \in 1..Len(s), s[k] = t,
           \A i \in (k + 1)..Len(s) : s[i] # t
    PROVE  HaRes!IndexOfLast(s, t) = k
<1> DEFINE I == {i \in 1..Len(s) : s[i] = t}
<1>1. k \in I /\ \A i \in I : i \in Int /\ i <= k
  OBVIOUS
<1>2. HaRes!SelectLastInSeq(s, LAMBDA x : x = t) = k
  <2> HIDE DEF I
  <2>1. HaRes!Max(I) = k
    BY <1>1, MinMaxAre
  <2> QED
    BY <1>1, <2>1 DEF HaRes!SelectLastInSeq, I
<1> QED
  BY <1>2 DEF HaRes!IndexOfLast

LEMMA SubSeqIs ==
    ASSUME NEW s \in Seq(Word), NEW m \in Nat, NEW n \in Nat, m + n <= Len(s)
    PROVE  /\ SubSeq(s, m + 1, m + n) \in Seq(Word)
           /\ Len(SubSeq(s, m + 1, m + n)) = n
           /\ \A i \in 1..n : SubSeq(s, m + 1, m + n)[i] = s[m + i]
<1>1. /\ m + 1 \in Int /\ m + n \in Int
      /\ \A i \in (m + 1)..(m + n) : s[i] \in Word
  BY LenProperties, ElementOfSeq
<1> DEFINE u == SubSeq(s, m + 1, m + n)
<1>2. /\ u \in Seq(Word)
      /\ Len(u) = IF m + 1 <= m + n THEN m + n - (m + 1) + 1 ELSE 0
      /\ \A i \in 1..m + n - (m + 1) + 1 : u[i] = s[m + 1 + i - 1]
  BY <1>1, SubSeqProperties
<1> HIDE DEF u
<1>3. Len(u) = n
  BY <1>2
<1>4. ASSUME NEW i \in 1..n PROVE u[i] = s[m + i]
  <2>1. i \in 1..m + n - (m + 1) + 1 /\ m + 1 + i - 1 = m + i
    OBVIOUS
  <2> QED
    BY <1>2, <2>1
<1> QED
  BY <1>2, <1>3, <1>4 DEF u

LEMMA Joined ==
    ASSUME NEW p \in Seq(Word), NEW r \in Seq(Word)
    PROVE  /\ p \o r \in Seq(Word) /\ Len(p \o r) = Len(p) + Len(r)
           /\ \A i \in 1..Len(p) : (p \o r)[i] = p[i]
           /\ \A i \in 1..Len(r) : (p \o r)[Len(p) + i] = r[i]
<1> DEFINE s == p \o r
<1>1. /\ s \in Seq(Word) /\ Len(s) = Len(p) + Len(r)
      /\ \A i \in 1..Len(p) + Len(r) : s[i] = IF i <= Len(p) THEN p[i] ELSE r[i - Len(p)]
      /\ Len(p) \in Nat /\ Len(r) \in Nat
  BY ConcatProperties, LenProperties
<1> HIDE DEF s
<1>2. \A i \in 1..Len(p) : s[i] = p[i]
  BY <1>1
<1>3. ASSUME NEW i \in 1..Len(r) PROVE s[Len(p) + i] = r[i]
  <2>1. /\ Len(p) + i \in 1..Len(p) + Len(r) /\ ~(Len(p) + i <= Len(p))
        /\ Len(p) + i - Len(p) = i
    BY <1>1
  <2> QED
    BY <1>1, <2>1
<1> QED
  BY <1>1, <1>2, <1>3 DEF s

(* s consists of p, then t, then q.                                           *)
Cut(s, p, t, q) ==
    /\ s \in Seq(Word) /\ p \in Seq(Word) /\ q \in Seq(Word) /\ t \in Word
    /\ Len(s) = Len(p) + 1 + Len(q)
    /\ \A i \in 1..Len(p) : s[i] = p[i]
    /\ s[Len(p) + 1] = t
    /\ \A i \in 1..Len(q) : s[Len(p) + 1 + i] = q[i]

LEMMA CutAt ==
    ASSUME NEW s, NEW p, NEW t, NEW q, Cut(s, p, t, q), \A i \in 1..Len(p) : p[i] # t
    PROVE  /\ HaCf!Contains(s, t) /\ HaCf!Before(s, t) = p /\ HaCf!After(s, t) = q
           /\ HaRes!Contains(s, t) /\ HaRes!Before(s, t) = p /\ HaRes!After(s, t) = q
<1> DEFINE k == Len(p) + 1
<1>0. /\ s \in Seq(Word) /\ p \in Seq(Word) /\ q \in Seq(Word) /\ t \in Word
      /\ Len(p) \in Nat /\ Len(q) \in Nat /\ Len(s) \in Nat
  BY LenProperties DEF Cut
<1>1. /\ s \in Seq(Word) /\ p \in Seq(Word) /\ q \in Seq(Word) /\ t \in Word
      /\ Len(p) \in Nat /\ Len(q) \in Nat /\ Len(s) \in Nat
      /\ Len(s) = k + Len(q)
      /\ \A i \in 1..Len(p) : s[i] = p[i]
      /\ s[k] = t
      /\ \A i \in 1..Len(q) : s[k + i] = q[i]
  BY <1>0 DEF Cut
<1>2. k \in 1..Len(s) /\ s[k] = t /\ \A i \in 1..(k - 1) : s[i] # t
  <2>1. k - 1 = Len(p) /\ k \in 1..Len(s)
    BY <1>1
  <2> QED
    BY <1>1, <2>1
<1>3. HaCf!First(s, t) = k /\ HaRes!IndexOf(s, t) = k
  <2> HIDE DEF k
  <2> QED
    BY <1>1, <1>2, FirstIs
<1>4. HaCf!Contains(s, t) /\ HaRes!Contains(s, t)
  BY <1>2 DEF HaCf!Contains, HaRes!Contains
<1>5. SubSeq(s, k + 1, Len(s)) = q
  <2> DEFINE u == SubSeq(s, k + 1, k + Len(q))
  <2>1. u \in Seq(Word) /\ Len(u) = Len(q) /\ \A i \in 1..Len(q) : u[i] = s[k + i]
    BY <1>1, SubSeqIs
  <2> HIDE DEF u
  <2>2. \A i \in 1..Len(u) : u[i] = q[i]
    BY <1>1, <2>1
  <2>3. u = q
    BY <1>1, <2>1, <2>2, SeqEqual
  <2> QED
    BY <1>1, <2>3 DEF u
<1>6. SubSeq(s, 1, k - 1) = p
  <2> DEFINE u == SubSeq(s, 0 + 1, 0 + Len(p))
  <2>1. u \in Seq(Word) /\ Len(u) = Len(p) /\ \A i \in 1..Len(p) : u[i] = s[0 + i]
    BY <1>1, SubSeqIs
  <2> HIDE DEF u
  <2>2. \A i \in 1..Len(u) : u[i] = p[i]
    BY <1>1, <2>1
  <2>3. u = p
    BY <1>1, <2>1, <2>2, SeqEqual
  <2>4. k - 1 = 0 + Len(p)
    BY <1>1
  <2> QED
    BY <2>3, <2>4 DEF u
<1> HIDE DEF k
<1> QED
  BY <1>3, <1>4, <1>5, <1>6 DEF HaCf!Before, HaCf!After, HaRes!Before, HaRes!After

LEMMA CutExists ==
    ASSUME NEW s \in Seq(Word), NEW t \in Word
    PROVE  \/ /\ \A i \in 1..Len(s) : s[i] # t
              /\ ~HaCf!Contains(s, t) /\ HaCf!Before(s, t) = s
              /\ ~HaRes!Contains(s, t) /\ HaRes!Before(s, t) = s
           \/ \E p, q \in Seq(Word) : Cut(s, p, t, q) /\ \A i \in 1..Len(p) : p[i] # t
<1>1. CASE \A i \in 1..Len(s) : s[i] # t
  BY <1>1 DEF HaCf!Contains, HaCf!Before, HaRes!Contains, HaRes!Before
<1>2. CASE \E i \in 1..Len(s) : s[i] = t
  <2> DEFINE I == {i \in 1..Len(s) : s[i] = t}
  <2>1. PICK k \in I : \A i \in I : k <= i
    <3>1. Len(s) \in Nat /\ I \in SUBSET (1..Len(s)) /\ I # {}
      BY <1>2, LenProperties
    <3> QED
      BY <3>1, FirstExists
  <2>2. Len(s) \in Nat /\ k \in 1..Len(s) /\ s[k] = t
    BY LenProperties
  <2> DEFINE p == SubSeq(s, 0 + 1, 0 + (k - 1))
             q == SubSeq(s, k + 1, k + (Len(s) - k))
  <2>3. p \in Seq(Word) /\ Len(p) = k - 1 /\ \A i \in 1..(k - 1) : p[i] = s[0 + i]
    <3>1. 0 \in Nat /\ k - 1 \in Nat /\ 0 + (k - 1) <= Len(s)
      BY <2>2
    <3> QED
      BY <3>1, SubSeqIs
  <2>4. /\ q \in Seq(Word) /\ Len(q) = Len(s) - k
        /\ \A i \in 1..(Len(s) - k) : q[i] = s[k + i]
    <3>1. k \in Nat /\ Len(s) - k \in Nat /\ k + (Len(s) - k) <= Len(s)
      BY <2>2
    <3> QED
      BY <3>1, SubSeqIs
  <2> HIDE DEF p, q
  <2>5. Len(p) = k - 1 /\ Len(p) + 1 = k /\ \A i \in 1..Len(p) : i \in Int /\ i < k /\ p[i] = s[i]
    BY <2>2, <2>3
  <2>6. Cut(s, p, t, q)
    <3>1. Len(q) = Len(s) - k /\ Len(s) = k + Len(q)
      BY <2>2, <2>4
    <3>2. /\ Len(s) = Len(p) + 1 + Len(q) /\ s[Len(p) + 1] = t
          /\ \A i \in 1..Len(q) : s[Len(p) + 1 + i] = q[i]
      BY <2>2, <2>4, <2>5, <3>1
    <3> QED
      BY <2>3, <2>4, <2>5, <3>2 DEF Cut
  <2>7. ASSUME NEW i \in 1..Len(p), p[i] = t PROVE FALSE
    <3>1. i \in Int /\ i < k /\ i \in 1..Len(s) /\ k \in Int
      BY <2>2, <2>5
    <3>2. i \in I
      BY <2>5, <2>7, <3>1
    <3>3. k <= i
      BY <2>1, <3>2
    <3> QED
      BY <3>1, <3>3
  <2> QED
    BY <2>3, <2>4, <2>6, <2>7
<1> QED
  BY <1>1, <1>2

(* c without spaces at its ends, and then only spaces.                        *)
Padded(s, c) ==
    /\ s \in Seq(Word) /\ c \in Seq(Word) /\ Len(c) \in 1..Len(s)
    /\ \A i \in 1..Len(c) : s[i] = c[i]
    /\ \A i \in (Len(c) + 1)..Len(s) : s[i] = SP
    /\ c[1] # SP /\ c[Len(c)] # SP

LEMMA PaddedHead ==
    ASSUME NEW s, NEW c, Padded(s, c)
    PROVE  c[1] = s[1] /\ s[1] # SP
<1>1. Len(s) \in Nat /\ Len(c) \in 1..Len(s)
  BY LenProperties DEF Padded
<1>2. 1 \in 1..Len(c)
  BY <1>1
<1> QED
  BY <1>2 DEF Padded

LEMMA ClearPadded ==
    ASSUME NEW s, NEW c, Padded(s, c)
    PROVE  HaCf!ClearHeadTailSpace(s) = c
<1> DEFINE word == {i \in 1..Len(s) : s[i] # SP}
           k == Len(c)
<1>1. /\ s \in Seq(Word) /\ c \in Seq(Word) /\ Len(s) \in Nat /\ k \in 1..Len(s)
      /\ s[1] = c[1] /\ s[k] = c[k] /\ 1 \in 1..Len(s)
      /\ \A i \in word : i \in Int /\ 1 <= i
  BY LenProperties DEF Padded
<1>2. 1 \in word /\ k \in word
  BY <1>1 DEF Padded
<1>3. \A i \in word : i <= k
  BY <1>1 DEF Padded
<1>4. HaCf!Min(word) = 1 /\ HaCf!Max(word) = k
  <2> HIDE DEF word, k
  <2> QED
    BY <1>1, <1>2, <1>3, MinMaxAre
<1>5. HaCf!ClearHeadTailSpace(s) = SubSeq(s, 1, k)
  <2>1. word # {}
    BY <1>2
  <2> QED
    BY <1>4, <2>1 DEF HaCf!ClearHeadTailSpace, SP, HaCf!SP
<1>6. SubSeq(s, 1, k) = c
  <2> DEFINE u == SubSeq(s, 0 + 1, 0 + k)
  <2>1. u \in Seq(Word) /\ Len(u) = k /\ \A i \in 1..k : u[i] = s[0 + i]
    BY <1>1, SubSeqIs
  <2> HIDE DEF u
  <2>2. \A i \in 1..Len(u) : u[i] = c[i]
    BY <2>1 DEF Padded
  <2>3. u = c
    BY <1>1, <2>1, <2>2, SeqEqual
  <2> QED
    BY <1>1, <2>3 DEF u
<1> QED
  BY <1>5, <1>6

LEMMA ClearIsPadded ==
    ASSUME NEW s \in Seq(Word), s # <<>>, s[1] # SP
    PROVE  Padded(s, HaCf!ClearHeadTailSpace(s))
<1> DEFINE word == {i \in 1..Len(s) : s[i] # SP}
<1>1. Len(s) \in Nat /\ 1 \in 1..Len(s) /\ 1 \in word /\ word \in SUBSET (1..Len(s))
  BY LenProperties, EmptySeq
<1>2. LastOf(word) \in word /\ \A j \in word : j <= LastOf(word)
  <2> HIDE DEF word
  <2> QED
    BY <1>1, LastExists
<1>3. PICK k \in word : \A j \in word : j <= k
  BY <1>2
<1> DEFINE c == SubSeq(s, 0 + 1, 0 + k)
<1>4. c \in Seq(Word) /\ Len(c) = k /\ \A i \in 1..k : c[i] = s[0 + i]
  <2>1. 0 \in Nat /\ k \in Nat /\ 0 + k <= Len(s)
    BY <1>1
  <2> QED
    BY <2>1, SubSeqIs
<1> HIDE DEF c
<1>5. Padded(s, c)
  <2>1. \A i \in (k + 1)..Len(s) : s[i] = SP
    <3> SUFFICES ASSUME NEW i \in (k + 1)..Len(s), s[i] # SP PROVE FALSE
      OBVIOUS
    <3>1. i \in 1..Len(s) /\ ~(i <= k)
      BY <1>1
    <3> QED
      BY <1>3, <3>1
  <2>2. \A i \in 1..k : c[i] = s[i]
    BY <1>4
  <2>3. k \in 1..Len(s) /\ 1 \in 1..k /\ k \in 1..k /\ s[k] # SP
    BY <1>1
  <2> QED
    BY <1>4, <2>1, <2>2, <2>3 DEF Padded
<1> QED
  BY <1>5, ClearPadded

LEMMA ClearNothing == HaCf!ClearHeadTailSpace(<<>>) = <<>>
BY DEF HaCf!ClearHeadTailSpace

(* The part of a line before a comment.                                       *)
LEMMA TextBefore ==
    ASSUME NEW line \in Lines, NEW t, t = HaCf!Before(line, HASH)
    PROVE  /\ t \in Seq(Word) /\ Len(t) <= Len(line)
           /\ \A i \in 1..Len(t) : t[i] = line[i]
           /\ t # <<>> => t[1] = line[1] /\ t[1] \notin {SP, "node-backup"}
           /\ line[1] \in Word
<1>1. line \in Seq(Word) /\ Len(line) \in Nat \ {0} /\ line[1] \notin {SP, "node-backup"}
      /\ line[1] \in Word
  BY LinesAssumption, LinesAreWords, EmptySeq, ElementOfSeq
<1>2. t \in Seq(Word) /\ Len(t) <= Len(line) /\ \A i \in 1..Len(t) : t[i] = line[i]
  <2>1. CASE t = line
    BY <1>1, <2>1
  <2>2. ASSUME NEW p \in Seq(Word), NEW q \in Seq(Word), Cut(line, p, HASH, q),
               \A i \in 1..Len(p) : p[i] # HASH
        PROVE  t \in Seq(Word) /\ Len(t) <= Len(line) /\ \A i \in 1..Len(t) : t[i] = line[i]
    <3>1. t = p
      BY <2>2, CutAt
    <3> QED
      BY <1>1, <2>2, <3>1, LenProperties DEF Cut
  <2> QED
    <3>1. HASH \in Word
      BY DEF Word
    <3>2. \/ t = line
          \/ \E p, q \in Seq(Word) : Cut(line, p, HASH, q) /\ \A i \in 1..Len(p) : p[i] # HASH
      BY <1>1, <3>1, CutExists
    <3> QED
      BY <2>1, <2>2, <3>2
<1>3. t # <<>> => t[1] = line[1]
  BY <1>2, EmptySeq
<1> QED
  BY <1>1, <1>2, <1>3

(* A key that a line stores begins with the line's first word.                *)
LEMMA KeyHead ==
    ASSUME NEW t \in Seq(Word), t # <<>> => t[1] # SP,
           NEW b \in Word, HaCf!Contains(t, b),
           NEW key, key = HaCf!ClearHeadTailSpace(HaCf!Before(t, b))
    PROVE  key = <<>> \/ (t # <<>> /\ key[1] = t[1])
<1>1. PICK p \in Seq(Word), q \in Seq(Word) : Cut(t, p, b, q) /\ \A i \in 1..Len(p) : p[i] # b
  BY CutExists
<1>2. HaCf!Before(t, b) = p
  BY <1>1, CutAt
<1>3. CASE p = <<>>
  BY <1>2, <1>3, ClearNothing
<1>4. CASE p # <<>>
  <2>1. t[1] = p[1] /\ t # <<>>
    <3>1. Len(p) \in Nat \ {0} /\ Len(t) = Len(p) + 1 + Len(q) /\ Len(q) \in Nat
      BY <1>1, <1>4, EmptySeq, LenProperties DEF Cut
    <3>2. 1 \in 1..Len(p) /\ Len(t) # 0
      BY <3>1
    <3> QED
      BY <1>1, <3>2 DEF Cut
  <2>2. Padded(p, key)
    BY <1>2, <1>4, <2>1, ClearIsPadded
  <2> QED
    BY <2>1, <2>2, PaddedHead
<1> QED
  BY <1>3, <1>4

(* The maps say the same of k.                                                *)
Same(m, n, k) == (k \in DOMAIN m <=> k \in DOMAIN n) /\ (k \in DOMAIN n => m[k] = n[k])
Maps(m, k, v) == k \in DOMAIN m /\ m[k] = v

LEMMA StoredIs ==
    ASSUME NEW m, NEW key, NEW v
    PROVE  /\ Maps(HaCf!Stored(m, key, v), HaCf!KeyOf(m, key), v)
           /\ \A k : k # HaCf!KeyOf(m, key) => Same(HaCf!Stored(m, key, v), m, k)
BY DEF HaCf!Stored, HaCf!Put, Maps, Same

LEMMA StoredElsewhere ==
    ASSUME NEW m, NEW key, NEW v, NEW k, k # key, k = <<"node-backup">> => key # <<"node">>
    PROVE  Same(HaCf!Stored(m, key, v), m, k)
<1>1. k # HaCf!KeyOf(m, key)
  BY DEF HaCf!KeyOf
<1> QED
  BY <1>1, StoredIs

(* A line leaves the keys alone that begin with another word than it does.    *)
LEMMA OtherLine ==
    ASSUME NEW m, NEW line \in Lines, NEW w,
           w # line[1], w = "node-backup" => line[1] # "node"
    PROVE  Same(HaCf!ParseLine(m, line), m, <<w>>)
<1> DEFINE t == HaCf!Before(line, HASH)
<1>1. t \in Seq(Word) /\ (t # <<>> => t[1] = line[1] /\ t[1] # SP)
  BY TextBefore
<1> HIDE DEF t
<1>2. ASSUME NEW n, NEW b \in {SP, TAB}
      PROVE  Same(HaCf!SplitAt(n, t, b), n, <<w>>)
  <2>1. CASE ~HaCf!Contains(t, b)
    BY <2>1 DEF HaCf!SplitAt, Same
  <2>2. CASE HaCf!Contains(t, b)
    <3> DEFINE key == HaCf!ClearHeadTailSpace(HaCf!Before(t, b))
    <3>1. b \in Word
      BY DEF Word
    <3>2. key = <<>> \/ (t # <<>> /\ key[1] = t[1])
      <4>1. t # <<>> => t[1] # SP
        BY <1>1
      <4> QED
        BY <1>1, <2>2, <3>1, <4>1, KeyHead
    <3> HIDE DEF key
    <3>3. key # <<w>> /\ (w = "node-backup" => key # <<"node">>)
      <4>1. \A v : <<v>>[1] = v /\ <<v>> # <<>>
        OBVIOUS
      <4>2. key # <<w>>
        BY <1>1, <3>2, <4>1
      <4>3. w = "node-backup" => key # <<"node">>
        BY <1>1, <3>2, <4>1
      <4> QED
        BY <4>2, <4>3
    <3>4. <<w>> = <<"node-backup">> => w = "node-backup"
      OBVIOUS
    <3>5. Same(HaCf!Stored(n, key, HaCf!ClearHeadTailSpace(HaCf!After(t, b))), n, <<w>>)
      BY <3>3, <3>4, StoredElsewhere
    <3> QED
      BY <2>2, <3>5 DEF HaCf!SplitAt, key
  <2> QED
    BY <2>1, <2>2
<1>3. HaCf!ParseLine(m, line) = HaCf!SplitAt(HaCf!SplitAt(m, t, SP), t, TAB)
  BY DEF HaCf!ParseLine, t, HaCf!HASH, HASH, HaCf!SP, SP, HaCf!TAB, TAB
<1>4. Same(HaCf!SplitAt(m, t, SP), m, <<w>>)
  BY <1>2
<1>5. Same(HaCf!ParseLine(m, line), HaCf!SplitAt(m, t, SP), <<w>>)
  BY <1>2, <1>3
<1> QED
  BY <1>4, <1>5 DEF Same

(* What a line stores whose first word is followed by the blank b, of which   *)
(* there is no other kind in front of it.                                     *)
LEMMA FirstField ==
    ASSUME NEW t, NEW c, Padded(t, c), NEW b \in {SP, TAB}, Len(c) >= 3, c[2] = b, c[1] # b,
           NEW d \in Seq(Word), Len(d) = Len(c) - 2, \A i \in 1..Len(d) : d[i] = c[i + 2],
           d[1] # SP
    PROVE  /\ HaCf!Contains(t, b)
           /\ HaCf!ClearHeadTailSpace(HaCf!Before(t, b)) = <<c[1]>>
           /\ HaCf!ClearHeadTailSpace(HaCf!After(t, b)) = d
<1>1. /\ t \in Seq(Word) /\ c \in Seq(Word) /\ Len(t) \in Nat /\ Len(c) \in Nat
      /\ Len(c) \in 1..Len(t) /\ Len(d) \in Nat
      /\ \A i \in 1..Len(c) : t[i] = c[i]
      /\ \A i \in (Len(c) + 1)..Len(t) : t[i] = SP
      /\ c[1] # SP /\ c[Len(c)] # SP
  BY LenProperties DEF Padded
<1>2. /\ t[1] = c[1] /\ t[2] = b /\ Len(t) - 2 \in Nat /\ Len(t) >= 3
      /\ c[1] \in Word /\ b \in Word
  <2>1. 1 \in 1..Len(c) /\ 2 \in 1..Len(c)
    BY <1>1
  <2>2. c[1] \in Word /\ c[2] \in Word
    BY <1>1, <2>1, ElementOfSeq
  <2> QED
    BY <1>1, <2>1, <2>2
<1> DEFINE q == SubSeq(t, 2 + 1, 2 + (Len(t) - 2))
           p == <<c[1]>>
<1>3. /\ q \in Seq(Word) /\ Len(q) = Len(t) - 2
      /\ \A i \in 1..Len(t) - 2 : q[i] = t[2 + i]
  <2>1. 2 \in Nat /\ Len(t) - 2 \in Nat /\ 2 + (Len(t) - 2) <= Len(t)
    BY <1>1, <1>2
  <2> QED
    BY <1>1, <2>1, SubSeqIs
<1>4. p \in Seq(Word) /\ Len(p) = 1 /\ p[1] = c[1]
  BY <1>2
<1> HIDE DEF p, q
<1>5. Cut(t, p, b, q) /\ \A i \in 1..Len(p) : p[i] # b
  <2>1. \A i \in 1..Len(p) : i = 1
    BY <1>4
  <2>2. \A i \in 1..Len(q) : t[Len(p) + 1 + i] = q[i]
    <3>1. Len(p) + 1 = 2 /\ Len(q) = Len(t) - 2
      BY <1>3, <1>4
    <3> QED
      BY <1>3, <3>1
  <2>3. Len(t) = Len(p) + 1 + Len(q) /\ t[Len(p) + 1] = b
    BY <1>1, <1>2, <1>3, <1>4
  <2> QED
    BY <1>1, <1>2, <1>3, <1>4, <2>1, <2>2, <2>3 DEF Cut
<1>6. HaCf!Contains(t, b) /\ HaCf!Before(t, b) = p /\ HaCf!After(t, b) = q
  BY <1>5, CutAt
<1>7. Padded(p, p)
  BY <1>1, <1>4 DEF Padded
<1>8. Padded(q, d)
  <2>1. Len(d) \in 1..Len(q)
    BY <1>1, <1>3
  <2>2. \A i \in 1..Len(d) : q[i] = d[i]
    <3> SUFFICES ASSUME NEW i \in 1..Len(d) PROVE q[i] = d[i]
      OBVIOUS
    <3>1. i \in 1..Len(t) - 2 /\ 2 + i \in 1..Len(c) /\ i + 2 = 2 + i
      BY <1>1
    <3> QED
      BY <1>1, <1>3, <3>1
  <2>3. \A i \in (Len(d) + 1)..Len(q) : q[i] = SP
    <3> SUFFICES ASSUME NEW i \in (Len(d) + 1)..Len(q) PROVE q[i] = SP
      OBVIOUS
    <3>1. i \in 1..Len(t) - 2 /\ 2 + i \in (Len(c) + 1)..Len(t)
      BY <1>1, <1>3
    <3> QED
      BY <1>1, <1>3, <3>1
  <2>4. d[Len(d)] = c[Len(c)]
    <3>1. Len(d) \in 1..Len(d) /\ Len(d) + 2 = Len(c)
      BY <1>1
    <3> QED
      BY <3>1
  <2> QED
    BY <1>1, <1>3, <2>1, <2>2, <2>3, <2>4 DEF Padded
<1> QED
  BY <1>6, <1>7, <1>8, ClearPadded DEF p

(* A text has a tab only where what it is without its spaces has one.         *)
LEMMA NoTab ==
    ASSUME NEW t, NEW c, Padded(t, c), \A i \in 1..Len(c) : c[i] # TAB
    PROVE  ~HaCf!Contains(t, TAB)
<1> SUFFICES ASSUME NEW i \in 1..Len(t), t[i] = TAB PROVE FALSE
  BY DEF HaCf!Contains
<1>1. Len(t) \in Nat /\ Len(c) \in 1..Len(t) /\ TAB # SP
  BY LenProperties DEF Padded, SP, TAB
<1>2. CASE i \in 1..Len(c)
  BY <1>2 DEF Padded
<1>3. CASE i \in (Len(c) + 1)..Len(t)
  BY <1>1, <1>3 DEF Padded
<1> QED
  BY <1>1, <1>2, <1>3

(* The part before the first space of a text that has none inside.            *)
LEMMA PaddedWithin ==
    ASSUME NEW t, NEW c, Padded(t, c), \A i \in 1..Len(c) : c[i] # SP,
           NEW p, NEW q, Cut(t, p, SP, q), \A i \in 1..Len(p) : p[i] # SP
    PROVE  p = c
<1>1. /\ t \in Seq(Word) /\ c \in Seq(Word) /\ p \in Seq(Word) /\ q \in Seq(Word)
      /\ Len(t) \in Nat /\ Len(p) \in Nat /\ Len(c) \in 1..Len(t) /\ Len(q) \in Nat
      /\ \A i \in 1..Len(c) : t[i] = c[i]
      /\ \A i \in (Len(c) + 1)..Len(t) : t[i] = SP
      /\ Len(t) = Len(p) + 1 + Len(q) /\ t[Len(p) + 1] = SP
      /\ \A i \in 1..Len(p) : t[i] = p[i]
  BY LenProperties DEF Padded, Cut
<1>2. Len(p) <= Len(c)
  <2> SUFFICES ASSUME Len(c) < Len(p) PROVE FALSE
    BY <1>1
  <2>1. Len(c) + 1 \in 1..Len(p) /\ Len(c) + 1 \in (Len(c) + 1)..Len(t)
    BY <1>1
  <2> QED
    BY <1>1, <2>1
<1>3. Len(p) >= Len(c)
  <2> SUFFICES ASSUME Len(p) < Len(c) PROVE FALSE
    BY <1>1
  <2>1. Len(p) + 1 \in 1..Len(c)
    BY <1>1
  <2> QED
    BY <1>1, <2>1
<1>4. Len(p) = Len(c)
  BY <1>1, <1>2, <1>3
<1>5. \A i \in 1..Len(p) : p[i] = c[i]
  BY <1>1, <1>4
<1> QED
  BY <1>1, <1>4, <1>5, SeqEqual

LEMMA TextOf ==
    ASSUME NEW line \in Lines, HaCf!Text(line) # <<>>
    PROVE  LET t == HaCf!Before(line, HASH)
               c == HaCf!Text(line)
           IN  /\ Padded(t, c) /\ t \in Seq(Word) /\ c \in Seq(Word) /\ c[1] # SP
               /\ \A i \in 1..Len(c) : c[i] = line[i]
<1> DEFINE t == HaCf!Before(line, HASH)
           c == HaCf!Text(line)
<1>1. c = HaCf!ClearHeadTailSpace(t)
  BY DEF HaCf!Text, HaCf!HASH, HASH
<1>2. t # <<>>
  BY <1>1, ClearNothing
<1>3. /\ t \in Seq(Word) /\ t[1] # SP /\ Len(t) \in Nat
      /\ \A i \in 1..Len(t) : t[i] = line[i]
  BY <1>2, TextBefore, LenProperties
<1> HIDE DEF t, c
<1>4. Padded(t, c)
  BY <1>1, <1>2, <1>3, ClearIsPadded
<1>5. c \in Seq(Word) /\ Len(c) \in 1..Len(t) /\ \A i \in 1..Len(c) : c[i] = t[i]
  BY <1>4 DEF Padded
<1>6. \A i \in 1..Len(c) : c[i] = line[i]
  BY <1>3, <1>5
<1>7. c[1] # SP
  BY <1>4, PaddedHead
<1> QED
  BY <1>3, <1>4, <1>5, <1>6, <1>7 DEF t, c

LEMMA ParseLineIs ==
    ASSUME NEW m, NEW line
    PROVE  HaCf!ParseLine(m, line)
             = HaCf!SplitAt(HaCf!SplitAt(m, HaCf!Before(line, HASH), SP),
                            HaCf!Before(line, HASH), TAB)
BY DEF HaCf!ParseLine, HaCf!HASH, HASH, HaCf!SP, SP, HaCf!TAB, TAB

(* A node line stores its third word: as the node if there is none yet, and   *)
(* as the backup if there is one.                                             *)
LEMMA SimpleLine ==
    ASSUME NEW m, NEW line \in Lines, line[1] = "node", HaCf!Simple(line)
    PROVE  /\ <<"node">> \in DOMAIN m =>
                /\ Same(HaCf!ParseLine(m, line), m, <<"node">>)
                /\ Maps(HaCf!ParseLine(m, line), <<"node-backup">>, <<line[3]>>)
           /\ <<"node">> \notin DOMAIN m =>
                /\ Maps(HaCf!ParseLine(m, line), <<"node">>, <<line[3]>>)
                /\ Same(HaCf!ParseLine(m, line), m, <<"node-backup">>)
<1> DEFINE t == HaCf!Before(line, HASH)
           c == HaCf!Text(line)
           v == line[3]
           d == <<v>>
           node == <<"node">>
           backup == <<"node-backup">>
<1>1. Len(c) = 3 /\ c[2] \in {SP, TAB} /\ c[3] \in Host
  BY DEF HaCf!Simple, HaCf!SP, SP, HaCf!TAB, TAB
<1>2. c # <<>>
  <2>1. Len(c) # 0
    BY <1>1
  <2> QED
    BY <2>1, NotEmpty
<1>3. /\ Padded(t, c) /\ t \in Seq(Word) /\ c \in Seq(Word) /\ c[1] # SP
      /\ \A i \in 1..Len(c) : c[i] = line[i]
  BY <1>2, TextOf
<1> HIDE DEF t, c
<1>4. c[1] = "node" /\ c[3] = v /\ v \in Host /\ v \notin {SP, TAB} /\ v \in Word
  <2>1. 1 \in 1..Len(c) /\ 3 \in 1..Len(c)
    BY <1>1
  <2>2. c[1] = "node" /\ c[3] = v
    BY <1>3, <2>1
  <2> QED
    BY <1>1, <2>2, LinesAssumption, LinesAreWords
<1>5. d \in Seq(Word) /\ Len(d) = 1 /\ d[1] = v
  BY <1>4
<1> HIDE DEF d, v
<1>6. ASSUME NEW b \in {SP, TAB}, c[2] = b
      PROVE  /\ HaCf!Contains(t, b)
             /\ HaCf!ClearHeadTailSpace(HaCf!Before(t, b)) = node
             /\ HaCf!ClearHeadTailSpace(HaCf!After(t, b)) = d
  <2>1. Len(d) = Len(c) - 2 /\ Len(c) >= 3 /\ \A i \in 1..Len(d) : d[i] = c[i + 2]
    BY <1>1, <1>4, <1>5
  <2>2. c[1] # b /\ d[1] # SP
    BY <1>4, <1>5 DEF SP, TAB
  <2>3. <<c[1]>> = node
    BY <1>4
  <2> HIDE DEF node, backup
  <2>4. /\ Padded(t, c) /\ Len(c) >= 3 /\ c[2] = b /\ c[1] # b
        /\ d \in Seq(Word) /\ Len(d) = Len(c) - 2 /\ d[1] # SP
        /\ \A i \in 1..Len(d) : d[i] = c[i + 2]
    BY <1>3, <1>5, <1>6, <2>1, <2>2
  <2>5. /\ HaCf!Contains(t, b)
        /\ HaCf!ClearHeadTailSpace(HaCf!Before(t, b)) = <<c[1]>>
        /\ HaCf!ClearHeadTailSpace(HaCf!After(t, b)) = d
    BY <2>4, FirstField
  <2> QED
    BY <2>3, <2>5
<1>7. node # backup
  <2>1. node[1] = "node" /\ backup[1] = "node-backup"
    OBVIOUS
  <2> QED
    BY <2>1
<1> DEFINE Stores(n, r) ==
             /\ node \in DOMAIN n => Same(r, n, node) /\ Maps(r, backup, d)
             /\ node \notin DOMAIN n => Maps(r, node, d) /\ Same(r, n, backup)
<1>8. ASSUME NEW n PROVE Stores(n, HaCf!Stored(n, node, d))
  <2> HIDE DEF node, backup
  <2>1. HaCf!KeyOf(n, node) = IF node \in DOMAIN n THEN backup ELSE node
    BY DEF HaCf!KeyOf, node, backup
  <2> QED
    BY <1>7, <2>1, StoredIs
<1> DEFINE r == HaCf!ParseLine(m, line)
<1>9. Stores(m, r)
  <2>1. CASE c[2] = SP
    <3>1. \A i \in 1..Len(c) : c[i] # TAB
      <4>1. \A i \in 1..Len(c) : i = 1 \/ i = 2 \/ i = 3
        BY <1>1
      <4> QED
        BY <1>4, <2>1, <4>1 DEF SP, TAB
    <3>2. ~HaCf!Contains(t, TAB)
      BY <1>3, <3>1, NoTab
    <3>3. r = HaCf!SplitAt(HaCf!SplitAt(m, t, SP), t, TAB)
      BY ParseLineIs DEF t
    <3>4. r = HaCf!SplitAt(m, t, SP)
      BY <3>2, <3>3 DEF HaCf!SplitAt
    <3>5. r = HaCf!Stored(m, node, d)
      BY <1>6, <2>1, <3>4 DEF HaCf!SplitAt
    <3> QED
      BY <1>8, <3>5
  <2>2. CASE c[2] = TAB
    <3> DEFINE n == HaCf!SplitAt(m, t, SP)
    <3>1. Same(n, m, node) /\ Same(n, m, backup)
      <4>1. CASE ~HaCf!Contains(t, SP)
        BY <4>1 DEF HaCf!SplitAt, Same
      <4>2. CASE HaCf!Contains(t, SP)
        <5>1. PICK p \in Seq(Word), q \in Seq(Word) :
                     Cut(t, p, SP, q) /\ \A i \in 1..Len(p) : p[i] # SP
          <6>1. SP \in Word
            BY DEF Word
          <6> QED
            BY <1>3, <4>2, <6>1, CutExists
        <5>2. p = c
          <6>1. \A i \in 1..Len(c) : i = 1 \/ i = 2 \/ i = 3
            BY <1>1
          <6>2. \A i \in 1..Len(c) : c[i] # SP
            BY <1>4, <2>2, <6>1 DEF SP, TAB
          <6> QED
            BY <1>3, <5>1, <6>2, PaddedWithin
        <5>3. HaCf!ClearHeadTailSpace(HaCf!Before(t, SP)) = c
          <6>1. HaCf!Before(t, SP) = c
            BY <5>1, <5>2, CutAt
          <6>2. Padded(c, c)
            BY <1>3, LenProperties DEF Padded
          <6> QED
            BY <6>1, <6>2, ClearPadded
        <5>4. c # node /\ c # backup
          <6>1. Len(node) = 1 /\ Len(backup) = 1
            OBVIOUS
          <6> HIDE DEF node, backup
          <6>2. Len(c) # Len(node) /\ Len(c) # Len(backup)
            BY <1>1, <6>1
          <6> QED
            BY <6>2, Zenon
        <5>5. n = HaCf!Stored(m, c, HaCf!ClearHeadTailSpace(HaCf!After(t, SP)))
          BY <4>2, <5>3 DEF HaCf!SplitAt
        <5> QED
          BY <5>4, <5>5, StoredElsewhere
      <4> QED
        BY <4>1, <4>2
    <3>2. r = HaCf!SplitAt(n, t, TAB)
      BY ParseLineIs DEF t
    <3> HIDE DEF n
    <3>3. r = HaCf!Stored(n, node, d)
      BY <1>6, <2>2, <3>2 DEF HaCf!SplitAt
    <3>4. Stores(n, r)
      BY <1>8, <3>3
    <3> QED
      <4> HIDE DEF node, backup, d
      <4> QED
        BY <3>1, <3>4 DEF Same
  <2> QED
    BY <1>1, <2>1, <2>2
<1> QED
  BY <1>9 DEF d, v

(* A ucast line stores device and address.                                    *)
LEMMA UcastLine ==
    ASSUME NEW m, NEW line \in Lines, line[1] = "ucast", HaCf!Plain(HaCf!Text(line))
    PROVE  Maps(HaCf!ParseLine(m, line), <<"ucast">>,
                <<HaCf!Text(line)[3], SP, HaCf!Text(line)[5]>>)
<1> DEFINE t == HaCf!Before(line, HASH)
           c == HaCf!Text(line)
           d == <<c[3], SP, c[5]>>
           ucast == <<"ucast">>
<1>1. /\ Len(c) = 5 /\ c[2] = SP /\ c[4] = SP
      /\ c[3] \notin {SP, TAB} /\ c[5] \notin {SP, TAB}
  BY DEF HaCf!Plain, HaCf!SP, SP, HaCf!TAB, TAB
<1>2. c # <<>>
  <2>1. Len(c) # 0
    BY <1>1
  <2> QED
    BY <2>1, NotEmpty
<1>3. /\ Padded(t, c) /\ t \in Seq(Word) /\ c \in Seq(Word)
      /\ \A i \in 1..Len(c) : c[i] = line[i]
  BY <1>2, TextOf
<1> HIDE DEF t, c
<1>4. c[1] = "ucast" /\ c[3] \in Word /\ c[5] \in Word
  <2>1. 1 \in 1..Len(c) /\ 3 \in 1..Len(c) /\ 5 \in 1..Len(c)
    BY <1>1
  <2> QED
    BY <1>3, <2>1, ElementOfSeq
<1>5. /\ d \in Seq(Word) /\ Len(d) = 3
      /\ d[1] = c[3] /\ d[2] = SP /\ d[3] = c[5]
  BY <1>4 DEF Word
<1> HIDE DEF d
<1>6. \A i \in 1..Len(d) : d[i] = c[i + 2]
  <2>1. \A i \in 1..Len(d) : i = 1 \/ i = 2 \/ i = 3
    BY <1>5
  <2> QED
    BY <1>1, <1>5, <2>1
<1>7. /\ HaCf!Contains(t, SP)
      /\ HaCf!ClearHeadTailSpace(HaCf!Before(t, SP)) = ucast
      /\ HaCf!ClearHeadTailSpace(HaCf!After(t, SP)) = d
  <2>1. c[1] # SP /\ d[1] # SP /\ Len(d) = Len(c) - 2 /\ Len(c) >= 3
    BY <1>1, <1>4, <1>5 DEF SP
  <2>2. c[2] = SP /\ <<c[1]>> = ucast
    BY <1>1, <1>4
  <2> HIDE DEF ucast
  <2>3. ASSUME NEW b \in {SP, TAB}, b = SP
        PROVE  /\ HaCf!Contains(t, b)
               /\ HaCf!ClearHeadTailSpace(HaCf!Before(t, b)) = ucast
               /\ HaCf!ClearHeadTailSpace(HaCf!After(t, b)) = d
    <3>1. /\ Padded(t, c) /\ Len(c) >= 3 /\ c[2] = b /\ c[1] # b
          /\ d \in Seq(Word) /\ Len(d) = Len(c) - 2 /\ d[1] # SP
      BY <1>3, <1>5, <2>1, <2>2, <2>3
    <3>2. /\ HaCf!Contains(t, b)
          /\ HaCf!ClearHeadTailSpace(HaCf!Before(t, b)) = <<c[1]>>
          /\ HaCf!ClearHeadTailSpace(HaCf!After(t, b)) = d
      BY <1>6, <3>1, FirstField
    <3> QED
      BY <2>2, <3>2
  <2> QED
    BY <2>3
<1>8. ~HaCf!Contains(t, TAB)
  <2>1. \A i \in 1..Len(c) : i = 1 \/ i = 2 \/ i = 3 \/ i = 4 \/ i = 5
    BY <1>1
  <2>2. \A i \in 1..Len(c) : c[i] # TAB
    BY <1>1, <1>4, <2>1 DEF SP, TAB
  <2> QED
    BY <1>3, <2>2, NoTab
<1>9. HaCf!ParseLine(m, line) = HaCf!Stored(m, ucast, d)
  <2>1. HaCf!ParseLine(m, line) = HaCf!SplitAt(HaCf!SplitAt(m, t, SP), t, TAB)
    BY ParseLineIs DEF t
  <2>2. HaCf!ParseLine(m, line) = HaCf!SplitAt(m, t, SP)
    BY <1>8, <2>1 DEF HaCf!SplitAt
  <2> QED
    BY <1>7, <2>2 DEF HaCf!SplitAt
<1>10. HaCf!KeyOf(m, ucast) = ucast
  <2>1. ucast # <<"node">>
    <3>1. ucast[1] = "ucast" /\ <<"node">>[1] = "node"
      OBVIOUS
    <3> QED
      BY <3>1
  <2> QED
    BY <2>1 DEF HaCf!KeyOf
<1> QED
  BY <1>9, <1>10, StoredIs DEF d, c

(* A line of two words stores the second under the first.                     *)
LEMMA FieldLine ==
    ASSUME NEW m, NEW w \in {"tcpport", "udpport"}, NEW line \in Lines, line[1] = w,
           HaCf!OneField(HaCf!Text(line))
    PROVE  Maps(HaCf!ParseLine(m, line), <<w>>, <<HaCf!Text(line)[3]>>)
<1> DEFINE t == HaCf!Before(line, HASH)
           c == HaCf!Text(line)
           d == <<c[3]>>
           key == <<w>>
<1>1. Len(c) = 3 /\ c[2] \in {SP, TAB} /\ c[3] \notin {SP, TAB}
  BY DEF HaCf!OneField, HaCf!SP, SP, HaCf!TAB, TAB
<1>2. c # <<>>
  <2>1. Len(c) # 0
    BY <1>1
  <2> QED
    BY <2>1, NotEmpty
<1>3. /\ Padded(t, c) /\ t \in Seq(Word) /\ c \in Seq(Word)
      /\ \A i \in 1..Len(c) : c[i] = line[i]
  BY <1>2, TextOf
<1> HIDE DEF t, c
<1>4. c[1] = w /\ w \notin {SP, TAB} /\ c[3] \in Word
  <2>1. 1 \in 1..Len(c) /\ 3 \in 1..Len(c)
    BY <1>1
  <2>2. w # SP /\ w # TAB
    BY DEF SP, TAB
  <2> QED
    BY <1>3, <2>1, <2>2, ElementOfSeq
<1>5. d \in Seq(Word) /\ Len(d) = 1 /\ d[1] = c[3] /\ \A i \in 1..Len(d) : d[i] = c[i + 2]
  BY <1>4
<1> HIDE DEF d
<1>6. ASSUME NEW b \in {SP, TAB}, c[2] = b
      PROVE  /\ HaCf!Contains(t, b)
             /\ HaCf!ClearHeadTailSpace(HaCf!Before(t, b)) = key
             /\ HaCf!ClearHeadTailSpace(HaCf!After(t, b)) = d
  <2>1. <<c[1]>> = key /\ c[1] # b /\ d[1] # SP /\ Len(d) = Len(c) - 2 /\ Len(c) >= 3
    BY <1>1, <1>4, <1>5
  <2> HIDE DEF key
  <2>2. /\ Padded(t, c) /\ Len(c) >= 3 /\ c[2] = b /\ c[1] # b
        /\ d \in Seq(Word) /\ Len(d) = Len(c) - 2 /\ d[1] # SP
        /\ \A i \in 1..Len(d) : d[i] = c[i + 2]
    BY <1>3, <1>5, <1>6, <2>1
  <2>3. /\ HaCf!Contains(t, b)
        /\ HaCf!ClearHeadTailSpace(HaCf!Before(t, b)) = <<c[1]>>
        /\ HaCf!ClearHeadTailSpace(HaCf!After(t, b)) = d
    BY <2>2, FirstField
  <2> QED
    BY <2>1, <2>3
<1>7. ASSUME NEW n PROVE Maps(HaCf!Stored(n, key, d), key, d)
  <2>1. key # <<"node">>
    <3>1. key[1] = w /\ <<"node">>[1] = "node" /\ w # "node"
      OBVIOUS
    <3> QED
      BY <3>1
  <2> HIDE DEF key
  <2>2. HaCf!KeyOf(n, key) = key
    BY <2>1 DEF HaCf!KeyOf
  <2> QED
    BY <2>2, StoredIs
<1>8. HaCf!ParseLine(m, line) = HaCf!SplitAt(HaCf!SplitAt(m, t, SP), t, TAB)
  BY ParseLineIs DEF t
<1> HIDE DEF key
<1>9. CASE c[2] = SP
  <2>1. \A i \in 1..Len(c) : i = 1 \/ i = 2 \/ i = 3
    BY <1>1
  <2>2. \A i \in 1..Len(c) : c[i] # TAB
    BY <1>1, <1>4, <1>9, <2>1 DEF SP, TAB
  <2>3. ~HaCf!Contains(t, TAB)
    BY <1>3, <2>2, NoTab
  <2>4. HaCf!ParseLine(m, line) = HaCf!Stored(m, key, d)
    BY <1>6, <1>8, <1>9, <2>3 DEF HaCf!SplitAt
  <2> QED
    BY <1>7, <2>4 DEF d, c, key
<1>10. CASE c[2] = TAB
  <2>1. HaCf!ParseLine(m, line) = HaCf!Stored(HaCf!SplitAt(m, t, SP), key, d)
    BY <1>6, <1>8, <1>10 DEF HaCf!SplitAt
  <2> QED
    BY <1>7, <2>1 DEF d, c, key
<1> QED
  BY <1>1, <1>9, <1>10

-----------------------------------------------------------------------------
Having(key) == HaCf!Having(key)

(* What map m has of the two nodes, of the peer and of a port, from the lines *)
(* f[i] with i in H, which begin with node, ucast or the port's key w.        *)
NodesOK(H, m, f) ==
    /\ H = {} => <<"node">> \notin DOMAIN m /\ <<"node-backup">> \notin DOMAIN m
    /\ \A i \in H :
         H = {i} /\ HaCf!Simple(f[i]) =>
           Maps(m, <<"node">>, <<f[i][3]>>) /\ <<"node-backup">> \notin DOMAIN m
    /\ \A i, j \in H :
         i < j /\ H = {i, j} /\ HaCf!Simple(f[i]) /\ HaCf!Simple(f[j]) =>
           Maps(m, <<"node">>, <<f[i][3]>>) /\ Maps(m, <<"node-backup">>, <<f[j][3]>>)

PeerOK(H, m, f) ==
    \A i \in H :
      (\A j \in H : j <= i) /\ HaCf!Plain(HaCf!Text(f[i])) =>
        Maps(m, <<"ucast">>, <<HaCf!Text(f[i])[3], SP, HaCf!Text(f[i])[5]>>)

PortOK(H, m, f, w) ==
    /\ H = {} => <<w>> \notin DOMAIN m
    /\ \A i \in H :
         (\A j \in H : j <= i) /\ HaCf!OneField(HaCf!Text(f[i])) =>
           Maps(m, <<w>>, <<HaCf!Text(f[i])[3]>>)

PortKey == {"tcpport", "udpport"}

HaCfInv ==
    /\ ha_cf \in Seq(Lines)
    /\ \A w \in PortKey : PortOK(Having(w), keymap, ha_cf, w)
    /\ NodesOK(Having("node"), keymap, ha_cf)
    /\ PeerOK(Having("ucast"), keymap, ha_cf)

LEMMA NodesMore ==
    ASSUME NEW line \in Lines, NEW n \in Nat, NEW H, \A i \in H : i \in Nat /\ i < n,
           NEW f, NEW g, g[n] = line, \A i \in H : g[i] = f[i],
           NEW m, NodesOK(H, m, f),
           NEW G, G = H \cup (IF line[1] = "node" THEN {n} ELSE {})
    PROVE  NodesOK(G, HaCf!ParseLine(m, line), g)
<1> DEFINE r == HaCf!ParseLine(m, line)
           node == <<"node">>
           backup == <<"node-backup">>
<1>1. CASE line[1] # "node"
  <2>1. line[1] # "node-backup"
    BY LinesAssumption
  <2>2. Same(r, m, node) /\ Same(r, m, backup)
    BY <1>1, <2>1, OtherLine
  <2>3. G = H
    BY <1>1
  <2> HIDE DEF r, node, backup
  <2> QED
    BY <2>2, <2>3 DEF NodesOK, Same, Maps, r, node, backup
<1>2. CASE line[1] = "node"
  <2>1. G = H \cup {n} /\ n \notin H
    BY <1>2
  <2>2. HaCf!Simple(line) =>
          /\ node \in DOMAIN m => Same(r, m, node) /\ Maps(r, backup, <<line[3]>>)
          /\ node \notin DOMAIN m => Maps(r, node, <<line[3]>>) /\ Same(r, m, backup)
    BY <1>2, SimpleLine
  <2> HIDE DEF r
  <2>3. ASSUME NEW i \in G, G = {i}, HaCf!Simple(g[i])
        PROVE  Maps(r, node, <<g[i][3]>>) /\ backup \notin DOMAIN r
    <3>1. H = {} /\ i = n
      BY <2>1, <2>3
    <3>2. node \notin DOMAIN m /\ backup \notin DOMAIN m
      BY <3>1 DEF NodesOK
    <3> HIDE DEF node, backup
    <3> QED
      BY <2>2, <2>3, <3>1, <3>2 DEF Same
  <2>4. ASSUME NEW i \in G, NEW j \in G, i < j, G = {i, j},
               HaCf!Simple(g[i]), HaCf!Simple(g[j])
        PROVE  Maps(r, node, <<g[i][3]>>) /\ Maps(r, backup, <<g[j][3]>>)
    <3>1. j = n /\ i \in H
      BY <2>1, <2>4
    <3>2. H = {i}
      BY <2>1, <2>4, <3>1
    <3>3. Maps(m, node, <<g[i][3]>>)
      BY <2>4, <3>1, <3>2 DEF NodesOK
    <3> HIDE DEF node, backup
    <3> QED
      BY <2>2, <2>4, <3>1, <3>3 DEF Same, Maps
  <2> QED
    BY <2>1, <2>3, <2>4 DEF NodesOK, r
<1> QED
  BY <1>1, <1>2

LEMMA PeerMore ==
    ASSUME NEW line \in Lines, NEW n \in Nat, NEW H, \A i \in H : i \in Nat /\ i < n,
           NEW f, NEW g, g[n] = line, \A i \in H : g[i] = f[i],
           NEW m, PeerOK(H, m, f),
           NEW G, G = H \cup (IF line[1] = "ucast" THEN {n} ELSE {})
    PROVE  PeerOK(G, HaCf!ParseLine(m, line), g)
<1> DEFINE r == HaCf!ParseLine(m, line)
           ucast == <<"ucast">>
<1>1. CASE line[1] # "ucast"
  <2>1. Same(r, m, ucast)
    BY <1>1, OtherLine
  <2>2. G = H
    BY <1>1
  <2> HIDE DEF r, ucast
  <2> QED
    BY <2>1, <2>2 DEF PeerOK, Same, Maps, r, ucast
<1>2. CASE line[1] = "ucast"
  <2>1. G = H \cup {n}
    BY <1>2
  <2>2. ASSUME NEW i \in G, \A j \in G : j <= i PROVE i = n
    BY <2>1, <2>2
  <2>3. HaCf!Plain(HaCf!Text(line)) =>
          Maps(r, ucast, <<HaCf!Text(line)[3], SP, HaCf!Text(line)[5]>>)
    BY <1>2, UcastLine
  <2> HIDE DEF r, ucast
  <2> QED
    BY <2>2, <2>3 DEF PeerOK, r, ucast
<1> QED
  BY <1>1, <1>2

LEMMA PortMore ==
    ASSUME NEW line \in Lines, NEW n \in Nat, NEW H, \A i \in H : i \in Nat /\ i < n,
           NEW f, NEW g, g[n] = line, \A i \in H : g[i] = f[i],
           NEW w \in {"tcpport", "udpport"}, NEW m, PortOK(H, m, f, w),
           NEW G, G = H \cup (IF line[1] = w THEN {n} ELSE {})
    PROVE  PortOK(G, HaCf!ParseLine(m, line), g, w)
<1> DEFINE r == HaCf!ParseLine(m, line)
           key == <<w>>
<1>1. CASE line[1] # w
  <2>1. Same(r, m, key)
    BY <1>1, OtherLine
  <2>2. G = H
    BY <1>1
  <2> HIDE DEF r, key
  <2> QED
    BY <2>1, <2>2 DEF PortOK, Same, Maps, r, key
<1>2. CASE line[1] = w
  <2>1. G = H \cup {n} /\ G # {}
    BY <1>2
  <2>2. ASSUME NEW i \in G, \A j \in G : j <= i PROVE i = n
    BY <2>1, <2>2
  <2>3. HaCf!OneField(HaCf!Text(line)) => Maps(r, key, <<HaCf!Text(line)[3]>>)
    BY <1>2, FieldLine
  <2> HIDE DEF r, key
  <2> QED
    BY <2>1, <2>2, <2>3 DEF PortOK, r, key
<1> QED
  BY <1>1, <1>2

(* A line more has its own key and leaves the others.                         *)
LEMMA HavingMore ==
    ASSUME ha_cf \in Seq(Lines), NEW line \in Lines, ha_cf' = Append(ha_cf, line)
    PROVE  LET n == Len(ha_cf) + 1
           IN  /\ ha_cf' \in Seq(Lines) /\ ha_cf'[n] = line /\ n \in Nat
               /\ \A key : /\ Having(key)' = Having(key) \cup (IF line[1] = key THEN {n} ELSE {})
                           /\ \A i \in Having(key) : i \in Nat /\ i < n /\ ha_cf'[i] = ha_cf[i]
<1> DEFINE n == Len(ha_cf) + 1
<1>1. /\ Len(ha_cf) \in Nat /\ n \in Nat /\ DOMAIN ha_cf = 1..Len(ha_cf)
      /\ ha_cf' \in Seq(Lines) /\ Len(ha_cf') = n /\ DOMAIN ha_cf' = 1..n
      /\ ha_cf'[n] = line /\ \A i \in 1..Len(ha_cf) : ha_cf'[i] = ha_cf[i] /\ i < n /\ i \in Nat
      /\ 1..n = 1..Len(ha_cf) \cup {n}
  BY AppendProperties, LenProperties
<1>2. line # <<>> /\ Head(line) = line[1]
  BY LinesAssumption
<1>3. ASSUME NEW key
      PROVE  Having(key)' = Having(key) \cup (IF line[1] = key THEN {n} ELSE {})
  <2>1. Having(key)' = {i \in 1..n : ha_cf'[i] # <<>> /\ Head(ha_cf'[i]) = key}
    BY <1>1 DEF Having, HaCf!Having
  <2>2. Having(key) = {i \in 1..Len(ha_cf) : ha_cf[i] # <<>> /\ Head(ha_cf[i]) = key}
    BY <1>1 DEF Having, HaCf!Having
  <2> HIDE DEF n
  <2> QED
    BY <1>1, <1>2, <2>1, <2>2
<1>4. \A key : Having(key) \subseteq 1..Len(ha_cf)
  BY <1>1 DEF Having, HaCf!Having
<1> QED
  BY <1>1, <1>3, <1>4

LEMMA HaCfStep == HaCfInv /\ [HaCf!Next]_HaCf!vars => HaCfInv'
<1> SUFFICES ASSUME HaCfInv, [HaCf!Next]_HaCf!vars PROVE HaCfInv'
  OBVIOUS
<1>1. CASE UNCHANGED HaCf!vars
  BY <1>1 DEF HaCfInv, HaCf!vars, Having, HaCf!Having
<1>2. CASE HaCf!Next
  <2>1. PICK line \in Lines : ha_cf' = Append(ha_cf, line) /\ keymap' = HaCf!ParseLine(keymap, line)
    BY <1>2 DEF HaCf!Next, HaCf!ReadLine
  <2>2. PICK n \in Nat :
          /\ ha_cf' \in Seq(Lines) /\ ha_cf'[n] = line
          /\ \A key : /\ Having(key)' = Having(key) \cup (IF line[1] = key THEN {n} ELSE {})
                      /\ \A i \in Having(key) : i \in Nat /\ i < n /\ ha_cf'[i] = ha_cf[i]
    BY <2>1, HavingMore DEF HaCfInv
  <2>3. NodesOK(Having("node")', keymap', ha_cf')
    <3> DEFINE H == Having("node")
               G == Having("node")'
    <3>1. /\ G = H \cup (IF line[1] = "node" THEN {n} ELSE {})
          /\ \A i \in H : i \in Nat /\ i < n
          /\ \A i \in H : ha_cf'[i] = ha_cf[i]
          /\ ha_cf'[n] = line
      BY <2>2
    <3>2. NodesOK(H, keymap, ha_cf)
      BY DEF HaCfInv
    <3> HIDE DEF G, H
    <3>3. NodesOK(G, HaCf!ParseLine(keymap, line), ha_cf')
      BY <3>1, <3>2, NodesMore
    <3> QED
      BY <2>1, <3>3 DEF G
  <2>4. PeerOK(Having("ucast")', keymap', ha_cf')
    <3> DEFINE H == Having("ucast")
               G == Having("ucast")'
    <3>1. /\ G = H \cup (IF line[1] = "ucast" THEN {n} ELSE {})
          /\ \A i \in H : i \in Nat /\ i < n
          /\ \A i \in H : ha_cf'[i] = ha_cf[i]
          /\ ha_cf'[n] = line
      BY <2>2
    <3>2. PeerOK(H, keymap, ha_cf)
      BY DEF HaCfInv
    <3> HIDE DEF G, H
    <3>3. PeerOK(G, HaCf!ParseLine(keymap, line), ha_cf')
      BY <3>1, <3>2, PeerMore
    <3> QED
      BY <2>1, <3>3 DEF G
  <2>5. ASSUME NEW w \in PortKey PROVE PortOK(Having(w)', keymap', ha_cf', w)
    <3> DEFINE H == Having(w)
               G == Having(w)'
    <3>1. /\ G = H \cup (IF line[1] = w THEN {n} ELSE {})
          /\ \A i \in H : i \in Nat /\ i < n
          /\ \A i \in H : ha_cf'[i] = ha_cf[i]
          /\ ha_cf'[n] = line
      BY <2>2
    <3>2. PortOK(H, keymap, ha_cf, w) /\ w \in {"tcpport", "udpport"}
      BY DEF HaCfInv, PortKey
    <3> HIDE DEF G, H
    <3>3. PortOK(G, HaCf!ParseLine(keymap, line), ha_cf', w)
      BY <3>1, <3>2, PortMore
    <3> QED
      BY <2>1, <3>3 DEF G
  <2> QED
    BY <2>2, <2>3, <2>4, <2>5 DEF HaCfInv
<1> QED
  BY <1>1, <1>2

LEMMA HaCfInvariant == HaCf!Spec => []HaCfInv
<1>1. HaCf!Init => HaCfInv
  <2> SUFFICES ASSUME HaCf!Init PROVE HaCfInv
    OBVIOUS
  <2>1. ha_cf = <<>> /\ DOMAIN keymap = {}
    BY DEF HaCf!Init
  <2>2. \A key : Having(key) = {}
    BY <2>1 DEF Having, HaCf!Having
  <2> QED
    BY <2>1, <2>2, EmptySeq DEF HaCfInv, NodesOK, PeerOK, PortOK
<1> QED
  BY <1>1, HaCfStep, PTL DEF HaCf!Spec

(* Two hosts that both start from the same files are one client and one       *)
(* server, whatever the files say (HBConfig::ParseFile, main).                *)
THEOREM RolesComplementaryHolds == HaCf!Spec => []RolesComplementary
<1>1. RolesComplementary
  <2> SUFFICES ASSUME NEW a \in Host, NEW b \in Host, NEW primary_node \in Host, a # b,
                      HaCf!Starts(a, primary_node), HaCf!Starts(b, primary_node)
               PROVE  {HaCf!mode(a, primary_node), HaCf!mode(b, primary_node)}
                        = {"client", "server"}
    BY DEF RolesComplementary, HaCf!RolesComplementary
  <2>1. \A x, y : <<x>> = <<y>> => x = y
    OBVIOUS
  <2>2. \/ <<primary_node>> = <<a>> \/ <<primary_node>> = <<b>>
    BY <2>1 DEF HaCf!Starts
  <2>3. primary_node = a \/ primary_node = b
    BY <2>1, <2>2
  <2> QED
    BY <2>3 DEF HaCf!mode
<1> QED
  BY <1>1, PTL

(* The last of the lines with a key.                                          *)
LEMMA LastHaving ==
    ASSUME HaCfInv, NEW key, Having(key) # {}, NEW last, last = HaCf!Max(Having(key))
    PROVE  last \in Having(key) /\ \A j \in Having(key) : j <= last
<1> DEFINE H == Having(key)
<1>1. Len(ha_cf) \in Nat /\ H \in SUBSET (1..Len(ha_cf)) /\ H # {} /\ last = HaCf!Max(H)
  BY LenProperties DEF HaCfInv, Having, HaCf!Having
<1> HIDE DEF H
<1>2. LastOf(H) \in H /\ \A j \in H : j <= LastOf(H)
  BY <1>1, LastExists
<1>3. \A j \in H : j \in Int
  BY <1>1
<1>4. last = LastOf(H)
  BY <1>1, <1>2, <1>3, MinMaxAre
<1> QED
  BY <1>2, <1>4 DEF H

(* Daemon and tool both have the port of the last tcpport line, or of the     *)
(* last udpport line if there is none, whatever other lines there are         *)
(* (HBConfig::ParseFile, main and hb_manually).                               *)
THEOREM PortsAsWrittenHolds == HaCf!Spec => []PortsAsWritten
<1>1. HaCfInv => PortsAsWritten
  <2> DEFINE key  == IF Having("tcpport") # {} THEN "tcpport" ELSE "udpport"
             last == HaCf!Max(Having(key))
             d    == <<HaCf!Text(ha_cf[last])[3]>>
  <2> SUFFICES ASSUME HaCfInv, Having(key) # {}, HaCf!OneField(HaCf!Text(ha_cf[last]))
               PROVE  HaCf!commonport = d /\ HaCf!tool_port = d
    BY DEF PortsAsWritten, HaCf!PortsAsWritten, Having
  <2>1. last \in Having(key) /\ \A j \in Having(key) : j <= last
    BY LastHaving
  <2>2. Maps(keymap, <<key>>, d)
    BY <2>1 DEF HaCfInv, PortOK, PortKey
  <2>3. key = "tcpport" \/ (key = "udpport" /\ <<"tcpport">> \notin DOMAIN keymap)
    BY DEF HaCfInv, PortOK, PortKey
  <2> HIDE DEF key, d
  <2> QED
    BY <2>2, <2>3 DEF Maps, HaCf!commonport, HaCf!tool_port, HaCf!GetValue
<1> QED
  BY <1>1, HaCfInvariant, PTL

(* A file of any length and content that names its two nodes the simple way   *)
(* starts both, as long as no line begins with a space or names node-backup   *)
(* itself (HBConfig::ParseFile, main).                                        *)
THEOREM SimpleNodesStartHolds == HaCf!Spec => []SimpleNodesStart
<1>1. HaCfInv => SimpleNodesStart
  <2> SUFFICES ASSUME HaCfInv, NEW i \in Having("node"), NEW j \in Having("node"),
                      i < j, Having("node") = {i, j},
                      HaCf!Simple(ha_cf[i]), HaCf!Simple(ha_cf[j]), HaCf!Survives,
                      NEW a \in {ha_cf[i][3], ha_cf[j][3]},
                      NEW b \in {ha_cf[i][3], ha_cf[j][3]}
               PROVE  HaCf!Starts(a, b)
    BY DEF SimpleNodesStart, HaCf!SimpleNodesStart, Having
  <2>1. /\ Maps(keymap, <<"node">>, <<ha_cf[i][3]>>)
        /\ Maps(keymap, <<"node-backup">>, <<ha_cf[j][3]>>)
    BY DEF HaCfInv, NodesOK
  <2>2. HaCf!p_hostname = <<ha_cf[i][3]>> /\ HaCf!b_hostname = <<ha_cf[j][3]>>
    BY <2>1 DEF Maps, HaCf!p_hostname, HaCf!b_hostname, HaCf!GetValue
  <2> QED
    BY <2>2 DEF HaCf!Starts
<1> QED
  BY <1>1, HaCfInvariant, PTL

(* The peer is whom the last ucast line names, if spaces separate its fields  *)
(* (HBConfig::ParseFile, main).                                               *)
THEOREM PeerIsUcastHolds == HaCf!Spec => []PeerIsUcast
<1>1. HaCfInv => PeerIsUcast
  <2> DEFINE H == Having("ucast")
             last == HaCf!Max(H)
             text == HaCf!Text(ha_cf[last])
  <2> SUFFICES ASSUME HaCfInv, H # {}, HaCf!Plain(text)
               PROVE  HaCf!peer_addr = <<text[5]>>
    BY DEF PeerIsUcast, HaCf!PeerIsUcast, Having
  <2>1. last \in H /\ \A j \in H : j <= last
    BY LastHaving
  <2> HIDE DEF last
  <2> DEFINE d == <<text[3], SP, text[5]>>
  <2>2. Maps(keymap, <<"ucast">>, d)
    BY <2>1 DEF HaCfInv, PeerOK
  <2>3. HaCf!GetValue("ucast", HaCf!Junk) = d
    BY <2>2 DEF Maps, HaCf!GetValue
  <2>4. HaCf!Contains(d, SP) /\ HaCf!After(d, SP) = <<text[5]>>
    <3>1. text[3] # SP /\ Len(text) = 5 /\ text # <<>> /\ ha_cf[last] \in Lines
      <4>1. Len(text) = 5 /\ text[3] # SP
        BY DEF HaCf!Plain, HaCf!SP, SP
      <4>2. text # <<>>
        <5>1. Len(text) # 0
          BY <4>1
        <5> QED
          BY <5>1, NotEmpty
      <4>3. last \in 1..Len(ha_cf)
        BY <2>1, LenProperties DEF HaCfInv, Having, HaCf!Having
      <4> QED
        BY <4>1, <4>2, <4>3, ElementOfSeq DEF HaCfInv
    <3>2. text \in Seq(Word)
      BY <3>1, TextOf
    <3> HIDE DEF text
    <3>3. text[3] \in Word /\ text[5] \in Word
      <4>1. 3 \in 1..Len(text) /\ 5 \in 1..Len(text)
        BY <3>1
      <4> QED
        BY <3>2, <4>1, ElementOfSeq
    <3> DEFINE p == <<text[3]>>
               q == <<text[5]>>
    <3>4. /\ p \in Seq(Word) /\ Len(p) = 1 /\ p[1] = text[3]
          /\ q \in Seq(Word) /\ Len(q) = 1 /\ q[1] = text[5]
          /\ d \in Seq(Word) /\ Len(d) = 3
          /\ d[1] = text[3] /\ d[2] = SP /\ d[3] = text[5] /\ SP \in Word
      BY <3>3 DEF Word
    <3> HIDE DEF p, q, d
    <3>5. Cut(d, p, SP, q) /\ \A i \in 1..Len(p) : p[i] # SP
      <4>1. \A i \in 1..1 : i = 1
        OBVIOUS
      <4> QED
        BY <3>1, <3>4, <4>1 DEF Cut
    <3> QED
      BY <3>5, CutAt DEF q
  <2> QED
    <3> HIDE DEF d
    <3> QED
      BY <2>3, <2>4 DEF HaCf!peer_addr, HaCf!SP, SP
<1> QED
  BY <1>1, HaCfInvariant, PTL

-----------------------------------------------------------------------------
(* haresources.  Strip, Reverse and Trimmed, by index.                        *)
LEMMA StripIs ==
    ASSUME NEW s \in Seq(Word), NEW t, NEW k \in 1..Len(s), s[k] # t,
           \A i \in (k + 1)..Len(s) : s[i] = t
    PROVE  HaRes!Strip(s, t) = SubSeq(s, 1, k)
<1> DEFINE I == {i \in 1..Len(s) : s[i] # t}
<1>1. k \in I /\ \A i \in I : i \in Int /\ i <= k
  BY LenProperties
<1>2. HaRes!SelectLastInSeq(s, LAMBDA x : x # t) = k
  <2> HIDE DEF I
  <2>1. HaRes!Max(I) = k
    BY <1>1, MinMaxAre
  <2> QED
    BY <1>1, <2>1 DEF HaRes!SelectLastInSeq, I
<1> QED
  BY <1>2 DEF HaRes!Strip

LEMMA ReverseIs ==
    ASSUME NEW s \in Seq(Word)
    PROVE  /\ HaRes!Reverse(s) \in Seq(Word) /\ Len(HaRes!Reverse(s)) = Len(s)
           /\ \A i \in 1..Len(s) : HaRes!Reverse(s)[i] = s[Len(s) - i + 1]
<1>1. Len(s) \in Nat
  BY LenProperties
<1>2. \A i \in 1..Len(s) : Len(s) - i + 1 \in 1..Len(s)
  BY <1>1
<1>3. \A i \in 1..Len(s) : s[Len(s) - i + 1] \in Word
  BY <1>2, ElementOfSeq
<1>4. HaRes!Reverse(s) = [i \in 1..Len(s) |-> s[Len(s) - i + 1]]
  BY DEF HaRes!Reverse
<1> QED
  BY <1>1, <1>3, <1>4

(* The first k words of s.                                                    *)
LEMMA PrefixIs ==
    ASSUME NEW s \in Seq(Word), NEW k \in 1..Len(s)
    PROVE  /\ SubSeq(s, 1, k) \in Seq(Word) /\ Len(SubSeq(s, 1, k)) = k
           /\ \A i \in 1..k : SubSeq(s, 1, k)[i] = s[i]
<1>1. 0 \in Nat /\ k \in Nat /\ 0 + k <= Len(s) /\ 0 + k = k /\ 0 + 1 = 1
  BY LenProperties
<1>2. /\ SubSeq(s, 0 + 1, 0 + k) \in Seq(Word) /\ Len(SubSeq(s, 0 + 1, 0 + k)) = k
      /\ \A i \in 1..k : SubSeq(s, 0 + 1, 0 + k)[i] = s[0 + i]
  BY <1>1, SubSeqIs
<1> QED
  BY <1>1, <1>2

LEMMA TrimmedIs ==
    ASSUME NEW s \in Seq(Word), s # <<>>, s[1] # SP
    PROVE  \E k \in 1..Len(s) :
              /\ s[k] # SP /\ \A i \in (k + 1)..Len(s) : s[i] = SP
              /\ HaRes!Trimmed(s) = SubSeq(s, 1, k)
<1> DEFINE I == {i \in 1..Len(s) : s[i] # SP}
<1>1. Len(s) \in Nat /\ 1 \in I /\ I \in SUBSET (1..Len(s))
  BY LenProperties, EmptySeq
<1>2. LastOf(I) \in I /\ \A j \in I : j <= LastOf(I)
  <2> HIDE DEF I
  <2> QED
    BY <1>1, LastExists
<1>3. PICK k \in I : \A j \in I : j <= k
  BY <1>2
<1>4. k \in 1..Len(s) /\ s[k] # SP /\ \A i \in (k + 1)..Len(s) : s[i] = SP
  <2> SUFFICES ASSUME NEW i \in (k + 1)..Len(s), s[i] # SP PROVE FALSE
    OBVIOUS
  <2>1. i \in I /\ ~(i <= k)
    BY <1>1
  <2> QED
    BY <1>3, <2>1
<1> DEFINE u == SubSeq(s, 1, k)
           r == HaRes!Reverse(u)
<1>5. HaRes!Strip(s, SP) = u
  BY <1>4, StripIs
<1>6. /\ u \in Seq(Word) /\ Len(u) = k /\ u # <<>> /\ u[1] = s[1] /\ k \in Nat
      /\ 1 \in 1..k /\ k \in 1..k
  <2>1. 1 \in 1..k /\ k \in 1..k /\ k \in Nat /\ k # 0
    BY <1>4
  <2>2. u \in Seq(Word) /\ Len(u) = k /\ \A i \in 1..k : u[i] = s[i]
    BY <1>4, PrefixIs
  <2> HIDE DEF u
  <2> QED
    BY <2>1, <2>2, NotEmpty
<1> HIDE DEF u
<1>7. r \in Seq(Word) /\ Len(r) = k /\ \A i \in 1..k : r[i] = u[k - i + 1]
  BY <1>6, ReverseIs
<1>8. r[k] # SP
  <2>1. k - k + 1 = 1
    BY <1>6
  <2> QED
    BY <1>6, <1>7, <2>1
<1> HIDE DEF r
<1>9. HaRes!Strip(r, SP) = r
  <2>1. \A i \in (k + 1)..Len(r) : r[i] = SP
    BY <1>6, <1>7
  <2>2. k \in 1..Len(r)
    BY <1>6, <1>7
  <2>3. HaRes!Strip(r, SP) = SubSeq(r, 1, k)
    BY <1>7, <1>8, <2>1, <2>2, StripIs
  <2> QED
    BY <1>7, <2>3, SubSeqFull
<1>10. HaRes!Reverse(r) = u
  <2> DEFINE v == HaRes!Reverse(r)
  <2>1. v \in Seq(Word) /\ Len(v) = k /\ \A i \in 1..k : v[i] = r[k - i + 1]
    BY <1>7, ReverseIs
  <2> HIDE DEF v
  <2>2. ASSUME NEW i \in 1..k PROVE v[i] = u[i]
    <3>1. k - i + 1 \in 1..k /\ k - (k - i + 1) + 1 = i
      BY <1>6
    <3> QED
      BY <1>7, <2>1, <3>1
  <2>3. v = u
    BY <1>6, <2>1, <2>2, SeqEqual
  <2> QED
    BY <2>3 DEF v
<1>11. HaRes!Trimmed(s) = u
  BY <1>5, <1>9, <1>10 DEF HaRes!Trimmed, HaRes!SP, SP, r
<1> QED
  BY <1>4, <1>11 DEF u

-----------------------------------------------------------------------------
(* A line, word by word: how long its two parts are that may be missing.      *)
Nums(e) == IF e.num = "none" THEN 0 ELSE 2
Arps(e) == IF e.arp THEN 2 ELSE 0

(* s is p and then r.                                                         *)
Joins(s, p, r) ==
    /\ s \in Seq(Word) /\ p \in Seq(Word) /\ r \in Seq(Word)
    /\ Len(s) = Len(p) + Len(r) /\ Len(p) \in Nat /\ Len(r) \in Nat
    /\ \A i \in 1..Len(p) : s[i] = p[i]
    /\ \A i \in 1..Len(r) : s[Len(p) + i] = r[i]

LEMMA JoinsIs == \A p, r \in Seq(Word) : Joins(p \o r, p, r)
BY Joined, LenProperties DEF Joins

LEMMA JoinsTwice ==
    ASSUME NEW s, NEW q, NEW p1, NEW p2, NEW p3, Joins(s, q, p3), Joins(q, p1, p2)
    PROVE  /\ s \in Seq(Word) /\ Len(s) = Len(p1) + Len(p2) + Len(p3)
           /\ \A i \in 1..Len(p1) : s[i] = p1[i]
           /\ \A i \in 1..Len(p2) : s[Len(p1) + i] = p2[i]
           /\ \A i \in 1..Len(p3) : s[Len(p1) + Len(p2) + i] = p3[i]
<1>1. Len(p1) \in Nat /\ Len(p2) \in Nat /\ Len(q) = Len(p1) + Len(p2)
  BY DEF Joins
<1>2. ASSUME NEW i \in 1..Len(p1) PROVE s[i] = p1[i]
  <2>1. i \in 1..Len(q)
    BY <1>1
  <2> QED
    BY <2>1 DEF Joins
<1>3. ASSUME NEW i \in 1..Len(p2) PROVE s[Len(p1) + i] = p2[i]
  <2>1. Len(p1) + i \in 1..Len(q)
    BY <1>1
  <2> QED
    BY <2>1 DEF Joins
<1> QED
  BY <1>1, <1>2, <1>3 DEF Joins

LEMMA HeadIs ==
    ASSUME NEW node \in Word
    PROVE  LET h == <<node, SP, "IPaddr::", "vip", "/", "24", "/", "eth0">>
           IN  /\ h \in Seq(Word) /\ Len(h) = 8 /\ h[1] = node
               /\ h[2] = SP /\ h[3] = "IPaddr::" /\ h[4] = "vip"
               /\ h[5] = "/" /\ h[6] = "24" /\ h[7] = "/" /\ h[8] = "eth0"
BY DEF Word

LEMMA PairIs ==
    ASSUME NEW x \in Word, NEW y \in Word
    PROVE  LET h == <<x, y>> IN h \in Seq(Word) /\ Len(h) = 2 /\ h[1] = x /\ h[2] = y
OBVIOUS

(* s is head, num, arp, scr and tail, by way of s2, s3 and s4.                *)
Chain(s, head, num, arp, scr, tail, s2, s3, s4) ==
    Joins(s2, head, num) /\ Joins(s3, s2, arp) /\ Joins(s4, s3, scr) /\ Joins(s, s4, tail)

Chained(s, head, num, arp, scr, tail, s2, s3, s4) ==
    /\ s \in Seq(Word)
    /\ Len(s2) = Len(head) + Len(num) /\ Len(s3) = Len(s2) + Len(arp)
    /\ Len(s4) = Len(s3) + Len(scr) /\ Len(s) = Len(s4) + Len(tail)
    /\ Len(head) \in Nat /\ Len(num) \in Nat /\ Len(arp) \in Nat
    /\ Len(scr) \in Nat /\ Len(tail) \in Nat
    /\ \A i \in 1..Len(s3) : s[i] = s3[i]
    /\ \A i \in 1..Len(scr) : s[Len(s3) + i] = scr[i]
    /\ \A i \in 1..Len(head) : s3[i] = head[i]
    /\ \A i \in 1..Len(num) : s3[Len(head) + i] = num[i]
    /\ \A i \in 1..Len(arp) : s3[Len(s2) + i] = arp[i]
    /\ \A i \in 1..Len(tail) : s[Len(s4) + i] = tail[i]

LEMMA ChainIs ==
    ASSUME NEW head, NEW num, NEW arp, NEW scr, NEW tail, NEW s2, NEW s3, NEW s4, NEW s,
           Chain(s, head, num, arp, scr, tail, s2, s3, s4)
    PROVE  Chained(s, head, num, arp, scr, tail, s2, s3, s4)
<1>1. Joins(s2, head, num) /\ Joins(s3, s2, arp)
  BY DEF Chain
<1>2. Joins(s4, s3, scr) /\ Joins(s, s4, tail)
  BY DEF Chain
<1>3. /\ \A i \in 1..Len(s3) : s[i] = s3[i]
      /\ \A i \in 1..Len(scr) : s[Len(s3) + i] = scr[i]
  BY <1>2, JoinsTwice
<1>4. /\ \A i \in 1..Len(head) : s3[i] = head[i]
      /\ \A i \in 1..Len(num) : s3[Len(head) + i] = num[i]
  BY <1>1, JoinsTwice
<1> QED
  BY <1>1, <1>2, <1>3, <1>4 DEF Joins, Chained

(* The words of a chain in which num has a words and arp has r of them.       *)
Given(s, head, num, arp, scr, s3, a, r) ==
    /\ a \in {0, 2} /\ r \in {0, 2}
    /\ \A i \in 1..(8 + a + r) : s[i] = s3[i]
    /\ \A i \in 1..2 : s[8 + a + r + i] = scr[i]
    /\ \A i \in 1..8 : s3[i] = head[i]
    /\ \A i \in 1..a : s3[8 + i] = num[i]
    /\ \A i \in 1..r : s3[8 + a + i] = arp[i]
    /\ scr[1] = SP /\ (r = 2 => arp[1] = SP)

Words(s, head, num, scr, a, r) ==
    /\ \A i \in 1..8 : s[i] = head[i]
    /\ a = 2 => s[9] = num[1] /\ s[10] = num[2]
    /\ s[8 + a + 1] = SP /\ s[8 + a + r + 1] = SP /\ s[8 + a + r + 2] = scr[2]

LEMMA WordsAre ==
    ASSUME NEW s, NEW head, NEW num, NEW arp, NEW scr, NEW s3, NEW a, NEW r,
           Given(s, head, num, arp, scr, s3, a, r)
    PROVE  Words(s, head, num, scr, a, r)
<1>0. /\ a \in {0, 2} /\ r \in {0, 2}
      /\ \A i \in 1..(8 + a + r) : s[i] = s3[i]
      /\ \A i \in 1..2 : s[8 + a + r + i] = scr[i]
      /\ \A i \in 1..8 : s3[i] = head[i]
      /\ \A i \in 1..a : s3[8 + i] = num[i]
      /\ \A i \in 1..r : s3[8 + a + i] = arp[i]
      /\ scr[1] = SP /\ (r = 2 => arp[1] = SP)
  BY DEF Given
<1>1. \A i \in 1..8 : s[i] = head[i]
  <2>1. \A i \in 1..8 : i \in 1..(8 + a + r)
    BY <1>0
  <2> QED
    BY <1>0, <2>1
<1>2. a = 2 => s[9] = num[1] /\ s[10] = num[2]
  <2> SUFFICES ASSUME a = 2 PROVE s[9] = num[1] /\ s[10] = num[2]
    OBVIOUS
  <2>1. 9 \in 1..(8 + a + r) /\ 10 \in 1..(8 + a + r) /\ 1 \in 1..a /\ 2 \in 1..a
    BY <1>0
  <2>2. s3[8 + 1] = num[1] /\ s3[8 + 2] = num[2]
    BY <1>0, <2>1
  <2> QED
    BY <1>0, <2>1, <2>2
<1>3. s[8 + a + r + 1] = SP /\ s[8 + a + r + 2] = scr[2]
  <2>1. 1 \in 1..2 /\ 2 \in 1..2
    BY <1>0
  <2> QED
    BY <1>0, <2>1
<1>4. s[8 + a + 1] = SP
  <2>1. CASE r = 2
    <3>1. 1 \in 1..r /\ 8 + a + 1 \in 1..(8 + a + r)
      BY <1>0, <2>1
    <3> QED
      BY <1>0, <2>1, <3>1
  <2>2. CASE r = 0
    <3>1. 8 + a + 1 = 8 + a + r + 1
      BY <1>0, <2>2
    <3> QED
      BY <1>3, <3>1
  <2> QED
    BY <1>0, <2>1, <2>2
<1> QED
  BY <1>1, <1>2, <1>3, <1>4 DEF Words

LEMMA LineIs ==
    ASSUME NEW e \in HaRes!Entry
    PROVE  LET s == HaRes!Line(e)
               a == Nums(e)
               r == Arps(e)
           IN  /\ a \in {0, 2} /\ r \in {0, 2} /\ (a = 2 <=> e.num # "none")
               /\ s \in Seq(Word) /\ Len(e.tail) \in Nat /\ Len(s) = 8 + a + r + 2 + Len(e.tail)
               /\ s[1] = e.node /\ s[2] = SP /\ s[3] = "IPaddr::" /\ s[4] = "vip"
               /\ s[5] = "/" /\ s[6] = "24" /\ s[7] = "/" /\ s[8] = "eth0"
               /\ a = 2 => s[9] = ":" /\ s[10] = e.num
               /\ s[8 + a + 1] = SP /\ s[8 + a + r + 1] = SP /\ s[8 + a + r + 2] = e.script
               /\ \A i \in 1..Len(e.tail) : s[8 + a + r + 2 + i] = e.tail[i]
<1>1. /\ e.node \in Word /\ e.num \in Word /\ e.arp \in BOOLEAN
      /\ e.script \in Word /\ e.tail \in Seq(Word)
  <2>1. /\ e.node \in {"a", "b", HASH} /\ e.num \in {"none", "0", "1"} /\ e.arp \in BOOLEAN
        /\ e.script \in {"s", "t"} /\ e.tail \in Tails
    BY DEF HaRes!Entry, HASH
  <2>2. /\ {"a", "b", HASH} \subseteq Word /\ {"none", "0", "1"} \subseteq Word
        /\ {"s", "t"} \subseteq Word
    BY DEF Word
  <2> QED
    BY <2>1, <2>2, LinesAreWords
<1> DEFINE node == e.node
           x    == e.num
           scr  == e.script
           head == <<node, SP, "IPaddr::", "vip", "/", "24", "/", "eth0">>
           num  == IF x # "none" THEN <<":", x>> ELSE <<>>
           arp  == IF e.arp THEN <<SP, "SendArp::">> ELSE <<>>
           last == <<SP, scr>>
           tail == e.tail
           s    == HaRes!Line(e)
           a    == Nums(e)
           r    == Arps(e)
<1>2. s = head \o num \o arp \o last \o tail
  BY DEF HaRes!Line, HaRes!SP, SP
<1>3. /\ a \in {0, 2} /\ r \in {0, 2} /\ (a = 2 <=> x # "none") /\ (r = 2 <=> e.arp)
  BY <1>1 DEF Nums, Arps
<1> HIDE DEF s, a, r
<1>4. {SP, ":", "SendArp::"} \subseteq Word
  BY DEF Word
<1>5. /\ head \in Seq(Word) /\ Len(head) = 8 /\ head[1] = node
      /\ head[2] = SP /\ head[3] = "IPaddr::" /\ head[4] = "vip"
      /\ head[5] = "/" /\ head[6] = "24" /\ head[7] = "/" /\ head[8] = "eth0"
  BY <1>1, HeadIs
<1>6. num \in Seq(Word) /\ Len(num) = a /\ (a = 2 => num[1] = ":" /\ num[2] = x)
  <2>1. CASE x = "none"
    <3>1. num = <<>> /\ a = 0
      BY <1>3, <2>1
    <3> HIDE DEF num
    <3> QED
      BY <3>1, EmptySeq
  <2>2. CASE x # "none"
    <3>1. num \in Seq(Word) /\ Len(num) = 2 /\ num[1] = ":" /\ num[2] = x
      BY <1>1, <1>4, <2>2, PairIs
    <3> HIDE DEF num, x
    <3> QED
      BY <1>3, <2>2, <3>1
  <2> QED
    BY <2>1, <2>2
<1>7. arp \in Seq(Word) /\ Len(arp) = r /\ (r = 2 => arp[1] = SP)
  <2>1. CASE e.arp
    <3>1. arp \in Seq(Word) /\ Len(arp) = 2 /\ arp[1] = SP
      BY <1>4, <2>1, PairIs
    <3> HIDE DEF arp
    <3> QED
      BY <1>3, <2>1, <3>1
  <2>2. CASE ~e.arp
    <3>1. arp = <<>> /\ r = 0
      BY <1>3, <2>2
    <3> HIDE DEF arp
    <3> QED
      BY <3>1, EmptySeq
  <2> QED
    BY <1>1, <2>1, <2>2
<1>8. last \in Seq(Word) /\ Len(last) = 2 /\ last[1] = SP /\ last[2] = scr
  BY <1>1, <1>4, PairIs
<1> HIDE DEF head, num, arp, last
<1> DEFINE s2 == head \o num
           s3 == s2 \o arp
           s4 == s3 \o last
<1> HIDE DEF s2, s3, s4
<1>9. tail \in Seq(Word) /\ s = s4 \o tail
  BY <1>1, <1>2 DEF s2, s3, s4
<1>10. Joins(s2, head, num) /\ Joins(s3, s2, arp) /\ Joins(s4, s3, last) /\ Joins(s, s4, tail)
  <2>1. Joins(s2, head, num) /\ s2 \in Seq(Word)
    BY <1>5, <1>6, JoinsIs DEF s2, Joins
  <2>2. Joins(s3, s2, arp) /\ s3 \in Seq(Word)
    BY <1>7, <2>1, JoinsIs DEF s3, Joins
  <2>3. Joins(s4, s3, last) /\ s4 \in Seq(Word)
    BY <1>8, <2>2, JoinsIs DEF s4, Joins
  <2>4. Joins(s, s4, tail)
    BY <1>9, <2>3, JoinsIs
  <2> QED
    BY <2>1, <2>2, <2>3, <2>4
<1> HIDE DEF tail, node, x, scr
<1>11. /\ s \in Seq(Word)
       /\ Len(s2) = Len(head) + Len(num) /\ Len(s3) = Len(s2) + Len(arp)
       /\ Len(s4) = Len(s3) + Len(last) /\ Len(s) = Len(s4) + Len(tail)
       /\ Len(tail) \in Nat
       /\ \A i \in 1..Len(s3) : s[i] = s3[i]
       /\ \A i \in 1..Len(last) : s[Len(s3) + i] = last[i]
       /\ \A i \in 1..Len(head) : s3[i] = head[i]
       /\ \A i \in 1..Len(num) : s3[Len(head) + i] = num[i]
       /\ \A i \in 1..Len(arp) : s3[Len(s2) + i] = arp[i]
       /\ \A i \in 1..Len(tail) : s[Len(s4) + i] = tail[i]
  <2>1. Chain(s, head, num, arp, last, tail, s2, s3, s4)
    BY <1>10 DEF Chain
  <2>2. Chained(s, head, num, arp, last, tail, s2, s3, s4)
    BY <2>1, ChainIs
  <2> QED
    BY <2>2 DEF Chained
<1>12. Len(s2) = 8 + a /\ Len(s3) = 8 + a + r /\ Len(s4) = 8 + a + r + 2
  BY <1>3, <1>5, <1>6, <1>7, <1>8, <1>11
<1>13. /\ \A i \in 1..(8 + a + r) : s[i] = s3[i]
       /\ \A i \in 1..2 : s[8 + a + r + i] = last[i]
       /\ \A i \in 1..8 : s3[i] = head[i]
       /\ \A i \in 1..a : s3[8 + i] = num[i]
       /\ \A i \in 1..r : s3[8 + a + i] = arp[i]
       /\ \A i \in 1..Len(tail) : s[8 + a + r + 2 + i] = tail[i]
       /\ Len(s) = 8 + a + r + 2 + Len(tail)
  BY <1>5, <1>6, <1>7, <1>8, <1>11, <1>12
<1>14. /\ \A i \in 1..8 : s[i] = head[i]
       /\ a = 2 => s[9] = num[1] /\ s[10] = num[2]
       /\ s[8 + a + 1] = SP /\ s[8 + a + r + 1] = SP /\ s[8 + a + r + 2] = last[2]
  <2>1. a \in {0, 2} /\ r \in {0, 2} /\ last[1] = SP /\ (r = 2 => arp[1] = SP)
    BY <1>3, <1>7, <1>8
  <2>2. Given(s, head, num, arp, last, s3, a, r)
    BY <1>13, <2>1 DEF Given
  <2>3. Words(s, head, num, last, a, r)
    BY <2>2, WordsAre
  <2> QED
    BY <2>3 DEF Words
<1>15. /\ s[1] = head[1] /\ s[2] = head[2] /\ s[3] = head[3] /\ s[4] = head[4]
       /\ s[5] = head[5] /\ s[6] = head[6] /\ s[7] = head[7] /\ s[8] = head[8]
  <2>1. /\ 1 \in 1..8 /\ 2 \in 1..8 /\ 3 \in 1..8 /\ 4 \in 1..8
        /\ 5 \in 1..8 /\ 6 \in 1..8 /\ 7 \in 1..8 /\ 8 \in 1..8
    OBVIOUS
  <2> QED
    BY <1>14, <2>1
<1>16. a = 2 => s[9] = ":" /\ s[10] = x
  BY <1>6, <1>14
<1> HIDE DEF head, num, arp, last
<1>17. /\ s[1] = node /\ s[2] = SP /\ s[3] = "IPaddr::" /\ s[4] = "vip"
       /\ s[5] = "/" /\ s[6] = "24" /\ s[7] = "/" /\ s[8] = "eth0"
  BY <1>5, <1>15, Zenon
<1>18. s[8 + a + 1] = SP /\ s[8 + a + r + 1] = SP /\ s[8 + a + r + 2] = scr
  BY <1>8, <1>14, Zenon
<1>19. s \in Seq(Word) /\ Len(tail) \in Nat
  BY <1>11
<1> QED
  BY <1>3, <1>13, <1>16, <1>17, <1>18, <1>19, Zenon DEF s, a, r, tail, node, x, scr

(* What a search for the first or the last t in s finds.                      *)
LEMMA DropIs ==
    ASSUME NEW s \in Seq(Word), NEW m \in Nat, m <= Len(s)
    PROVE  /\ SubSeq(s, m + 1, Len(s)) \in Seq(Word)
           /\ Len(SubSeq(s, m + 1, Len(s))) = Len(s) - m
           /\ \A i \in 1..(Len(s) - m) : SubSeq(s, m + 1, Len(s))[i] = s[m + i]
<1> DEFINE n == Len(s) - m
<1>1. n \in Nat /\ m + n = Len(s)
  BY LenProperties
<1> HIDE DEF n
<1>2. /\ SubSeq(s, m + 1, m + n) \in Seq(Word) /\ Len(SubSeq(s, m + 1, m + n)) = n
      /\ \A i \in 1..n : SubSeq(s, m + 1, m + n)[i] = s[m + i]
  BY <1>1, SubSeqIs
<1> QED
  BY <1>1, <1>2 DEF n

FirstAt(s, t, k) ==
    /\ s \in Seq(Word) /\ k \in 1..Len(s) /\ s[k] = t
    /\ \A i \in 1..(k - 1) : s[i] # t

LastAt(s, t, k) ==
    /\ s \in Seq(Word) /\ k \in 1..Len(s) /\ s[k] = t
    /\ \A i \in (k + 1)..Len(s) : s[i] # t

(* v is what follows the first k words of s.                                  *)
Rest(s, k, v) ==
    /\ v \in Seq(Word) /\ Len(s) = k + Len(v)
    /\ \A i \in 1..Len(v) : v[i] = s[k + i]

LEMMA FoundFirst ==
    ASSUME NEW s, NEW t, NEW k, FirstAt(s, t, k)
    PROVE  /\ HaRes!Contains(s, t) /\ Len(HaRes!Before(s, t)) = k - 1
           /\ HaRes!Before(s, t) \in Seq(Word) /\ \A i \in 1..(k - 1) : HaRes!Before(s, t)[i] = s[i]
           /\ Rest(s, k, HaRes!After(s, t))
<1>0. /\ s \in Seq(Word) /\ k \in 1..Len(s) /\ s[k] = t
      /\ \A i \in 1..(k - 1) : s[i] # t
  BY DEF FirstAt
<1>1. Len(s) \in Nat /\ k \in Nat /\ 1 <= k /\ k <= Len(s)
  BY <1>0, LenProperties
<1>2. HaRes!IndexOf(s, t) = k
  BY <1>0, <1>1, FirstIs
<1>3. HaRes!Contains(s, t)
  BY <1>0 DEF HaRes!Contains
<1> DEFINE u == SubSeq(s, 1, k - 1)
           v == SubSeq(s, k + 1, Len(s))
<1>4. HaRes!Before(s, t) = u /\ HaRes!After(s, t) = v
  BY <1>2, <1>3 DEF HaRes!Before, HaRes!After
<1>5. u \in Seq(Word) /\ Len(u) = k - 1 /\ \A i \in 1..(k - 1) : u[i] = s[i]
  <2> DEFINE n == k - 1
             w == SubSeq(s, 0 + 1, 0 + n)
  <2>1. 0 \in Nat /\ n \in Nat /\ 0 + n <= Len(s) /\ 0 + n = n
    <3> HIDE DEF u, v, w
    <3> QED
      BY <1>1
  <2> HIDE DEF n
  <2>2. w \in Seq(Word) /\ Len(w) = n /\ \A i \in 1..n : w[i] = s[0 + i]
    BY <1>0, <2>1, SubSeqIs
  <2>3. w = u
    BY <2>1 DEF n
  <2> HIDE DEF u, w
  <2> QED
    BY <2>2, <2>3 DEF n
<1>6. v \in Seq(Word) /\ Len(v) = Len(s) - k /\ \A i \in 1..(Len(s) - k) : v[i] = s[k + i]
  BY <1>0, <1>1, DropIs
<1> HIDE DEF u, v
<1>7. Rest(s, k, v)
  BY <1>1, <1>6 DEF Rest
<1> QED
  BY <1>3, <1>4, <1>5, <1>7

LEMMA FoundLast ==
    ASSUME NEW s, NEW t, NEW k, LastAt(s, t, k)
    PROVE  Rest(s, k, HaRes!AfterLast(s, t))
<1>0. /\ s \in Seq(Word) /\ k \in 1..Len(s) /\ s[k] = t
      /\ \A i \in (k + 1)..Len(s) : s[i] # t
  BY DEF LastAt
<1>1. Len(s) \in Nat /\ k \in Nat /\ k <= Len(s)
  BY <1>0, LenProperties
<1>2. HaRes!IndexOfLast(s, t) = k
  BY <1>0, <1>1, LastIndexIs
<1> DEFINE v == SubSeq(s, k + 1, Len(s))
<1>3. HaRes!AfterLast(s, t) = v
  BY <1>2 DEF HaRes!AfterLast
<1>4. v \in Seq(Word) /\ Len(v) = Len(s) - k /\ \A i \in 1..(Len(s) - k) : v[i] = s[k + i]
  BY <1>0, <1>1, DropIs
<1> HIDE DEF v
<1>5. Rest(s, k, v)
  BY <1>1, <1>4 DEF Rest
<1> QED
  BY <1>3, <1>5

LEMMA OneWord ==
    ASSUME NEW c \in Seq(Word), Len(c) = 1
    PROVE  c = <<c[1]>>
<1> DEFINE d == <<c[1]>>
<1>1. 1 \in 1..Len(c)
  OBVIOUS
<1>2. c[1] \in Word
  BY <1>1, ElementOfSeq
<1>3. d \in Seq(Word) /\ Len(d) = 1 /\ d[1] = c[1]
  BY <1>2
<1> HIDE DEF d
<1>4. \A i \in 1..Len(c) : c[i] = d[i]
  <2>1. \A i \in 1..Len(c) : i = 1
    OBVIOUS
  <2> QED
    BY <1>3, <2>1
<1>5. c = d
  BY <1>3, <1>4, SeqEqual
<1> QED
  BY <1>5 DEF d

(* What is left of a line that is no comment, when spaces are trimmed: t has  *)
(* the script at b, the card behind the second slash, of a + 1 words.         *)
Text(t, e, a, b) ==
    /\ t \in Seq(Word) /\ Len(t) \in Nat /\ a \in {0, 2} /\ (a = 2 <=> e.num # "none")
    /\ b \in {10 + a, 12 + a} /\ b <= Len(t)
    /\ t[1] = e.node /\ t[2] = SP /\ t[3] = "IPaddr::" /\ t[4] = "vip"
    /\ t[5] = "/" /\ t[6] = "24" /\ t[7] = "/" /\ t[8] = "eth0"
    /\ a = 2 => t[9] = ":" /\ t[10] = e.num
    /\ t[9 + a] = SP /\ t[b - 1] = SP /\ t[b] = e.script
    /\ e.tail = <<>> => Len(t) = b
    /\ e.tail = <<"newline">> => Len(t) = b + 1 /\ t[b + 1] = "newline"

LEMMA TrimmedText ==
    ASSUME NEW e \in HaRes!Entry, e.node # HASH
    PROVE  \E a, b : Text(HaRes!Trimmed(HaRes!Line(e)), e, a, b)
<1> DEFINE s == HaRes!Line(e)
           tail == e.tail
           a == Nums(e)
           r == Arps(e)
           b == 8 + a + r + 2
<1>1. /\ a \in {0, 2} /\ r \in {0, 2} /\ (a = 2 <=> e.num # "none")
      /\ s \in Seq(Word) /\ Len(tail) \in Nat /\ Len(s) = b + Len(tail)
      /\ s[1] = e.node /\ s[2] = SP /\ s[3] = "IPaddr::" /\ s[4] = "vip"
      /\ s[5] = "/" /\ s[6] = "24" /\ s[7] = "/" /\ s[8] = "eth0"
      /\ a = 2 => s[9] = ":" /\ s[10] = e.num
      /\ s[8 + a + 1] = SP /\ s[8 + a + r + 1] = SP /\ s[b] = e.script
      /\ \A i \in 1..Len(tail) : s[b + i] = tail[i]
  BY LineIs
<1> HIDE DEF s, a, r
<1>2. b \in {10 + a, 12 + a} /\ b \in Nat /\ 10 <= b /\ 8 + a + 1 = 9 + a /\ 8 + a + r + 1 = b - 1
  BY <1>1
<1>3. e.node # SP /\ e.script # SP /\ "newline" # SP
  BY DEF HaRes!Entry, SP, HASH
<1>4. Len(s) \in Nat /\ b \in 1..Len(s) /\ s # <<>> /\ s[1] # SP
  <2>1. Len(s) \in Nat /\ Len(s) # 0 /\ b \in 1..Len(s)
    <3>1. b \in Nat /\ 10 <= b /\ Len(tail) \in Nat /\ Len(s) = b + Len(tail)
      BY <1>1, <1>2
    <3> HIDE DEF b, tail
    <3> QED
      BY <3>1
  <2> QED
    BY <1>1, <1>3, <2>1, NotEmpty
<1> HIDE DEF b
<1>5. PICK k \in 1..Len(s) :
           /\ s[k] # SP
           /\ \A i \in (k + 1)..Len(s) : s[i] = SP
           /\ HaRes!Trimmed(s) = SubSeq(s, 1, k)
  BY <1>1, <1>4, TrimmedIs
<1> DEFINE t == SubSeq(s, 1, k)
<1>6. t \in Seq(Word) /\ Len(t) = k /\ \A i \in 1..k : t[i] = s[i]
  BY <1>1, PrefixIs
<1> HIDE DEF t
<1>7. b <= k
  <2> SUFFICES ASSUME ~(b <= k) PROVE FALSE
    OBVIOUS
  <2>1. b \in (k + 1)..Len(s)
    BY <1>4
  <2> QED
    BY <1>1, <1>3, <1>5, <2>1
<1>8. tail = <<>> => k = b
  BY <1>1, <1>2, <1>4, <1>7
<1>9. tail = <<"newline">> => k = b + 1 /\ s[b + 1] = "newline"
  <2> SUFFICES ASSUME tail = <<"newline">> PROVE k = b + 1 /\ s[b + 1] = "newline"
    OBVIOUS
  <2>1. Len(tail) = 1 /\ tail[1] = "newline"
    OBVIOUS
  <2> HIDE DEF tail
  <2>2. s[b + 1] = "newline" /\ Len(s) = b + 1
    BY <1>1, <2>1
  <2>3. ASSUME k # b + 1 PROVE FALSE
    <3>1. b + 1 \in (k + 1)..Len(s)
      BY <1>2, <1>4, <1>7, <2>2, <2>3
    <3> QED
      BY <1>3, <1>5, <2>2, <3>1
  <2> QED
    BY <2>2, <2>3
<1>10. /\ t[1] = s[1] /\ t[2] = s[2] /\ t[3] = s[3] /\ t[4] = s[4]
       /\ t[5] = s[5] /\ t[6] = s[6] /\ t[7] = s[7] /\ t[8] = s[8]
       /\ t[9] = s[9] /\ t[10] = s[10] /\ t[b - 1] = s[b - 1] /\ t[b] = s[b]
  <2>1. 10 <= k /\ k \in Nat
    BY <1>2, <1>4, <1>7
  <2>2. /\ 1 \in 1..k /\ 2 \in 1..k /\ 3 \in 1..k /\ 4 \in 1..k /\ 5 \in 1..k
        /\ 6 \in 1..k /\ 7 \in 1..k /\ 8 \in 1..k /\ 9 \in 1..k /\ 10 \in 1..k
    BY <2>1
  <2>3. b - 1 \in 1..k /\ b \in 1..k
    BY <1>2, <1>4, <1>7
  <2> QED
    BY <1>6, <2>2, <2>3
<1>11. t[9 + a] = s[9 + a]
  <2>1. 9 + a \in 1..k
    BY <1>1, <1>2, <1>4, <1>7
  <2> QED
    BY <1>6, <2>1
<1>12. tail = <<"newline">> => t[b + 1] = s[b + 1]
  <2>1. tail = <<"newline">> => b + 1 \in 1..k
    BY <1>2, <1>9
  <2> QED
    BY <1>6, <2>1
<1>13. Text(t, e, a, b)
  <2>1. /\ t \in Seq(Word) /\ Len(t) \in Nat /\ a \in {0, 2} /\ (a = 2 <=> e.num # "none")
        /\ b \in {10 + a, 12 + a} /\ b <= Len(t)
    BY <1>1, <1>2, <1>4, <1>6, <1>7
  <2>2. t[9 + a] = SP /\ t[b - 1] = SP /\ t[b] = e.script
    BY <1>1, <1>2, <1>10, <1>11
  <2>3. /\ e.tail = <<>> => Len(t) = b
        /\ e.tail = <<"newline">> => Len(t) = b + 1 /\ t[b + 1] = "newline"
    BY <1>6, <1>8, <1>9, <1>12
  <2>4. /\ t[1] = e.node /\ t[2] = SP /\ t[3] = "IPaddr::" /\ t[4] = "vip"
        /\ t[5] = "/" /\ t[6] = "24" /\ t[7] = "/" /\ t[8] = "eth0"
        /\ a = 2 => t[9] = ":" /\ t[10] = e.num
    BY <1>1, <1>10
  <2> QED
    BY <2>1, <2>2, <2>3, <2>4 DEF Text
<1> QED
  BY <1>5, <1>13 DEF t, s

(* What the daemon takes from such a text.                                    *)
LEMMA NodeIs ==
    ASSUME NEW t, NEW e \in HaRes!Entry, e.node # HASH, NEW a, NEW b, Text(t, e, a, b)
    PROVE  HaRes!Before(t, SP) = <<e.node>> /\ Rest(t, 2, HaRes!After(t, SP))
<1>1. e.node # SP
  BY DEF HaRes!Entry, SP, HASH
<1>2. t \in Seq(Word) /\ Len(t) \in Nat /\ 10 <= Len(t) /\ t[1] = e.node /\ t[2] = SP
  <2>1. Len(t) \in Nat /\ a \in {0, 2} /\ b \in {10 + a, 12 + a} /\ b <= Len(t)
    BY DEF Text
  <2>2. 10 <= Len(t)
    BY <2>1
  <2> QED
    BY <2>2 DEF Text
<1>3. 2 \in 1..Len(t) /\ 2 - 1 = 1 /\ \A i \in 1..1 : i = 1
  BY <1>2
<1> DEFINE u == HaRes!Before(t, SP)
           v == HaRes!After(t, SP)
<1>4. FirstAt(t, SP, 2)
  BY <1>1, <1>2, <1>3 DEF FirstAt
<1>5. Len(u) = 2 - 1 /\ u \in Seq(Word) /\ (\A i \in 1..(2 - 1) : u[i] = t[i]) /\ Rest(t, 2, v)
  BY <1>4, FoundFirst
<1> HIDE DEF u, v
<1>6. u = <<e.node>>
  <2>1. Len(u) = 1 /\ 1 \in 1..(2 - 1)
    BY <1>5
  <2>2. u[1] = e.node
    BY <1>2, <1>5, <2>1
  <2> QED
    BY <1>5, <2>1, <2>2, OneWord
<1> QED
  BY <1>5, <1>6 DEF u, v

LEMMA CardIs ==
    ASSUME NEW t, NEW e \in HaRes!Entry, e.node # HASH, NEW a, NEW b, Text(t, e, a, b),
           NEW c, c = HaRes!Card(t)
    PROVE  /\ c \in Seq(Word) /\ Len(c) = a + 1 /\ a \in {0, 2} /\ (a = 2 <=> e.num # "none")
           /\ c[1] = "eth0" /\ (a = 2 => c[2] = ":" /\ c[3] = e.num)
<1> DEFINE q == HaRes!After(t, SP)
           p == HaRes!Before(q, SP)
           d == HaRes!After(p, "IPaddr::")
<1>1. Rest(t, 2, q)
  BY NodeIs
<1>2. c = HaRes!AfterLast(d, "/")
  BY DEF HaRes!Card, HaRes!SP, SP
<1> HIDE DEF q, p, d
<1>3. /\ Len(t) \in Nat /\ a \in {0, 2} /\ (a = 2 <=> e.num # "none") /\ 10 + a <= Len(t)
      /\ t[3] = "IPaddr::" /\ t[4] = "vip"
      /\ t[5] = "/" /\ t[6] = "24" /\ t[7] = "/" /\ t[8] = "eth0"
      /\ a = 2 => t[9] = ":" /\ t[10] = e.num
      /\ t[9 + a] = SP
  BY DEF Text
<1>4. q \in Seq(Word) /\ Len(q) \in Nat /\ 8 + a <= Len(q) /\ \A i \in 1..(8 + a) : q[i] = t[2 + i]
  <2>1. /\ q \in Seq(Word) /\ Len(t) = 2 + Len(q) /\ Len(q) \in Nat
        /\ \A i \in 1..Len(q) : q[i] = t[2 + i]
    BY <1>1, LenProperties DEF Rest
  <2>2. 8 + a <= Len(q)
    BY <1>3, <2>1
  <2>3. \A i \in 1..(8 + a) : i \in 1..Len(q)
    BY <1>3, <2>1, <2>2
  <2> QED
    BY <2>1, <2>2, <2>3
<1>5. /\ q[1] = "IPaddr::" /\ q[2] = "vip" /\ q[3] = "/" /\ q[4] = "24" /\ q[5] = "/"
      /\ q[6] = "eth0" /\ (a = 2 => q[7] = ":" /\ q[8] = e.num) /\ q[7 + a] = SP
  <2>1. /\ 1 \in 1..(8 + a) /\ 2 \in 1..(8 + a) /\ 3 \in 1..(8 + a) /\ 4 \in 1..(8 + a)
        /\ 5 \in 1..(8 + a) /\ 6 \in 1..(8 + a) /\ 7 \in 1..(8 + a) /\ 8 \in 1..(8 + a)
        /\ 7 + a \in 1..(8 + a) /\ 2 + (7 + a) = 9 + a
    BY <1>3
  <2>2. q[7 + a] = SP
    BY <1>3, <1>4, <2>1
  <2>3. /\ q[1] = t[3] /\ q[2] = t[4] /\ q[3] = t[5] /\ q[4] = t[6] /\ q[5] = t[7] /\ q[6] = t[8]
        /\ q[7] = t[9] /\ q[8] = t[10]
    <3>1. /\ q[1] = t[2 + 1] /\ q[2] = t[2 + 2] /\ q[3] = t[2 + 3] /\ q[4] = t[2 + 4]
          /\ q[5] = t[2 + 5] /\ q[6] = t[2 + 6] /\ q[7] = t[2 + 7] /\ q[8] = t[2 + 8]
      BY <1>4, <2>1
    <3> QED
      BY <3>1
  <2> QED
    BY <1>3, <2>2, <2>3
<1>6. e.num # SP
  BY DEF HaRes!Entry, SP
<1>7. \A i \in 1..(6 + a) : q[i] # SP
  <2>1. ASSUME NEW i \in 1..(6 + a) PROVE i \in 1..6 \/ (a = 2 /\ i \in 7..8)
    BY <1>3
  <2>2. \A i \in 1..6 : i = 1 \/ i = 2 \/ i = 3 \/ i = 4 \/ i = 5 \/ i = 6
    OBVIOUS
  <2>3. \A i \in 7..8 : i = 7 \/ i = 8
    OBVIOUS
  <2>4. /\ "IPaddr::" # SP /\ "vip" # SP /\ "/" # SP /\ "24" # SP /\ "eth0" # SP /\ ":" # SP
    BY DEF SP
  <2>5. \A i \in 1..6 : q[i] # SP
    BY <1>5, <2>2, <2>4
  <2>6. a = 2 => \A i \in 7..8 : q[i] # SP
    BY <1>5, <1>6, <2>3, <2>4
  <2> QED
    BY <2>1, <2>5, <2>6
<1>8. p \in Seq(Word) /\ Len(p) = 6 + a /\ \A i \in 1..(6 + a) : p[i] = q[i]
  <2> DEFINE k == 7 + a
  <2>1. k \in 1..Len(q) /\ k - 1 = 6 + a
    BY <1>3, <1>4
  <2>2. FirstAt(q, SP, k)
    <3>1. q[k] = SP
      BY <1>5
    <3> HIDE DEF k
    <3> QED
      BY <1>4, <1>7, <2>1, <3>1 DEF FirstAt
  <2> HIDE DEF k
  <2>3. p \in Seq(Word) /\ Len(p) = k - 1 /\ \A i \in 1..(k - 1) : p[i] = q[i]
    BY <2>2, FoundFirst DEF p
  <2> QED
    BY <2>1, <2>3
<1>9. /\ p[1] = "IPaddr::" /\ p[2] = "vip" /\ p[3] = "/" /\ p[4] = "24" /\ p[5] = "/"
      /\ p[6] = "eth0" /\ (a = 2 => p[7] = ":" /\ p[8] = e.num)
  <2>1. /\ 1 \in 1..(6 + a) /\ 2 \in 1..(6 + a) /\ 3 \in 1..(6 + a) /\ 4 \in 1..(6 + a)
        /\ 5 \in 1..(6 + a) /\ 6 \in 1..(6 + a)
        /\ (a = 2 => 7 \in 1..(6 + a) /\ 8 \in 1..(6 + a))
    BY <1>3
  <2> QED
    BY <1>5, <1>8, <2>1
<1>10. d \in Seq(Word) /\ Len(d) = 5 + a /\ \A i \in 1..(5 + a) : d[i] = p[1 + i]
  <2>1. 1 \in 1..Len(p) /\ Len(p) = 6 + a /\ \A i \in 1..(1 - 1) : p[i] # "IPaddr::"
    BY <1>3, <1>8
  <2>2. FirstAt(p, "IPaddr::", 1)
    BY <1>8, <1>9, <2>1 DEF FirstAt
  <2>3. Rest(p, 1, d)
    BY <2>2, FoundFirst DEF d
  <2>4. /\ d \in Seq(Word) /\ Len(p) = 1 + Len(d) /\ Len(d) \in Nat
        /\ \A i \in 1..Len(d) : d[i] = p[1 + i]
    BY <2>3, LenProperties DEF Rest
  <2>5. Len(d) = 5 + a
    BY <1>3, <2>1, <2>4
  <2> QED
    BY <2>4, <2>5
<1>11. d[4] = "/" /\ d[5] = "eth0" /\ (a = 2 => d[6] = ":" /\ d[7] = e.num)
  <2>1. /\ 4 \in 1..(5 + a) /\ 5 \in 1..(5 + a)
        /\ (a = 2 => 6 \in 1..(5 + a) /\ 7 \in 1..(5 + a))
        /\ 1 + 4 = 5 /\ 1 + 5 = 6 /\ 1 + 6 = 7 /\ 1 + 7 = 8
    BY <1>3
  <2> QED
    BY <1>9, <1>10, <2>1
<1>12. \A i \in 5..(5 + a) : d[i] # "/"
  <2>1. \A i \in 5..(5 + a) : i = 5 \/ (a = 2 /\ (i = 6 \/ i = 7))
    BY <1>3
  <2>2. "eth0" # "/" /\ ":" # "/" /\ e.num # "/"
    BY DEF HaRes!Entry
  <2> QED
    BY <1>11, <2>1, <2>2
<1>13. c \in Seq(Word) /\ Len(c) = a + 1 /\ \A i \in 1..(a + 1) : c[i] = d[4 + i]
  <2>1. 4 \in 1..Len(d) /\ 4 + 1 = 5 /\ Len(d) = 5 + a
    BY <1>3, <1>10
  <2>2. \A i \in (4 + 1)..Len(d) : d[i] # "/"
    BY <1>12, <2>1
  <2>3. LastAt(d, "/", 4)
    BY <1>10, <1>11, <2>1, <2>2 DEF LastAt
  <2>4. Rest(d, 4, c)
    BY <1>2, <2>3, FoundLast
  <2>5. /\ c \in Seq(Word) /\ Len(d) = 4 + Len(c) /\ Len(c) \in Nat
        /\ \A i \in 1..Len(c) : c[i] = d[4 + i]
    BY <2>4, LenProperties DEF Rest
  <2>6. Len(c) = a + 1
    BY <1>3, <2>1, <2>5
  <2> QED
    BY <2>5, <2>6
<1>14. c[1] = "eth0" /\ (a = 2 => c[2] = ":" /\ c[3] = e.num)
  <2>1. /\ 1 \in 1..(a + 1) /\ (a = 2 => 2 \in 1..(a + 1) /\ 3 \in 1..(a + 1))
        /\ 4 + 1 = 5 /\ 4 + 2 = 6 /\ 4 + 3 = 7
    BY <1>3
  <2> QED
    BY <1>11, <1>13, <2>1
<1> QED
  BY <1>3, <1>13, <1>14

(* The card without its alias, and the alias if there is one.                 *)
LEMMA CardOnly ==
    ASSUME NEW c \in Seq(Word), Len(c) = 1, c[1] = "eth0"
    PROVE  HaRes!Before(c, ":") = <<"eth0">> /\ ~HaRes!Contains(c, ":")
<1>1. c = <<"eth0">>
  BY OneWord
<1>2. \A i \in 1..Len(c) : c[i] # ":"
  <2>1. \A i \in 1..Len(c) : i = 1
    OBVIOUS
  <2>2. "eth0" # ":"
    OBVIOUS
  <2> QED
    BY <2>1, <2>2
<1>3. ~HaRes!Contains(c, ":")
  BY <1>2 DEF HaRes!Contains
<1> QED
  BY <1>1, <1>3 DEF HaRes!Before

LEMMA CardAndAlias ==
    ASSUME NEW c, FirstAt(c, ":", 2)
    PROVE  /\ HaRes!Before(c, ":") = <<c[1]>> /\ HaRes!Contains(c, ":")
           /\ Len(c) = 3 => HaRes!After(c, ":")[1] = c[3]
<1> DEFINE u == HaRes!Before(c, ":")
           v == HaRes!After(c, ":")
<1>1. /\ HaRes!Contains(c, ":") /\ Len(u) = 2 - 1 /\ u \in Seq(Word)
      /\ (\A i \in 1..(2 - 1) : u[i] = c[i]) /\ Rest(c, 2, v)
  BY FoundFirst
<1> HIDE DEF u, v
<1>2. u = <<c[1]>>
  <2>1. Len(u) = 1 /\ 1 \in 1..(2 - 1)
    BY <1>1
  <2>2. u[1] = c[1]
    BY <1>1, <2>1
  <2> QED
    BY <1>1, <2>1, <2>2, OneWord
<1>3. Len(c) = 3 => v[1] = c[3]
  <2> SUFFICES ASSUME Len(c) = 3 PROVE v[1] = c[3]
    OBVIOUS
  <2>1. Len(c) = 2 + Len(v) /\ Len(v) \in Nat /\ \A i \in 1..Len(v) : v[i] = c[2 + i]
    BY <1>1, LenProperties DEF Rest
  <2>2. 1 \in 1..Len(v) /\ 2 + 1 = 3
    BY <2>1
  <2> QED
    BY <2>1, <2>2
<1> QED
  BY <1>1, <1>2, <1>3 DEF u, v

LEMMA ScriptIs ==
    ASSUME NEW t, NEW e \in HaRes!Entry, NEW a, NEW b, Text(t, e, a, b),
           e.tail \in {<<>>, <<"newline">>}
    PROVE  HaRes!ScriptName(t) = <<e.script>>
<1> DEFINE u == HaRes!AfterLast(t, SP)
<1>1. /\ t \in Seq(Word) /\ Len(t) \in Nat /\ b \in Nat /\ 10 <= b /\ b <= Len(t)
      /\ t[b - 1] = SP /\ t[b] = e.script
      /\ \/ Len(t) = b
         \/ Len(t) = b + 1 /\ t[b + 1] = "newline"
  <2>1. Len(t) \in Nat /\ a \in {0, 2} /\ b \in {10 + a, 12 + a} /\ b <= Len(t)
    BY DEF Text
  <2>2. b \in Nat /\ 10 <= b
    BY <2>1
  <2>3. \/ Len(t) = b
        \/ Len(t) = b + 1 /\ t[b + 1] = "newline"
    BY Zenon DEF Text
  <2>4. t \in Seq(Word) /\ t[b - 1] = SP /\ t[b] = e.script
    BY Zenon DEF Text
  <2> QED
    BY <2>1, <2>2, <2>3, <2>4
<1>2. /\ e.script # SP /\ "newline" # SP /\ e.script # "newline"
      /\ e.script # "return" /\ "newline" # "return"
  BY DEF HaRes!Entry, SP
<1> DEFINE k == b - 1
<1>3. /\ k \in 1..Len(t) /\ k + 1 = b /\ k + 2 = b + 1 /\ t[k] = SP
      /\ Len(t) - k \in {1, 2}
  BY <1>1
<1>4. \A i \in (k + 1)..Len(t) : t[i] # SP
  <2>1. \A i \in (k + 1)..Len(t) : i = b \/ (i = b + 1 /\ Len(t) = b + 1)
    BY <1>1
  <2> QED
    BY <1>1, <1>2, <2>1
<1> HIDE DEF k
<1> HIDE DEF u
<1>5. u \in Seq(Word) /\ Len(u) = Len(t) - k /\ \A i \in 1..(Len(t) - k) : u[i] = t[k + i]
  <2>1. LastAt(t, SP, k)
    BY <1>1, <1>3, <1>4 DEF LastAt
  <2>2. Rest(t, k, u)
    BY <2>1, FoundLast DEF u
  <2>3. /\ u \in Seq(Word) /\ Len(t) = k + Len(u) /\ Len(u) \in Nat
        /\ \A i \in 1..Len(u) : u[i] = t[k + i]
    BY <2>2, LenProperties DEF Rest
  <2>4. Len(u) = Len(t) - k
    BY <1>1, <1>3, <2>3
  <2> QED
    BY <2>3, <2>4
<1>6. u[1] = e.script /\ Len(u) \in {1, 2} /\ (Len(u) = 2 => u[2] = "newline")
  <2>1. 1 \in 1..(Len(t) - k) /\ (Len(u) = 2 => 2 \in 1..(Len(t) - k) /\ Len(t) = b + 1)
    BY <1>1, <1>3, <1>5
  <2> QED
    BY <1>1, <1>3, <1>5, <2>1
<1>7. HaRes!Strip(u, "return") = u
  <2>1. Len(u) \in 1..Len(u) /\ \A i \in (Len(u) + 1)..Len(u) : u[i] = "return"
    BY <1>6
  <2>2. u[Len(u)] # "return"
    BY <1>2, <1>6
  <2>3. HaRes!Strip(u, "return") = SubSeq(u, 1, Len(u))
    BY <1>5, <2>1, <2>2, StripIs
  <2> QED
    BY <1>5, <2>3, SubSeqFull
<1>8. HaRes!Strip(u, "newline") = SubSeq(u, 1, 1)
  <2>1. 1 \in 1..Len(u) /\ \A i \in (1 + 1)..Len(u) : i = 2 /\ Len(u) = 2
    <3>1. Len(u) = 1 => 1 \in 1..Len(u) /\ \A i \in (1 + 1)..Len(u) : FALSE
      OBVIOUS
    <3>2. Len(u) = 2 => 1 \in 1..Len(u) /\ \A i \in (1 + 1)..Len(u) : i = 2
      OBVIOUS
    <3> QED
      BY <1>6, <3>1, <3>2
  <2>2. u[1] # "newline" /\ \A i \in (1 + 1)..Len(u) : u[i] = "newline"
    BY <1>2, <1>6, <2>1
  <2> QED
    BY <1>5, <2>1, <2>2, StripIs
<1>9. SubSeq(u, 1, 1) = <<e.script>>
  <2> DEFINE v == SubSeq(u, 1, 1)
  <2>1. 1 \in 1..Len(u) /\ 1 \in 1..1
    BY <1>6
  <2>2. v \in Seq(Word) /\ Len(v) = 1 /\ \A i \in 1..1 : v[i] = u[i]
    BY <1>5, <2>1, PrefixIs
  <2> HIDE DEF v
  <2>3. v[1] = e.script
    BY <1>6, <2>1, <2>2
  <2>4. v = <<e.script>>
    BY <2>2, <2>3
  <2> QED
    BY <2>4 DEF v
<1> QED
  BY <1>7, <1>8, <1>9 DEF HaRes!ScriptName, HaRes!SP, SP, HaRes!CR, HaRes!NL, u

-----------------------------------------------------------------------------
(* What r, the members of HBRes, have to be for entry e.                      *)
Understood(e, r) ==
    e.tail \in {<<>>, <<"newline">>} =>
      r.node = <<e.node>> /\ r.eth = <<"eth0">> /\ r.script = <<e.script>>

(* Either nothing but comments has been read, or the first entry has been.    *)
HaResInv ==
    /\ haresources \in Seq(HaRes!Entry) /\ at \in Nat \ {0}
    /\ \/ \A i \in 1..Len(haresources) : i < at => haresources[i].node = HASH
       \/ /\ at > Len(haresources)
          /\ \E k \in 1..Len(haresources) :
               /\ haresources[k].node # HASH /\ Understood(haresources[k], hb_res)
               /\ \A i \in 1..(k - 1) : haresources[i].node = HASH

LEMMA SkippedIs ==
    ASSUME NEW e \in HaRes!Entry
    PROVE  HaRes!Skipped(HaRes!Line(e)) <=> e.node = HASH
<1> DEFINE s == HaRes!Line(e)
<1>1. s[1] = e.node
  BY LineIs
<1>2. Head(s) = s[1]
  OBVIOUS
<1>3. e.node \in {"a", "b", HASH}
  BY DEF HaRes!Entry, HASH
<1> HIDE DEF s
<1> QED
  BY <1>1, <1>2, <1>3 DEF HaRes!Skipped, HaRes!NL, HaRes!CR, HASH, s

LEMMA EntryRead ==
    ASSUME NEW e \in HaRes!Entry, e.node # HASH,
           NEW line, line = HaRes!Trimmed(HaRes!Line(e)), NEW card, card = HaRes!Card(line),
           NEW n, NEW r, r = [node    |-> HaRes!Before(line, HaRes!SP),
                              eth     |-> HaRes!Before(card, ":"),
                              eth_num |-> n,
                              script  |-> HaRes!ScriptName(line)]
    PROVE  Understood(e, r)
<1>1. PICK a, b : Text(line, e, a, b)
  BY TrimmedText
<1>2. HaRes!Before(line, SP) = <<e.node>>
  BY <1>1, NodeIs
<1>3. e.tail \in {<<>>, <<"newline">>} => HaRes!ScriptName(line) = <<e.script>>
  BY <1>1, ScriptIs
<1>4. /\ card \in Seq(Word) /\ Len(card) = a + 1 /\ a \in {0, 2} /\ (a = 2 <=> e.num # "none")
      /\ card[1] = "eth0" /\ (a = 2 => card[2] = ":" /\ card[3] = e.num)
  BY <1>1, CardIs
<1>5. CASE a = 0
  <2>1. HaRes!Before(card, ":") = <<"eth0">> /\ ~HaRes!Contains(card, ":")
    BY <1>4, <1>5, CardOnly
  <2> QED
    BY <1>2, <1>3, <2>1 DEF Understood, HaRes!SP, SP
<1>6. CASE a = 2
  <2>1. FirstAt(card, ":", 2)
    <3>1. Len(card) = 3 /\ 2 \in 1..Len(card) /\ \A i \in 1..(2 - 1) : i = 1
      BY <1>4, <1>6
    <3>2. "eth0" # ":"
      OBVIOUS
    <3> QED
      BY <1>4, <1>6, <3>1, <3>2 DEF FirstAt
  <2>2. /\ HaRes!Before(card, ":") = <<"eth0">> /\ HaRes!Contains(card, ":")
        /\ HaRes!After(card, ":")[1] = e.num
    BY <1>4, <1>6, <2>1, CardAndAlias
  <2> QED
    BY <1>2, <1>3, <1>4, <1>6, <2>2 DEF Understood, HaRes!SP, SP
<1> QED
  BY <1>4, <1>5, <1>6

LEMMA HaResStep == HaResInv /\ [HaRes!Next]_HaRes!vars => HaResInv'
<1> SUFFICES ASSUME HaResInv, [HaRes!Next]_HaRes!vars PROVE HaResInv'
  OBVIOUS
<1> USE DEF HaResInv
<1>0. Len(haresources) \in Nat
  BY LenProperties
<1>1. CASE UNCHANGED HaRes!vars
  BY <1>1 DEF HaRes!vars, Understood
<1>2. CASE HaRes!WriteLine
  <2>1. PICK e \in HaRes!Entry : haresources' = Append(haresources, e)
    BY <1>2 DEF HaRes!WriteLine
  <2>2. at = 1 /\ at' = at /\ hb_res' = hb_res
    BY <1>2 DEF HaRes!WriteLine
  <2>3. haresources' \in Seq(HaRes!Entry)
    BY <2>1, AppendProperties
  <2>4. \A i \in 1..Len(haresources') : ~(i < at')
    BY <2>2
  <2> QED
    BY <2>2, <2>3, <2>4
<1>3. CASE HaRes!ReadLine
  <2> DEFINE e == haresources[at]
             line == HaRes!Trimmed(HaRes!Line(e))
             card == HaRes!Card(line)
  <2>1. at \in 1..Len(haresources) /\ e \in HaRes!Entry
    BY <1>0, <1>3, ElementOfSeq DEF HaRes!ReadLine
  <2>2. haresources' = haresources
    BY <1>3 DEF HaRes!ReadLine
  <2>3. \A i \in 1..Len(haresources) : i < at => haresources[i].node = HASH
    <3>1. ~(at > Len(haresources))
      BY <1>0, <2>1
    <3> QED
      BY <3>1
  <2>4. CASE e.node = HASH
    <3>1. at' = at + 1
      BY <1>3, <2>1, <2>4, SkippedIs DEF HaRes!ReadLine
    <3>2. \A i \in 1..Len(haresources) : i < at + 1 => haresources[i].node = HASH
      <4>1. \A i \in 1..Len(haresources) : i < at + 1 => i < at \/ i = at
        BY <2>1
      <4> QED
        BY <2>3, <2>4, <4>1
    <3> HIDE DEF e, line, card
    <3> QED
      BY <2>2, <3>1, <3>2
  <2>5. CASE e.node # HASH
    <3>1. ~HaRes!Skipped(HaRes!Line(e))
      BY <2>1, <2>5, SkippedIs
    <3>2. /\ at' = Len(haresources) + 1
          /\ \E n : hb_res' = [node    |-> HaRes!Before(line, HaRes!SP),
                               eth     |-> HaRes!Before(card, ":"),
                               eth_num |-> n,
                               script  |-> HaRes!ScriptName(line)]
      BY <1>3, <3>1 DEF HaRes!ReadLine
    <3>3. Understood(e, hb_res')
      BY <2>1, <2>5, <3>2, EntryRead
    <3>4. \A i \in 1..(at - 1) : haresources[i].node = HASH
      <4>1. \A i \in 1..(at - 1) : i \in 1..Len(haresources) /\ i < at
        BY <1>0, <2>1
      <4> QED
        BY <2>3, <4>1
    <3>5. at' > Len(haresources) /\ at' \in Nat \ {0}
      BY <1>0, <3>2
    <3>6. (\E k \in 1..Len(haresources) :
             /\ haresources[k].node # HASH /\ Understood(haresources[k], hb_res)
             /\ \A i \in 1..(k - 1) : haresources[i].node = HASH)'
      BY <2>1, <2>2, <2>5, <3>3, <3>4 DEF Understood
    <3> HIDE DEF e, line, card
    <3> QED
      BY <2>2, <3>5, <3>6
  <2> QED
    BY <2>4, <2>5
<1> QED
  BY <1>1, <1>2, <1>3 DEF HaRes!Next

LEMMA HaResInvariant == HaRes!Spec => []HaResInv
<1>1. HaRes!Init => HaResInv
  <2> SUFFICES ASSUME HaRes!Init PROVE HaResInv
    OBVIOUS
  <2>1. haresources = <<>> /\ at = 1
    BY DEF HaRes!Init
  <2> QED
    BY <2>1 DEF HaResInv
<1> QED
  BY <1>1, HaResStep, PTL DEF HaRes!Spec

LEMMA FirstEntryRead ==
    ASSUME HaResInv, HaRes!Read
    PROVE  Understood(HaRes!First, hb_res)
<1>1. at > Len(haresources) /\ HaRes!Entries # {} /\ Len(haresources) \in Nat
  BY LenProperties DEF HaRes!Read, HaResInv
<1>2. HaRes!Entries = {k \in 1..Len(haresources) : haresources[k].node # HASH}
  BY DEF HaRes!Entries, HaResInv, HASH
<1>3. PICK k \in 1..Len(haresources) :
          /\ haresources[k].node # HASH /\ Understood(haresources[k], hb_res)
          /\ \A i \in 1..(k - 1) : haresources[i].node = HASH
  <2>1. ~\A i \in 1..Len(haresources) : i < at => haresources[i].node = HASH
    BY <1>1, <1>2 DEF HaResInv
  <2> QED
    BY <2>1 DEF HaResInv
<1>4. HaRes!Min(HaRes!Entries) = k
  <2>1. k \in HaRes!Entries /\ \A j \in HaRes!Entries : j \in Int /\ k <= j
    BY <1>2, <1>3
  <2> QED
    BY <2>1, MinMaxAre
<1> QED
  BY <1>3, <1>4 DEF HaRes!First

(* From a file of any length, with any comments before it, the first entry is *)
(* read as it was written if it ends cleanly (HBRes::open_file).              *)
THEOREM EntryUnderstoodHolds == HaRes!Spec => []EntryUnderstood
<1>1. HaResInv => EntryUnderstood
  BY FirstEntryRead DEF EntryUnderstood, HaRes!EntryUnderstood, Understood, HaRes!NL
<1> QED
  BY <1>1, HaResInvariant, PTL

=============================================================================
