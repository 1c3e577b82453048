---------------------------- MODULE DetectString ----------------------------
(* conf.ini's detectstring: Base64 text, with characters in between that do   *)
(* not belong to it, is cleaned into a buffer and decoded before every round. *)
(* The buffers are global and never cleared, so what an earlier, longer text  *)
(* left is still behind the new one, where an empty text and one whose        *)
(* padding is missing let the decoder read.                                   *)
(*                                                                            *)
(* A Base64 character is its number 0..63, or Pad; every other one is Trash.  *)
(* A turn of a loop of MyFunc.cpp is a step.                                  *)

EXTENDS Integers, Sequences

CONSTANTS
    Bytes,           \* the bytes that detection strings are made of
    MinLen, MaxLen,  \* how many they have
    MaxTrash         \* bound on the trash in a text

VARIABLES
    wanted,                    \* history: the bytes that the text stands for
    stage,                     \* the loop that runs: none, clean, decode
    taken, given,              \* its i and j: what it has read and written
    b64_det_str_no_trash,      \* the buffer of cleaned characters
    b64_det_str_no_trash_len,  \* how many they are
    detect_string,             \* the buffer of decoded bytes
    detect_strLen              \* how many of them are sent

loop    == <<stage, taken, given>>
cleaned == <<b64_det_str_no_trash, b64_det_str_no_trash_len>>
decoded == <<detect_string, detect_strLen>>
vars    == <<wanted, loop, cleaned, decoded>>

Pad   == 64
Trash == 65

-----------------------------------------------------------------------------
(* What a Base64 text is: three bytes in four characters of six bits, padded  *)
(* to fours.                                                                  *)

Byte(b, n) == IF n <= Len(b) THEN b[n] ELSE 0

Sextet(b, k) ==
    LET g == 3 * ((k - 1) \div 4)
        x == Byte(b, g + 1)
        y == Byte(b, g + 2)
        z == Byte(b, g + 3)
    IN  CASE k % 4 = 1 -> x \div 4
          [] k % 4 = 2 -> 16 * (x % 4) + y \div 16
          [] k % 4 = 3 -> 4 * (y % 16) + z \div 64
          [] k % 4 = 0 -> z % 64

TextLen(b) == 4 * ((Len(b) + 2) \div 3)

(* Those of the characters that are not padding.                              *)
Chars(b) == (4 * Len(b) + 2) \div 3

Encoded(b) == [k \in 1..TextLen(b) |-> IF k <= Chars(b) THEN Sextet(b, k) ELSE Pad]

Strings == UNION { [1..n -> Bytes] : n \in MinLen..MaxLen }

-----------------------------------------------------------------------------
(* MyFunc.cpp                                                                 *)

IsLegalChar(c) == c # Trash

base64_decode_map(c) == IF c < 64 THEN c ELSE 255

(* x << s | y in eight bits, where w is 2^s.  A y that reaches into x comes   *)
(* from 255 and is all ones.                                                  *)
Joined(x, w, y) ==
    LET high == (x * w) % 256 IN
    IF y < w THEN high + y ELSE (high \div (y + 1)) * (y + 1) + y

(* The three bytes of the four characters after the i-th.                     *)
Quantum(src, i) ==
    LET m(k) == base64_decode_map(src[i + k]) IN
    << Joined(m(1), 4, m(2) \div 16), Joined(m(2), 16, m(3) \div 4), Joined(m(3), 64, m(4)) >>

(* The last four characters, of which padding gives no byte.                  *)
LastQuantum(src, i) ==
    LET q == Quantum(src, i)
        second == IF src[i + 3] # Pad THEN <<q[2]>> ELSE <<>>
        third  == IF src[i + 4] # Pad THEN <<q[3]>> ELSE <<>>
    IN  <<q[1]>> \o second \o third

-----------------------------------------------------------------------------

(* The buffer holds more than the longest text and what may be read past it.  *)
Size == 4 * ((MaxLen + 2) \div 3) + 4

(* The buffer with s written behind its first n elements.                     *)
Over(buffer, n, s) ==
    [k \in DOMAIN buffer |-> IF k > n /\ k <= n + Len(s) THEN s[k - n] ELSE buffer[k]]

Init ==
    /\ wanted = <<>>
    /\ stage = "none" /\ taken = 0 /\ given = 0
    /\ b64_det_str_no_trash = [k \in 1..Size |-> Trash] /\ b64_det_str_no_trash_len = 0
    /\ detect_string = [k \in 1..Size |-> 0] /\ detect_strLen = 0

Enters(s) == stage' = s /\ taken' = 0 /\ given' = 0

(* The administrator has written a text into conf.ini, and a round reads it.  *)
LoadDetectString ==
    /\ stage = "none" /\ Enters("clean")
    /\ wanted' \in Strings
    /\ UNCHANGED <<cleaned, decoded>>

(* What the text may have next: a character of what it stands for, or trash.  *)
NextChars ==
    (IF given < TextLen(wanted) THEN {Encoded(wanted)[given + 1]} ELSE {})
        \cup (IF taken < given + MaxTrash THEN {Trash} ELSE {})

ClearB64Trash ==
    /\ stage = "clean" /\ taken' = taken + 1
    /\ \E c \in NextChars :
         IF IsLegalChar(c)
           THEN /\ b64_det_str_no_trash' = Over(b64_det_str_no_trash, given, <<c>>)
                /\ given' = given + 1
           ELSE UNCHANGED <<b64_det_str_no_trash, given>>
    /\ UNCHANGED <<wanted, stage, b64_det_str_no_trash_len, decoded>>

(* The end of the text, whose padding may have been left out.                 *)
TrashCleared ==
    /\ stage = "clean" /\ given >= Chars(wanted)
    /\ b64_det_str_no_trash_len' = given /\ Enters("decode")
    /\ UNCHANGED <<wanted, b64_det_str_no_trash, decoded>>

(* Mutation: the loop takes the last four characters too.                     *)
Base64Decode_Whole ==
    /\ stage = "decode" /\ taken < b64_det_str_no_trash_len
    /\ detect_string' = Over(detect_string, given, Quantum(b64_det_str_no_trash, taken))
    /\ taken' = taken + 4 /\ given' = given + 3
    /\ UNCHANGED <<wanted, stage, cleaned, detect_strLen>>

(* Whole groups of four, while more than four characters are left.            *)
Base64Decode ==
    /\ stage = "decode" /\ taken < b64_det_str_no_trash_len - 4
    /\ detect_string' = Over(detect_string, given, Quantum(b64_det_str_no_trash, taken))
    /\ taken' = taken + 4 /\ given' = given + 3
    /\ UNCHANGED <<wanted, stage, cleaned, detect_strLen>>

(* What is behind the loop.                                                   *)
DecodesLast ==
    /\ stage = "decode" /\ taken >= b64_det_str_no_trash_len - 4
    /\ LET bytes == LastQuantum(b64_det_str_no_trash, taken) IN
         /\ detect_string' = Over(detect_string, given, bytes)
         /\ detect_strLen' = given + Len(bytes)
    /\ Enters("none")
    /\ UNCHANGED <<wanted, cleaned>>

Next == LoadDetectString \/ ClearB64Trash \/ TrashCleared \/ Base64Decode \/ DecodesLast

Spec == Init /\ [][Next]_vars

-----------------------------------------------------------------------------
(* The bytes that may come out too many: one for each padding character that  *)
(* is missing, and up to three for a text of nothing but trash.               *)
Surplus ==
    IF wanted = <<>> THEN 3 ELSE TextLen(wanted) - b64_det_str_no_trash_len

(* What is sent to the service begins with what the text in conf.ini stands   *)
(* for, whatever the text before it was; with all its padding it is that and  *)
(* not a byte more, and what the buffers had before adds no more bytes than   *)
(* the text lacks (LoadMonSrvConf, Base64Decode).                             *)
SendsWhatIsMeant ==
    stage = "none" =>
        /\ SubSeq(detect_string, 1, Len(wanted)) = wanted
        /\ detect_strLen \in Len(wanted)..(Len(wanted) + Surplus)
=============================================================================
