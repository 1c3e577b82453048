------------------------- MODULE ConnectLoopProofs -------------------------
(* How long the client waits before it acts alone, and what its sockets cost, *)
(* for every keepalive, deadtime, duration of a connect and limit.            *)

EXTENDS ConnectLoop, TLAPS

(* The loop's own count covers what it slept in this outage, because nothing  *)
(* but acting resets it; while it may act it stays below deadtime and a turn. *)
CountInv ==
    /\ TypeOK
    /\ OnlyFailuresLeak
    /\ ~trouble => try_time_sum < deadtime + keepalive
    /\ ~acted => /\ slept <= try_time_sum
                 /\ blocked * keepalive <= slept * MaxConnect

LEMMA InitCount == Init => CountInv
<1> SUFFICES ASSUME Init PROVE CountInv
  OBVIOUS
<1>1. /\ pc = "connect" /\ try_time_sum = 0 /\ fds = 0 /\ failures = 0
      /\ slept = 0 /\ blocked = 0
  BY DEF Init
<1>2. trouble \in BOOLEAN /\ acted \in BOOLEAN
  BY Zenon DEF Init
<1> QED
  BY <1>1, <1>2, ConnectAssumption DEF CountInv, TypeOK, OnlyFailuresLeak

(* One more turn of at most MaxConnect seconds in connect.                    *)
LEMMA TurnBound ==
    ASSUME NEW s \in Nat, NEW b \in Nat, NEW d \in 0..MaxConnect,
           b * keepalive <= s * MaxConnect
    PROVE  (b + d) * keepalive <= (s + keepalive) * MaxConnect
<1>1. d \in Nat /\ d <= MaxConnect /\ keepalive \in Nat /\ MaxConnect \in Nat
  BY ConnectAssumption
<1>2. d * keepalive <= MaxConnect * keepalive
  BY <1>1, SMTT(30)
<1>3. (b + d) * keepalive = b * keepalive + d * keepalive
  BY <1>1, SMTT(30)
<1>4. (s + keepalive) * MaxConnect = s * MaxConnect + MaxConnect * keepalive
  BY <1>1, SMTT(30)
<1>5. /\ b * keepalive \in Nat /\ d * keepalive \in Nat
      /\ s * MaxConnect \in Nat /\ MaxConnect * keepalive \in Nat
  BY <1>1, SMTT(30)
<1> QED
  BY <1>2, <1>3, <1>4, <1>5

LEMMA StepCount == CountInv /\ [Next]_vars => CountInv'
<1> SUFFICES ASSUME CountInv, [Next]_vars PROVE CountInv'
  OBVIOUS
<1> USE ConnectAssumption DEF CountInv
<1>1. CASE ActsAlone
  <2>1. PICK d \in 0..MaxConnect : Fails(d)
    BY <1>1 DEF ActsAlone
  <2>2. /\ try_time_sum' = 0 /\ acted' = TRUE /\ slept' = slept
        /\ ~trouble'
    BY <1>1, <2>1 DEF ActsAlone, Fails, Due
  <2> QED
    BY <2>1, <2>2 DEF Fails, TypeOK, OnlyFailuresLeak
<1>2. CASE Sleeps
  <2>1. PICK d \in 0..MaxConnect : Fails(d)
    BY <1>2 DEF Sleeps
  <2>2. /\ try_time_sum' = try_time_sum + keepalive
        /\ slept' = slept + keepalive /\ acted' = acted
        /\ ~trouble => try_time_sum < deadtime
    BY <1>2 DEF Sleeps, Due, TypeOK
  <2>3. TypeOK' /\ OnlyFailuresLeak'
    BY <2>1, <2>2 DEF Fails, TypeOK, OnlyFailuresLeak
  <2>4. ~trouble' => try_time_sum' < deadtime + keepalive
    BY <2>1, <2>2 DEF Fails, TypeOK
  <2>5. ~acted' => slept' <= try_time_sum'
    BY <2>2 DEF TypeOK
  <2>6. ~acted' => blocked' * keepalive <= slept' * MaxConnect
    BY <2>1, <2>2, TurnBound DEF Fails, TypeOK
  <2> QED
    BY <2>3, <2>4, <2>5, <2>6
<1>3. CASE Connects
  BY <1>3 DEF Connects, TypeOK, OnlyFailuresLeak
<1>4. CASE Drops
  <2>1. acted' \in BOOLEAN /\ ~acted'
    BY <1>4, Zenon DEF Drops
  <2>2. /\ pc = "connected" /\ pc' = "connect" /\ fds' = fds - 1
        /\ slept' = 0 /\ blocked' = 0
        /\ UNCHANGED <<trouble, try_time_sum, failures>>
    BY <1>4 DEF Drops
  <2>3. 0 * keepalive <= 0 * MaxConnect
    OBVIOUS
  <2> QED
    BY <2>1, <2>2, <2>3 DEF TypeOK, OnlyFailuresLeak
<1>5. CASE Exits
  BY <1>5 DEF Exits, TypeOK, OnlyFailuresLeak
<1>6. CASE ManualSwitch
  <2>1. trouble' \in BOOLEAN /\ trouble'
    BY <1>6, Zenon DEF ManualSwitch
  <2>2. UNCHANGED <<pc, try_time_sum, fds, failures, slept, blocked, acted>>
    BY <1>6 DEF ManualSwitch
  <2> QED
    BY <2>1, <2>2 DEF TypeOK, OnlyFailuresLeak
<1>7. CASE UNCHANGED vars
  <2>1. /\ pc' = pc /\ trouble' = trouble /\ try_time_sum' = try_time_sum /\ fds' = fds
        /\ failures' = failures /\ slept' = slept /\ blocked' = blocked /\ acted' = acted
    BY <1>7 DEF vars
  <2> QED
    BY <2>1, Zenon DEF TypeOK, OnlyFailuresLeak
<1> QED
  BY <1>1, <1>2, <1>3, <1>4, <1>5, <1>6, <1>7 DEF Next

(* A client that may act alone never sleeps deadtime plus a turn first.       *)
THEOREM ActsInTimeHolds == Spec => []ActsInTime
<1>1. CountInv => ActsInTime
  BY ConnectAssumption DEF CountInv, TypeOK, ActsInTime
<1> QED
  BY <1>1, InitCount, StepCount, PTL DEF Spec

(* The open sockets are the failed connects and the connection.               *)
THEOREM OnlyFailuresLeakHolds == Spec => []OnlyFailuresLeak
<1>1. CountInv => OnlyFailuresLeak
  BY DEF CountInv
<1> QED
  BY <1>1, InitCount, StepCount, PTL DEF Spec

=============================================================================
