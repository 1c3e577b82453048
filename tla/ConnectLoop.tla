---------------------------- MODULE ConnectLoop ----------------------------
(* The primary's way to a connection (main.cpp, label reconnect) with the     *)
(* time it takes and the sockets it costs.  HbCluster leaves both out: there  *)
(* a client without a peer acts alone some time later, and connects for ever. *)
(*                                                                            *)
(* Seconds are counted since the peer was lost: slept in sleep(keepalive),    *)
(* blocked in connect.                                                        *)

EXTENDS Naturals

CONSTANTS
    keepalive,   \* seconds between two attempts
    deadtime,    \* seconds after which the client acts alone
    MaxConnect,  \* seconds that one connect may block
    FdLimit      \* sockets the process may have open at a time

ASSUME ConnectAssumption ==
    /\ keepalive \in Nat \ {0}
    /\ deadtime \in Nat
    /\ MaxConnect \in Nat
    /\ FdLimit \in Nat

VARIABLES
    pc,           \* connect, connected, or exited
    trouble,      \* a manual command has parked the loop
    try_time_sum, \* the loop's own count of seconds, which a connection does not reset
    fds,          \* sockets that are open
    failures,     \* history: connects that failed
    slept,        \* history: seconds slept in this outage
    blocked,      \* history: seconds inside connect in this outage
    acted         \* history: the client has acted alone in this outage

vars == <<pc, trouble, try_time_sum, fds, failures, slept, blocked, acted>>

Init ==
    /\ pc = "connect" /\ trouble = FALSE /\ try_time_sum = 0 /\ fds = 0
    /\ failures = 0 /\ slept = 0 /\ blocked = 0 /\ acted = FALSE

-----------------------------------------------------------------------------
(* Socket, and a connect that fails after d seconds.  The socket stays open.  *)
Fails(d) ==
    /\ pc = "connect" /\ fds < FdLimit
    /\ fds' = fds + 1
    /\ failures' = failures + 1
    /\ blocked' = blocked + d
    /\ UNCHANGED <<pc, trouble>>

(* Mutation: deadtime must be exceeded by a whole turn.                       *)
Due_Late == ~trouble /\ try_time_sum > deadtime + keepalive

Due == ~trouble /\ try_time_sum >= deadtime

(* The attempts add up to deadtime: the stand-alone policy is carried out,    *)
(* and the next attempt follows at once.                                      *)
ActsAlone ==
    /\ Due
    /\ \E d \in 0..MaxConnect : Fails(d)
    /\ try_time_sum' = 0
    /\ acted' = TRUE
    /\ UNCHANGED slept

Sleeps ==
    /\ ~Due
    /\ \E d \in 0..MaxConnect : Fails(d)
    /\ try_time_sum' = try_time_sum + keepalive
    /\ slept' = slept + keepalive
    /\ UNCHANGED acted

Connects ==
    /\ pc = "connect" /\ fds < FdLimit
    /\ fds' = fds + 1
    /\ pc' = "connected"
    /\ UNCHANGED <<trouble, try_time_sum, failures, slept, blocked, acted>>

(* Mutation: the socket of a lost connection is forgotten.                    *)
Drops_NoClose ==
    /\ pc = "connected"
    /\ pc' = "connect"
    /\ slept' = 0 /\ blocked' = 0 /\ acted' = FALSE
    /\ UNCHANGED <<trouble, try_time_sum, failures, fds>>

(* A write or read error or the end of the stream: close(cfd), and an outage  *)
(* begins.                                                                    *)
Drops ==
    /\ pc = "connected"
    /\ fds' = fds - 1
    /\ pc' = "connect"
    /\ slept' = 0 /\ blocked' = 0 /\ acted' = FALSE
    /\ UNCHANGED <<trouble, try_time_sum, failures>>

(* Socket has no descriptor left: perr_exit.                                  *)
Exits ==
    /\ pc = "connect" /\ fds >= FdLimit
    /\ pc' = "exited"
    /\ UNCHANGED <<trouble, try_time_sum, fds, failures, slept, blocked, acted>>

ManualSwitch ==
    /\ pc # "exited" /\ ~trouble
    /\ trouble' = TRUE
    /\ UNCHANGED <<pc, try_time_sum, fds, failures, slept, blocked, acted>>

Next == ActsAlone \/ Sleeps \/ Connects \/ Drops \/ Exits \/ ManualSwitch

Spec == Init /\ [][Next]_vars

-----------------------------------------------------------------------------
TypeOK ==
    /\ pc \in {"connect", "connected", "exited"}
    /\ trouble \in BOOLEAN /\ acted \in BOOLEAN
    /\ try_time_sum \in Nat /\ fds \in Nat /\ failures \in Nat
    /\ slept \in Nat /\ blocked \in Nat

(* A client that may act does so in time: before it has acted it never sleeps *)
(* deadtime plus one turn, whatever earlier outages left in try_time_sum; and *)
(* what it spends inside connect on the way is at most MaxConnect a turn.     *)
ActsInTime ==
    pc = "connect" /\ ~trouble /\ ~acted
      => /\ slept < deadtime + keepalive
         /\ blocked * keepalive <= slept * MaxConnect

(* Only failed connects cost sockets for good: connections that were made and *)
(* lost, however many, bring the process no closer to its limit.              *)
OnlyFailuresLeak ==
    fds = failures + (IF pc = "connected" THEN 1 ELSE 0)

=============================================================================
