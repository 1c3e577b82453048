----------------------------- MODULE VipService -----------------------------
(* What the cluster promises about its virtual IP, with nothing of how it     *)
(* keeps the promise.  holders are the nodes that have the VIP.  solo are     *)
(* those among them that took it without an orderly handover: because their   *)
(* peer was silent, because an operator said so, or on an answer so old that  *)
(* it proves nothing.  An orderly take happens only when nobody holds the VIP *)
(* except on such grounds, so at most one node ever holds it in good order.   *)

CONSTANT Node

VARIABLES holders, solo

TypeOK == holders \subseteq Node /\ solo \subseteq holders

Init == holders = {} /\ solo = {}

(* An orderly take.                                                           *)
Take(n) ==
    /\ n \notin holders
    /\ holders \subseteq solo
    /\ holders' = holders \cup {n}
    /\ UNCHANGED solo

(* A take on the node's own authority.                                        *)
Seize(n) ==
    /\ n \notin holders
    /\ holders' = holders \cup {n}
    /\ solo' = solo \cup {n}

Release(n) ==
    /\ n \in holders
    /\ holders' = holders \ {n}
    /\ solo' = solo \ {n}

Next == \E n \in Node : Take(n) \/ Seize(n) \/ Release(n)

Spec == Init /\ [][Next]_<<holders, solo>>

(* At most one holder in good order. *)
Exclusive == \A m, n \in holders \ solo : m = n

=============================================================================
