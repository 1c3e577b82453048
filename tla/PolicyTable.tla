---------------------------- MODULE PolicyTable ----------------------------
(* The policy files as they are shipped, and what policy_online_init,         *)
(* policy_stand_alone_init and the two lookups make of them: a map from the   *)
(* key to the action, in which a key that is not there means "do nothing".    *)
(* HbPolicy's operators are these lookups in closed form.                     *)

EXTENDS HbPolicy, Sequences

(* policy-online.dat: p_ss, p_vip, p_afk, b_ss, b_vip, action.  (The file     *)
(* gives every row twice; the second, equal one overwrites the first.)        *)
PolicyOnline == {
    <<1, 1, 1, 1, 1, 2>>, <<1, 1, 1, 1, 0, 0>>, <<1, 1, 1, 0, 1, 2>>, <<1, 1, 1, 0, 0, 2>>,
    <<1, 1, 0, 1, 1, 2>>, <<1, 1, 0, 1, 0, 0>>, <<1, 1, 0, 0, 1, 2>>, <<1, 1, 0, 0, 0, 2>>,
    <<1, 0, 1, 1, 1, 2>>, <<1, 0, 1, 1, 0, 2>>, <<1, 0, 1, 0, 1, 2>>, <<1, 0, 1, 0, 0, 2>>,
    <<1, 0, 0, 1, 1, 0>>, <<1, 0, 0, 1, 0, 2>>, <<1, 0, 0, 0, 1, 2>>, <<1, 0, 0, 0, 0, 2>>,
    <<0, 1, 1, 1, 1, 1>>, <<0, 1, 1, 1, 0, 1>>, <<0, 1, 1, 0, 1, 0>>, <<0, 1, 1, 0, 0, 0>>,
    <<0, 1, 0, 1, 1, 1>>, <<0, 1, 0, 1, 0, 1>>, <<0, 1, 0, 0, 1, 0>>, <<0, 1, 0, 0, 0, 0>>,
    <<0, 0, 1, 1, 1, 1>>, <<0, 0, 1, 1, 0, 1>>, <<0, 0, 1, 0, 1, 0>>, <<0, 0, 1, 0, 0, 0>>,
    <<0, 0, 0, 1, 1, 1>>, <<0, 0, 0, 1, 0, 1>>, <<0, 0, 0, 0, 1, 0>>, <<0, 0, 0, 0, 0, 0>>
}

(* policy-stand-alone.dat, the p_ rows and the b_ rows: ss, vip, action.      *)
PolicyStandAlone(node_type) ==
    IF node_type = 0
      THEN {<<1, 1, 1>>, <<1, 0, 1>>, <<0, 1, 2>>, <<0, 0, 0>>}
      ELSE {<<1, 1, 1>>, <<1, 0, 1>>, <<0, 1, 2>>, <<0, 0, 0>>}

Bit(b) == IF b THEN 1 ELSE 0

policy_link_map(p_ss, p_vip, p_afk, b_ss, b_vip) ==
    LET rows == {r \in PolicyOnline :
                   SubSeq(r, 1, 5) = <<Bit(p_ss), Bit(p_vip), Bit(p_afk),
                                       Bit(b_ss), Bit(b_vip)>>}
    IN  IF rows = {} THEN LINK_ACT_DO_NOTHING ELSE (CHOOSE r \in rows : TRUE)[6]

policy_nolink_map(node_type, ss, have_vip) ==
    LET rows == {r \in PolicyStandAlone(node_type) :
                   SubSeq(r, 1, 2) = <<Bit(ss), Bit(have_vip)>>}
    IN  IF rows = {} THEN NOLINK_ACT_DO_NOTING ELSE (CHOOSE r \in rows : TRUE)[3]

(* The shipped tables decide what HbPolicy says they decide.                  *)
ASSUME OnlineTable ==
    \A p_ss, p_vip, p_afk, b_ss, b_vip \in BOOLEAN :
      policy_link_map(p_ss, p_vip, p_afk, b_ss, b_vip)
        = policy_online_manager(p_ss, p_vip, p_afk, b_ss, b_vip)

ASSUME StandAloneTable ==
    \A node_type \in {0, 1}, ss, have_vip \in BOOLEAN :
      policy_nolink_map(node_type, ss, have_vip)
        = policy_stand_alone_manager(ss, have_vip)

=============================================================================
