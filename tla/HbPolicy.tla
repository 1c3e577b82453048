------------------------------ MODULE HbPolicy ------------------------------
(* The two decision tables of heartbeat-tcp (resource-mgr/policy-online.dat   *)
(* and resource-mgr/policy-stand-alone.dat) as the functions resource-mgr.cpp *)
(* turns them into.  The file format and the key string that sprintf builds   *)
(* are abstracted: a key is the tuple of the Booleans it prints.              *)

EXTENDS Naturals

(* Answers of policy_online_manager. *)
LINK_ACT_DO_NOTHING            == 0
LINK_ACT_BACKUP_NODE_TAKEOVER  == 1
LINK_ACT_PRIMARY_NODE_TAKEOVER == 2

(* Answers of policy_stand_alone_manager. *)
NOLINK_ACT_DO_NOTING == 0
NOLINK_ACT_TAKEOVER  == 1
NOLINK_ACT_RELEASE   == 2

(* policy_online_manager: what a connected primary does, from its own cached  *)
(* status (server healthy, VIP present), its auto_failback setting and the    *)
(* status the backup has just reported.  A healthy primary takes over from a  *)
(* sick backup and a sick primary yields to a healthy backup; when both are   *)
(* healthy, nobody or both holding the VIP is settled for the primary, and a  *)
(* backup that holds it alone keeps it unless the primary fails back.         *)
policy_online_manager(p_ss, p_vip, p_afk, b_ss, b_vip) ==
    CASE p_ss /\ ~b_ss    -> LINK_ACT_PRIMARY_NODE_TAKEOVER
      [] ~p_ss /\ b_ss    -> LINK_ACT_BACKUP_NODE_TAKEOVER
      [] ~p_ss /\ ~b_ss   -> LINK_ACT_DO_NOTHING
      [] p_ss /\ b_ss     -> IF p_vip = b_vip \/ (b_vip /\ p_afk)
                               THEN LINK_ACT_PRIMARY_NODE_TAKEOVER
                               ELSE LINK_ACT_DO_NOTHING

(* policy_stand_alone_manager: what a node that hears nothing from its peer   *)
(* does.  The p_ and the b_ rows of the table are equal, so the node type     *)
(* only selects the key.                                                      *)
policy_stand_alone_manager(server_status, have_virtual_ip) ==
    CASE server_status                     -> NOLINK_ACT_TAKEOVER
      [] ~server_status /\ have_virtual_ip -> NOLINK_ACT_RELEASE
      [] OTHER                             -> NOLINK_ACT_DO_NOTING

=============================================================================
