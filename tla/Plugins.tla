------------------------------ MODULE Plugins ------------------------------
(* The plugin manager, with the ICMP plugin as one of its plugins: which      *)
(* files of plugins_dir are loaded, and what a round of run_all_plugin makes  *)
(* of services that come and go while it asks one plugin after the other.     *)
(* The result of a round decides which node holds the VIP.                    *)

EXTENDS Naturals, Sequences, SequencesExt

CONSTANTS
    Files,      \* the entries of plugins_dir, . and .. excluded
    Named,      \* those whose name is longer than .so and ends with it
    Loadable,   \* those that dlopen accepts
    icmp,       \* the ICMP plugin
    slash,      \* plugins_dir of ha.cf ends with a slash
    directory,  \* and it is a directory, not a link to one, that can be opened
    MaxFlips    \* bound on how often a service comes or goes in one round

VARIABLES
    pc,               \* list, load, idle, run
    unread,           \* entries that readdir has not returned yet
    plugins_path,     \* files found
    plug_data_vector, \* files loaded, in order
    i,                \* load_all_plugin's and run_all_plugin's index
    result,           \* of the last round, or of this one so far
    up,               \* files whose service is up, or whose target answers
    resolves,         \* ping_target's name can be resolved
    flips,            \* changes of the environment in this round
    found             \* history: what each plugin met in the last round

tables == <<unread, plugins_path, plug_data_vector>>
world  == <<up, resolves, flips>>
vars == <<pc, tables, i, result, world, found>>

Meeting == {"up", "down", "failed", "unresolved"}

Init ==
    /\ pc = "list" /\ unread = Files
    /\ plugins_path = <<>> /\ plug_data_vector = <<>>
    /\ i = 1 /\ result = 1
    /\ up \in SUBSET Files /\ resolves \in BOOLEAN /\ flips = 0
    /\ found = <<>>

-----------------------------------------------------------------------------
(* plugin_manager_init and load_all_plugin, at start-up                       *)

(* Mutation: the listing keeps the last plugin only.                          *)
Listed_Last(f) ==
    plugins_path' = IF f \in Named THEN <<f>> ELSE plugins_path

Listed(f) ==
    plugins_path' = IF f \in Named THEN Append(plugins_path, f) ELSE plugins_path

(* readdir returns the entries in any order.                                  *)
ListEntry ==
    /\ pc = "list" /\ directory
    /\ \E f \in unread : Listed(f) /\ unread' = unread \ {f}
    /\ UNCHANGED <<pc, plug_data_vector, i, result, world, found>>

ListEnds ==
    /\ pc = "list" /\ (unread = {} \/ ~directory)
    /\ pc' = "load"
    /\ UNCHANGED <<tables, i, result, world, found>>

(* The path is plugins_dir and the name, with nothing between.                *)
dlopen(f) == slash /\ f \in Loadable

load_plugin ==
    /\ pc = "load" /\ i <= Len(plugins_path)
    /\ plug_data_vector' = IF dlopen(plugins_path[i])
                           THEN Append(plug_data_vector, plugins_path[i])
                           ELSE plug_data_vector
    /\ i' = i + 1
    /\ UNCHANGED <<pc, unread, plugins_path, result, world, found>>

AllLoaded ==
    /\ pc = "load" /\ i > Len(plugins_path)
    /\ pc' = "idle"
    /\ UNCHANGED <<tables, i, result, world, found>>

-----------------------------------------------------------------------------
(* run_all_plugin, by the status thread                                       *)

(* Mutation: a round starts from the result of the one before.                *)
RoundStarts_KeepsResult ==
    /\ pc = "idle"
    /\ pc' = "run" /\ i' = 1 /\ flips' = 0 /\ found' = <<>>
    /\ UNCHANGED <<tables, result, up, resolves>>

RoundStarts ==
    /\ pc = "idle"
    /\ pc' = "run" /\ i' = 1 /\ result' = 1 /\ flips' = 0 /\ found' = <<>>
    /\ UNCHANGED <<tables, up, resolves>>

(* What a plugin meets.  A command may fail to run or be killed.  When the    *)
(* name of ping_target cannot be resolved, the ICMP plugin runs no ping at    *)
(* all but an empty command, which the shell ends well.                       *)
Meets(f) ==
    IF f = icmp /\ ~resolves THEN {"unresolved", "failed"}
    ELSE {"failed", IF f \in up THEN "up" ELSE "down"}

plug_run(m) == IF m \in {"up", "unresolved"} THEN 1 ELSE 0

(* result &= tmp, both 0 or 1.                                                *)
RunPlugin ==
    /\ pc = "run" /\ i <= Len(plug_data_vector)
    /\ \E m \in Meets(plug_data_vector[i]) :
          /\ result' = result * plug_run(m)
          /\ found' = Append(found, m)
    /\ i' = i + 1
    /\ UNCHANGED <<pc, tables, world>>

RoundEnds ==
    /\ pc = "run" /\ i > Len(plug_data_vector)
    /\ pc' = "idle"
    /\ UNCHANGED <<tables, i, result, world, found>>

(* A service or a target comes or goes, or the resolver does.                 *)
Flip ==
    /\ pc = "run" /\ flips < MaxFlips
    /\ flips' = flips + 1
    /\ \/ /\ \E f \in Files : up' = IF f \in up THEN up \ {f} ELSE up \cup {f}
          /\ UNCHANGED resolves
       \/ resolves' = ~resolves /\ UNCHANGED up
    /\ UNCHANGED <<pc, tables, i, result, found>>

Next ==
    \/ ListEntry \/ ListEnds \/ load_plugin \/ AllLoaded
    \/ RoundStarts \/ RunPlugin \/ RoundEnds \/ Flip

Spec == Init /\ [][Next]_vars

-----------------------------------------------------------------------------

RoundOver == pc = "idle" /\ Len(found) = Len(plug_data_vector)

Asked == [k \in 1..Len(plug_data_vector) |-> <<plug_data_vector[k], found[k]>>]

(* A healthy round means that every plugin of the directory that could be     *)
(* loaded was asked in it and met its service up, whatever order readdir gave *)
(* and whatever changed meanwhile; only the ICMP plugin may say so of a       *)
(* target that it has not asked (run_all_plugin, plug_run).                   *)
HealthIsProbed ==
    RoundOver /\ found # <<>> /\ result = 1 =>
        \A f \in Named \cap Loadable :
            \/ <<f, "up">> \in ToSet(Asked)
            \/ f = icmp /\ <<f, "unresolved">> \in ToSet(Asked)

(* An unhealthy round has a plugin of this round to blame.                    *)
IllnessHasCause ==
    RoundOver /\ result = 0 => {"down", "failed"} \cap ToSet(found) # {}

=============================================================================
