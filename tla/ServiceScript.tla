--------------------------- MODULE ServiceScript ---------------------------
(* The service script, the daemons it runs, and the pid file between them.    *)
(* start puts a daemon in the background and returns; the daemon appends its  *)
(* pid to the file some time later, without a newline.  stop kills whom the   *)
(* file names and takes the VIP off the card, but an `ip addr` that the dead  *)
(* daemon's system() has started is nobody's to kill.                         *)
(*                                                                            *)
(* One administrator gives one command after the other.                       *)

EXTENDS Sequences, FiniteSets

CONSTANTS
    Pid,      \* the daemons that may be started
    readable  \* the VIP is IPv4 and in the last line of haresources, where stop looks

ASSUME ReadableAssumption == readable \in BOOLEAN

VARIABLES
    pc,        \* the script's next step, or idle
    command,   \* what the script was last called with
    life,      \* a daemon is unborn, young (its pid not written), up, or gone
    ip,        \* the `ip addr` that a daemon's system() is running
    pid_file,  \* the pids in the file, one number when they are read
    vip,       \* the VIP is on the card
    overlap,   \* history: a start met a living daemon, or a stop one without a pid
    late       \* history: a dead daemon's `ip addr add` ran after stop's `ip addr del`

vars == <<pc, command, life, ip, pid_file, vip, overlap, late>>

Is(state) == {p \in Pid : life[p] = state}

Init ==
    /\ pc = "idle" /\ command = "stop"
    /\ life = [p \in Pid |-> "unborn"] /\ ip = [p \in Pid |-> "none"]
    /\ pid_file = <<>> /\ vip = FALSE
    /\ overlap = FALSE /\ late = FALSE

-----------------------------------------------------------------------------
(* The script.  Each step is one command of it.                               *)

Called(with, first) ==
    /\ pc = "idle"
    /\ command' = with /\ pc' = first
    /\ UNCHANGED <<life, ip, pid_file, vip, late>>

Start ==
    /\ Called("start", "remove")
    /\ overlap' = (overlap \/ Is("young") \cup Is("up") # {})

StopOrRestart ==
    /\ \E c \in {"stop", "restart"} : Called(c, "kill")
    /\ overlap' = (overlap \/ Is("young") # {})

(* start: if [ -f $PID_FILE ]; then rm $PID_FILE; fi, before anything else.   *)
Remove ==
    /\ pc = "remove" /\ pc' = "look"
    /\ pid_file' = <<>>
    /\ UNCHANGED <<command, life, ip, vip, overlap, late>>

(* start: a file with something in it counts as a running daemon.             *)
AlreadyStarted ==
    /\ pc = "look" /\ pid_file # <<>>
    /\ pc' = "idle"
    /\ UNCHANGED <<command, life, ip, pid_file, vip, overlap, late>>

Spawns ==
    /\ pc = "look" /\ pid_file = <<>>
    /\ pc' = "idle"
    /\ \E p \in Is("unborn") : life' = [life EXCEPT ![p] = "young"]
    /\ UNCHANGED <<command, ip, pid_file, vip, overlap, late>>

(* Mutation: a daemon that waits for a command outlives the signal.           *)
KillProc_WhenIdle ==
    /\ pc = "kill" /\ pc' = "unlink"
    /\ life' = [p \in Pid |-> IF /\ life[p] = "up"
                                 /\ pid_file = <<p>>
                                 /\ ip[p] = "none"
                              THEN "gone" ELSE life[p]]
    /\ UNCHANGED <<command, ip, pid_file, vip, overlap, late>>

(* stop: killproc -p waits for the end of the process that the file's number  *)
(* names.  Two pids in a row name none.                                       *)
KillProc ==
    /\ pc = "kill" /\ pc' = "unlink"
    /\ life' = [p \in Pid |-> IF life[p] = "up" /\ pid_file = <<p>>
                              THEN "gone" ELSE life[p]]
    /\ UNCHANGED <<command, ip, pid_file, vip, overlap, late>>

Unlink ==
    /\ pc = "unlink" /\ pc' = "free"
    /\ pid_file' = <<>>
    /\ UNCHANGED <<command, life, ip, vip, overlap, late>>

(* Mutation: only a restart deletes the VIP.                                  *)
FreeVip_OnRestart ==
    /\ pc = "free"
    /\ pc' = IF command = "restart" THEN "remove" ELSE "idle"
    /\ vip' = (vip /\ (command = "stop" \/ ~readable))
    /\ late' = (late /\ vip')
    /\ UNCHANGED <<command, life, ip, pid_file, overlap>>

(* stop: ip addr del, of what awk and IFS make of haresources' last line.     *)
FreeVip ==
    /\ pc = "free"
    /\ pc' = IF command = "restart" THEN "remove" ELSE "idle"
    /\ vip' = (vip /\ ~readable)
    /\ late' = (late /\ vip')
    /\ UNCHANGED <<command, life, ip, pid_file, overlap>>

-----------------------------------------------------------------------------
(* The daemons                                                                *)

(* Mutation: the pid is only written to a file that exists.                   *)
WritesPid_Exists(p) ==
    /\ life[p] = "young"
    /\ life' = [life EXCEPT ![p] = "up"]
    /\ pid_file' = IF pid_file = <<>> THEN <<>> ELSE Append(pid_file, p)
    /\ UNCHANGED <<pc, command, ip, vip, overlap, late>>

(* main: fopen(..., "a"), fprintf("%d"), fclose.                              *)
WritesPid(p) ==
    /\ life[p] = "young"
    /\ life' = [life EXCEPT ![p] = "up"]
    /\ pid_file' = Append(pid_file, p)
    /\ UNCHANGED <<pc, command, ip, vip, overlap, late>>

(* A configuration that does not fit, a failed bind, a crash: the pid stays   *)
(* in the file.                                                               *)
Ends(p) ==
    /\ life[p] \in {"young", "up"}
    /\ life' = [life EXCEPT ![p] = "gone"]
    /\ UNCHANGED <<pc, command, ip, pid_file, vip, overlap, late>>

(* take_over_resources and release_resources start their command ...          *)
RunsIp(p) ==
    /\ life[p] = "up" /\ ip[p] = "none"
    /\ \E c \in {"add", "delete"} : ip' = [ip EXCEPT ![p] = c]
    /\ UNCHANGED <<pc, command, life, pid_file, vip, overlap, late>>

(* ... which ends by itself, whatever has become of the daemon.               *)
IpEnds(p) ==
    /\ ip[p] # "none"
    /\ vip' = (ip[p] = "add")
    /\ ip' = [ip EXCEPT ![p] = "none"]
    /\ late' = (vip' /\ life[p] = "gone")
    /\ UNCHANGED <<pc, command, life, pid_file, overlap>>

DaemonStep(p) == WritesPid(p) \/ Ends(p) \/ RunsIp(p) \/ IpEnds(p)

Next ==
    \/ Start \/ StopOrRestart
    \/ Remove \/ AlreadyStarted \/ Spawns
    \/ KillProc \/ Unlink \/ FreeVip
    \/ \E p \in Pid : DaemonStep(p)

Spec == Init /\ [][Next]_vars

-----------------------------------------------------------------------------
TypeOK ==
    /\ pc \in {"idle", "remove", "look", "kill", "unlink", "free"}
    /\ command \in {"start", "stop", "restart"}
    /\ life \in [Pid -> {"unborn", "young", "up", "gone"}]
    /\ ip \in [Pid -> {"none", "add", "delete"}]
    /\ pid_file \in Seq(Pid)
    /\ vip \in BOOLEAN /\ overlap \in BOOLEAN /\ late \in BOOLEAN

Living == Is("young") \cup Is("up")

(* An administrator who starts only what does not run, and stops only what    *)
(* has written its pid, never has two daemons ...                             *)
OneDaemon == ~overlap => \A p, q \in Living : p = q

(* ... and a stop ends the one there is, crashes and restarts in between.     *)
StopStops == ~overlap /\ pc = "idle" /\ command = "stop" => Living = {}

(* It also takes the VIP off the card, unless a daemon was killed while its   *)
(* `ip addr add` ran: then the address comes back after it was deleted.       *)
StopFreesVip ==
    ~overlap /\ readable /\ pc = "idle" /\ command = "stop" /\ vip => late

=============================================================================
