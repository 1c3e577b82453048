------------------------------- MODULE HbLog -------------------------------
(* hb_log, which the threads of the daemon call without a lock.  Each call    *)
(* asks `date` for the day that is max_keep_day ago, through one file in /tmp *)
(* that all of them use, deletes the log of that day, and appends its line to *)
(* today's.  Another call may empty or remove the file at any point, the day  *)
(* may end during a call, and a log that cannot be opened ends the process.   *)

EXTENDS Integers, FiniteSets

CONSTANTS
    Threads,        \* threads that log
    max_keep_day,   \* how many days' logs are kept
    LastDay,        \* bound on the days that the daemon runs, from day 0
    MaxFailures     \* bound on how often a log cannot be deleted

VARIABLES
    today,    \* the day
    logs,     \* the days that have a log
    tmp,      \* DAYS_AGO_TIME_FILE: a day, Empty, or NoDay when it is not there
    linked,   \* the calls that have opened the file that is there now
    pc,       \* where each call is
    ago,      \* days_ago_time of each call
    tmpTime,  \* the day on which it began
    leaked,   \* old logs that were opened and never closed
    alive,    \* the process runs
    removals, \* history: logs deleted
    failures  \* history: attempts to delete a log that failed

file  == <<tmp, linked>>
world == <<today, alive, removals, failures>>
vars == <<logs, file, pc, ago, tmpTime, leaked, world>>

NoDay == -(max_keep_day + 9)
Empty == NoDay - 1

Init ==
    /\ today = 0 /\ logs \in SUBSET (-max_keep_day..-1)
    /\ tmp = NoDay /\ linked = {}
    /\ pc = [t \in Threads |-> "idle"]
    /\ ago = [t \in Threads |-> NoDay] /\ tmpTime = [t \in Threads |-> 0]
    /\ leaked = 0 /\ alive = TRUE /\ removals = 0 /\ failures = 0

(* The call of thread t goes from one point to the next.                      *)
Goes(t, from, to) ==
    /\ alive /\ pc[t] = from
    /\ pc' = [pc EXCEPT ![t] = to]

(* get_current_time, and makedir of a directory that is there or can be made. *)
Begin(t) ==
    /\ Goes(t, "idle", "date")
    /\ tmpTime' = [tmpTime EXCEPT ![t] = today]
    /\ ago' = [ago EXCEPT ![t] = NoDay]
    /\ UNCHANGED <<logs, file, leaked, world>>

(* system_to_file: the shell empties the file, then date writes into the file *)
(* that was opened, which another call may have removed in the meantime.      *)
DateOpens(t) ==
    /\ Goes(t, "date", "write")
    /\ linked' = (IF tmp = NoDay THEN {} ELSE linked) \cup {t}
    /\ tmp' = Empty
    /\ UNCHANGED <<logs, ago, tmpTime, leaked, world>>

(* Mutation: the log that is one day younger is deleted.                      *)
DateWrites_OffByOne(t) ==
    /\ Goes(t, "write", "read")
    /\ tmp' = IF t \in linked THEN today - max_keep_day + 1 ELSE tmp
    /\ UNCHANGED <<logs, linked, ago, tmpTime, leaked, world>>

DateWrites(t) ==
    /\ Goes(t, "write", "read")
    /\ tmp' = IF t \in linked THEN today - max_keep_day ELSE tmp
    /\ UNCHANGED <<logs, linked, ago, tmpTime, leaked, world>>

(* fopen and fgets: no file, an empty one, or some call's date.               *)
ReadsDate(t) ==
    /\ Goes(t, "read", IF tmp = NoDay THEN "append" ELSE "unlink")
    /\ ago' = [ago EXCEPT ![t] = IF tmp = Empty THEN NoDay ELSE tmp]
    /\ UNCHANGED <<logs, file, tmpTime, leaked, world>>

Unlinks(t) ==
    /\ Goes(t, "unlink", "old")
    /\ tmp' = NoDay /\ linked' = {}
    /\ UNCHANGED <<logs, ago, tmpTime, leaked, world>>

(* Mutation: every call leaves a FILE behind.                                 *)
OpensOld_Again(t) ==
    /\ Goes(t, "old", IF ago[t] \in logs THEN "remove" ELSE "append")
    /\ leaked' = leaked + 1
    /\ UNCHANGED <<logs, file, ago, tmpTime, world>>

(* fopen of the old log only asks whether it is there, and is never closed.   *)
OpensOld(t) ==
    /\ Goes(t, "old", "remove") /\ ago[t] \in logs
    /\ leaked' = leaked + 1
    /\ UNCHANGED <<logs, file, ago, tmpTime, world>>

(* There is no such log, or it cannot be opened.                              *)
NoOld(t) ==
    /\ Goes(t, "old", "append")
    /\ UNCHANGED <<logs, file, ago, tmpTime, leaked, world>>

RemovesOld(t) ==
    /\ Goes(t, "remove", "append")
    /\ logs' = logs \ {ago[t]}
    /\ removals' = IF ago[t] \in logs THEN removals + 1 ELSE removals
    /\ UNCHANGED <<file, ago, tmpTime, leaked, today, alive, failures>>

(* What remove returns is ignored: the log stays, and the next line opens it  *)
(* again.                                                                     *)
RemoveFails(t) ==
    /\ Goes(t, "remove", "append")
    /\ ago[t] \in logs /\ failures < MaxFailures
    /\ failures' = failures + 1
    /\ UNCHANGED <<logs, file, ago, tmpTime, leaked, today, alive, removals>>

(* The line goes into the log of the day on which the call began.             *)
Appends(t) ==
    /\ Goes(t, "append", "idle")
    /\ logs' = logs \cup {tmpTime[t]}
    /\ UNCHANGED <<file, ago, tmpTime, leaked, world>>

(* The directory cannot be made, or the log cannot be opened: exit(1).        *)
Exits(t) ==
    /\ alive /\ pc[t] \in {"idle", "append"}
    /\ alive' = FALSE
    /\ UNCHANGED <<logs, file, pc, ago, tmpTime, leaked, today, removals, failures>>

Midnight ==
    /\ alive /\ today < LastDay
    /\ today' = today + 1
    /\ UNCHANGED <<logs, file, pc, ago, tmpTime, leaked, alive, removals, failures>>

Next ==
    \/ Midnight
    \/ \E t \in Threads :
          \/ Begin(t) \/ DateOpens(t) \/ DateWrites(t) \/ ReadsDate(t) \/ Unlinks(t)
          \/ OpensOld(t) \/ NoOld(t) \/ RemovesOld(t) \/ RemoveFails(t)
          \/ Appends(t) \/ Exits(t)

Spec == Init /\ [][Next]_vars

-----------------------------------------------------------------------------

(* No log is deleted before its time, whichever call's date a call has read   *)
(* and whether or not the day has ended in between (hb_log).                  *)
KeepsRecent == [][\A d \in logs \ logs' : today - d >= max_keep_day]_vars

(* The files that hb_log forgets to close are bounded by the logs that have   *)
(* gone and by the attempts that failed, not by the lines that were written.  *)
LeaksBounded ==
    leaked <= Cardinality(Threads) * removals + failures
                + Cardinality({ t \in Threads : pc[t] = "remove" })

=============================================================================
