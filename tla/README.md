# heartbeat-tcp in TLA+

heartbeat-tcp (the repository's `src/heartbeat-framework`) keeps one virtual IP
(VIP) on one of two hosts. A *primary* connects to a *backup* over TCP and they
exchange telegrams; each also watches its own service through plugins. Which of
them holds the VIP follows from two decision tables. This directory models the
two processes with all their threads, the calls that move the VIP command by
command, the client's way to a connection, and what surrounds the daemons: the service
script, the manual switch tool, the configuration files, the plugins and the log. TLC
checks the models, and TLAPS proves the safety results for every value of the constants.

Paths below are relative to `src/heartbeat-framework/` unless they start with `src/`.

## 1. Inventory

| Component | State | Operations | Interacts with | What makes it correct |
|---|---|---|---|---|
| Client loop, `main.cpp` `start_by_client_mode` | socket, next message, heartbeat count, connect time | connect, send, select, read, time out, EOF, error | server loop over TCP; shares the takeover flag, `trouble` and the cached status with its process's other threads | it takes on an answer only when the backup has let go; it finds the backup again after any loss |
| Server loop, `main.cpp` `start_by_server_mode` | listening and accepted socket | accept, read, answer, time out, EOF, error | as above | it answers each message once, after having done what the answer says |
| Message handling, `resource-mgr.cpp` `trans_data_generator`, `resource_manager` | takeover flags | one case per message type | called by both loops; runs the resource commands | release before take, on two hosts |
| Policy tables, `resource-mgr/*.dat` | two maps | load, look up | message handling, every loss of the peer | every combination decided, no ping-pong, one holder in the end |
| Telegrams, `make-telegram.cpp`, `telegram.proto` | none | serialise, parse | both loops | what is read is what was said, although the stream has no framing |
| Resources, `take_over_resources`, `release_resources` | the VIP on the card (kernel) | `ip addr add/delete`, ARP, script | all threads of a process; survives the process | never on two hosts in good order |
| Status thread, `get_local_server_status_datas_thread` | `host_vip_status`, `host_server_status` | sample the VIP, publish, run plugins, sleep | writes the takeover flags the loops read and write | a stale sample does no lasting harm |
| Manual switch thread, `main.cpp` `manual_switch` | `trouble` | standby, takeover | parks the main loop, moves the VIP | the operator's word stands until a restart |
| Manual switch tool, `manual-switch/` | none | send datagrams to one or both nodes | manual switch threads | a node that its order reaches does as the script says, and stays so once its main loop has come to a stand |
| Service script, `src/infosec-heartbeat.service` | pid file | start, stop, restart | process, VIP | one daemon; stop ends it and leaves no VIP behind |
| Start-up, `main.cpp` `main` | configuration globals | read configuration, choose the role | everything | two nodes that start have different roles |
| Configuration, `hbconf.cpp`, `hares.cpp` | key map, entry of haresources | parse, look up | start-up, manual switch tool | what the file says plainly is what the daemon uses |
| Plugin manager, `plugin-mgr/plugin-manager.cpp` | list of plugins | list, load, run all | status thread | healthy only if every plugin of this round says so |
| NetSign plugin, `plugins/NetSignStatus/` | settings, detection string, sockets of a round | read conf.ini, probe each service | plugin manager, services on the host | a healthy verdict was earned by an answer; a round ends |
| ICMP plugin, `plugins/ICMP/` | settings | read conf.ini, ping | plugin manager | as above |
| Log, `log/`, `common/log2file.*` | log files, one date file | append, expire | every thread | no log goes before its time; files are left open only for logs that have to go |
| Generated and vendored: `telegram.pb.*`, `SlimXml.*`, `ARP/` | | | | not modelled, but for the telegrams' bytes |

What is hard here: three threads of one process share flags without a lock; two
processes, the network and the operators interleave; the VIP outlives its
process; both sides use timeouts that a slow peer can miss; a timeout leaves the
connection in use with an answer still to come; the decisions of either node
rest on a cache that is up to `detect_interval` old; the resource commands take
seconds, may fail, and may be called by two threads at once; and whoever reads a file
or an answer in pieces has error codes of either sign to tell apart. `PROJECT.json` lists each
hazard at its line with the property that watches it.

## 2. The modules

| Module | Models | Kind |
|---|---|---|
| `VipService` | the promise: an orderly take happens only when no other node holds the VIP in good order | abstract specification |
| `HbPolicy` | the two policies in closed form | operators |
| `PolicyTable` | the shipped rows and the two lookups, asserted equal to `HbPolicy` on every input | assumptions TLC evaluates |
| `Telegram` | messages, constructors, and what one Read of several telegrams means (`Coalesced`) | operators |
| `TelegramWire` | the same by protobuf's field-wise merge, one message at a time | reference, state machine |
| `HbCluster` | both loops, status threads, manual threads, TCP, crashes, cuts, late messages | composition, core module |
| `MCCluster` | `HbCluster` with `PolicyTable` and the symmetry set | model checking |
| `HbNode` | one node: `take_over_resources` and `release_resources` command by command, called by two threads, beside the status thread | core module, finer grain |
| `ConnectLoop` | the client's connect loop with its clock and its descriptors | state machine |
| `ServiceScript` | start, stop, restart against daemons and the pid file | state machine |
| `ManualTool` | both switch scripts, `hb_manual`, datagrams, the two manual switch threads, the turn that each main loop is in, restarts | state machine |
| `Startup` | the parser of ha.cf and `main`'s settings and role | parser as a state machine, operators |
| `HaResources` | the parser of haresources and the label of the VIP, whether or not the list of labels can be opened | as above |
| `HbLog` | `hb_log` called by several threads around midnight, with deletions that fail | state machine |
| `Plugins` | the plugin manager and the ICMP plugin's verdict | state machine |
| `NetSignProbe` | the NetSign plugin's rounds: connect with each of its exits, send, read in pieces, retry | state machine |
| `DetectString` | the detection string: clean and decode Base64, padded or not, in buffers that are never cleared | state machine |
| `ProbeConfig` | conf.ini as each plugin reads it, over edits and restarts, and the settings then in force | as above |
| `MCOperator`, `MCFiles`, `MCPlugins` | several small machines that share no state, in one run each | model checking |
| `TelegramProofs` | what several telegrams mean together: lemmas for the two modules below and for `FilesProofs` | proofs |
| `HbClusterProofs` | type correctness of `HbCluster`, its action properties | proofs |
| `HandoverProofs` | the inductive invariant, mutual exclusion, refinement | proofs |
| `HbNodeProofs`, `ConnectLoopProofs` | the invariants of these modules | proofs |
| `OperatorProofs` | service script and manual switch tool | proofs |
| `FilesProofs` | telegrams on the wire, log, ha.cf, haresources | proofs |
| `PluginProofs` | plugin manager, NetSign rounds, conf.ini, detection string | proofs |

`HbCluster` EXTENDS `HbPolicy` and `Telegram` and INSTANCEs `VipService` with
`holders <- {n \in Node : vip[n]}`.

### State of `HbCluster` and the code

| Variable | Code |
|---|---|
| `cpc`, `spc` | where the loop is between two blocking calls. Client: `connect` (label `reconnect`), `top` (head of `while`), `wait` (in `select`). Server: `top` (head of either loop), `select` (in either `select`) |
| `cfd`, `sfd`, `backlog` | the client's `cfd`, the server's accepted `cfd`, connections queued on `lfd` |
| `send_data`, `none_package_send_times`, `try_time_sum` | the client's locals of these names |
| `took[n]` | `client_resources_takeover_status` on the primary, `server_resources_takeover_status` on the backup (the other one of a process is never read) |
| `host_vip`, `host_ss` | `host_vip_status`, `host_server_status` |
| `trouble`, `status`, `sampled` | `trouble`, the status thread's place, its `check_vip_ret` |
| `vip[n]` | the VIP on the card of `n`; unchanged by a crash |
| `health[n]` | what `run_all_plugin` would return now |
| `cli_end`, `srv_end`, `c2s`, `s2c` | TCP: both ends of each connection, telegrams under way |
| `link`, `alive`, `events` | network, processes, number of faults and commands so far |
| `late`, `solo` | history variables, no code: see below |

One action is the code from one blocking call to the next: `connect`, `select`
with the `read` after it, or `sleep`. So `ReplyServerStatus` is the read, the
policy lookup, the release it may order, the next message and the heartbeat
count, in one step; nothing of it is left to another action. Threads of the same
process interleave between those steps, and the status thread's round is three
steps (`CheckVip`, `PublishVip`, `RunAllPlugin`). `AtomicStatus = TRUE` makes the
round one step; runs whose question lies elsewhere use that to stay small. The
theorems hold for both values.

`late` is true from a timeout of the client on its current connection until it
drops the connection: from then on answers may belong to older requests.
`solo` is the set of nodes that hold a VIP they took without an orderly handover:
because the peer was silent, because an operator said so, or because the answer
they acted on was read on a late connection. No guard reads `late` or `solo`.

### TCP

Bytes arrive in order, once, or not at all. A connection has two ends, each open,
closed (the peer will get a FIN or a RST) or gone (the host lost power, nobody
tells the peer). What was sent to an end that has left is lost. `connect` succeeds as soon
as the backup's kernel has queued the connection, even if its loop is elsewhere.
A cut network delivers nothing and keeps what is under way. Reads take any
non-empty prefix of what has arrived, merged by `Coalesced`.

A Read never cuts a telegram in two in the model: a telegram is a few bytes,
written with one `write`.

### Timeouts

A timeout fires freely (`ClientTimeout`, `AcceptTimeout`, `ServerTimeout`) when
nothing can arrive any more: network cut, peer gone, parked, or busy with another
connection. A timeout against a peer that would have answered is a fault and is
counted (`LateAnswer`, `LateRequest`, `LateConnect`). So the model needs no clock,
and a run says how many times the network or the peer may be slower than `deadtime`.

### One node, command by command

`HbNode` gives up what `HbCluster` takes for granted, that a call on the resources is one
step and succeeds. `at[t]` is the command that thread `t` (main loop or manual switch)
runs next: `add`, `arp`, `start` and then the flag, or `delete`, `stop` and the flag
(`Following`; only callers in the main loop write the flag). `IpAddrFails` is a command
whose result nobody looks at, `Crash` ends the process between two commands,
`CheckVipFails` leaves `check_vip_ret` as it was on the stack. The peer is an
environment: `PeerOrders` stands for any message that makes the main loop call,
`PeerLost` for every loss. `mixed` is a history variable: the last call did not run
whole and alone.

`HbNode` does not refine `HbCluster`: a VIP that two threads move at once, or a failed
`ip addr del`, is a state `HbCluster` does not have. It says what becomes of such a node.

### The connect loop

`ConnectLoop` has `try_time_sum`, the open descriptors and the seconds spent. `Fails`
is Socket, connect and its failure; `ActsAlone` and `Sleeps` are the two ways on from
there (`main.cpp:199-253`), `Drops` is `close(cfd)` after a connection was lost, `Exits`
is `perr_exit` of Socket. It has no bound in its guards but the number of descriptors
the process may have, after which the code itself ends.

### Service script and manual switch

`ServiceScript` has one action for each command of the script; `life[p]` says whether
a daemon is started and has written its pid. `IpEnds` is the child of `system()`, which
outlives the daemon. `overlap` and `late` are history variables: a start met a living daemon
or a stop one that has not written its pid; a dead daemon's command ran last.

`ManualTool` has the script's two runs of `hb_manual`, the datagrams as a bag for each node,
and the manual switch threads. Beside them each main loop is in a turn or not (`turn`): it reads
`trouble` at the top of a turn only (`main.cpp:198`, `:268`, `:547`, `:635`), so a turn that has begun
before an order may take or release the VIP after it (`TurnEnds`), whatever the policy makes of the
message or the loss that it handles. `Restart` forgets all that the daemon had been told. The
history variables say which switch was asked for last and which others overlap with it (`last`,
`agreed`), which nodes it found parked and between two turns (`settled`), which nodes an order did not
get to (`lost`), and where a turn has undone a command (`strayed`).

### Files

`Startup`, `HaResources` and `ProbeConfig` read files as sequences of lines, a line as the
sequence of its words, blanks and separators; the parsers are translated to that alphabet
step by step (a line with both blanks is split twice, a trim that knows only spaces). What
follows from the file is an operator (`mode`, `Starts`, `peer_addr`, `commonport`,
`tool_port`). `FreeAlias` has the 0 that the label gets when `ifconfig`'s output cannot be opened.
`ProbeConfig` reads a line in a step of its own (`reader` is the plugin that
reads, `at` its line), because a bad line leaves the lines before it applied. One thread runs all
plugins, so only one of them reads; and the file's few lines are in the stream's buffer after the
first, so `Edit` waits for the reading to end. `InForce` is what a plugin makes of a setting once it
has read: the ICMP plugin divides `pingtimeout` by 1000 (`plug-icmp.cpp:63`).

`DetectString` has the two global buffers that survive from one reading to the next, and the loops
of `MyFunc.cpp` that fill them: a turn of a loop is a step, `taken` and `given` are its `i` and `j`,
and the decoding is done with the code's shifts in eight bits. `wanted` is what the text in conf.ini
stands for; the text itself is chosen as it is read, the next character of its Base64 or trash,
and it may end before its padding does, or have no character at all.

### Plugins and log

`Plugins` lists the directory in any order, loads, and runs rounds in which services come and go. In
`NetSignProbe` an attempt opens its socket in `Connects`, and each way out of `DetectConnect` and
`DetectResponse` is an action with its own `close`. Bytes are counted and not read; what a length or
a result in an answer says is chosen when it is looked at. `readn` is four actions (a second passes,
the deadline, bytes, the end of the stream); `ParseReceive`'s three reads are one action each, with
its return codes and its test for negative values as the code has them.

`HbLog` interleaves the calls of `hb_log` of several threads at each file operation. `linked`
are the calls whose open file is the one the name stands for: a shell that has opened the date
file before another call removed it writes to nobody. `RemoveFails` is a deletion whose result
nobody looks at (`hb-log.cpp:45`): the next line finds the log again, and leaves one more stream open.

## 3. The runs

### Bounds

Every cluster run has two connections; a loop abandons at most the one it is on before it
asks for another, and a third would only repeat an abandoned one. `MaxQueue = 2`
bounds the unread telegrams of the client: with two unread, a further heartbeat counts as
merged into the telegram before it, which is one of the things the server's Read may
do, and any other message waits. Two are enough for what matters, a request behind an
unanswered one; and the safety theorems hold for every `MaxQueue`.
`DeadTicks = 1` is the shortest `deadtime` that still makes the client try more than once.
`MaxEvents` counts faults and commands.

`operator`, `files` and `plugins` put machines that share no state into one run: `about`
says which one a behaviour is about, and the others stay at their initial state. The
states of such a run are the sum of those of its parts.

| Run | Properties | Bounds | Shows |
|---|---|---|---|
| `faults` | `TypeOK`, `Exclusive`, `HandoverAnnounced`, `ParkedKeepsVip`, `ServiceSpec` | one crash, late message, change of health or command; three-step status threads; `detect_times = 2`; fails back | no placing of a stale sample makes two holders in good order; a release is followed by the order to take; a parked node keeps still; the cluster refines `VipService` |
| `two_faults` | `Exclusive`, `ServiceSpec` | two of these events, one-step status threads | the same when answers are read late and a VIP outlives its process |
| `live` | `Lockstep`, `Failover`, `Converge`, `Reconnect` | fairness; one cut, crash, late message or command; fails back | the stream needs no framing until somebody times out; a deserted healthy node gets the VIP; afterwards both loops are on one connection and one healthy node keeps the VIP |
| `node` | `ScriptFollowsVip`, `FlagRepaired`, `TakenInTheEnd` | fairness; 5 failed commands, killed checks, crashes, orders, commands or changes of health | one whole call brings card and script together; flag and VIP come right although commands fail |
| `connect_loop` | `ActsInTime`, `OnlyFailuresLeak` | `keepalive` 2, `deadtime` 5, a connect of up to 1 second, 9 descriptors | the client acts in time over several outages; only failed connects cost descriptors |
| `operator` | `OneDaemon`, `StopStops`, `StopFreesVip`, `ScriptObeyed` | 3 daemons; 3 switch scripts, any number of restarts and turns | one living daemon unless commands overlap, stop ends it and frees the VIP; a switch is obeyed where its orders arrived, but for the turn that the main loop was in |
| `files` | `CoalescedIsMerge`, `HeartbeatsTransparent`, `GetResIsGenuine`; `RolesComplementary`, `SimpleNodesStart`, `PortsAsWritten`, `PeerIsUcast`; `EntryUnderstood`; `KeepsRecent`, `LeaksBounded` | up to 4 telegrams in one Read; 4 lines of ha.cf from 17; 2 lines of haresources with 5 ends, aliases 0 and 1; 2 threads, 2 midnights, 1 failed deletion | `Coalesced` is protobuf's merge; plain files are read as meant; no log goes too early, and only logs that go or cannot go leave a file open |
| `plugins` | `HealthIsProbed`, `IllnessHasCause`; `SocketsClosed`, `AnswerHeard`, `RoundEnds`; `SendsWhatIsMeant`; `LastFileCounts` | 4 files, 2 changes in a round; 2 services, 1 retry, lengths up to 3; 0 to 4 bytes of 2 values, 1 character of trash, padding or none; 2 lines of conf.ini with the numbers 500 and 2000, edited once, any number of restarts | health is earned; every exit closes its socket; a round that does not check results ends; conf.ini and the detection string count as they stand |
| `freed_too_late` | `BackupReleasedFirst`, violated | 2 late messages or changes of health | finding 1 |
| `flag_race` | `FlagMeansTaken`, violated | 1 change of health | finding 2 |
| `detect_times_zero` | `HandoverAnnounced`, violated | `detect_times = 0` | finding 3 |
| `probe_stuck` | `EveryRoundEnds`, violated | fairness; 1 service, 1 retry | finding 4 |

Why the smaller bounds are enough. `connect_loop`: `deadtime` is no multiple of `keepalive`, which
is the harder case, and nine descriptors allow two whole rounds of attempts and several outages; the
theorems have no bound. `operator`: a third daemon meets a file with two pids; a third script meets
one that overlaps and one that does not. `files`: four lines are two node lines, a setting and one
that disturbs; the lines with both blanks, with comments and with a value of several words are among
the seventeen (`HaCfLines`); one failed deletion lets both threads meet the log again. `plugins`: up
to four bytes are one or two quanta of Base64, padded either way, and leave stale bytes behind for
the shorter strings, for the unpadded and for the empty one; 500 and 2000 are below and above the
ICMP plugin's second; with two services and a retry every way from one attempt to the next occurs.

`operator` takes about 40 seconds, `files` one minute (1,158,219 states), `plugins` two and a half
(2,650,051).

Deadlock is checked in `node`, `plugins` and `probe_stuck`. Elsewhere the system may stop:
once the events are used up and a process is down, nothing obliges an operator to start it
again; a process without descriptors has ended; at the end of a file nothing more is read.
(The step that would matter, a loop that waits for ever, is what the liveness properties are for.)

### Fairness

`HbCluster`: weak fairness of the client loop, the server loop and each status thread. The
loops block in `select` with a timeout of `deadtime`, in `sleep(keepalive)` and in
calls that return; the status thread sleeps `detect_interval`. A timeout that
nothing can prevent is part of the loop's step, so it happens under its fairness.
Nothing is assumed of operators, crashes, repairs, restarts or late messages; a
property that needs a network or a process says so in its premise (`Calm`,
`Deserted`).

`HbNode`: weak fairness of each thread's next command (the shell's commands end: `send_arp` has
`-c 5 -w 5`), of the status thread, of a turn of the main loop and of the loss of a peer that
gives no more orders. Its liveness properties have the premise `<>[]`: the process is up for
good, and so on. Failed commands are bounded by `MaxEvents`; if every `ip addr` failed for ever,
no node could take.

`NetSignProbe`: weak fairness of the status thread's steps as a whole: it runs, and each second
of `select` ends. What the service does in that second is left open. So `RoundEnds` holds
against a service that is silent or sends single bytes.

### Findings

1. **An answer that comes after a timeout shifts every later one.** On a timeout the client
   stays on its connection and sends a heartbeat (`main.cpp:362-365`). The old answer is then
   read as the answer to that heartbeat, and so on for as long as the connection lasts. A
   FREED_RES may be read after a later GET_RES was sent: both nodes hold the VIP, though
   `resource-mgr.cpp:202` says that the backup releases first. `Exclusive` and `ServiceSpec`
   count such a take as `solo`, which is why they still hold. `Converge` shows that it is
   repaired.
2. **The takeover flag can be true on a node without the VIP.** The status thread publishes a
   sample that the main loop has outdated (`resource-mgr.cpp:709-718`), against the comment at
   `main.cpp:51`. Until the next round a loss of the peer leaves the VIP on neither node.
3. **`detect_times = 0` disables every handover.** It is `detect_interval / keepalive`
   (`main.cpp:948`); at 0 each order is overwritten by a status request (`main.cpp:440`): the
   primary releases and the backup, which the table says takes over, is not told.
4. **A service that closes its connection within an answer stops the status thread for good.**
   `receiveTagAndLen` returns `Err_RecvDataFromServer`, 8005, at the end of the stream
   (`Detect.cpp:430`); its caller tests for negative values and reads on with the last tag and
   length, from a stream that has ended: nothing is added, and the loop never ends. The VIP then
   stays where it is, since the cached health does not change any more. `MonitorSrv.cpp:65` says
   that the status is returned. It needs `checkdetectret = YES`; without it `RoundEnds` holds.

### Observations that the models show and no run counts as a finding

No document or comment says otherwise, or what it says is too loose to be a property; each
is a premise or a constant of a model.

- Service script: `start` removes the pid file before it looks for a running daemon
  (`infosec-heartbeat.service:22`), so a second `start` runs a second daemon. Two pids in the
  file read as one number, and `stop` then ends neither. (`overlap`)
- A daemon killed while its `ip addr add` runs leaves a VIP that appears after `stop` has
  deleted it. (`late`) An IPv6 VIP is not deleted at all. (`readable`)
- `try_time_sum` survives a connection: after an outage that ended early, the next one is acted
  on early (`main.cpp:200`). `ActsInTime` is therefore an upper bound only.
- Each failed connect leaves a descriptor (`main.cpp:195-253`) until the process runs out of
  them and exits.
- `check-virtual-ip` finds the VIP as a substring (`check-vip.cpp:34`): an address that begins
  with it counts, an IPv6 address spelt in another way never does. (`spelling`; `FlagRepaired`
  and `TakenInTheEnd` say in their premises what they need.)
- ha.cf: numbers are read up to the first character that is no digit, so a unit such as `ms` is
  ignored and the number counts as seconds; a tab before the peer's address of `ucast` leaves
  the built-in one (`main.cpp:991`); a node line with both blanks is stored twice; without
  `detect_interval` a `keepalive` does not change `detect_times`; `main.cpp:944` looks up a
  misspelt `initdeat`.
- The manual switch tool has no default port, the daemon has 694 (`hb_manually.cpp:46`): without a
  port in ha.cf the tool sends to whatever a variable without a value holds. `PortsAsWritten` is about
  files that name one.
- A main loop that is past its read of `trouble` when a manual command comes may take or release the
  VIP after it (`main.cpp:888`), although no datagram was lost. A second script, run when the node
  has come to a stand, is exact. (`strayed`, `settled`)
- haresources: a blank before the end of the line loses the script's name (`hares.cpp:51`). If the
  output of `ifconfig` cannot be opened the alias is 0, which another address may have
  (`hares.cpp:109`); the label is only passed to `ip addr add`, and the VIP is deleted by its
  address.
- Plugins: without a slash at the end of `plugins_dir` nothing is loaded (`plugin-manager.cpp:145`),
  and a node without plugins is always healthy; a shared object without `plug_init` ends the daemon
  (`:68`); a ping target that cannot be resolved counts as up. The ICMP plugin's `pingtimeout` is
  cut down to whole seconds (`plug-icmp.cpp:63`), and below 1000 ms `ping` is given no limit at all
  (`:81`).
- NetSign: a result of 0 counts as success like 1 (`Detect.cpp:538`); an empty `detectstring`
  decodes what the buffer held before (`MyFunc.cpp:105`), and one whose padding is missing may get
  as many stale bytes as it lacks characters. (`Surplus`)
- Log: two calls that share the date file may leave a log that has expired (`hb-log.cpp:147`);
  `KeepsRecent` shows that none goes too early. A log that cannot be removed costs a descriptor for
  each line that is logged (`hb-log.cpp:42`). (`failures`)

## 4. What is proved

The theorems about `HbCluster` hold for every value of the constants under `ClusterAssumption`
(`NoFd` is no connection, the switches are Boolean, the bounds natural numbers,
`MaxQueue` at least 1): any number of connections, faults, commands and late
messages. The proofs use nothing of the policies but that they return one of their
three answers, so they hold for any content of the policy files.

| Theorem | States |
|---|---|
| `TypeCorrect` | `Spec => []TypeOK` |
| `Invariance` | `Spec => []IInv` |
| `LockstepHolds` | `Spec => []Lockstep` |
| `ExclusiveHolds` | `Spec => []Exclusive` |
| `ServiceImplemented` | `Spec => ServiceSpec`, the refinement of `VipService` |
| `HandoverAnnouncedHolds` | `Spec => HandoverAnnounced`, if `detect_times # 0` |
| `ParkedKeepsVipHolds` | `Spec => ParkedKeepsVip` |
| `NodeCorrect` | `HbNode`: `Spec => [](TypeOK /\ ScriptFollowsVip)` |
| `ActsInTimeHolds`, `OnlyFailuresLeakHolds` | `ConnectLoop`: the two invariants |
| `OneDaemonHolds`, `StopStopsHolds`, `StopFreesVipHolds` | `ServiceScript`: the three invariants |
| `ScriptsObeyed` | `ManualTool`: `ScriptObeyed` |
| `CoalescedIsMergeHolds`, `HeartbeatsTransparentHolds`, `GetResIsGenuineHolds` | `TelegramWire`: the three invariants |
| `RolesComplementaryHolds`, `PortsAsWrittenHolds`, `SimpleNodesStartHolds`, `PeerIsUcastHolds` | `Startup`: the four invariants |
| `EntryUnderstoodHolds` | `HaResources`: `Spec => []EntryUnderstood` |
| `KeepsRecentHolds`, `LeaksBoundedHolds` | `HbLog`: `Spec => KeepsRecent`, `Spec => []LeaksBounded` |
| `HealthIsProbedHolds`, `IllnessHasCauseHolds` | `Plugins`: the two invariants |
| `AnswerHeardHolds`, `SocketsClosedHolds` | `NetSignProbe`: `Spec => AnswerHeard`, `Spec => []SocketsClosed` |
| `LastFileCountsHolds` | `ProbeConfig`: `Spec => []LastFileCounts` |
| `SendsWhatIsMeantHolds` | `DetectString`: `Spec => []SendsWhatIsMeant` |

The theorems about files and plugins are about the machines as `MCFiles` and `MCPlugins`
instantiate them (`HaCf!Spec`, `Log!Spec` and so on), so that they state the very formulas that
the runs check. The bounds on lines, telegrams, edits and days are arbitrary in them.

### Why an inductive invariant

`Exclusive` speaks of the VIPs alone. Whether a take is safe depends on what is
under way: a GET_RES may be read many steps after the primary released, a FREED_RES
many steps after the backup did. `IInv` says what these messages mean while they travel.

`WireOK` is about the connections and not about the VIP:

- `SocketsOK`: each socket a loop works on, and each one in the backlog, is one end of
  a connection; the server's sockets are distinct.
- `QuietOK`: a direction whose reader has left is empty.
- `NewestLast`: connections are accepted in the order they were made, so the
  client's own is the last one the server has.
- `OneInFlight`: before a timeout, one telegram at most is under way while the client
  waits, none while it prepares the next. `Lockstep` follows at once.

`OrderOK` gives the messages their meaning. `Yields(n)`, "`n` has no VIP or holds it
as a solo holder", is what a taker needs to know of the other side:

- `GetResOK`: while a GET_RES waits to be sent or read on a connection that is still
  served, the primary yields. It can stop yielding only by taking on its own authority
  (which keeps `Yields` true, because it becomes a solo holder) or on a FREED_RES.
- `FreedResOK`: before a timeout, while a FREED_RES is under way the backup yields.
- `SoloOK`: solo nodes hold the VIP. With it `Exclusive` and the refinement follow.

The hard case of the induction is a FREED_RES read while an older GET_RES still
waits: `OneInFlight` excludes it before a timeout, and after one the take is solo.
Coalesced reads are the other: `GetResGenuine` (`TelegramProofs`) shows that a Read that means GET_RES
contains a GET_RES, although GET_RES is the zero of its field, which no telegram writes.

The steps are sorted into classes (`SafeRes`: solo takes, releases and steps that
leave the VIP alone; `GetRes`; `FreedRes`), so that only the last two need the
meaning of a message. Each class has its lemmas, and `Invariance`, the three
consequences and the refinement combine them with PTL.

The action properties have their own, smaller arguments: `CountOK`, that the count
of heartbeats stays below `detect_times`; and for a parked node that no step but
a connect and the status thread is left to it.

### The other modules

`HbNode` (`NodeAssumption`: the constants have their types; any number of events).
`ScriptFollowsVip` speaks of idle threads; in the middle of a call that runs alone the script
lags behind the card. The invariant says for each command what has been done so far: after `add`
the VIP is there, after `delete` it is not, and so on, unless the call is `mixed`; and two
threads in calls make it `mixed`.

`ConnectLoop` (`ConnectAssumption`: `keepalive` positive, the rest natural). `ActsInTime` needs
that the loop's own count never lags behind: before the client has acted `slept <=
try_time_sum`, which stays below `deadtime + keepalive`, and each second blocked belongs to an
attempt that was slept after. That `try_time_sum` may be ahead, left over from an earlier
outage, is why there is no lower bound.

`ServiceScript` (`ReadableAssumption`; any set of daemons). Without an overlap the pid file is
empty, or names just the one daemon that has written; the invariant says for each step of the
script which of these it can meet and whether anything may still be alive, and that a VIP on the
card after the script has deleted it was put there by a daemon that lives or by a late command.

`ManualTool` (no assumption; any number of scripts, restarts and turns). While the scripts agree,
all of a node's orders (in the script, on the way, being carried out) are the one that is
wanted of it. One of them is still outstanding, or the node has obeyed, or one of its orders is lost,
which a restart counts as (`Orders`). A node obeys by being parked and by having the VIP or not as
wanted; only a turn that was past its read of `trouble` may have moved the VIP since, and a parked
node begins no turn, so a node that was between two turns when the script was run keeps still
(`Stands`). `ScriptObeyed` is the case where nothing is outstanding anywhere.

`NetSignProbe` (`ProbeAssumption`; any number of services, retries, seconds and lengths). What
`ParseReceive` counts as received (`iRecSofarLen`) never exceeds what was heard after the
header, since an error is negative and is added too. The one exception is a header that the end
of the stream cuts short, which the code takes for a whole one; but nothing can be received
after that, so the count never reaches the declared length. That is the third alternative of
`HeardInv`, and the reason why `AnswerHeard` is true of code that ignores an error.

`TelegramWire` (no assumption; any number of telegrams in one Read). The invariant is that the
buffer is the telegram of `Coalesced(sent)`, so the induction is over what is sent and not over
the sequence. It rests on what `Coalesced` becomes when a message is appended (`TelegramProofs`):
nothing new for a heartbeat, and otherwise protobuf's rule, that a field is replaced when it was
written and a oneof member starts from zero when it changes. `GetResIsGenuine` needs the same
lemmas as the cluster's `GetResGenuine`.

`HbLog` (`LogAssumption`: finitely many threads, `max_keep_day` natural). `KeepsRecent` needs that
every date in the file, and every date a call has read from it, is that of a day that has been: it
was `max_keep_day` days ago at some time, so it is never too late. A stream is left open by a call
that has found the old log. Such calls stand at `remove`; the first to go on removes the log and is
counted, and one removal pays for as many streams as there are threads; a removal that fails pays
for its own. So the streams are not bounded by the days alone: a log that can never be removed costs
one for each line, which the term `failures` says.

`Startup` (`LinesAssumption`; ha.cf of any length, of any lines of words). `NodesOK` is by cases of
how many node lines there have been: with none the map has no node, with one simple line it has its
host, with two it has both, and the second under `node-backup`, which no line that is no node line
can disturb. `PeerOK` says that the last plain ucast line is what the map holds under `ucast`. Both
need what the parser makes of one line, whatever its blanks and comments are, which is most of the
proof. The assumption excludes a line that begins with a space, whose key the parser does not trim,
and one whose own key is `node-backup`, which overwrites the second node: those two the code reads
differently. `PortOK` says the same of `tcpport` and `udpport`, and that a key of which there was no
line is not in the map, so that `udpport` counts then. `RolesComplementary` needs no invariant: it
holds of any map.

`HaResources` (`TailsAssumption`; any number of comments and entries). Either only comments
have been read so far, or the first entry was taken apart and reading has ended. That an entry is
understood is a computation over its words, done for each shape that a line can have.

`Plugins` (`ManagerAssumption`: the files named like plugins are files of the directory). A plugin
that was listed is in the paths, one that was passed is loaded, and the result of the round so far
is 1 exactly when all that was met so far was fine.

`ProbeConfig` (any numbers, any length, any number of edits and restarts). `Heeded(c, g, b, p, m)`:
of the first `m` lines of `c` the settings `g` hold, for each setting, the last that gave it a
value, or what it was before (`b`). While a plugin reads, this holds up to its line. Once it has
read, `Obeyed` holds up to the end or the first bad line: the same of what the plugin then has in
force, which is the thousandth of the ICMP plugin's ping timeout.

`DetectString` (`DetectAssumption`: bytes are 0..255; strings of any length, none included, and any
amount of trash). That decoding undoes encoding for every string would be an induction over data;
with a turn of a loop as a step it is one over steps. `StringInv` says that as far as the loops have
come, the first buffer holds the characters of the text and the second the bytes that were wanted. A
step needs the arithmetic of one group: `QuantumIs`, that the eight-bit shifts make three bytes of
the four characters that stand for them, and `LastOfTwo` and `LastOfOne` for the end of a text. The
last group is left to the code behind the loop, which looks at four characters however many there
are. `RestDecoded` says what it brings: the bytes that are left, and after them one more at most for
each character of padding that the text lacks. An empty text has no bytes left, and up to three of
the buffer's are sent (`Surplus`).

### Only model-checked

- Liveness (`Failover`, `Converge`, `Reconnect`, `FlagRepaired`, `TakenInTheEnd`, `RoundEnds`) is
  beyond the prover.
- `PolicyTable`'s two equalities are finite, and TLC evaluates them in every cluster run.

Every other property of the passing runs has a theorem.

## 5. What is not modelled

`PROJECT.json` has the list of components with reasons. What matters most:

- Real time other than in `ConnectLoop` and `readn`: a run says how often a timeout may beat an
  answer.
- A telegram cut in two by a Read: a telegram is a few bytes and written with one `write`.
- The set-up of the server's socket, and connections from an address that is not the peer's,
  which the server loop closes at once.
- In `HbCluster`, `take_over_resources` and `release_resources` are one step and succeed;
  `HbNode` has what that leaves out, for one node.
- `PublishVip` writes the flags and `host_vip_status` in one step; the code writes them in adjacent
  statements (`resource-mgr.cpp:709-718`).
- What the resource script and the gratuitous ARP do to the outside world: they are only
  commands that take time.
- Numbers and lines too long for the buffers they are read into.
- The text of the ping command, of log lines and of the tools' output.
- protoc's output other than its reading and writing of `TransData`, the vendored XML parser and
  arping, build files and installation.
