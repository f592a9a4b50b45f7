# VoidNS desktop in TLA+

VoidNS desktop sends all DNS queries of a machine through an encrypted upstream.
A privileged service runs a DoH proxy on 127.0.0.1:53, points the operating
system's resolver settings at it, and takes commands from a GUI and a command line
over a local socket. If it goes wrong, the machine has no DNS: settings point at a
port nobody serves, or keep pointing there after the service has gone. These
modules state when that cannot happen, check it with TLC and prove part of it with
TLAPS.

Paths below are relative to `src/crates/`.

## The system

| Part | State | Operations | Interacts through |
|---|---|---|---|
| wire protocol `voidns-proto/src/lib.rs` | none (types) | commands, events, status | values sent by everyone |
| controller `voidns-core/src/controller.rs` | `status`, `proxy`, the redirector, the broadcast sender | `connect`, `disconnect`, `status`, `subscribe`, `set` | one `tokio::sync::Mutex` held during a whole call; the broadcast |
| IPC server `voidns-core/src/ipc.rs` | a task per connection, its optional broadcast receiver | `serve`, `handle_conn`, `dispatch`, `recv_opt`, `one_shot` | the mutex; the socket |
| DoH proxy `voidns-core/src/proxy.rs` | UDP and TCP sockets on :53, the server task | `start`, `stop` | the controller owns it; the runtime closes what it drops |
| redirector trait `voidns-core/src/redirect/mod.rs` | what was pointed | `apply`, `restore`, `flush` | called by the controller, under the mutex |
| Linux, Windows, macOS redirectors `voidns-core/src/redirect/*.rs` | the path used, the surfaces to restore | the same three | D-Bus and `/etc/resolv.conf`; native calls and netsh; the dynamic store and networksetup |
| service process `voidns-service/src/{main,winservice}.rs` | whether it serves | `run`, `run_daemon`, Stop | signals; the drop of the runtime |
| GUI shell `gui/src-tauri/src/{lib,ipc}.rs` | the subscription | three commands, `subscribe_forever` | a connection per call, one for events |
| GUI page `gui/src/App.svelte`, `gui/src/lib/backend.ts` | status, provider, token, clock | toggle, select, token gate, events, mount | promises and events |
| command line `voidns-cli/src/main.rs`, `ctl` in `voidns-service/src/main.rs` | the reply | one command, an exit code | a connection |
| parsers `voidns-core/src/redirect/parse.rs` | none | text to lists | the redirectors |
| upstream selection `proxy.rs`, `voidns-proto`, the command line | none | words to a selection, its label, its name servers | `start` |

### What is hard in it, and what makes each part correct

*Controller.* A connect has five stages, each with an error path, and awaits in
between; connections call it at once. Correct: the status agrees with the sockets,
the stored proxy and the redirector's memory whenever no call is in progress; the
system points at :53 only while both sockets are bound; a connect ends, with the
upstream it began with or in an error.

*IPC server.* A subscriber is told a snapshot, then a stream out of a bounded channel
that drops its oldest entries, forwarded only while no command of the same
connection is being served. Correct: the last status a subscriber gets is the present one.
Below that, a message is a length and a body, and an update may cancel the reading of one
halfway. Correct: the dispatcher gets what was sent, in order, each command once.

*Redirectors.* Each reads lists off the output of commands made for people, works through
several system calls that may fail, leaves the rest
of the system free to change the same settings, and forgets everything when the
service is killed. Correct: what is pointed is remembered; what is restored is what
was there.

*Service process.* A shutdown meets calls in progress and calls that are queued.
Correct: after a graceful exit nothing is left pointed, and the exit comes.

*Several processes.* The socket is a file that anyone removes by its name; a second
service, which a misspelt control command is enough to start, takes over the clients of the
first and not its port. Correct: the system is redirected to a service that serves; an exit
code tells a script what has become of its command.

*GUI.* Calls are connections of their own, so they overtake each other, and events
come on yet another; functions of the page run on after an await, on a state that has
changed. Correct: when nothing is on its way the page shows what is.

Every such place is listed with its line under `hazards` in `PROJECT.json`.

## The modules

```
VoidnsProto ----------- types              DnsRedirector     abstract: the trait
  ^        ^                                 ^        ^ refined by
  |        +-- ConnLifecycle  abstract       |        |
  |             ^ refined by   ^ used by     |        LinuxRedirector   <- LinuxProofs
  |             |              |             |        WindowsRedirector <- WindowsProofs
  |        Controller (EXTENDS both)         |        MacosRedirector   <- MacosProofs
  |          ^    ^            Gui <-- MCGui, GuiProofs
  |          |    +-- Daemon
  |          +-- MCController, ControllerProofs
  |                                  ControllerProofs, Daemon <- DaemonProofs
  +-- Services (EXTENDS UpstreamSel) <-- MCServices, ServicesProofs
CommandChannel  abstract: what a connection gives the dispatcher
  ^ refined by
IpcFraming <- IpcFramingProofs
```

**VoidnsProto** holds commands and statuses. A status keeps its state, its upstream
and which half of a connect an error came from.

**ConnLifecycle** is the abstract specification of the service seen by a client:
begin, succeed, fail, drop.

**DnsRedirector** is the trait: `pointed` surfaces, `remembered` surfaces, and the
call in progress, which visits one surface at a time. `Faults` names four
departures (`apply_leaks`, `restore_fails`, `external`, `crash`), so a property can
say which of them it tolerates. All three implementations clear their memory before
restoring; so does `BeginRestore`.

**Controller** composes the trait with the controller, the mutex (`lockq`: its holder
and the queue; tokio's mutex is fair), the sockets, and one task per connection
(`pc`, `req`, `rx`, `out`). A task takes one step between two points where another
task, the system or a client can see a difference: `BindUdp` and `BindTcp` are two
steps, and so is every surface. `lingering` is the UDP socket of a failed start that
the runtime has not closed yet: a retry cannot bind it. `Rewritten` is another program
changing a surface. `Client` is what a peer may do at any time, including leaving.

**Daemon** extends Controller by the process: `Main` is one more task, which queues a
single disconnect when `Shutdown` comes. Connections go on being served until the
runtime is dropped (`RunReturns` to `Exit`), and code that does not suspend runs to its
next await even then (`LastPoll`). `Die` is a signal the code does not handle; `Restart`
finds the surfaces as they were left.

**CommandChannel** is what Controller takes for granted of a connection: whole commands, in
their order, none twice. **IpcFraming** is one connection at the level of bytes that
implements it: `write_msg` hands over a unit at a time, `read_msg` is a branch of the
`select!` that `TakeUpdate` cancels (`astray` is a read that begins in the middle of a
frame), the socket may be full and the receiver may lag.

**UpstreamSel** holds the pure functions between the words of a command line and the
forwarder of the proxy: `ParseUpstream`, `Label`, `HasNameServers`, `ClientConfigOk`.
**Services** puts processes around the controller: services that are started over each
other, stopped and killed, the socket file (`path`), port 53 (`foreign` is another program on
it), whom the system is `redirected` to, and command lines from what is typed to the exit
code. A call of the controller is one step in it, since Controller and Daemon have its
interleavings. Its redirector may fall short of the trait as that of Controller may (`Faults`): an
apply may leave something pointed, a restore may fail, and then nobody is told. `leftover` marks
behaviours in which that, a kill or a connect after the last disconnect has happened; a disconnect
that leaves nothing clears it.

**LinuxRedirector**, **WindowsRedirector**, **MacosRedirector** model each D-Bus call,
file operation, native call or command as a step. `troubles` is fixed in the
initial state, one of `TroubleSets`, and decides which failures the behaviour may
contain; so one run covers the faultless case and the faulty ones, and each property
says which troubles it is proof against (`Without`). Contents are model values: what
the user wrote, what we wrote, a file cut short. The parsers are operators of the redirector
that calls them, over lines whose columns are split already: `ParseDefaultRouteIface` takes
the first line of any routing table with the default destination, `ParseNetshInterfaces`
keeps what is enabled and connected and garbles the names in `Spaced`, `ParseDnsServers` drops
the servers in `Scoped`. `ImplementsContract` is the refinement
of DnsRedirector under the faults `BrokenBy(troubles)`: it says precisely which failure
of the system costs which promise. Since `troubles` is a variable and `Faults` a
constant, it is spelled as initial predicate and step formula of the instance for each
set instead of the instance's specification.

**Gui** composes the page (`view`, `providerId`, `token`, `ticking`), the async
functions that await (`job`), the calls on their way, the service as ConnLifecycle
behind its queue, and the event stream. A step of the page is what runs between two
awaits. `muddled` marks behaviours in which the page made overlapping calls, shared
the service or overwrote its status with the token gate: there the code promises nothing.

`MCController` and `MCGui` add symmetry, `MCServices` the command lines. Operators whose
comment begins with "Mutant:" are plausible slips of the operator after them (a dropped guard,
a swapped order, a lost reset); `PROJECT.json` says which property each one breaks.

## The runs

| Run | Instance | States | Shows |
|---|---|---|---|
| `controller` | 2 connections, 2 upstreams, 2 surfaces, channel of 2, three faults | 270 000 with symmetry | `IInv`, `StatusTruthful`, `ServedWhileKnown`, `ReplyIsSettled`, `StreamCurrent`, `StreamOrdered`, and the refinement `LifecycleSpec` |
| `controller_live` | 2 connections, 1 upstream, 2 surfaces, a faithful redirector, fairness | 120 000 | `NoDeadPort`, `NoOrphan`, `Answered`, `StreamConverges`, `LifecycleFairSpec` |
| `daemon` | main and 2 connections, 2 surfaces, SIGTERM, restarts, fairness | 80 000 | `ShutdownAlone`, `ExitCleanUnlessLate`, `ShutdownEnds` |
| `ipc_framing` | frames of 3 units, 3 commands, channel and socket of 2, fairness | 25 000 | `InStep`, `SnapshotFirst`, `ChannelSpec`, `Answered`, `FirstIsServed` |
| `services` | 2 services, 1 command line at a time, 10 things to type, a broken extra CA, two faults of the redirector, fairness | 370 000 | `RedirectedServed`, `ExitTells`, `HoldsItsSocket`, `RunsEnd` |
| `linux` | 2 links, routing tables of 2 lines, 2 texts, 8 sets of troubles | 11 000 | `TypeOK`, `Recoverable`, `ImplementsContract`, `RestoresPrior`, `RestoreUnpoints` |
| `windows` | 3 interfaces, one with a name that is garbled, 8 sets of troubles | 22 000 | `ImplementsContract`, `RoutesAll`, `RestoreUnpoints` |
| `macos` | 3 services, 2 server lists, one with a zone, 8 sets of troubles | 250 000 | `TypeOK`, `SavesPrevious`, `ImplementsContract`, `RestoresPrior`, `RestoreUnpoints` |
| `gui` | 1 async function, 2 providers (1 gated), 2 events on their way, another client, a service that dies, fairness | 660 000 | `GuiInv`, `SettledViewIsTrue`, `ConnectingEnds` |
| `daemon_late_connect`, `linux_stale_backup`, `gui_gate` | small | | violated, see below |

Why these bounds are enough to be interesting:

- two connections give every order of two calls at the mutex, one inside and one
  waiting, and a subscriber beside a caller; a third waits in the queue
  and sees nothing new, which the proofs confirm for every number;
- a channel of 2 (16 in the code) overflows in a single connect after a disconnect,
  which is the point: a call announces at most two statuses;
- the connections of `daemon` do not subscribe: a subscription changes nothing about who
  holds the mutex, and `controller` has it;
- a frame of 3 units can be cut within its length and within its body; 3 commands put one
  before and one after a Subscribe;
- two services are one that runs and its rival; a single command line can be started
  again and again, and everything the properties say of it is about a script that is alone;
- two or three surfaces give a call that is half done, and a partial failure with
  successes before and after it;
- two routes disagree about the default, and two texts tell an old backup from a newer
  file; the third content is our own;
- the sets of troubles are the empty one, each kind of failure with those that
  have to come before it, and one with nearly all of them;
- two events are as many as one call causes; `MaxStream` delays the service, and loses
  nothing. A second async function of the page overlaps the first, which is `muddled`
  until all is quiet again: `SettledViewIsTrue` promises nothing of it. `gui_gate` has two;
  `ConnectingEnds` is checked with one, and with calls of the other client beside it.

Fairness. In Controller: weak for `Progress` (tokio polls what is ready, and a client
reads what it is sent) and for `Released`; strong for `Forward`, because `select!` polls
its branches in random order, so a client that keeps sending commands cannot
suppress the other branch for ever. Nothing obliges a client to send. System calls are
assumed to return. In Daemon the same for open connections, and for the main
task. In IpcFraming: weak for what the handler does between two reads, and for a client that
finishes what it writes and reads what it is sent, as long as it stays; strong for the two branches
of the `select!`, again because it is random. In Services: each process and each command line goes
on when it can; nobody has to start, stop or type. In Gui: the page's handlers, the calls and
the service go on; strong for `Resubscribe`, which is retried every two seconds and waits at
the fair mutex when it comes in the middle of a connect; and nobody has to click. Nothing
starts a service that is down: no fairness for `ServiceStarts`, `Start` or `Restart`.

Deadlock is checked in every run, and every counter is bounded by `Capacity`, `MaxStream`,
`MaxCommands`, `SocketRoom` or `MaxRoutes`.

## What is proved

Eight modules hold proofs. They hold for every value of the constants that satisfies the
named assumptions of the modules, which say no more than that contents, names and markers
are told apart, that capacities are positive and that a machine has finitely many surfaces.
Every safety property of every passing run is a theorem.

**ControllerProofs**: every set of tasks, upstreams and surfaces, every set of faults and every
capacity. `StatusTruthful` is not inductive: it speaks of moments between calls. The inductive
invariant `ServiceInv(left)` adds what a call relies on at each of its points; `left` are
the surfaces that an earlier process has left pointed, and `IInv` is `ServiceInv({})`:

- `MutexInv`: a task inside a call heads the queue. With it, at most one task is inside
  (lemma `Alone`), and a step of a waiting task cannot disturb another (`OutsideStep`);
- `ConnectInv`: from `start` on the status is Connecting with this task's upstream, no
  proxy is stored, nothing is remembered, and the sockets are those bound so far;
- `DisconnectInv`: memory is already cleared, and the sockets are bound exactly if a
  proxy is stored;
- `QuietInv`: between calls the redirector is idle;
- `StatusTruthful`, which is what a call finds when it begins;
- `NoOrphanBut(left)`, under a faithful redirector.

There is one lemma per group of actions (`ConnectBeginStep`, `BindStep`, `ApplyStep`,
`RestoreStep`, ...), and `TaskStep` puts them together. From `ServiceInv` follow
`TypeCorrectness`, `StatusIsTruthful`, `ServedWhileKnownHolds`, `NoOrphanHolds` and
`NoDeadPortHolds`.

`IInv` also has `QueueInv`: the queue of the mutex holds each task that waits or is inside a
call, once, and nobody else. It carries the safety half of `Answered`, which itself is out of
reach. `NobodyIsStuck`: the guards of the next step of the head are met, among them that the
redirector is in the call that the model's action asks for, which the code does not test; so these
guards never hide a step. `CallsEndInOrder`: with `StepsLeft(t)`, a number between 1 and five more
than there are surfaces, every step of the head sends it off or lowers its number, and no other step
raises it, takes somebody out of the queue or lets anybody in but at the end.

What clients see comes from splitting the steps into those that announce a status and those that
are silent for all tasks but one. `StreamInv` is inductive relative to `ServiceInv`: an announced
status may follow the present one (`Announcement`), and `Deliver` appends it to every
receiver and drops from the old end only. `RepliesAreSettled`, `StreamsAreCurrent` and
`StreamsAreOrdered` follow. `ImplementsLifecycle` is the safety part of the refinement
of ConnLifecycle.

**DaemonProofs**: any number of connections, whatever they request, and any number of restarts.
The lemmas about tasks are used with the surfaces that the process has found pointed. `DaemonInv`
adds where the main task stands in each phase and that what its disconnect has cleaned up stays so until
a connect begins (`CleanInv`). `ShutdownIsAlone` is then `Alone`; `ExitIsClean` is `CleanInv`
with `NoOrphanBut(inherited)`. The promises of Controller carry over to a process that is shut
down, killed and started again (`DaemonMoves`: every step is one of Controller, or none, or the
end): `DaemonStreams` and `NobodyIsStuckInDaemon`, for connections that subscribe too, which
the run leaves out; `LifecycleWhileAlive`: the shutdown cuts no connect short;
`ProcessServesItsOwn`: `NoDeadPort` but for what an earlier process has left pointed.

**IpcFramingProofs**: any length of frame, any number of commands. `FramingInv` says that the
service never reads past what is written, that what is taken is a prefix of what was read, and
that updates come only after a Subscribe. `StaysInStep`, and `ImplementsChannel`: the refinement
of CommandChannel, for connections that go out of step too, since an astray read yields no
command any more. `SnapshotComesFirst` compares two directions of the connection, so its
invariant `SnapshotInv` counts: the replies on the way back and those the client has read are as
many as the commands served (`OneReplyEach`), and the reply to the first Subscribe is ahead of
every update. The lemmas `RepliesNext` and `RepliesTail` say how the count changes when a frame is
appended and when one is read.

**GuiProofs**: any number of async functions, providers, events on their way and any troubles.
`SettledViewIsTrue` speaks of a page at rest; what leads there is `GuiInv`, whose parts say
where each answer that is still to come will put the view:

- `QueueInv`: who stands at the service's mutex waits for it and stands there once, and a service that
  is connecting was asked to by the call at the head;
- `AnswerInv`: an answer is a status, and that of a disconnect is that it is done;
- `AloneInv`: a page that is not muddled waits for one call at most, which does not fail;
- `LastWordInv`: what such a page will be told last, by a reply or by an event, is the status of the
  service, and a page that is told no more shows it;
- `ClockInv`: a clock ticks in a view that is connected or connecting, and one that stands in a
  connected view belongs to a disconnect;
- `GateInv`: without a token the gated provider is in a command only when a reconnect that was in
  progress has read the selection after its await, which is the departure `gui_gate` shows and
  here the only way (`GateOpensByReconnect`).

`ViewSettles` follows from the last words.

**ServicesProofs**: any number of services and command lines. `ServicesInv` ties the redirection to the
one service that is in use, the socket file to a service that serves, and a run to what it was
told, under any of the redirector's `Faults`. `RedirectionIsServed`, `SocketIsHeld`, `ExitCodesTell`:
the exit code of a connect tells the truth whatever the redirector does, that of a disconnect and
the end of a service only without `leftover`. `WordsToUpstream` and `LabelTells` are
about the functions of UpstreamSel: what `ExitTells` says by a label it says of the upstream itself,
unless a custom one has the label of a named one for a hostname.

**LinuxProofs**, **WindowsProofs**, **MacosProofs**: any links, interfaces, services and texts,
and any set of combinations of troubles, where a run has eight. Each invariant is a conjunction of
parts charged with the troubles they survive: where the backup is, where a whole text is
(`TextInv`), where a pointed surface is recorded, how the loops divide their lists, what the
user's setting has become. From them the safety and action properties of the runs, and
`KeepsContract`: each implementation refines DnsRedirector, whatever goes wrong at once, under the
faults that `BrokenBy` charges it with. On Linux it has one hypothesis: no combination contains
`no_conf` and `rewrite` together (see `ImplementsContract`). A refinement lets the detailed
specification stutter for as long as it likes, and `Answered` of Controller rests on redirector
calls that return. `CallsEnd` is the safety half of that: with `StepsLeft`, at most 6 on Linux, 2n
+ 4 on macOS and 2n + 6 on Windows with n services or interfaces, every step of a call, the
failing ones included, lowers the number or ends the call, and no user, adapter or other program
raises it meanwhile. That a call in progress always has a next step is the deadlock check of the
runs, in the combinations that let nothing interfere.

Only model-checked: liveness (`LifecycleFairSpec`, `Answered` of Controller and of IpcFraming,
`StreamConverges`, `ShutdownEnds`, `FirstIsServed`, `RunsEnd`, `ConnectingEnds`), which is beyond the
prover, as is anything with ENABLED. The parsers of the redirectors are evaluated by the runs on the
inputs of their configurations.

## Where the code departs from its documentation

Three departures have a run that shows them.

- `daemon_late_connect`: `run_daemon` disconnects once. A connect that a client has
  queued behind that disconnect runs before the runtime is dropped, and the process
  ends gracefully with DNS redirected. `ExitCleanUnlessLate` shows that this is the only way.
- `linux_stale_backup`: a backup left by a kill is not replaced by the next connect, and
  is later restored over a newer `resolv.conf`.
- `gui_gate`: `reconnectFor` reads the selected provider after its await; selecting the
  gated one in that window connects it without a token.

Others are conditions of a passing property, and appear when the condition is dropped.

- The result of `restore` is ignored by `disconnect` and the proxy is stopped all the
  same, against the comment on the order in `controller.rs:94-95`. `NoDeadPort` therefore
  assumes a faithful redirector.
- For the same reason (`controller.rs:96`) a disconnect whose restore fails is answered
  Disconnected: `disconnect` exits with success, and a shutdown ends gracefully, with DNS still
  pointed at a port where nobody listens. So may an apply that fails after it has pointed something
  (`controller.rs:75-79`). `RedirectedServed` and the disconnect half of `ExitTells` hold without
  `leftover` only; with `Faults = {}` just kills and late connects set it.
- SIGTERM, which `main.rs:131` names, is not handled: DNS stays redirected. The exit
  properties speak of graceful exits.
- Linux: `SetLinkDefaultRoute` failing after `SetLinkDNS` loses the link
  (`route_refused`); without a `resolv.conf` at connect, ours stays after restore
  (`no_conf`), and the next connect backs up our own text as the user's.
- Linux: a kill or an error in the middle of the copy that makes the backup (`linux.rs:218`) leaves
  half a backup. The next connect sees that it exists (`linux.rs:214`) and overwrites the only whole
  text; the disconnect after it restores the half (`backup_torn` in `Recoverable` and
  `RestoresPrior`).
- Windows: one accepted interface is enough for Ok (`native_refused` in `RoutesAll`);
  static servers are not saved, so a disconnect replaces them by DHCP; an adapter that
  is unplugged at disconnect comes back pointed (`unplug`); an interface whose name has
  two blanks in a row is never routed (`spaced`).
- macOS: a networksetup that fails halfway drops what it saved, and the next connect
  saves our address as the user's (`shell_refused`, `crash`); a failed read counts as no
  servers (`read_fails`); a server with a zone is lost (`scoped`).
- IPC: commands sent on a connection after its Subscribe may never be answered (`InStep`,
  `Answered`). No client of the repository sends any.
- Services: a second service takes the clients of the first and leaves it the redirection
  (`rival` in `ExitTells` and `HoldsItsSocket`). A service that is killed while connected leaves the
  system redirected to nobody (`leftover`).
- Command line: a connect that finds the service connected succeeds with the upstream in use
  (`was` in `ExitTells`).
- GUI: the token gate replaces the status of a connected service by an error; a
  connect to a service that is already connected shows the selected provider although
  another is in use.

## What is not modelled

- *Forwarding a query*: hickory-dns and the network; the proxy is its two sockets, and the
  reasons why it may not start. A listen port other than 53 (`VOIDNS_PORT`) is a setting for tests.
- *Splitting text into columns and words* in the parsers, a localized netsh, and a blank line in
  `/proc/net/route`, which would end the search of `parse_default_route_iface` and which the kernel
  does not write.
- *Custom upstreams* that share a hostname share the label in a status; Controller tells
  upstreams apart, Services does not.
- *Named pipes*: Services has the socket file of Unix. That the listener removes its file by
  name when it is dropped is how the `interprocess` crate behaves, and is taken as given.
- *Ready before there is a socket* (`voidns-service/src/main.rs:159`): the phase between is in
  Services, and a client in it finds no service; what a service manager makes of it is outside.
- *Tray, window, layout, the browser preview* with its timers; texts and logging; status reports
  to the service control manager.
- *Errors of accept*, which the loop of `serve` passes over.
- *D-Bus, the dynamic store and native Windows calls* below a single call that succeeds or fails.

## Plan

Done, in this order: Controller over DnsRedirector, its lifecycle and its proofs; the process;
the three implementations; the client; the framing; several processes and the command line; the
parsers; the proofs about the process, the implementations, the framing and the page.

What would be worth adding:

1. The named pipe of Windows in Services.
2. What is safety in the other liveness properties, as `CallsEndInOrder` and `CallsEnd` are for
   `Answered`: a number that every step of a frame under way and of a function of the page lowers.
3. Services as an abstraction of Daemon: that a call may be one step in it is argued from `MutexInv` and
   `ReplyIsSettled`, and not a refinement that is proved.
