# Verification of RelayInner Display

RelayInner Display turns the monitor of a Proxmox host into the console of one
guest. A root daemon (`relayinner-displayd`) watches the guest and decides what
the monitor should show; a kiosk session (`relayinner-display-session`, under
cage or sway) owns the viewer process, the waiting view and the display power.
The two talk over a Unix socket; systemd starts both, the kiosk through a
launcher; an installer puts them on the host and takes them off again. This
directory models all of it in TLA+, checks the models with TLC and proves their
safety properties with TLAPS. Paths below are relative to the repository;
`daemon.py` stands for `src/relayinner_display/daemon.py` and so on.

## Inventory

| Component | State | Operations | Hard behaviour |
|---|---|---|---|
| Control socket (`daemon.py`, `session.py`, `ipc.py`) | one accepted connection, listen backlog, buffers | accept, read everything, send, close, connect | dead connections in the backlog; messages and end of file in one read; a send that fails half-way through a list of answers or through a line; a line that arrives in parts |
| Daemon state machine (`daemon.py`, `models.py`) | `session_state`, `degraded_reason`, `startup_error`, `session_ready`, `console_running`, reconnect delay, failure timestamps | `start`, `handle_session_message`, `tick`, `on_session_disconnected` | answers that cross on the socket, late messages after degrading, failure windows, backoff |
| Display power policy (`daemon.py`) | VM power state and its age, intent, applied | `_update_display_power_intent`, `_reapply_display_power` | off delay and startup stabilization, restart of either process |
| Power button (`daemon.py`, `input.py`) | action in flight, last acceptance | `_poll_power_button_source`, `_handle_power_button_press`, `_refresh_power_button_action` | several presses in one tick, debounce, stalled and timed-out actions, qm errors and hangs, device failure |
| Moonlight pairing (`daemon.py`) | pair state, PIN, time of the request | `_handle_moonlight_pairing` | PIN expiry, pairing UI exit, host lost or paired meanwhile |
| Moonlight workspace (`daemon.py`) | QSettings files | parsing, host normalisation, serverinfo probe | mixed file layouts, partial rewrite |
| Console launch (`daemon.py`, `proxmox.py`) | - | `_prepare_console_launch` | four backends with different failures |
| Proxmox client (`proxmox.py`) | - | `qm status/start/shutdown/config`, `pvesh spiceproxy` | command timeouts |
| Session supervisor (`session.py`) | viewer process, waiting reason and details, display power | `handle_daemon_message`, `poll_console`, loop of `run` | a viewer that exits while messages are under way, a batch already read when the daemon ends |
| State file (`models.py`) | - | atomic write | written only |
| Configuration (`config.py`) | the file | `load_config`, `parse_config`, `build_fallback_config` | cross-field rules; three processes read the file, each at its own time |
| Kiosk launcher (`kiosk.py`, `kiosk_launcher.py`) | - | validates the file, execs cage or sway, which start the session | the two compositors react differently to the session's end |
| Service units (`bootstrap.py`) | unit states, start counters | systemd's start, restart and start limit | `Requires=` between the units, giving up |
| Installer (`bootstrap.py`) | units, conflicting units, service user, files, configuration and backups, install-state record | `install`, `uninstall` | re-installation, a run that ends between two steps, restoring on evidence |

What makes them correct: the two processes agree on connection, viewer, PIN and
display power whenever nothing is under way between them; a degraded daemon says
why and hides the guest; delays stay within their configuration; every guest
action ends; the appliance comes back after either process restarts; a message is
handled whole and in order or lost with its connection; the processes run with one
configuration; uninstall gives back what install took and no more. The hazards are
listed, with their lines and the properties that would catch them, in
`PROJECT.json`.

## Modules

| Module | Models |
|---|---|
| `ControlSocket` | `SessionSocketServer`, `SessionSocketClient`, the message types of `ipc.py` |
| `GuestHost` | external: the guest as `qm status` prints it, the Sunshine host, and the budget of every kind of unscheduled event |
| `DisplayDaemon` | the `DisplayDaemon` object and the loop of `daemon.run` |
| `SessionSupervisor` | the `SessionSupervisor` object and the loop of `session.run` |
| `RelayDisplay` | their composition, the fairness, the properties |
| `MCRelayDisplay` | event budgets for TLC |
| `RelayDisplayProofs` | type correctness for every value of the constants |
| `RelaySafetyProofs` | three safety theorems on top of it, about the daemon |
| `RelayLinkProofs` | both processes and the messages between them: the intended power, no orphaned viewer, launches when due |
| `RelayScreenProofs` | what is on the screen: sleep, waiting view, PIN, paired stream |
| `MessagePipe` | abstract: what the control socket promises |
| `LineSocket` | the socket classes, `encode_message` and `decode_message` at the level of bytes; implements `MessagePipe` |
| `MessagePipeProofs` | order of delivery from the promise |
| `LineSocketProofs` | types, no garbled line, the bytes keep `MessagePipe`'s promise |
| `HostInstaller` | `HostBootstrapInstaller`: `install`, `uninstall` and the host they change |
| `MCHostInstaller` | hosts to install on |
| `HostInstallerProofs` | types, no overreach, the operator's text kept, what a completed install and uninstall leave |
| `Configuration` | `parse_config`, `build_fallback_config` as operators |
| `HostServices` | the units, the launcher, the compositor, the start of daemon and session |
| `MCHostServices` | configuration files |
| `HostServicesProofs` | types, agreement, confinement |

The project is four specifications. `RelayDisplay` is the appliance at work, on
top of messages that arrive whole; `LineSocket` is the layer below, and shows
that they do; `HostServices` is the layer around, from the unit files to the point
where `RelayDisplay`'s processes enter their loops; `HostInstaller` is what puts
the units there.

**The daemon.** `pc` is the place in the loop: `read` (accept and read, with the
sleep before it), `handle` (one message of the batch in `inbox`), `poll`/`press`
(the power-button presses that `tick` handles first), `tick`, and `down`. The
object is four records: `ctl` (session, console, degraded, retry), `disp` (VM
power state and display power), `btn`, `moon`. Methods that only compute on the
object are operators on these records with the method's name
(`Transition`, `EnterDegraded`, `ScheduleReconnect`, `RecordFailure`,
`UpdateIntent`, `RefreshAction`); the methods that the loop calls are actions, one
per path through `handle_session_message` and `tick`. `Deliver` is what the loop
does with returned messages: send them, and `on_session_disconnected` when one
cannot be sent. `console_pid` and `active_console_backend` change together with
`console_running` and are part of it. `last_error`, `last_console_exit` and the
timestamps kept for the state file are left out.

**Time.** A datetime attribute is its age, or the time left to it, in steps of
`TimePasses`, which happens in the sleep between two passes. Ages stop at the
value beyond which no comparison in the code changes. `failures` counts the
failures by age and drops those older than `PROXMOX_FAILURE_WINDOW`, as
`_record_proxmox_failure` does.

**The session.** `sess` is the viewer (`stream` or the Moonlight pairing UI),
whether it is still alive, the waiting reason, the PIN visible on the screen (in
the waiting view's details or in the pairing UI) and the display power. Every
message of a batch and every `poll_console` is one step: a batch is what had
arrived when it was read, so the daemon's steps come in between as they do in
the program. A message read before the daemon ended is still handled
(`client = "eof"`); its answer then fails, which stops the viewer and closes the
socket.

**The socket.** `conn` is the daemon's accepted connection, `pend` the listen
backlog, oldest first; a connection whose session is gone stays there, with its
`session_ready` readable in front of the end of file. `listen(1)` admits two
waiting connections on Linux. `QueueBound` bounds the messages that the daemon may
leave unread; at the bound the daemon waits, which TLC needs and the program does
not do. A list of answers has at most three messages, so three is the smallest
bound that blocks nothing by itself; two lists still overlap.

**Surroundings.** Each fault spends from a budget, so a behaviour has finitely
many of them and "after the last fault" is a state TLC reaches. A probe of
Sunshine is one of its three answers; the built-in probe turns every error of the
reply into "unpaired", so the handlers of `RuntimeValidationError` around
`_handle_moonlight_pairing` are unreachable and not modelled. A `qm start` or `qm shutdown` that is
accepted, or that hangs, takes effect at once or not; a later effect is a VM
change of the guest's own.

**The byte stream.** In `LineSocket` a message is a line of pieces of which the
last carries the newline, so a prefix of a line is a real value and not an
abstraction. `sendall` on the non-blocking socket is one `WritePiece` at a time;
when the kernel's buffer is full or the peer gone, `WriteFails` closes the
connection with part of the line written, and the loop drops its batch. `Recv` is
one pass of `read_messages`' loop, `WouldBlock` and `Eof` its ways out. Both
processes may be killed anywhere. `MessagePipe` is the promise: each end handles
the other's messages in order, and loses the oldest ones, only when its own
connection goes. The refinement mapping takes as the abstract queue the batch,
then the complete lines in the reader's buffer and on its connection, then those
on the connections waiting in the backlog.

**The installer.** `pc` is the step of the running command. Steps that call
`_run` can end the run (`Abort`), which rolls nothing back; `_run_optional` calls
are queued in `todo` and may each fail silently; a write may be torn. Between
commands the operator edits the configuration, starts the services or reboots, and
runs either command again. `origin` (the host before the first command) and `text`
(what the operator last wrote) are history variables for the properties;
`budget.clobbered` remembers that a backup was overwritten within its second. The
three relay services are one unit here. A configuration text is known by the
compositor it resolves to; `Configuration` has the rest. `/run` and the text of
messages are left out.

**The configuration.** A decoded file maps `<<table, key>>` to a value; a value has
its TOML type and, for a path, its components, so that `relative_to` is what it is
in Python. The checks a single field goes through are data (`Schema`), the rules
between fields are `BackendAccepted`, `PathsAccepted` and the last conjunct of
`Accepts`.

**The services.** `unit` is systemd's view (`waiting` for a start, `up`,
`failed`), `starts` the start counters. The kiosk unit's main process is the
launcher, which becomes the compositor; the session is the compositor's child.
Each process reads the file at a step of its own. `Raises` is a file whose reading
raises something other than `ConfigError`. Whether an automatic restart of displayd
takes the kiosk along, through `Requires=`, differs between versions of systemd:
both are possible steps. The seatd unit is taken as part of the kiosk.

## Runs

The first six runs, and `viewer_exit`, use `MCRelayDisplay`. There, delays are 1
(`ReconnectMax` 2, so that the backoff doubles once and then meets its cap),
`FailureLimit` 2 and `FailureWindow` 1, so that failures both add up and expire.
Deadlock is checked in every run but `services` and `session_crash`: the loops
never stop, and the operator can always act, but a host whose units systemd has
given up on really stays as it is.

| Run | Configuration | Checks |
|---|---|---|
| `boot` | SPICE; each process killed once, one qm failure, one failed start, one VM change | `Shows`, `Sleeps`, `SessionHeard` (liveness) |
| `faults` | SPICE; two qm failures, a viewer exit, a launch failure, a killed session, two VM changes | `ReadyIsConnected`, `ReasonIsDegraded`, `NoOrphanConsole`, `IntentReaches` |
| `backoff` | VNC; two refused endpoints, two exits, one refused command, one failed validation, a transitional VM state | `TypeOK`, `LaunchIsDue` (action property) |
| `button` | three presses, VM states running, stopped, suspended | `ActionEnds`, `ButtonWakes` (liveness) |
| `button_faults` | two presses on a VM that starts off, qm failure, qm hang, device failure, power helper failure | `ErrorEndsAction`, `SleepingIsDark`, `ActionEnds` |
| `pairing` | Moonlight, two PINs, host changes twice, a viewer exit, a failing check, a killed session, a VM change | `PinOnScreen`, `WaitingOnScreen`, `StreamIsPaired` |
| `install` | `MaxRuns` 3, `MaxFaults` 1, `MaxTime` 1; five hosts, with and without the service user; a configuration that needs sway | `TypeOK`, `NoOverreach`, `ConfigKept`, `InstallReady`, `UninstallClean`, `CompositorInstalled`, `Restores` (the last two action properties) |
| `channel` | `MaxConns` 2, `MaxSent` 3, `MaxSize` 2, `Capacity` 3, `Chunk` 2 | `TypeOK`, `NoGarble`, `ImplementsPipe` (refinement) |
| `services` | thirteen files; `Burst` 2, `MaxEdits` 2, `MaxRestarts` 1, `MaxCrashes` 2 | `TypeOK`, `Agree`, `Confined`, `CageComesBack`, `LoopStops` (the last two liveness) |

Why these bounds. Three commands are the least for install, install again,
uninstall, and for a failed run between two others; one fault, at every step of
every run; two seconds, so that backups both share a name and do not. In `channel`
a buffer of three pieces is full inside the second line of two, a chunk of two
ends inside a line, and with two connections the remains of the first meet the
lines of the second. In `services` two starts are the least at which a unit both
restarts and gives up; the files are one for each outcome (each compositor, another
socket, a viewer path set twice, the highest VNC display, a socket that is a
directory, and seven ways to be refused); the Moonlight file has a delay of five
minutes and an app that is quit, the values next to two of the rules.

The budgets let every action of the model happen, and each fault both before and
after a crossing of messages; every property is violated within them when one of
the definitions it is about is changed the way a plausible bug would
("mutants" in `PROJECT.json`). The state spaces have 9 x 10^4 to 2.8 x 10^6
states.

Several properties compare what the processes believe, which is only meaningful when
nothing is under way between them; `Quiet` says so: the daemon is between two
passes, the connection is up and both directions are empty. `IntentReaches` needs
no such state: it counts the message still under way.

Their other premises each exclude a behaviour of the code that breaks the agreement.
`Unspent` says of a kind of event that it has not happened:

- `PressFailed` (`NoOrphanConsole`, `WaitingOnScreen`, `StreamIsPaired`,
  `SleepingIsDark`): a press whose qm status fails can degrade the daemon, and the
  messages that say so to the session are dropped (`daemon.py:655`).
- `{"qm", "launch"}` (`PinOnScreen`): these failures leave the pairing pending, so
  a late `console_started` takes the daemon from degraded back to
  `waiting_for_pairing` while the screen says degraded. Every other failure ends the
  pairing.
- `Degrading` and `PlainStatus` (`WaitingOnScreen`, its wording only): a late
  `display_power_applied` leads from degraded to a waiting state without a new view,
  and so does a VM state that is neither on nor off (`daemon.py:533`).
- `PlainStatus` and `{"read"}` (`StreamIsPaired`): a transitional VM state and a
  failed input device forget the pairing and leave the stream.
- `{"kill"}` (`SleepingIsDark`): a new session starts with its display on while the
  daemon keeps the power that the old one reported; a helper that then fails leaves
  `display_sleeping` on a lit display.
- `{"helper"}` (`IntentReaches`, `LaunchIsDue`): a power command that fails is not
  repeated before the intent changes or a session connects.

### Where documents and code differ

Three runs show a behaviour of the code that a document of the repository
excludes. Each checks one property that states the document's sentence;
`PROJECT.json` quotes it.

| Run | Property | What happens |
|---|---|---|
| `viewer_exit` | `ShowingHasConsole` | `connect_console` is repeated until `console_started` arrives; when the first viewer exits meanwhile, the answer to `console_exited` kills the second one silently, and the daemon reports `showing_console` from then on with nothing on the screen |
| `reinstall` | `LoginPathRestored` | a second `install.sh` records getty@tty1 as it left it the first time, disabled and masked; the uninstall starts it once but does not enable it |
| `session_crash` | `SessionComesBack` | a session that crashes under sway is started again by nobody: sway, the unit's main process, stays up |

Further behaviours came up and are part of the models without a run of their own.

In the daemon and the session:

- A `console_started` or `display_power_applied` sent before the daemon degraded
  takes it out of the degraded state, and clears the reason, while the screen still
  says degraded (`daemon.py:2174`; `specs/15`:162 wants the screens to match).
- A press whose qm status failure reaches the limit degrades the daemon and drops
  the messages that would take the viewer down (`daemon.py:655`; `specs/10`:179).
- After a read failure of the input device, a late message or a reconnecting
  session leaves the daemon degraded without a reason (`daemon.py:645`;
  `README.md`:300).
- `subprocess.TimeoutExpired` of a hanging qm is caught nowhere and ends the daemon
  (`proxmox.py:54`; `specs/13`:140).
- Each successful qm status clears the failures, so console requests that fail on
  every tick never add up to the limit (`daemon.py:2064`; `specs/10`:195).
- A `console_started` that is read together with the end of file is handled after
  `on_session_disconnected`, so the daemon reports `showing_console` until a
  session connects (`daemon.py:2230`).
- A degraded daemon answers `session_ready` without `_reapply_display_power`
  (`daemon.py:385`), so a display that an earlier daemon turned off stays off;
  `IntentReaches` excludes that state.
- A pairing UI whose `console_started` arrives after the host was lost counts as a
  shown console (`daemon.py:428`), while the session has been told to show the
  waiting view.
- A transitional VM state moves the daemon to a waiting state, and forgets the
  pairing, without a message to the session (`daemon.py:533`): the view of before
  stays.

In the services and the configuration:

- The launcher exits with 78 on a refused file, so the session that would show the
  degraded view for it never starts (`specs/15`:61, `README.md`:300); after the
  start limit the kiosk stays down until the operator restarts it (`specs/15`:75
  says "enter `degraded`").
- Only a missing file and a TOML error become `ConfigError`; a file that cannot be
  read or is not UTF-8 ends all three processes.
- With `runtime.spice_vv_path` and `console.spice.vv_path` both set, the first is
  checked and the second used (`config.py:319`, `daemon.py:1724`); `Confined`
  excludes it.
- A `control_socket` that equals `run_dir` (or the artifact or user-runtime
  directory) is accepted, and the daemon fails at every start.
- `relative_to` compares components (`config.py:803`): neither `..` nor a link is
  resolved, and "under" in `Confined` means no more than that.

In the installer:

- A torn install-state file makes every uninstall fail until the next install; a
  torn `config.toml` is preserved by it.
- Two replacements within a second share a backup name; `ConfigKept` excludes it.
- `--replace-config` installs the compositor of the configuration it replaces;
  `CompositorInstalled` excludes it.
- Failed `systemctl` calls are ignored, and the record is deleted all the same
  (`docs/proxmox-host-setup.md`:166 says only after the restore succeeds);
  `InstallReady`, `UninstallClean` and `Restores` exclude runs with such a failure.
- The record is removed before the service home, so a run that ends in between
  leaves the home for good.
- A unit that was running although masked is stopped and recorded as masked, which
  the uninstall takes as a reason to leave it alone (`bootstrap.py:831`). A masked
  login is given back unmasked, and not enabled, whatever it was. `Restores`
  excludes these two hosts.

## Fairness

`run()` of both programs is an endless loop and both units have `Restart=always`,
so in `RelayDisplay` the daemon's loop steps (`DaemonLoop`, its start included) and
each step of the session's loop are weakly fair. `TimePasses` is strongly fair:
every pass ends in a sleep, but the step is enabled only there. Nothing obliges the
guest, the host, the user or a fault. systemd gives up after 5 starts in 120 s
(`StartLimitBurst`); these properties assume that it does not come to that, which
the budgets of the runs (one crash) respect. What happens when it does come to
that is `HostServices`' subject.

In `LineSocket` each loop is weakly fair; `MessagePipe`'s own fairness, that an
unhandled message is handled or lost, is part of what `ImplementsPipe` checks. Its
sends, connections and kills are not fair.

In `HostServices` systemd's decision about each unit (start it, pull in the unit it
requires, or give up) and each process's way from its start to its loop or its exit are weakly fair. The
passing of the limit's window is not: `LoopStops` therefore allows starts so slow
that the window runs out for ever. `HostInstaller` has no fairness: an operator may
stop at any point.

## Proofs

`RelayDisplayProofs` proves `TypeCorrect`: `Spec => []TypeOK` for every
configuration that satisfies `ConfigAssumption`, `SocketAssumption` and
`GuestAssumption`. `TypeOK` alone is not inductive: a daemon at `handle` takes the
head of `inbox`. `TypeInv` adds `HandlesMessage`, that `inbox` is then not empty.
The bounds in the types carry the content: the reconnect delay stays between its
initial value and its maximum, timers within their caps, for any values of the
configuration. The module has one lemma per operator on the records (what it
returns has the type of what it was given), one for the socket's operators, and
one for each process; `TypeCorrect` combines them.

`RelaySafetyProofs` proves from it

- `ConnectedSession`: `Spec => []ReadyIsConnected`;
- `ReasonedDegradation`: `Spec => []ReasonIsDegraded`;
- `ErrorsEndActions`: `Spec => []ErrorEndsAction`.

They share the inductive invariant `SafetyInv`: the three properties and, for
the third, that a daemon that is down has no action in flight, since `start` may
set `startup_error`. `ReadyIsConnected` is inductive because every path of
`session_ready` answers: a session greeted without a connection (its
`session_ready` was read together with the end of file) is taken back when that
answer cannot be sent. The lemma `MethodsSound` says what every method leaves
behind (`Sound`: a reason only with the degraded state, the startup error it
found, and a given `session_ready`), and one lemma each covers the messages, the
presses and the paths of `tick`.

`RelayLinkProofs` proves what the two processes know of each other:

- `IntentReached`: `Spec => []IntentReaches`;
- `NoViewerOrphaned`: `Spec => []NoOrphanConsole`;
- `LaunchesAreDue`: `Spec => LaunchIsDue`.

The properties speak of states with nothing under way, so an inductive invariant has
to speak of all the others: it follows the messages. `Settles(q, types, S, now)` is
its vocabulary, the last message of these types in the queue is in S, or there is
none and it holds now. `RelayInv` is the conjunction of

- `Linked`: the earlier invariants, events that are used up, and `LinkInv`: an
  accepted connection whose peer is open is the only open one (`EndsAgree`), and
  until its `session_ready` is handled nothing else is on it (`Ungreeted`);
- `IntentInv`: the power is headed for the intent, or the daemon is degraded and the
  session, connected since, has been told nothing and answers nothing (`Mute`), so
  that nothing brings the daemon back before the next connection;
- `OrphanInv`: of a viewer on the screen the daemon knows, or a message that tells it
  so is on the way to it, or one that stops the viewer is on the way to the session;
- `PairInv`: a pending pairing and a running backoff exclude each other. `LaunchIsDue`
  rests on it, since a pairing UI is launched without a look at the backoff.

Each operation is first summarised by what it does to the records and which messages
it sends (`Answers` for `handle_session_message`, `Takes` for `tick`, `Obeys...` for
the session), once; the proofs of the properties work with the summaries.

`RelayScreenProofs` proves on top of it

- `SleepingDisplayIsDark`: `Spec => []SleepingIsDark`;
- `WaitingIsOnScreen`: `Spec => []WaitingOnScreen`;
- `PinIsOnScreen`: `Spec => []PinOnScreen`;
- `StreamIsForPairedHost`: `Spec => []StreamIsPaired`.

`ScreenInv` adds to `RelayInv` which faults have happened by the time the daemon is
degraded (`FaultInv`), how far the session's reports of its power are behind it
(`KillInv`), that a connection is greeted once, and for each property its form for
queues that are not empty (`SleepsOff`, `SaysWaiting` with `PairingUnseen`,
`ShowsNothing`, `StreamsPaired`, `PinKept`). A viewer that exits breaks these forms
until its `console_exited` is handled, so they hold unless such a report is under way
(`Slipped`); and a press reads a VM state that only the following tick acts on
(`Between`).

`HostInstallerProofs` proves, for any set of hosts, any number of commands, faults
and seconds,

- `InstallerTypes`: `Spec => []TypeOK`;
- `NothingOverreached`: `Spec => []NoOverreach`. What a run does to the display
  manager comes from the record it loaded, which an earlier run made from what it
  had captured, and waits in `todo` in between. The invariant `Overreach` says of
  each of these places that it holds nothing the original host does not bear out
  (`Evidence` of the records, `Authorship` of the user, `Justified` calls); it is
  kept by a second install because a masked unit is captured as masked;
- `OperatorTextKept`: `Spec => []ConfigKept`. While the file is being overwritten
  the property rests on the copy alone, so `ConfigSafe` adds that the copy is there
  by then;
- `InstallIsReady`: `Spec => []InstallReady`, `UninstallIsClean`:
  `Spec => []UninstallClean`, `CompositorIsInstalled`: `Spec => CompositorInstalled`
  and `UninstallRestores`: `Spec => Restores`. They share `Progress`, which says of
  every step what the steps before it have done (`InstallDone`, `UninstallDone`,
  `Compositor`), and of the units, whose systemctl calls lag behind the steps, that
  they are as wanted or the call that makes them so is still queued (`TtyCleared`,
  `RelayDown`, `PuttingBack`, with `Queue` for what may be queued at all). Two parts
  span several runs, so that repeated and failed uninstalls are covered: a display
  manager that was masked and down is never touched (`LeftAlone`), and a login
  recorded as disabled stays so (`LoginOff`).

`MessagePipeProofs` proves `PipeInOrder`, `Safety => []InOrder`: the abstract pipe
never hands over a message twice or out of order. The invariant `PipeInv` orders what
is handled before what is under way, and both below the number of messages sent.
`Safety` is the promise without its fairness.

`LineSocketProofs` proves, for any number of connections, messages and pieces of a
line, and any size of the buffer and of a read,

- `LineTypes`: `Spec => []TypeOK`, with what a buffer may hold between two reads;
- `NothingGarbled`: `Spec => []NoGarble`. The invariant is `LineInv`: what is in the
  reader's buffer, on the connection and still to be written (`Stream`) decodes, and
  ends with a newline as long as the writer has the connection (`Lines`). That needs
  to know who has which connection (`Numbered`, `Opened`), that a buffer never holds
  a whole line and is empty without a connection (`Buffered`), and that nothing is on
  a connection before it is accepted but the session's lines (`Fresh`). A half-written
  line is harmless because `WriteFails` closes the connection and `close_client`
  empties the buffer;
- `KeepsPromise`: `Spec => Pipe!Safety`, the refinement, step by step: connecting,
  the arrival of a line's last piece, handling and the two ways to lose a connection
  are steps of the pipe (`ConnectMaps`, `PieceArrives`, `HandleMaps`, `ClosesMaps`),
  all other steps leave it alone;
- `HandledInOrder`: `Spec => []Pipe!InOrder`, `PipeInOrder` carried over by the
  refinement.

The refinement mapping decodes sequences and flattens the backlog, both recursive
functions. The facts about them that would be shown by induction are shown from the
least number that would refute them (lemma `Least`, from the well-foundedness of the
natural numbers).

`HostServicesProofs` proves, for any set of files with any contents,

- `ServicesTypes`: `Spec => []TypeOK`, with it the start limit;
- `ServicesAgree`: `Spec => []Agree`. `Loaded` adds that each process holds what the
  file gives now (`Current`), and that a session lives in a compositor and a
  compositor in an active unit (`Housed`): without the latter a session could
  outlive the restart that made the file current;
- `DaemonConfined`: `Spec => []Confined`. `Founded` says that a running daemon got
  through `prepare_runtime` with the contents of some file; the rest is the lemmas
  `AcceptedConfined` and `FallbackConfined` on what `Accepts` lets through, and
  `SocketIsNoDirectory` on what `prepare_runtime` does. The assumption
  `ContentAssumption` is that paths are sequences of components.

Every invariant and action property of a passing run is stated by a theorem, for
every value of the constants that the assumptions admit.

Only model-checked: the liveness properties (`Shows`, `Sleeps`, `SessionHeard`,
`ActionEnds`, `ButtonWakes`, `CageComesBack`, `LoopStops`) and the fairness in
`ImplementsPipe`, since fairness and `ENABLED` are out of the prover's reach. The
violations (`ShowingHasConsole`, `LoginPathRestored`, `SessionComesBack`) are
counterexamples that TLC finds.

## Not modelled, and the plan

Not modelled: the contents of argv, `.vv` and state files; logging; several
outputs of `wlr-randr`; messages the daemon never sends (`connect_spice`,
`health_ping`); the validation of message fields (`ipc.py`), which rejects nothing
that either process sends; the precedence of logind files (`input.py`), the parsing
of VNC arguments and node names (`proxmox.py`), Moonlight's settings files and the
HTTPS exchange (`daemon.py`): string processing without state of the program's
own, of which the models keep the outcomes; the seatd unit; the output pin and DRM
variables of the launcher; the runtime state file, which is only written.

What is left, in this order:

1. The connection between the two models of the socket: `ControlSocket`, on which
   `RelayDisplay` is built, against `MessagePipe`, which `LineSocket` implements.
2. The hazards without a property (`PROJECT.json`): failures that never add up
   (`daemon.py:2064`) and the settings files rewritten in place (`daemon.py:907`).
