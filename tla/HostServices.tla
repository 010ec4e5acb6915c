---------------------------- MODULE HostServices ----------------------------
(***************************************************************************)
(* The services of an installed host: the two systemd units that           *)
(* bootstrap.py renders, the kiosk launcher (kiosk_launcher.py), the       *)
(* compositor it turns into, the session entrypoint (kiosk.py) and the     *)
(* start of the daemon's and the session's run().  Three processes read    *)
(* the configuration file, each when it happens to start, while an         *)
(* operator may be editing it.                                             *)
(*                                                                         *)
(* systemd and the compositors are external: their part is what the unit   *)
(* files ask for (Restart=always, StartLimitBurst, Requires=) and what the *)
(* launcher relies on.                                                     *)
(***************************************************************************)
EXTENDS Configuration

CONSTANTS
    Files,        \* names for the contents config.toml may have
    Content,      \* what each of them is: [state, raw]
    Burst,        \* StartLimitBurst
    MaxEdits,     \* times the operator edits the file or installs a compositor
    MaxRestarts,  \* times the operator restarts services
    MaxCrashes    \* crashes of the daemon, a compositor or the session

ASSUME HostServicesAssumption ==
    /\ Burst \in Nat \ {0}
    /\ {MaxEdits, MaxRestarts, MaxCrashes} \subseteq Nat

\* A path is a sequence of components, in any file.
ASSUME ContentAssumption ==
    \A f \in Files : \A k \in DOMAIN Content[f].raw : Content[f].raw[k].path \in Seq(STRING)

VARIABLES
    file,        \* config.toml
    edited,      \* ... has changed since the services were last restarted
    binaries,    \* the compositors installed
    unit,        \* state of the units
    starts,      \* starts of a unit in the current StartLimitIntervalSec window
    daemon,      \* relayinner-displayd: its phase and the configuration it loaded
    kiosk,       \* the kiosk unit's main process: launcher, then compositor
    session,     \* relayinner-display-session
    edits,       \* edits made
    restarts,    \* restarts made
    crashes      \* crashes so far

host == <<file, edited, binaries>>

budgets == <<edits, restarts, crashes>>

vars == <<host, unit, starts, daemon, kiosk, session, budgets>>

Units == {"displayd", "kiosk"}

-----------------------------------------------------------------------------
(* load_config as its callers see it. *)

\* "missing" and "not toml" raise ConfigError; reading "unreadable" (no
\* permission, or not UTF-8) raises an exception that nothing catches.
Raises(f) == Content[f].state = "unreadable"

Accepted == {f \in Files : Content[f].state = "toml" /\ Accepts(Content[f].raw)}

Loads(f) == f \in Accepted

\* What daemon.run and session.run go on with.
LoadOrFallback == [f \in Files |-> IF Loads(f) THEN Parse(Content[f].raw) ELSE Fallback]

Configs == {Fallback} \cup {LoadOrFallback[f] : f \in Files}

-----------------------------------------------------------------------------
DaemonType == [phase : {"none", "starting", "running"}, config : Configs]

KioskType == [phase : {"none", "launching", "cage", "sway"}, config : Configs]

SessionType == [phase : {"none", "starting", "running", "gone"}, config : Configs]

TypeOK ==
    /\ file \in Files
    /\ edited \in BOOLEAN
    /\ binaries \subseteq {"cage", "sway"}
    /\ unit \in [Units -> {"waiting", "up", "failed"}]
    /\ starts \in [Units -> 0 .. Burst]
    /\ daemon \in DaemonType
    /\ kiosk \in KioskType
    /\ session \in SessionType
    /\ edits \in 0 .. MaxEdits
    /\ restarts \in 0 .. MaxRestarts
    /\ crashes \in 0 .. MaxCrashes

NoDaemon  == [phase |-> "none", config |-> Fallback]
NoKiosk   == [phase |-> "none", config |-> Fallback]
NoSession == [phase |-> "none", config |-> Fallback]

\* The host has booted: multi-user.target wants both units.  The installer chose
\* one compositor from the file it found, which need not be this one.
Init ==
    /\ file \in Files
    /\ edited = FALSE
    /\ binaries \in {{"cage"}, {"sway"}}
    /\ unit = [u \in Units |-> "waiting"]
    /\ starts = [u \in Units |-> 0]
    /\ daemon = NoDaemon
    /\ kiosk = NoKiosk
    /\ session = NoSession
    /\ edits = 0 /\ restarts = 0 /\ crashes = 0

-----------------------------------------------------------------------------
(* systemd *)

\* Mutant of CountStart: a unit without a start limit.
CountNothing(u) == starts' = starts

CountStart(u) == starts' = [starts EXCEPT ![u] = @ + 1]

\* Restart=always: whatever its exit code, a unit whose main process has ended
\* is started again after RestartSec.
AfterExit == "waiting"

\* systemd kills what is left of the unit's control group.
KioskUnitEnds ==
    /\ unit' = [unit EXCEPT !["kiosk"] = AfterExit]
    /\ kiosk' = NoKiosk
    /\ session' = NoSession

\* Mutant of RestartKioskAlong: the kiosk only wants displayd.
RestartDaemonAlone(state) ==
    /\ unit' = [unit EXCEPT !["displayd"] = state]
    /\ UNCHANGED <<kiosk, session>>

\* Requires=relayinner-displayd.service: restarting displayd also restarts a
\* kiosk that is up.
RestartKioskAlong(state) ==
    /\ unit' = [unit EXCEPT !["displayd"] = state,
                            !["kiosk"] = IF @ = "up" THEN "waiting" ELSE @]
    /\ kiosk' = NoKiosk
    /\ session' = NoSession

\* Whether an automatic restart also takes the kiosk along differs between
\* versions of systemd.
StartDaemon ==
    /\ unit["displayd"] = "waiting"
    /\ starts["displayd"] < Burst
    /\ CountStart("displayd")
    /\ daemon' = [NoDaemon EXCEPT !.phase = "starting"]
    /\ \/ RestartKioskAlong("up")
       \/ /\ unit' = [unit EXCEPT !["displayd"] = "up"]
          /\ UNCHANGED <<kiosk, session>>
    /\ UNCHANGED <<host, budgets>>

\* Mutant of StartKiosk: started once more than the limit allows.
StartKioskOnceMore ==
    /\ unit["kiosk"] = "waiting"
    /\ unit["displayd"] = "up"
    /\ starts["kiosk"] <= Burst
    /\ CountStart("kiosk")
    /\ unit' = [unit EXCEPT !["kiosk"] = "up"]
    /\ kiosk' = [NoKiosk EXCEPT !.phase = "launching"]
    /\ UNCHANGED <<host, daemon, session, budgets>>

StartKiosk ==
    /\ unit["kiosk"] = "waiting"
    /\ unit["displayd"] = "up"
    /\ starts["kiosk"] < Burst
    /\ CountStart("kiosk")
    /\ unit' = [unit EXCEPT !["kiosk"] = "up"]
    /\ kiosk' = [NoKiosk EXCEPT !.phase = "launching"]
    /\ UNCHANGED <<host, daemon, session, budgets>>

\* The start limit is reached.  When it is displayd's, the kiosk it was to be
\* restarted with is left down as well.
GiveUpDaemon ==
    /\ unit["displayd"] = "waiting"
    /\ starts["displayd"] = Burst
    /\ \/ /\ unit' = [unit EXCEPT !["displayd"] = "failed"]
          /\ UNCHANGED <<kiosk, session>>
       \/ /\ unit' = [u \in Units |-> "failed"]
          /\ kiosk' = NoKiosk
          /\ session' = NoSession
    /\ UNCHANGED <<host, starts, daemon, budgets>>

GiveUpKiosk ==
    /\ unit["kiosk"] = "waiting"
    /\ starts["kiosk"] = Burst
    /\ unit' = [unit EXCEPT !["kiosk"] = "failed"]
    /\ UNCHANGED <<host, starts, daemon, kiosk, session, budgets>>

\* Starting the kiosk also starts the unit it requires, if systemd still may.
PullDaemon ==
    /\ unit["kiosk"] = "waiting"
    /\ unit["displayd"] = "failed"
    /\ unit' = IF starts["displayd"] < Burst
               THEN [unit EXCEPT !["displayd"] = "waiting"]
               ELSE [unit EXCEPT !["kiosk"] = "failed"]
    /\ UNCHANGED <<host, starts, daemon, kiosk, session, budgets>>

\* StartLimitIntervalSec is over; the next start opens a new window.
IntervalPasses(u) ==
    /\ starts[u] > 0
    /\ starts' = [starts EXCEPT ![u] = 0]
    /\ UNCHANGED <<host, unit, daemon, kiosk, session, budgets>>

-----------------------------------------------------------------------------
(* The daemon up to its main loop (daemon.run, prepare_runtime, start). *)

\* The directories that exist when prepare_runtime unlinks what earlier runs
\* left: unlinking a directory raises.
Directories(c) ==
    UNION {{SubSeq(d, 1, n) : n \in 0 .. Len(d)} :
        d \in {c.run_dir, Append(c.run_dir, "user-runtime"), c.artifact_dir}}

LeftOver(c) == {c.control_socket} \cup (IF c.backend = "spice" THEN {c.vv_path} ELSE {})

Prepares(c) == LeftOver(c) \cap Directories(c) = {}

DaemonEnds ==
    /\ unit' = [unit EXCEPT !["displayd"] = AfterExit]
    /\ daemon' = NoDaemon

DaemonLoads ==
    /\ daemon.phase = "starting"
    /\ IF Raises(file) \/ ~Prepares(LoadOrFallback[file])
       THEN DaemonEnds
       ELSE /\ daemon' = [phase |-> "running", config |-> LoadOrFallback[file]]
            /\ UNCHANGED unit
    /\ UNCHANGED <<host, starts, kiosk, session, budgets>>

-----------------------------------------------------------------------------
(* The kiosk: launcher, compositor, entrypoint and session. *)

\* kiosk_launcher.main: exit 78 on a refused file, 127 when the compositor is
\* not installed; otherwise the launcher becomes the compositor, which starts
\* the entrypoint.  What it passes on to the compositor (the output pinned in
\* sway's configuration, the DRM variables) changes nothing here.
LauncherExecs ==
    /\ kiosk.phase = "launching"
    /\ LET c == LoadOrFallback[file]
       IN  IF ~Loads(file) \/ c.compositor \notin binaries
           THEN KioskUnitEnds
           ELSE /\ kiosk' = [phase |-> c.compositor, config |-> c]
                /\ session' = [NoSession EXCEPT !.phase = "starting"]
                /\ UNCHANGED unit
    /\ UNCHANGED <<host, starts, daemon, budgets>>

\* Mutant of SessionEnds: cage is not told to run the session as its program.
SessionEndsUnnoticed ==
    /\ session' = [NoSession EXCEPT !.phase = "gone"]
    /\ UNCHANGED <<unit, kiosk>>

\* cage runs one program and ends with it; sway execs the session from its
\* configuration and stays up without it.
SessionEnds ==
    IF kiosk.phase = "cage"
    THEN KioskUnitEnds
    ELSE /\ session' = [NoSession EXCEPT !.phase = "gone"]
         /\ UNCHANGED <<unit, kiosk>>

SessionLoads ==
    /\ session.phase = "starting"
    /\ IF Raises(file)
       THEN SessionEnds
       ELSE /\ session' = [phase |-> "running", config |-> LoadOrFallback[file]]
            /\ UNCHANGED <<unit, kiosk>>
    /\ UNCHANGED <<host, starts, daemon, budgets>>

-----------------------------------------------------------------------------
(* Faults. *)

Crash == crashes < MaxCrashes /\ crashes' = crashes + 1

DaemonCrash ==
    /\ daemon.phase = "running"
    /\ Crash
    /\ DaemonEnds
    /\ UNCHANGED <<host, starts, kiosk, session, edits, restarts>>

CompositorCrash ==
    /\ kiosk.phase \in {"cage", "sway"}
    /\ Crash
    /\ KioskUnitEnds
    /\ UNCHANGED <<host, starts, daemon, edits, restarts>>

SessionCrash ==
    /\ session.phase = "running"
    /\ Crash
    /\ SessionEnds
    /\ UNCHANGED <<host, starts, daemon, edits, restarts>>

-----------------------------------------------------------------------------
(* The operator. *)

OperatorEdits ==
    /\ edits < MaxEdits
    /\ edits' = edits + 1
    /\ file' \in Files \ {file}
    /\ edited' = TRUE
    /\ UNCHANGED <<binaries, unit, starts, daemon, kiosk, session, restarts, crashes>>

\* The compositor a changed file asks for: the installer is run again, or the
\* package is installed by hand.
OperatorInstalls ==
    /\ edits < MaxEdits
    /\ edits' = edits + 1
    /\ binaries' = {"cage", "sway"}
    /\ UNCHANGED <<file, edited, unit, starts, daemon, kiosk, session, restarts, crashes>>

\* systemctl restart of all the services, as the documentation has it.
OperatorRestarts ==
    /\ restarts < MaxRestarts
    /\ restarts' = restarts + 1
    /\ unit' = [u \in Units |-> "waiting"]
    /\ daemon' = NoDaemon
    /\ kiosk' = NoKiosk
    /\ session' = NoSession
    /\ edited' = FALSE
    /\ UNCHANGED <<file, binaries, starts, edits, crashes>>

\* systemctl restart of displayd alone, which restarts a kiosk that is up.
OperatorRestartsDaemon ==
    /\ restarts < MaxRestarts
    /\ restarts' = restarts + 1
    /\ daemon' = NoDaemon
    /\ RestartKioskAlong("waiting")
    /\ edited' = FALSE
    /\ UNCHANGED <<file, binaries, starts, edits, crashes>>

-----------------------------------------------------------------------------
Systemd == StartDaemon \/ StartKiosk \/ GiveUpDaemon \/ GiveUpKiosk \/ PullDaemon

Processes == DaemonLoads \/ LauncherExecs \/ SessionLoads

Next ==
    \/ Systemd
    \/ \E u \in Units : IntervalPasses(u)
    \/ Processes
    \/ DaemonCrash \/ CompositorCrash \/ SessionCrash
    \/ OperatorEdits \/ OperatorInstalls \/ OperatorRestarts \/ OperatorRestartsDaemon

\* systemd acts on its timers and jobs, and a process that has started gets to
\* its main loop or ends.
Fairness ==
    /\ WF_vars(StartDaemon \/ GiveUpDaemon)
    /\ WF_vars(StartKiosk \/ GiveUpKiosk \/ PullDaemon)
    /\ WF_vars(DaemonLoads)
    /\ WF_vars(LauncherExecs)
    /\ WF_vars(SessionLoads)

Spec == Init /\ [][Next]_vars /\ Fairness

-----------------------------------------------------------------------------
(* Properties. *)

\* Unless the file was edited after the services were last restarted, a running
\* daemon and a running session have loaded the same configuration, so they
\* meet on one control socket, and the compositor around the session is the
\* one that configuration asks for: each process reads the file on its own
\* (daemon.run, session.run, kiosk_launcher.main), and a crash, an exit or a
\* restart of displayd alone may restart any of them without the others.
Agree ==
    ~edited =>
        /\ daemon.phase = "running" /\ session.phase = "running" =>
              daemon.config = session.config
        /\ session.phase = "running" => session.config = kiosk.config
        /\ kiosk.phase \in {"cage", "sway"} => kiosk.phase = LoadOrFallback[file].compositor

\* What a running daemon removed and writes lies under its run_dir
\* (parse_config's _require_child_path, prepare_runtime).  The exception is a
\* file that sets the viewer's path twice: the deprecated
\* runtime.spice_vv_path is the one that is checked, console.spice.vv_path the
\* one that is used.
Confined ==
    daemon.phase = "running" =>
        LET c == daemon.config
        IN  /\ Under(c.run_dir, c.control_socket) /\ c.control_socket # c.run_dir
            /\ Under(c.run_dir, c.artifact_dir)
            /\ \/ c.backend # "spice"
               \/ Under(c.run_dir, c.vv_path)
               \/ \E f \in Accepted : /\ LoadOrFallback[f] = c
                                      /\ CheckedVvPath(Content[f].raw) # c.vv_path

\* Nothing is wrong with the host: the services run with the file as it is,
\* every process can start with it, and systemd has not given up.
Healthy ==
    /\ ~edited
    /\ Loads(file)
    /\ Prepares(LoadOrFallback[file])
    /\ LoadOrFallback[file].compositor \in binaries
    /\ \A u \in Units : unit[u] # "failed"

OnScreen ==
    /\ daemon.phase = "running"
    /\ session.phase = "running"
    /\ session.config.control_socket = daemon.config.control_socket

\* With a backend shown under cage the display comes up and comes back after
\* every crash of the daemon, the compositor or the session, and after the
\* operator has mended the file and restarted the services (Restart=always and
\* Requires= in the rendered units; cage ends with the session).
CageComesBack ==
    (Healthy /\ LoadOrFallback[file].compositor = "cage") ~> (OnScreen \/ ~Healthy)

\* The same without the restriction to cage: what specs/15 says of a session
\* that crashes.
SessionComesBack == Healthy ~> (OnScreen \/ ~Healthy)

\* A kiosk that cannot start with the file as it is stops being restarted
\* (StartLimitBurst in the rendered units; the launcher's exit codes 78 and
\* 127), unless starts are so slow that the limit's window keeps running out.
LoopStops ==
    <>[](~edited /\ (~Loads(file) \/ LoadOrFallback[file].compositor \notin binaries))
        => \/ <>[](unit["kiosk"] = "failed")
           \/ []<><<\E u \in Units : IntervalPasses(u)>>_vars
=============================================================================
