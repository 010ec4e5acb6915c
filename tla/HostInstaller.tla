--------------------------- MODULE HostInstaller ---------------------------
(***************************************************************************)
(* install.sh and uninstall.sh: HostBootstrapInstaller (bootstrap.py) on a *)
(* host with its own getty and display manager.                            *)
(*                                                                         *)
(* A command runs its steps in order.  A step whose command fails raises   *)
(* BootstrapError, which ends the run where it is: nothing is rolled back. *)
(* The operator then runs either command again, edits the configuration,   *)
(* starts the services or reboots.  The systemctl calls that may fail      *)
(* without ending the run are queued in `todo` and taken one at a time.    *)
(***************************************************************************)
EXTENDS Integers, Sequences

CONSTANTS
    Origins,     \* getty@tty1 and display-manager as a host may have them
    Texts,       \* what the operator may write to config.toml
    MaxRuns,     \* commands the operator starts
    MaxFaults,   \* failing commands, kills and power cuts
    MaxTime      \* seconds at which a backup can be named

VARIABLES
    pc,        \* the step the running command is at, or "idle"
    run,       \* the command's arguments and local variables; see RunType
    todo,      \* _run_optional calls of the current step still to come
    units,     \* systemd's view of getty@tty1, display-manager and the relay
    files,     \* what is installed under /usr/local and /etc
    user,      \* the service user exists
    home,      \* /var/lib/relayinner-display exists
    config,    \* contents of config.toml
    backups,   \* config.toml.bak.<second>
    packages,  \* compositors installed by apt-get
    state,     \* install-state.json
    last,      \* how the last command ended
    budget,    \* runs and faults left, and the clock
    origin,    \* the host before the first command
    text       \* what the operator last wrote to config.toml

host == <<units, files, user, home, config, backups, packages, state>>
history == <<origin, text>>
vars == <<pc, run, todo, host, last, budget, history>>

-----------------------------------------------------------------------------
Conflicting == {"getty", "display_manager"}   \* CONFLICTING_UNITS
Units == Conflicting \union {"relay"}         \* "relay": the REQUIRED_SERVICES

Artefacts == {"lib", "share", "units", "logind"}

\* A text is known by the compositor it resolves to, if it is valid.
Contents == {"cage", "sway", "broken", "sample", "torn", "none"}
Seconds == 0 .. MaxTime

UnitState == [existed : BOOLEAN, enabled : BOOLEAN, active : BOOLEAN, masked : BOOLEAN]

\* ConflictingUnitState
UnitRecord == [existed : BOOLEAN, enabled_before : BOOLEAN, active_before : BOOLEAN,
               masked_before : BOOLEAN, changed_by_installer : BOOLEAN]

\* A unit that does not exist is neither enabled nor active.
ASSUME InstallerAssumption ==
    /\ Origins \subseteq [Conflicting -> UnitState]
    /\ \A o \in Origins, u \in Conflicting : o[u].enabled \/ o[u].active => o[u].existed
    /\ Texts \subseteq {"cage", "sway", "broken"}
    /\ MaxRuns \in Nat /\ MaxFaults \in Nat /\ MaxTime \in Nat

NoUnit == [existed |-> FALSE, enabled |-> FALSE, active |-> FALSE, masked |-> FALSE]
NoRecord == [existed |-> FALSE, enabled_before |-> FALSE, active_before |-> FALSE,
             masked_before |-> FALSE, changed_by_installer |-> FALSE]

\* install-state.json: absent, torn (not JSON) or written.
InstallState == [kind : {"absent", "torn", "written"}, created : BOOLEAN,
                 units : [Conflicting -> UnitRecord]]

NoState == [kind |-> "absent", created |-> FALSE, units |-> [u \in Conflicting |-> NoRecord]]

RunType == [
    flag : BOOLEAN,        \* --replace-config or --purge-config
    skip : BOOLEAN,        \* --skip-package-install
    replaced : BOOLEAN,    \* config_action = "replaced"
    created : BOOLEAN,     \* service_user_created
    captured : [Conflicting -> UnitRecord],
    loaded : InstallState, \* uninstall_state
    unapplied : BOOLEAN]   \* an optional systemctl call has failed

NoRun == [flag |-> FALSE, skip |-> FALSE, replaced |-> FALSE, created |-> FALSE,
          captured |-> NoState.units, loaded |-> NoState, unapplied |-> FALSE]

InstallSteps == {"packages", "user", "runtime", "copytree", "shared", "config",
                 "write_config", "config_access", "units", "logind", "getty",
                 "display_manager", "reload", "enable", "record"}

UninstallSteps == {"load", "stop", "remove_units", "remove_logind", "reload_removed",
                   "restore_getty", "restore_display_manager", "remove_runtime",
                   "remove_shared", "remove_user", "remove_config", "remove_record",
                   "remove_home"}

Verbs == {"disable_now", "mask", "unmask", "enable", "start", "stop", "disable"}

-----------------------------------------------------------------------------
(* systemctl, as the installer uses it. *)

\* Conflicts= of the kiosk unit: it and the units it replaces exclude each other.
Excludes(u, v) == u # v /\ "relay" \in {u, v}

\* Starting a unit stops those it excludes; a masked or missing unit cannot be
\* started or enabled.
Systemctl(f, verb, u) ==
    CASE verb = "disable_now" -> [f EXCEPT ![u].enabled = FALSE, ![u].active = FALSE]
      [] verb = "disable" -> [f EXCEPT ![u].enabled = FALSE]
      [] verb = "stop" -> [f EXCEPT ![u].active = FALSE]
      [] verb = "mask" -> [f EXCEPT ![u].masked = TRUE]
      [] verb = "unmask" -> [f EXCEPT ![u].masked = FALSE]
      [] verb = "enable" -> [f EXCEPT ![u].enabled = @ \/ (f[u].existed /\ ~f[u].masked)]
      [] verb = "start" ->
           IF f[u].existed /\ ~f[u].masked
           THEN [v \in Units |-> [f[v] EXCEPT !.active = (v = u) \/ (@ /\ ~Excludes(u, v))]]
           ELSE f

\* What a boot wants to start; of units that exclude each other one side wins.
Wanted(u) == units[u].existed /\ units[u].enabled /\ ~units[u].masked

-----------------------------------------------------------------------------
(* Commands begin and end. *)

Step(from, to) == pc = from /\ todo = <<>> /\ pc' = to

\* A command that ends; what it leaves behind stays.
End(outcome) == pc' = "idle" /\ todo' = <<>> /\ last' = outcome

Begin(step, r) ==
    /\ pc = "idle" /\ budget.runs > 0
    /\ pc' = step /\ run' = r /\ last' = "none"
    /\ budget' = [budget EXCEPT !.runs = @ - 1]
    /\ UNCHANGED <<todo, host, history>>

\* main, after _require_root, validate_host and _verify_repo_layout.
Install == \E flag, skip \in BOOLEAN :
             Begin("packages", [NoRun EXCEPT !.flag = flag, !.skip = skip])

Uninstall == \E flag \in BOOLEAN : Begin("load", [NoRun EXCEPT !.flag = flag])

Fault == budget.faults > 0 /\ budget' = [budget EXCEPT !.faults = @ - 1]

\* A command checked by _run fails, another exception leaves the step, or the
\* process is killed.
Abort ==
    /\ pc # "idle" /\ Fault
    /\ End("failed")
    /\ UNCHANGED <<run, host, history>>

\* _write_text truncates before it writes: the run ends in between.
TornWrite ==
    /\ pc \in {"write_config", "record"} /\ Fault
    /\ End("failed")
    /\ config' = IF pc = "write_config" THEN "torn" ELSE config
    /\ state' = IF pc = "record" THEN [NoState EXCEPT !.kind = "torn"] ELSE state
    /\ UNCHANGED <<run, units, files, user, home, backups, packages, history>>

\* _run_optional: the next queued systemctl call, which may fail.
RunOptional ==
    /\ pc # "idle" /\ todo # <<>>
    /\ todo' = Tail(todo)
    /\ \/ /\ units' = Systemctl(units, Head(todo)[1], Head(todo)[2])
          /\ UNCHANGED <<run, budget>>
       \/ /\ Fault
          /\ run' = [run EXCEPT !.unapplied = TRUE]
          /\ UNCHANGED units
    /\ UNCHANGED <<pc, files, user, home, config, backups, packages, state, last, history>>

-----------------------------------------------------------------------------
(* install *)

\* Mutant of Resolved: the default compositor, whatever the configuration says.
ResolvedDefault(content) == "cage"

\* Mutant of Resolved: the name in the configuration, valid or not.
ResolvedRaw(content) == content

\* The compositor that load_config resolves; without a valid configuration the
\* fallback's, and the sample's, is cage.
Resolved(content) == IF content = "sway" THEN "sway" ELSE "cage"

InstallPackages ==
    /\ Step("packages", "user")
    /\ packages' = IF run.skip THEN packages ELSE packages \union {Resolved(config)}
    /\ UNCHANGED <<run, todo, units, files, user, home, config, backups, state,
                   last, budget, history>>

EnsureServiceUser ==
    /\ Step("user", "runtime")
    /\ run' = [run EXCEPT !.created = ~user]
    /\ user' = TRUE
    /\ home' = (home \/ ~user)
    /\ UNCHANGED <<todo, units, files, config, backups, packages, state, last, budget,
                   history>>

\* rmtree of the old package, then copytree and the launchers.
RemoveOldTree ==
    /\ Step("runtime", "copytree")
    /\ files' = files \ {"lib"}
    /\ UNCHANGED <<run, todo, units, user, home, config, backups, packages, state,
                   last, budget, history>>

Put(from, to, artefact) ==
    /\ Step(from, to)
    /\ files' = files \union {artefact}
    /\ UNCHANGED <<run, todo, units, user, home, config, backups, packages, state,
                   last, budget, history>>

InstallRuntimeTree == Put("copytree", "shared", "lib")
InstallSharedAssets == Put("shared", "config", "share")
InstallLogindOverride == Put("logind", "getty", "logind")

InstallServiceUnits ==
    /\ Step("units", "logind")
    /\ files' = files \union {"units"}
    /\ units' = [units EXCEPT !["relay"].existed = TRUE]
    /\ UNCHANGED <<run, todo, user, home, config, backups, packages, state,
                   last, budget, history>>

\* install_config keeps an existing configuration unless it is to be replaced.
PreserveConfig ==
    /\ Step("config", "config_access") /\ config # "none" /\ ~run.flag
    /\ UNCHANGED <<run, todo, host, last, budget, history>>

CreateConfig ==
    /\ Step("config", "write_config") /\ config = "none"
    /\ UNCHANGED <<run, todo, host, last, budget, history>>

\* Mutant of BackupConfig: replaced without a copy.
ReplaceOnly ==
    /\ Step("config", "write_config") /\ config # "none" /\ run.flag
    /\ run' = [run EXCEPT !.replaced = TRUE]
    /\ UNCHANGED <<todo, host, last, budget, history>>

\* copy2 to a name made from the current second, which may be taken already:
\* what was there is gone then, and budget.clobbered remembers that.
BackupConfig ==
    /\ Step("config", "write_config") /\ config # "none" /\ run.flag
    /\ run' = [run EXCEPT !.replaced = TRUE]
    /\ \E now \in budget.now .. MaxTime :
         /\ backups' = [backups EXCEPT ![now] = config]
         /\ budget' = [budget EXCEPT !.now = now,
                                     !.clobbered = @ \/ backups[now] # "none"]
    /\ UNCHANGED <<todo, units, files, user, home, config, packages, state, last, history>>

WriteConfig ==
    /\ Step("write_config", "config_access")
    /\ config' = "sample"
    /\ UNCHANGED <<run, todo, units, files, user, home, backups, packages, state,
                   last, budget, history>>

\* _ensure_service_group_access, daemon_reload: they only can fail.
Pass(from, to) ==
    /\ Step(from, to)
    /\ UNCHANGED <<run, todo, host, last, budget, history>>

ConfigAccess == Pass("config_access", "units")
DaemonReload == Pass("reload", "enable") \/ Pass("reload_removed", "restore_getty")

\* _capture_conflicting_unit_state: is-enabled prints "masked" for a masked
\* unit, enabled or not.
Capture(u) ==
    IF ~u.existed THEN NoRecord
    ELSE [existed |-> TRUE, enabled_before |-> u.enabled /\ ~u.masked,
          active_before |-> u.active, masked_before |-> u.masked,
          changed_by_installer |-> FALSE]

\* Mutant of ConfigureCalls: a unit that is disabled is not masked as well.
DisableOrMask(u, r) ==
    IF r.enabled_before \/ r.active_before THEN <<<<"disable_now", u>>>>
    ELSE IF r.existed /\ ~r.masked_before THEN <<<<"mask", u>>>> ELSE <<>>

\* _configure_conflicting_unit: the calls it makes, and whether it makes any.
ConfigureCalls(u, r) ==
    (IF r.enabled_before \/ r.active_before THEN <<<<"disable_now", u>>>> ELSE <<>>)
      \o (IF r.existed /\ ~r.masked_before THEN <<<<"mask", u>>>> ELSE <<>>)

ConfigureUnit(u, to) ==
    /\ Step(u, to)
    /\ LET r == Capture(units[u])
       IN  /\ run' = [run EXCEPT !.captured[u] =
                        [r EXCEPT !.changed_by_installer =
                           r.enabled_before \/ r.active_before
                             \/ (r.existed /\ ~r.masked_before)]]
           /\ todo' = ConfigureCalls(u, r)
    /\ UNCHANGED <<host, last, budget, history>>

ConfigureConflictingUnits ==
    \/ ConfigureUnit("getty", "display_manager")
    \/ ConfigureUnit("display_manager", "reload")

EnableServices ==
    /\ Step("enable", "record")
    /\ units' = Systemctl(units, "enable", "relay")
    /\ UNCHANGED <<run, todo, files, user, home, config, backups, packages, state,
                   last, budget, history>>

\* The record of this run replaces that of an earlier one.
WriteInstallState ==
    /\ pc = "record" /\ End("installed")
    /\ state' = [kind |-> "written", created |-> run.created, units |-> run.captured]
    /\ home' = TRUE
    /\ UNCHANGED <<run, units, files, user, config, backups, packages, budget, history>>

InstallStep ==
    \/ InstallPackages \/ EnsureServiceUser \/ RemoveOldTree \/ InstallRuntimeTree
    \/ InstallSharedAssets \/ PreserveConfig \/ CreateConfig \/ BackupConfig \/ WriteConfig
    \/ ConfigAccess \/ InstallServiceUnits \/ InstallLogindOverride
    \/ ConfigureConflictingUnits \/ EnableServices \/ WriteInstallState

-----------------------------------------------------------------------------
(* uninstall *)

\* _load_uninstall_state; stop_services and disable_services are queued.
LoadUninstallState ==
    /\ Step("load", "stop") /\ state.kind # "torn"
    /\ run' = [run EXCEPT !.loaded = state]
    /\ UNCHANGED <<todo, host, last, budget, history>>

\* A record that is not JSON is an error.
LoadFails ==
    /\ pc = "load" /\ state.kind = "torn"
    /\ End("failed")
    /\ UNCHANGED <<run, host, budget, history>>

StopServices ==
    /\ pc = "stop" /\ todo = <<>> /\ pc' = "remove_units"
    /\ todo' = <<<<"stop", "relay">>, <<"disable", "relay">>>>
    /\ UNCHANGED <<run, host, last, budget, history>>

RemoveServiceUnits ==
    /\ Step("remove_units", "remove_logind")
    /\ files' = files \ {"units"}
    /\ units' = [units EXCEPT !["relay"].existed = FALSE]
    /\ UNCHANGED <<run, todo, user, home, config, backups, packages, state,
                   last, budget, history>>

Remove(from, to, artefact) ==
    /\ Step(from, to)
    /\ files' = files \ {artefact}
    /\ UNCHANGED <<run, todo, units, user, home, config, backups, packages, state,
                   last, budget, history>>

RemoveLogindOverride == Remove("remove_logind", "reload_removed", "logind")
RemoveRuntimeTree == Remove("remove_runtime", "remove_shared", "lib")

\* Followed by remove_runtime_state_dir: /run is not part of this state.
RemoveSharedAssets == Remove("remove_shared", "remove_user", "share")

RestoreUnit(from, to, calls) ==
    /\ pc = from /\ todo = <<>> /\ pc' = to
    /\ todo' = calls
    /\ UNCHANGED <<run, host, last, budget, history>>

\* Mutant of GettyCalls: unmasked only if the record says it was not masked.
GettyByRecord(loaded) ==
    (IF loaded.units["getty"].masked_before THEN <<>> ELSE <<<<"unmask", "getty">>>>)
      \o (IF loaded.kind = "absent" \/ loaded.units["getty"].enabled_before
          THEN <<<<"enable", "getty">>>> ELSE <<>>)
      \o <<<<"start", "getty">>>>

\* restore_getty: unmasked and started in any case.
GettyCalls(loaded) ==
    <<<<"unmask", "getty">>>>
      \o (IF loaded.kind = "absent" \/ loaded.units["getty"].enabled_before
          THEN <<<<"enable", "getty">>>> ELSE <<>>)
      \o <<<<"start", "getty">>>>

\* Mutant of DisplayManagerCalls: restored without evidence of a change.
DisplayManagerAlways(loaded) ==
    <<<<"unmask", "display_manager">>, <<"enable", "display_manager">>,
      <<"start", "display_manager">>>>

\* Mutant of DisplayManagerCalls: not started again.
DisplayManagerStaysDown(loaded) ==
    LET r == loaded.units["display_manager"]
    IN  IF ~r.existed \/ ~r.changed_by_installer THEN <<>>
        ELSE (IF r.masked_before THEN <<>> ELSE <<<<"unmask", "display_manager">>>>)
               \o (IF r.enabled_before THEN <<<<"enable", "display_manager">>>> ELSE <<>>)

\* restore_display_manager: what the record proves, and no more.
DisplayManagerCalls(loaded) ==
    LET r == loaded.units["display_manager"]
    IN  IF loaded.kind = "absent" \/ ~r.existed \/ ~r.changed_by_installer THEN <<>>
        ELSE (IF r.masked_before THEN <<>> ELSE <<<<"unmask", "display_manager">>>>)
               \o (IF r.enabled_before THEN <<<<"enable", "display_manager">>>> ELSE <<>>)
               \o (IF r.active_before THEN <<<<"start", "display_manager">>>> ELSE <<>>)

RestoreConflictingUnits ==
    \/ RestoreUnit("restore_getty", "restore_display_manager", GettyCalls(run.loaded))
    \/ RestoreUnit("restore_display_manager", "remove_runtime", DisplayManagerCalls(run.loaded))

\* The user is this installer's only if the record says so.
Ours(loaded) == loaded.kind = "written" /\ loaded.created

RemoveServiceUser ==
    /\ Step("remove_user", "remove_config")
    /\ user' = (user /\ ~Ours(run.loaded))
    /\ UNCHANGED <<run, todo, units, files, home, config, backups, packages, state,
                   last, budget, history>>

\* purge_config, or the configuration is preserved.
PurgeConfig ==
    /\ Step("remove_config", "remove_record")
    /\ IF run.flag
       THEN /\ config' = "none" /\ backups' = [s \in Seconds |-> "none"]
            /\ text' = "none"
       ELSE UNCHANGED <<config, backups, text>>
    /\ UNCHANGED <<run, todo, units, files, user, home, packages, state, last, budget, origin>>

RemoveInstallState ==
    /\ Step("remove_record", "remove_home")
    /\ state' = NoState
    /\ UNCHANGED <<run, todo, units, files, user, home, config, backups, packages,
                   last, budget, history>>

RemoveServiceHome ==
    /\ pc = "remove_home" /\ todo = <<>> /\ End("uninstalled")
    /\ home' = (home /\ ~Ours(run.loaded))
    /\ UNCHANGED <<run, units, files, user, config, backups, packages, state, budget,
                   history>>

UninstallStep ==
    \/ LoadUninstallState \/ LoadFails \/ StopServices \/ RemoveServiceUnits
    \/ RemoveLogindOverride \/ RestoreConflictingUnits \/ RemoveRuntimeTree
    \/ RemoveSharedAssets \/ RemoveServiceUser \/ PurgeConfig \/ RemoveInstallState
    \/ RemoveServiceHome

-----------------------------------------------------------------------------
(* Between the commands. *)

OperatorEdits ==
    /\ pc = "idle"
    /\ \E t \in Texts : config' = t /\ text' = t
    /\ budget' = [budget EXCEPT !.clobbered = FALSE]
    /\ UNCHANGED <<pc, run, todo, units, files, user, home, backups, packages, state,
                   last, origin>>

\* systemctl restart of the relay services, the last of the manual steps.
OperatorStarts ==
    /\ pc = "idle" /\ "lib" \in files
    /\ units' = Systemctl(units, "start", "relay")
    /\ UNCHANGED <<pc, run, todo, files, user, home, config, backups, packages, state,
                   last, budget, history>>

Reboot ==
    /\ pc = "idle"
    /\ \E up \in SUBSET {u \in Units : Wanted(u)} :
         /\ \A u, v \in up : ~Excludes(u, v)
         /\ \A u \in Units \ up : Wanted(u) => \E v \in up : Excludes(u, v)
         /\ units' = [u \in Units |-> [units[u] EXCEPT !.active = u \in up]]
    /\ UNCHANGED <<pc, run, todo, files, user, home, config, backups, packages, state,
                   last, budget, history>>

Init ==
    /\ \E o \in Origins :
         units = [u \in Units |-> IF u = "relay" THEN NoUnit ELSE o[u]]
    /\ files = {} /\ packages = {} /\ home = FALSE /\ user \in BOOLEAN
    /\ config = "none" /\ backups = [s \in Seconds |-> "none"]
    /\ state = NoState
    /\ pc = "idle" /\ run = NoRun /\ todo = <<>> /\ last = "none"
    /\ budget = [runs |-> MaxRuns, faults |-> MaxFaults, now |-> 0, clobbered |-> FALSE]
    /\ origin = [units |-> units, user |-> user]
    /\ text = "none"

Next ==
    \/ Install \/ Uninstall \/ InstallStep \/ UninstallStep \/ DaemonReload
    \/ RunOptional \/ Abort \/ TornWrite
    \/ OperatorEdits \/ OperatorStarts \/ Reboot

Spec == Init /\ [][Next]_vars

-----------------------------------------------------------------------------
(* Properties. *)

TypeOK ==
    /\ pc \in {"idle"} \union InstallSteps \union UninstallSteps
    /\ run \in RunType
    /\ todo \in Seq(Verbs \X Units)
    /\ units \in [Units -> UnitState]
    /\ files \subseteq Artefacts
    /\ user \in BOOLEAN /\ home \in BOOLEAN
    /\ config \in Contents
    /\ backups \in [Seconds -> Contents]
    /\ packages \subseteq {"cage", "sway"}
    /\ state \in InstallState
    /\ last \in {"none", "installed", "uninstalled", "failed"}
    /\ budget \in [runs : Nat, faults : Nat, now : Seconds, clobbered : BOOLEAN]
    /\ origin \in [units : [Units -> UnitState], user : BOOLEAN]
    /\ text \in Contents

\* uninstall reverses only what install did, through every sequence of runs that
\* fail, are killed or are repeated: a display manager that was disabled, down
\* or masked before the first install is never enabled, started or unmasked,
\* and a service user that was there before is never removed.
NoOverreach ==
    LET now == units["display_manager"]
        before == origin.units["display_manager"]
    IN  /\ now.enabled => before.enabled
        /\ now.active => before.active \/ before.enabled
        /\ before.masked => now.masked
        /\ origin.user => user

\* What the operator last wrote is in config.toml or in a backup until purged,
\* whatever was replaced, torn or uninstalled since; only a second replacement
\* within the same second can lose it.
ConfigKept ==
    \/ text \in {"none", config}
    \/ \E s \in Seconds : backups[s] = text
    \/ budget.clobbered

\* After a completed install everything the services need is in place, however
\* many runs failed before: files, user, configuration, a readable record, and
\* tty1 cleared of its other owners unless a systemctl call failed.
InstallReady ==
    pc = "idle" /\ last = "installed" =>
      /\ files = Artefacts /\ user /\ config # "none" /\ state.kind = "written"
      /\ units["relay"].enabled
      /\ ~run.unapplied => \A u \in Conflicting : units[u].existed => units[u].masked

\* After a completed uninstall nothing of the relay is left to start, and the
\* login on tty1 is not masked, whether or not there was a record to go by.
UninstallClean ==
    pc = "idle" /\ last = "uninstalled" =>
      /\ files = {} /\ state = NoState
      /\ ~run.unapplied => /\ ~units["relay"].enabled /\ ~units["relay"].active
                           /\ ~units["getty"].masked

\* The run that keeps or creates a configuration has installed the compositor
\* the kiosk launcher will start for it.
CompositorInstalled ==
    [][pc = "record" /\ last' = "installed" /\ ~run.skip /\ ~run.replaced
         => /\ config = "sway" => "sway" \in packages
            /\ config \in {"cage", "sample"} => "cage" \in packages]_vars

\* A record describes the host as it was before the first install.
Faithful(s) ==
    /\ s.kind = "written"
    /\ s.created = ~origin.user
    /\ \A u \in Conflicting :
         [s.units[u] EXCEPT !.changed_by_installer = FALSE] = Capture(origin.units[u])
    /\ \A u \in Conflicting : s.units[u].existed /\ ~s.units[u].masked_before
                                => s.units[u].changed_by_installer

\* An uninstall that finds such a record and whose systemctl calls succeed puts
\* everything back, even when earlier runs of it failed half-way and the host
\* was rebooted in between.  Two hosts are out of its reach: a unit that was up
\* although masked is stopped for good, and of a login that was masked the record
\* cannot tell whether it was enabled.
Restores ==
    [][/\ pc = "remove_home" /\ last' = "uninstalled"
       /\ Faithful(run.loaded) /\ ~run.unapplied
       => LET before == origin.units["display_manager"]
              now == units'["display_manager"]
          IN  /\ ~(before.masked /\ before.active) =>
                   /\ now.enabled = before.enabled /\ now.masked = before.masked
                   /\ before.active => now.active
              /\ ~origin.units["getty"].masked =>
                   units'["getty"].enabled = origin.units["getty"].enabled
              /\ user' = origin.user]_vars

\* specs/17:175: "Successful uninstall restores getty@tty1.service so the host
\* has a normal local login path again": also on the boots to come.
LoginPathRestored ==
    pc = "idle" /\ last = "uninstalled" /\ origin.units["getty"].enabled
      => units["getty"].active
=============================================================================
