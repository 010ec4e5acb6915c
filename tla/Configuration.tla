---------------------------- MODULE Configuration ----------------------------
(***************************************************************************)
(* config.py: what parse_config accepts of a decoded TOML file, and the    *)
(* configuration it returns.                                               *)
(*                                                                         *)
(* A file is a function from <<table, key>> to values; a table is absent   *)
(* when none of its keys is there, and <<table, "">> marks an entry that   *)
(* should be a table and is not.  The checks every field goes through are  *)
(* data (Schema); the rules that relate fields are conjuncts of Accepts.   *)
(* Of the accepted configuration only what a property or another process   *)
(* depends on is kept.                                                     *)
(***************************************************************************)
EXTENDS Integers, Sequences, FiniteSets

-----------------------------------------------------------------------------
(* Values.  All have one shape, so that files can be compared.             *)

Value(type, text, num, path) == [type |-> type, text |-> text, num |-> num, path |-> path]

Str(s)  == Value("string", s, 0, <<>>)    \* a string that is neither blank nor an absolute path
Blank   == Value("blank", "", 0, <<>>)    \* an empty or white string
Num(n)  == Value("int", "", n, <<>>)
Bool(b) == Value("bool", "", IF b THEN 1 ELSE 0, <<>>)
Path(p) == Value("path", "", 0, p)        \* a string that is an absolute path, by components
Absent  == Value("absent", "", 0, <<>>)

\* The strings that are not a moonlight host, a bare command or a resolution;
\* what those three checks do with the characters is not modelled.
Malformed == Str("malformed")

-----------------------------------------------------------------------------
(* The checks of single fields. *)

Backends == {"spice", "vnc", "looking-glass", "moonlight"}

Compositors == {"auto", "cage", "sway"}

DefaultCompositor == [b \in Backends |-> IF b = "moonlight" THEN "sway" ELSE "cage"]

SupportedCompositors == [b \in Backends |-> {DefaultCompositor[b]}]

MaxVncDisplay == 65535 - 5900

MaxPort == 65535

IsText(v) == v.type \in {"string", "path"}

Conforms(v, check) ==
    CASE check.is = "text"     -> IsText(v)
      [] check.is = "any text" -> IsText(v) \/ v.type = "blank"
      [] check.is = "choice"   -> v.type = "string" /\ v.text \in check.of
      [] check.is = "range"    -> v.type = "int" /\ v.num \in check.from .. check.to
      [] check.is = "at least" -> v.type = "int" /\ v.num >= check.from
      [] check.is = "flag"     -> v.type = "bool"
      [] check.is = "path"     -> v.type = "path"
      [] check.is = "command"  -> IsText(v) /\ v # Malformed
      [] check.is = "format"   -> v.type = "string" /\ v # Malformed

Check(is)        == [is |-> is, of |-> {}, from |-> 0, to |-> 0]
Choice(S)        == [Check("choice") EXCEPT !.of = S]
Between(lo, hi)  == [Check("range") EXCEPT !.from = lo, !.to = hi]
AtLeast(lo)      == [Check("at least") EXCEPT !.from = lo]

Positive    == AtLeast(1)
NonNegative == AtLeast(0)

Required(check)          == [check |-> check, required |-> TRUE, default |-> Absent]
Optional(check, default) == [check |-> check, required |-> FALSE, default |-> default]

-----------------------------------------------------------------------------
(* The tables. *)

DefaultRunDir == <<"run", "relayinner-display">>
DefaultSocket == Append(DefaultRunDir, "session.sock")
DefaultArtifactDir == Append(DefaultRunDir, "console")
DefaultVvPath == Append(DefaultArtifactDir, "spice-current.vv")

BackendTable == [b \in Backends |->
    CASE b = "spice"         -> "console.spice"
      [] b = "vnc"           -> "console.vnc"
      [] b = "looking-glass" -> "console.looking_glass"
      [] b = "moonlight"     -> "console.moonlight"]

BackendTables == {BackendTable[b] : b \in Backends}

CommonTables == {"target", "runtime", "policy", "display", "kiosk", "input", "console"}

Schema(table) ==
    CASE table = "target" ->
            [vmid            |-> Required(Positive),
             node_name       |-> Required(Check("text")),
             guest_os        |-> Required(Check("text")),
             console_backend |-> Required(Choice(Backends))]
      [] table = "runtime" ->
            [run_dir        |-> Required(Check("path")),
             control_socket |-> Required(Check("path")),
             spice_vv_path  |-> Optional(Check("path"), Absent),
             log_namespace  |-> Required(Check("text"))]
      [] table = "policy" ->
            [poll_interval_ms         |-> Required(Positive),
             reconnect_initial_ms     |-> Required(Positive),
             reconnect_max_ms         |-> Required(Positive),
             command_timeout_s        |-> Required(Positive),
             dpms_policy              |-> Optional(Choice({"vm-power"}), Str("vm-power")),
             dpms_off_delay_ms        |-> Optional(NonNegative, Num(5000)),
             power_state_stabilize_ms |-> Optional(NonNegative, Num(3000)),
             power_button_action_when_running |->
                Optional(Choice({"shutdown"}), Str("shutdown")),
             power_button_action_when_stopped |->
                Optional(Choice({"start"}), Str("start")),
             shutdown_timeout_s       |-> Optional(NonNegative, Num(90))]
      [] table = "display" ->
            [drm_compatibility |-> Optional(Choice({"auto", "off", "legacy-drm"}), Str("auto")),
             output_name       |-> Optional(Check("any text"), Blank),
             power_helper      |-> Optional(Check("text"), Str("wlr-randr"))]
      [] table = "kiosk" ->
            [compositor |-> Optional(Choice(Compositors), Str("auto"))]
      [] table = "input" ->
            [power_button_event   |-> Optional(Check("path"), Path(<<"dev", "input", "power">>)),
             forward_power_button |-> Optional(Check("flag"), Bool(FALSE)),
             debounce_ms          |-> Optional(NonNegative, Num(2000))]
      [] table = "console" ->
            [artifact_dir |-> Optional(Check("path"), Path(DefaultArtifactDir))]
      [] table = "console.spice" ->
            [vv_path |-> Optional(Check("path"), Absent)]
      [] table = "console.vnc" ->
            [bind_host      |-> Optional(Choice({"127.0.0.1", "localhost"}), Str("127.0.0.1")),
             display_number |-> Required(Between(0, MaxVncDisplay)),
             viewer         |-> Optional(Choice({"remote-viewer"}), Str("remote-viewer"))]
      [] table = "console.looking_glass" ->
            [binary        |-> Optional(Check("text"), Str("looking-glass-client")),
             shm_file      |-> Required(Check("path")),
             renderer      |-> Optional(Choice({"auto", "egl", "opengl"}), Str("auto")),
             fullscreen    |-> Optional(Check("flag"), Bool(TRUE)),
             disable_host_screensaver |-> Optional(Check("flag"), Bool(TRUE)),
             spice_enabled |-> Optional(Check("flag"), Bool(TRUE))]
      [] table = "console.moonlight" ->
            [binary     |-> Optional(Check("command"), Str("moonlight")),
             host       |-> Required(Check("format")),
             base_port  |-> Optional(Between(1, MaxPort), Num(47989)),
             app        |-> Optional(Check("text"), Str("Desktop")),
             state_dir  |-> Optional(Check("path"),
                                     Path(<<"var", "lib", "relayinner-display", "moonlight">>)),
             resolution |-> Optional(Check("format"), Absent),
             quit_app_after_session |-> Optional(Check("flag"), Bool(FALSE))]

\* Unknown keys are refused in these tables and ignored in the others.
ClosedTables == BackendTables \cup {"kiosk", "console"}

-----------------------------------------------------------------------------
(* parse_config *)

KeysOf(raw, table) == {k \in {f[2] : f \in DOMAIN raw} : <<table, k>> \in DOMAIN raw}

Get(raw, table, key) ==
    IF <<table, key>> \in DOMAIN raw THEN raw[<<table, key>>] ELSE Schema(table)[key].default

TableAccepted(raw, table) ==
    LET schema == Schema(table)
    IN  /\ "" \notin KeysOf(raw, table)
        /\ table \in ClosedTables => KeysOf(raw, table) \subseteq DOMAIN schema
        /\ \A k \in DOMAIN schema :
              IF k \in KeysOf(raw, table)
              THEN Conforms(raw[<<table, k>>], schema[k].check)
              ELSE ~schema[k].required

\* Path.relative_to compares components: a directory is under itself.
Under(root, child) == Len(root) <= Len(child) /\ \A i \in 1 .. Len(root) : child[i] = root[i]

ArtifactDir(raw) == Get(raw, "console", "artifact_dir").path

\* The file the daemon writes for the viewer (config.console.spice.vv_path) ...
VvPath(raw) ==
    LET own    == Get(raw, "console.spice", "vv_path")
        legacy == Get(raw, "runtime", "spice_vv_path")
    IN  IF own # Absent THEN own.path
        ELSE IF legacy # Absent THEN legacy.path
        ELSE Append(ArtifactDir(raw), "spice-current.vv")

\* ... and the one that is checked (config.runtime.spice_vv_path).
CheckedVvPath(raw) ==
    LET legacy == Get(raw, "runtime", "spice_vv_path")
    IN  IF legacy # Absent THEN legacy.path ELSE VvPath(raw)

ResolveKioskCompositor(backend, compositor) ==
    IF compositor = "auto" THEN DefaultCompositor[backend] ELSE compositor

\* Mutant of PathsAccepted: the control socket may be anywhere.
PathsPartlyAccepted(raw) ==
    LET run_dir == Get(raw, "runtime", "run_dir").path
    IN  /\ Under(run_dir, ArtifactDir(raw))
        /\ Under(run_dir, CheckedVvPath(raw))

PathsAccepted(raw) ==
    LET run_dir == Get(raw, "runtime", "run_dir").path
    IN  /\ Under(run_dir, Get(raw, "runtime", "control_socket").path)
        /\ Under(run_dir, ArtifactDir(raw))
        /\ Under(run_dir, CheckedVvPath(raw))

\* The apps whose casefold is that of DEFAULT_MOONLIGHT_APP; "desktop" stands
\* for every spelling but the first.
DesktopApps == {"Desktop", "desktop"}

\* ConsoleMoonlightConfig: quitting the app is not for the desktop, which is also
\* the app of a file that names none.
QuitsDesktop(raw) ==
    /\ Get(raw, "console.moonlight", "quit_app_after_session") = Bool(TRUE)
    /\ Get(raw, "console.moonlight", "app").text \in DesktopApps

BackendAccepted(raw) ==
    LET backend    == Get(raw, "target", "console_backend").text
        compositor == Get(raw, "kiosk", "compositor").text
    IN  /\ TableAccepted(raw, BackendTable[backend])
        /\ \A t \in BackendTables \ {BackendTable[backend]} : KeysOf(raw, t) = {}
        /\ Get(raw, "runtime", "spice_vv_path") # Absent => backend = "spice"
        /\ ResolveKioskCompositor(backend, compositor) \in SupportedCompositors[backend]
        /\ backend = "moonlight" => ~QuitsDesktop(raw)

Accepts(raw) ==
    /\ \A t \in CommonTables : TableAccepted(raw, t)
    /\ BackendAccepted(raw)
    /\ PathsAccepted(raw)
    /\ Get(raw, "policy", "reconnect_initial_ms").num
          <= Get(raw, "policy", "reconnect_max_ms").num

Parse(raw) ==
    LET backend == Get(raw, "target", "console_backend").text
    IN  [valid          |-> TRUE,
         backend        |-> backend,
         run_dir        |-> Get(raw, "runtime", "run_dir").path,
         control_socket |-> Get(raw, "runtime", "control_socket").path,
         artifact_dir   |-> ArtifactDir(raw),
         vv_path        |-> VvPath(raw),
         compositor     |-> ResolveKioskCompositor(backend, Get(raw, "kiosk", "compositor").text)]

\* build_fallback_config: what the daemon and the session run with when the
\* file is refused.
Fallback ==
    [valid          |-> FALSE,
     backend        |-> "spice",
     run_dir        |-> DefaultRunDir,
     control_socket |-> DefaultSocket,
     artifact_dir   |-> DefaultArtifactDir,
     vv_path        |-> DefaultVvPath,
     compositor     |-> "cage"]
=============================================================================
