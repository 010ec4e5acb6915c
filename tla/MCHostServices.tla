--------------------------- MODULE MCHostServices ---------------------------
(***************************************************************************)
(* Configuration files for TLC: one that is accepted for each way the      *)
(* services differ, the files that are refused, and the files that are     *)
(* accepted although a process cannot run with them.                       *)
(***************************************************************************)
EXTENDS HostServices, TLC

Dir(name) == Path(Append(DefaultRunDir, name))

Base ==
    <<"target", "vmid">> :> Num(100) @@ <<"target", "node_name">> :> Str("auto")
    @@ <<"target", "guest_os">> :> Str("windows")
    @@ <<"target", "console_backend">> :> Str("spice")
    @@ <<"runtime", "run_dir">> :> Path(DefaultRunDir)
    @@ <<"runtime", "control_socket">> :> Dir("session.sock")
    @@ <<"runtime", "log_namespace">> :> Str("relayinner-display")
    @@ <<"policy", "poll_interval_ms">> :> Num(2000)
    @@ <<"policy", "reconnect_initial_ms">> :> Num(1000)
    @@ <<"policy", "reconnect_max_ms">> :> Num(15000)
    @@ <<"policy", "command_timeout_s">> :> Num(10)

Set(table, key, value) == <<table, key>> :> value

Moonlight ==
    Set("target", "console_backend", Str("moonlight"))
    @@ Set("console.moonlight", "host", Str("gaming-vm"))

Vnc(number) ==
    Set("target", "console_backend", Str("vnc"))
    @@ Set("console.vnc", "display_number", Num(number))

Toml(raw) == [state |-> "toml", raw |-> raw @@ Base]

Other(state) == [state |-> state, raw |-> Base]

MCContent == [
    \* accepted
    spice        |-> Toml(Base),
    other_socket |-> Toml(Set("runtime", "control_socket", Dir("other.sock"))),
    moonlight    |-> Toml(Moonlight @@ Set("display", "output_name", Str("DP-1"))
                          @@ Set("policy", "dpms_off_delay_ms", Num(300000))
                          @@ Set("console.moonlight", "app", Str("Steam"))
                          @@ Set("console.moonlight", "quit_app_after_session", Bool(TRUE))),
    two_vv_paths |-> Toml(Set("runtime", "spice_vv_path", Dir("current.vv"))
                          @@ Set("console.spice", "vv_path", Path(<<"srv", "viewer.vv">>))),
    vnc          |-> Toml(Vnc(MaxVncDisplay)),
    \* accepted, and the daemon cannot start with it
    socket_is_directory |-> Toml(Set("runtime", "control_socket", Path(DefaultRunDir))),
    \* refused
    socket_outside  |-> Toml(Set("runtime", "control_socket", Path(<<"tmp", "session.sock">>))),
    empty_backoff   |-> Toml(Set("policy", "reconnect_max_ms", Num(999))),
    wrong_compositor |-> Toml(Moonlight @@ Set("kiosk", "compositor", Str("cage"))),
    quits_desktop   |-> Toml(Moonlight @@ Set("console.moonlight", "quit_app_after_session",
                                              Bool(TRUE))),
    port_too_high   |-> Toml(Vnc(MaxVncDisplay + 1)),
    missing         |-> Other("missing"),
    unreadable      |-> Other("unreadable")]

MCFiles == DOMAIN MCContent
=============================================================================
