------------------------------ MODULE HciSteps ------------------------------
(***************************************************************************)
(* The two-controller tests of the Python host library as scripts of       *)
(* steps: commands, waits for events, and what the test remembers.  One    *)
(* definition per function, under its name; the machine that runs them is  *)
(* HciPhases.  Side "A" is the central, advertiser or source of the test,  *)
(* side "B" its peer.                                                      *)
(*                                                                         *)
(* Payloads, lengths and printing are left out; the event a wait takes     *)
(* stands for the subevent, handle and marker its loop compares.           *)
(***************************************************************************)
EXTENDS Integers, Sequences, SequencesExt

CONSTANTS
    Count,      \* iterations of the stress test; 10000 in the code
    ISO_EVERY,  \* of which every ISO_EVERYth carries ISO; 10 in the code
    Cases,      \* advertising cases of core54_features; 4 in the code
    PAWR_RESPONSE_ATTEMPTS   \* 3 in the code

ASSUME StepsAssumption == /\ Count \in Nat \ {0}
                          /\ ISO_EVERY \in Nat \ {0}
                          /\ Cases \in Nat \ {0}
                          /\ PAWR_RESPONSE_ATTEMPTS \in Nat \ {0}

(* "when" is what the test must remember for the step to run, "unless"     *)
(* what must not be, "part" the check whose except clause catches its      *)
(* errors.  "undo" is done before the error of a refused command or a      *)
(* timeout is raised, "bad" before that of an event that reports failure.  *)
Step(do, s, w) == [do |-> do, side |-> s, what |-> w, when |-> "", unless |-> "",
                   part |-> 0, undo |-> <<>>, bad |-> <<>>]

Cmd(s, w)     == <<Step("cmd", s, w)>>       \* any other status raises
Call(s, w)    == <<Step("call", s, w)>>      \* the status is not looked at
Try(s, w)     == <<Step("try", s, w)>>       \* nor is an exception let out
Retry(s, w)   == <<Step("retry", s, w)>>     \* Controller Busy is tried again
Send(s, w)    == <<Step("send", s, w)>>      \* a data packet
Keep(s, w)    == <<Step("keep", s, w)>>      \* wait, the rest is put back
Take(s, w)    == <<Step("take", s, w)>>      \* wait, the rest is thrown away,
                                             \* a disconnection raises
Observe(s, w) == <<Step("observe", s, w)>>   \* the same, but nothing raises
Confirm(s, w) == <<Step("confirm", s, w)>>   \* and a timeout is no error
Maybe(s, w)   == <<Step("maybe", s, w)>>     \* keep, a timeout is no error
Discard(s, w) == <<Step("discard", s, w)>>   \* from what was put back
Drain         == <<Step("drain", "A", "")>>  \* everything read is thrown away
Check         == <<Step("check", "A", "")>>  \* a comparison that raises
Need(v)       == <<Step("need", "A", v)>>    \* raises when v is not set
Got(v)        == <<Step("got", "A", v)>>     \* a variable of the test is set
Lost(v)       == <<Step("lost", "A", v)>>    \* and is None again

When(v, steps)   == [i \in 1 .. Len(steps) |-> [steps[i] EXCEPT !.when = v]]
Unless(v, steps) == [i \in 1 .. Len(steps) |-> [steps[i] EXCEPT !.unless = v]]
Part(n, steps)   == [i \in 1 .. Len(steps) |-> [steps[i] EXCEPT !.part = n]]
Or(steps, undo)  == [i \in 1 .. Len(steps) |-> [steps[i] EXCEPT !.undo = undo]]

Both(F(_)) == F("A") \o F("B")

HostVar(s) == IF s = "A" THEN "hostA" ELSE "hostB"

(* A test: a setup that may be tried again after the errors "retryable",   *)
(* each failed attempt closed; the body; the finally clause; how often     *)
(* the whole is repeated.                                                  *)
Test(body, last) == [setup |-> <<>>, close |-> <<>>, tries |-> 1, retryable |-> {},
                     body |-> body, last |-> last, times |-> 1]

-----------------------------------------------------------------------------
(* hci_pair.py: a legacy connection between the two. *)

prepare_controller(s) == Cmd(s, "reset") \o Cmd(s, "config")

start_legacy_advertising(s) == Cmd(s, "config") \o Cmd(s, "adv_on")

start_legacy_connection(s) == Cmd(s, "connect")

wait_acl_pair == <<Step("pair", "A", "conn")>>

establish_legacy_acl_pair(c, p) ==
    prepare_controller(p) \o prepare_controller(c)
    \o start_legacy_advertising(p) \o start_legacy_connection(c)
    \o wait_acl_pair \o Got("handles")

wait_disconnected(s) == Confirm(s, "disc")

disconnect_acl_pair(c, p) ==
    Try(c, "disconnect") \o wait_disconnected(c) \o wait_disconnected(p) \o Try(p, "adv_off")

-----------------------------------------------------------------------------
(* connected_features.py and connected_features_pair.py. *)

wait_le_subevent(s, e) == Keep(s, e)

wait_acl_marker(s) == Keep(s, "acl")

_read_rssi(s) == Cmd(s, "read")

_read_remote_features(s) == Cmd(s, "features") \o wait_le_subevent(s, "features")

_set_data_length(s) == Cmd(s, "dle") \o wait_le_subevent(s, "dle")

_request_peer_sca(s) == Cmd(s, "sca") \o wait_le_subevent(s, "sca")

_command_status_retry(s, c) == Retry(s, c)

_power_control(s) ==
    Cmd(s, "read") \o _command_status_retry(s, "power") \o wait_le_subevent(s, "power")
    \o Cmd(s, "config") \o Call(s, "config")

_path_loss_monitor(s) ==
    Cmd(s, "config") \o Cmd(s, "pathloss") \o Maybe(s, "pathloss") \o Call(s, "config")

(* The first PHY update that comes has to be the expected one, if one is   *)
(* expected ("anyphy": none is).                                           *)
_request_phy(s, c, e) == _command_status_retry(s, c) \o <<Step("first", s, e)>>

_wait_peer_phy(s, e) == wait_le_subevent(s, e)

_read_phy_exact(s) == Cmd(s, "read") \o Check

_verify_acl_on_phy ==
    Send("A", "acl") \o wait_acl_marker("B") \o Send("B", "acl") \o wait_acl_marker("A")

_run_coded_phy ==
    _request_phy("A", "phyCoded", "phyCoded") \o _wait_peer_phy("B", "phyCoded")
    \o Both(_read_phy_exact) \o _verify_acl_on_phy
    \o _request_phy("A", "phy1M", "phy1M") \o _wait_peer_phy("B", "phy1M") \o Both(_read_phy_exact)

(* The central's 1M meets a peer that still prefers 2M: the PHY stays. *)
_run_phy_round_trip ==
    _request_phy("B", "phy2M", "phy2M") \o _wait_peer_phy("A", "phy2M")
    \o _request_phy("A", "phyStays", "anyphy")
    \o _request_phy("B", "phy1M", "phy1M") \o _wait_peer_phy("A", "phy1M") \o Both(_read_phy_exact)
    \o _run_coded_phy \o _run_coded_phy

(* Each check has its own except clause. *)
run_connected_feature_phase == Test(
    establish_legacy_acl_pair("A", "B")
        \o Part(1, Send("A", "acl") \o wait_acl_marker("B"))
        \o Part(2, Send("B", "acl") \o wait_acl_marker("A"))
        \o Part(3, _read_rssi("A")) \o Part(4, _read_remote_features("A"))
        \o Part(5, _read_rssi("B")) \o Part(6, _read_remote_features("B"))
        \o Part(7, _set_data_length("A"))
        \o Part(8, _run_phy_round_trip)
        \o Part(9, _request_peer_sca("A")) \o Part(10, _power_control("A"))
        \o Part(11, _request_peer_sca("B")) \o Part(12, _power_control("B"))
        \o Part(13, _path_loss_monitor("A")),
    When("handles", disconnect_acl_pair("A", "B")))

run_subrate_phase == Test(
    prepare_controller("B") \o prepare_controller("A")
        \o Cmd("A", "host_on") \o Got("hostA") \o Cmd("B", "host_on") \o Got("hostB")
        \o start_legacy_advertising("B") \o start_legacy_connection("A")
        \o wait_acl_pair \o Got("handles")
        \o Cmd("A", "subrate") \o wait_le_subevent("A", "subrate"),
    When("handles", disconnect_acl_pair("A", "B"))
        \o When("hostA", Try("A", "host_off")) \o When("hostB", Try("B", "host_off")))

-----------------------------------------------------------------------------
(* core_advanced.py: three procedures on one link. *)

_set_sci_host_support(s) == Cmd(s, "host_on")

_set_default_rate_parameters(s) == Cmd(s, "config")

_read_all_local_features(s) == Cmd(s, "read")

_read_all_remote_features(s) == Cmd(s, "allfeatures") \o wait_le_subevent(s, "allfeatures") \o Check

_wait_frame_space(s) == wait_le_subevent(s, "fsu")

_frame_space_request(s, peer) == Cmd(s, "fsu") \o _wait_frame_space(s) \o _wait_frame_space(peer)

_wait_frame_space_range(s) == wait_le_subevent(s, "fsu")

_frame_space_range_request(s, peer) ==
    Cmd(s, "fsu") \o _wait_frame_space_range(s) \o _wait_frame_space_range(peer) \o Check

_set_phy(s) == Cmd(s, "phy2M") \o wait_le_subevent(s, "phy2M") \o Cmd(s, "read")

_wait_rate_change(s) == wait_le_subevent(s, "rate")

run_core_advanced_phase ==
    LET sci(s) == _set_sci_host_support(s) \o Got(HostVar(s)) \o _set_default_rate_parameters(s)
    IN  Test(prepare_controller("B") \o prepare_controller("A") \o Both(sci)
                 \o Both(_read_all_local_features)
                 \o start_legacy_advertising("B") \o start_legacy_connection("A")
                 \o wait_acl_pair \o Got("handles")
                 \o Both(_read_remote_features) \o Both(_read_all_remote_features) \o Check
                 \o _frame_space_request("A", "B") \o _frame_space_request("B", "A")
                 \o _set_phy("B") \o _frame_space_range_request("B", "A")
                 \o Cmd("B", "rate") \o _wait_rate_change("B") \o _wait_rate_change("A"),
             When("handles", disconnect_acl_pair("A", "B"))
                 \o When("hostA", Try("A", "host_off")) \o When("hostB", Try("B", "host_off")))

-----------------------------------------------------------------------------
(* hci_cis_cleanup.py: the teardown of a connected stream. *)

remove_iso_paths(s) == Try(s, "path_off")

drain == Drain

(* Faulty variant: the host feature goes before the link does. *)
cleanup_in_haste ==
    When("handles", Try("A", "disconnect") \o Try("B", "disconnect")) \o Try("B", "adv_off")
    \o Both(LAMBDA s : Try(s, "host_off"))
    \o When("handles", Confirm("A", "disc") \o Confirm("B", "disc"))

cleanup ==
    When("cig", remove_iso_paths("A")) \o When("pcis", remove_iso_paths("B"))
    \o When("cig", Try("A", "cis_off")) \o drain \o When("cig", Try("A", "cig_remove"))
    \o When("handles", Try("A", "disconnect") \o Try("B", "disconnect"))
    \o Try("B", "adv_off")
    \o When("handles", Confirm("A", "disc") \o Confirm("B", "disc"))
    \o Both(LAMBDA s : Try(s, "host_off"))

-----------------------------------------------------------------------------
(* hci_cis_pair_test.py: a connected stream, and hci_iso.py's ISO helpers. *)

prepare(s) == Cmd(s, "reset") \o Cmd(s, "config") \o Cmd(s, "host_on") \o Cmd(s, "config")

start_advertising(s) == Cmd(s, "config") \o Cmd(s, "adv_on")

start_connection(s) == Cmd(s, "connect")

create_cig(s) == Cmd(s, "cig") \o Check

wait_cis_request(s) == Take(s, "cisreq")

wait_cis_established(s) == Take(s, "cisest")

setup_iso_path(s) == Cmd(s, "path_on")

read_iso_buffers(s) == Cmd(s, "read")

counter_snapshot(s) == Cmd(s, "read")

send_iso(s) == Send(s, "iso")

wait_iso(s) == Take(s, "iso")

_close_acl_setup_attempt == cleanup \o <<Step("reopen", "A", "")>>

_retryable_acl_establishment == {"failed", "timeout", "lost"}

(* Fresh ports for every attempt: the reading queues start empty. *)
establish_acl_pair(retryable, body, last) == [
    setup |-> prepare("B") \o prepare("A") \o start_advertising("B") \o start_connection("A")
              \o wait_acl_pair \o Got("handles"),
    close |-> _close_acl_setup_attempt, retryable |-> retryable,
    tries |-> 3, body |-> body, last |-> last, times |-> 1]

_establish_cis ==
    create_cig("A") \o Got("cig") \o Cmd("A", "cis_on")
    \o wait_cis_request("B") \o Got("pcis") \o Cmd("B", "cis_accept")
    \o wait_cis_established("B") \o wait_cis_established("A")
    \o Both(LAMBDA s : setup_iso_path(s) \o setup_iso_path(s))
    \o Both(read_iso_buffers) \o Check \o Both(counter_snapshot)

hci_cis_pair_main == establish_acl_pair(_retryable_acl_establishment,
    _establish_cis
        \o send_iso("A") \o wait_iso("B") \o send_iso("B") \o wait_iso("A")
        \o Both(counter_snapshot) \o Check,
    cleanup)

-----------------------------------------------------------------------------
(* stress_features.py *)

_discard_pending_iso(s) == Discard(s, {"iso", "iso0"})

_wait_stress_acl_marker(s) ==
    Or(wait_acl_marker(s), _discard_pending_iso(s)) \o _discard_pending_iso(s)

(* Completions of the other handle are put back, ISO data is dropped. *)
_wait_completed(s, e) == Keep(s, e) \o Discard(s, {"iso", "iso0"})

_check_counter_deltas == Check

(* Faulty variant: both ISO packets are sent before either completion is   *)
(* waited for, and wait_iso drops one.                                     *)
_stress_iteration_crossed(i) ==
    send_iso("A") \o send_iso("B") \o wait_iso("B") \o _wait_completed("A", "isocomp")
    \o wait_iso("A") \o _wait_completed("B", "isocomp")

_stress_iteration(i) ==
    Send("A", "acl") \o _wait_stress_acl_marker("B") \o _wait_completed("A", "comp")
    \o Send("B", "acl") \o _wait_stress_acl_marker("A") \o _wait_completed("B", "comp")
    \o IF i % ISO_EVERY # 0 THEN <<>> ELSE
       send_iso("A") \o wait_iso("B") \o _wait_completed("A", "isocomp")
       \o send_iso("B") \o wait_iso("A") \o _wait_completed("B", "isocomp")

(* A timeout is tried again only after a link lost with 0x3E. *)
_establish_acl_with_retry(body, last) == establish_acl_pair({"failed", "lost"}, body, last)

run_stress_phase == _establish_acl_with_retry(
    _establish_cis \o FlattenSeq([i \in 1 .. Count |-> _stress_iteration(i - 1)])
        \o Both(counter_snapshot) \o _check_counter_deltas,
    cleanup)

-----------------------------------------------------------------------------
(* periodic_features.py: periodic advertising, its transfer, and PAwR. *)

_command_ok(s, c) == Cmd(s, c)

_configure_ext_set(s) == _command_ok(s, "config")

_ext_adv_enable(s) == _command_ok(s, "ext_on")

_configure_periodic(s) == _configure_ext_set(s) \o _command_ok(s, "config")

_start_periodic(s) == _ext_adv_enable(s) \o _command_ok(s, "per_on")

_stop_periodic(s) == Try(s, "per_off") \o Try(s, "ext_off")

_set_sync_scan_off(s) == Try(s, "scan_off")

_cancel_pending_periodic_sync(s) == Try(s, "sync_cancel")

_start_periodic_source_scan(s) == Cmd(s, "config") \o _command_ok(s, "scan_on")

(* Whatever else is queued before the expected advertiser is lost. *)
_observe_periodic_advertiser(s) == Or(Observe(s, "advreport"), _set_sync_scan_off(s))

_discard_pre_create_sync_events(s) == Discard(s, {"sync"})

_create_periodic_sync(s) ==
    _observe_periodic_advertiser(s)
    \o Or(Cmd(s, "sync_create"), _set_sync_scan_off(s))
    \o _discard_pre_create_sync_events(s)

_wait_sync_established(s) ==
    LET wait == Step("keep", s, "sync")
    IN  <<[wait EXCEPT !.undo = _cancel_pending_periodic_sync(s) \o _set_sync_scan_off(s),
                       !.bad = _set_sync_scan_off(s)]>>

_wait_periodic_report(s) == Keep(s, "report")

_terminate_sync(s) == Try(s, "sync_off")

_synchronise(s) ==
    _start_periodic_source_scan(s) \o _create_periodic_sync(s)
    \o _wait_sync_established(s) \o _set_sync_scan_off(s)

_sync_to_train(s) == _synchronise(s) \o Got("sync") \o _wait_periodic_report(s)

run_periodic_sync_phase == Test(
    prepare_controller("A") \o prepare_controller("B")
        \o _configure_periodic("A") \o _start_periodic("A") \o _sync_to_train("B"),
    When("sync", _terminate_sync("B")) \o _stop_periodic("A"))

_start_extended_connection(s) == Cmd(s, "connect")

_wait_past_received(s) == Keep(s, "past")

run_past_phase == Test(
    prepare_controller("A") \o prepare_controller("B")
        \o _configure_periodic("A") \o _configure_ext_set("A") \o _start_periodic("A")
        \o Cmd("A", "extconn_on") \o _start_extended_connection("B")
        \o wait_acl_pair \o Got("handles")
        \o _command_ok("B", "past_params") \o _read_remote_features("A") \o Check
        \o _command_ok("A", "past") \o _wait_past_received("B") \o Got("sync")
        \o _wait_periodic_report("B"),
    When("sync", _terminate_sync("B")) \o When("handles", disconnect_acl_pair("B", "A"))
        \o Try("A", "ext_off") \o _stop_periodic("A"))

_configure_pawr(s) == _configure_ext_set(s) \o _command_ok(s, "pawr")

_pawr_diag_counters(s) == Call(s, "read")

_wait_pawr_data_request(s) == Keep(s, "datareq")

_set_requested_pawr_subevent_data(s) == _command_ok(s, "subdata")

(* Faulty variant: the caller is not told of the service, and does not     *)
(* stop it when the test fails.                                            *)
_start_pawr_data_service_untold == <<Step("serve", "A", "")>>

_start_pawr_data_service == <<Step("serve", "A", "")>> \o Got("service")

_finish_pawr_data_service == <<Step("finish", "A", "")>>

_discard_pre_pawr_sync_reports(s) == Discard(s, {"report"})

(* Faulty variant: reports from before 0x2084 are not discarded. *)
_set_pawr_sync_subevent_only(s) == _command_ok(s, "sync_subevent")

_set_pawr_sync_subevent(s) ==
    _command_ok(s, "sync_subevent") \o _discard_pre_pawr_sync_reports(s)

_wait_pawr_periodic_report(s) == Keep(s, "report")

_set_pawr_response(s) == _command_ok(s, "pawr_response")

_verify_pawr_response_completion == Check

(* One response opportunity: leave the loop when the response has come. *)
_pawr_attempt ==
    <<Step("look", "A", "")>>
    \o Unless("seen", _set_pawr_sync_subevent("B") \o _wait_pawr_periodic_report("B")
                      \o _set_pawr_response("B") \o <<Step("answer", "A", "")>>)

run_pawr_phase == Test(
    prepare_controller("A") \o prepare_controller("B") \o _pawr_diag_counters("B")
        \o _configure_pawr("A") \o _start_periodic_source_scan("B")
        \o _ext_adv_enable("A") \o _command_ok("A", "per_on")
        \o _wait_pawr_data_request("A") \o _set_requested_pawr_subevent_data("A")
        \o _start_pawr_data_service
        \o _create_periodic_sync("B") \o _wait_sync_established("B") \o Got("sync")
        \o FlattenSeq([i \in 1 .. PAWR_RESPONSE_ATTEMPTS |-> Unless("seen", _pawr_attempt)])
        \o _finish_pawr_data_service \o Lost("service")
        \o _set_sync_scan_off("B") \o _pawr_diag_counters("B")
        \o _verify_pawr_response_completion \o Need("seen"),
    When("service", _finish_pawr_data_service) \o _set_sync_scan_off("B")
        \o When("sync", _terminate_sync("B")) \o _stop_periodic("A"))

-----------------------------------------------------------------------------
(* bis_features.py and auracast.py: a broadcast stream. *)

_wait_biginfo(s) == Keep(s, "biginfo")

_create_big(s) == Cmd(s, "big_on") \o wait_le_subevent(s, "big")

_create_big_sync(s) == Cmd(s, "bigsync_on") \o wait_le_subevent(s, "bigsync")

_wait_big_terminated(s) == wait_le_subevent(s, "bigend")

_terminate_big(s) == Cmd(s, "big_off") \o _wait_big_terminated(s)

_terminate_big_sync(s) == Cmd(s, "bigsync_off")

_remove_iso_path(s) == Try(s, "path_off")

run_bis_phase == Test(
    prepare_controller("A") \o prepare_controller("B")
        \o _configure_periodic("A") \o _start_periodic("A") \o _sync_to_train("B")
        \o _create_big("A") \o Got("sbis") \o Got("big") \o _wait_biginfo("B")
        \o _create_big_sync("B") \o Got("kbis") \o Got("bigsync")
        \o setup_iso_path("A") \o setup_iso_path("B") \o Both(read_iso_buffers) \o Check
        \o counter_snapshot("A") \o send_iso("A") \o wait_iso("B") \o counter_snapshot("A") \o Check
        \o _remove_iso_path("A") \o Lost("sbis") \o _remove_iso_path("B") \o Lost("kbis")
        \o _terminate_big_sync("B") \o Lost("bigsync") \o _terminate_big("A") \o Lost("big")
        \o _terminate_sync("B") \o Lost("sync")
        \o _sync_to_train("B") \o _terminate_sync("B") \o Lost("sync") \o _stop_periodic("A"),
    When("sbis", _remove_iso_path("A")) \o When("kbis", _remove_iso_path("B"))
        \o When("bigsync", Try("B", "bigsync_off")) \o When("big", Try("A", "big_off"))
        \o When("sync", _terminate_sync("B")) \o _stop_periodic("A"))

AuracastSource_start ==
    prepare_controller("A") \o _configure_ext_set("A") \o _command_ok("A", "config")
    \o _ext_adv_enable("A") \o _command_ok("A", "per_on")
    \o Cmd("A", "big_on") \o wait_le_subevent("A", "big") \o Got("bis")
    \o setup_iso_path("A") \o setup_iso_path("A") \o Got("big")

(* Between two frames everything the controller says is read and dropped. *)
AuracastSource_stream == send_iso("A") \o drain \o send_iso("A") \o drain

AuracastSource_stop ==
    When("bis", _remove_iso_path("A") \o _remove_iso_path("A"))
    \o When("big", Try("A", "big_off")) \o _stop_periodic("A")

auracast_source == Test(AuracastSource_start \o AuracastSource_stream, AuracastSource_stop)

-----------------------------------------------------------------------------
(* recovery_features.py: resets in the middle of a synchronisation. *)

(* The handle is returned after the report: without one the test knows of  *)
(* no sync, though it is up.                                               *)
_sync_once == _synchronise("B") \o _wait_periodic_report("B") \o Got("sync")

_wait_sync_lost(s) == Keep(s, "synclost")

run_recovery_phase == Test(
    prepare_controller("A") \o prepare_controller("B")
        \o _configure_periodic("A") \o _start_periodic("A") \o _sync_once
        \o prepare_controller("B") \o Lost("sync") \o _sync_once
        \o prepare_controller("A") \o _wait_sync_lost("B") \o Lost("sync")
        \o _configure_periodic("A") \o _start_periodic("A") \o _sync_once
        \o _terminate_sync("B") \o Lost("sync") \o _stop_periodic("A")
        \o establish_legacy_acl_pair("A", "B") \o Send("A", "acl") \o wait_acl_marker("B"),
    When("handles", disconnect_acl_pair("A", "B"))
        \o When("sync", _terminate_sync("B")) \o _stop_periodic("A"))

-----------------------------------------------------------------------------
(* core54_features.py: every case waits for the token of its own. *)

observe(s) == <<Step("token", s, "advreport")>>

run_advertising54_phase == [
    Test(prepare_controller("A") \o prepare_controller("B")
             \o _command_ok("B", "config") \o _command_ok("A", "config")
             \o _command_ok("A", "advdata") \o _command_ok("B", "config")
             \o _command_ok("B", "scan_on") \o _ext_adv_enable("A") \o observe("B"),
         Both(LAMBDA s : Try(s, "reset")))
    EXCEPT !.times = Cases]

-----------------------------------------------------------------------------
Scripts == [
    connected  |-> run_connected_feature_phase, subrate  |-> run_subrate_phase,
    advanced   |-> run_core_advanced_phase,     cis      |-> hci_cis_pair_main,
    stress     |-> run_stress_phase,            periodic |-> run_periodic_sync_phase,
    past       |-> run_past_phase,              pawr     |-> run_pawr_phase,
    bis        |-> run_bis_phase,               auracast |-> auracast_source,
    recovery   |-> run_recovery_phase,          core54   |-> run_advertising54_phase]
=============================================================================
