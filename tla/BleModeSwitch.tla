---------------------------- MODULE BleModeSwitch ----------------------------
(***************************************************************************)
(* BLE activity control (services/ble_app/app_main).                       *)
(*                                                                         *)
(* One radio advertises, scans or connects, one of the three at a time.    *)
(* app_ble_mode_switch.c keeps what the radio is doing (state), what it    *)
(* is to do next (op) and the advertising parameters in use and asked for. *)
(* Requests come from any thread and are queued for the Bluetooth thread   *)
(* (mail); that thread sends commands to the BLE stack and gets its        *)
(* completions, which it queues for itself once more.  A completion thus   *)
(* meets a state that earlier mail may have changed.  One caller cancels   *)
(* the radio without telling the state machine: the handler of a new TWS   *)
(* link, on a slave.                                                       *)
(*                                                                         *)
(* The stack itself is a prebuilt library: it is modelled from the events  *)
(* app_task.c handles, and marked external.                                *)
(***************************************************************************)
EXTENDS Naturals, Sequences, FiniteSets

CONSTANTS
    SwitchUsers,   \* users of app_ble_force_switch_adv
    RS, BOX,       \* two of them: role switch, and the charging box
    Slow,          \* BLE_ADVERTISING_INTERVAL
    Fast,          \* BLE_FAST_ADVERTISING_INTERVAL
    Fills,         \* what the data fill functions may produce
    NoUser,        \* one of them: no user has its data enabled
    Conidx,        \* connection indices, BLE_CONNECTION_MAX of them
    MaxCalls,      \* bound: requests from outside
    MaxFails,      \* bound: commands the stack refuses
    OtherThreads   \* requests arrive while the Bluetooth thread is deciding

ASSUME BleAssumption ==
    /\ {RS, BOX} \subseteq SwitchUsers
    /\ Slow # Fast /\ "other" \notin {Slow, Fast}
    /\ NoUser \in Fills
    /\ IsFiniteSet(Conidx) /\ Conidx # {}
    /\ MaxCalls \in Nat /\ MaxFails \in Nat
    /\ OtherThreads \in BOOLEAN

VARIABLES
    app,     \* the application side: bleModeEnv, advParam and its queues
    radio,   \* what the stack has the radio do
    evts,    \* completions and indications on their way to the application
    fill,    \* what the data fill functions produce now
    slave,   \* this bud is the slave of a connected pair
    due,     \* the TWS link has come up, its event is still to be handled
    barred,  \* the stack is not ready, SCO is on or the bud is powering off
    asked,   \* the interval of the last request to advertise, or "other"
    odd,     \* connections, refusals and direct cancels since it was last quiet
    past,    \* an activity was cancelled past the state machine
    calls, fails

vars == <<app, radio, evts, fill, slave, due, barred, asked, odd, past, calls, fails>>

Intervals == {Slow, Fast}
AdvParam == [advType : {"UNDIRECT", "NON_CONN"}, advInterval : Intervals, data : Fills]
NoAdv == [advType |-> "ZERO"]                       \* after memset(0)
Running == {"ADVERTISING", "SCANNING", "CONNECTING"}
States == Running \cup
    {"STATE_IDLE", "STARTING_ADV", "STOPPING_ADV", "STARTING_SCAN",
     "STOPPING_SCAN", "STARTING_CONNECT", "STOPPING_CONNECT"}
Ops == {"OP_IDLE", "START_ADV", "START_SCAN", "START_CONNECT",
        "STOP_ADV", "STOP_SCAN", "STOP_CONNECT"}

Command(c) == [cmd |-> c]
StartAdvCommand(p) == [cmd |-> "START_ADV", param |-> p]
Function(f) == [func |-> f]
StartAdvCall(i) == [func |-> "app_ble_start_adv", interval |-> i]
Disconnect(c) == [func |-> "appm_disconnect", conidx |-> c]

Post(e, m) == [e EXCEPT !.mail = Append(@, m)]
Send(e, c) == [e EXCEPT !.cmds = Append(@, c)]
-----------------------------------------------------------------------------
(* What may advertise, and with which parameters.                          *)

\* A switch is off or the bud is a slave: what is running must stop.
Forbidden(e) == e.advSwitch # {} \/ slave

\* The other reasons stop nothing by themselves, they only keep advertising
\* from being started or refreshed.
ble_adv_allowed(e) == ~Forbidden(e) /\ ~barred

Connected(e) == {c \in Conidx : e.connect[c] # "DISCONNECTED"}

\* Mutant: stays connectable with a connection.
ConnectableConfigParam(e, interval) ==
    [advType |-> "UNDIRECT", advInterval |-> interval, data |-> fill]

\* At most one connection is made through advertising.
ble_adv_config_param(e, interval) ==
    [advType |-> IF Connected(e) # {} THEN "NON_CONN" ELSE "UNDIRECT",
     advInterval |-> interval, data |-> fill]

app_ble_stop_activities(e) ==
    IF e.state # "STATE_IDLE" THEN Post(e, Function("ble_stop_all_activities")) ELSE e
-----------------------------------------------------------------------------
(* The functions that run in the Bluetooth thread, on the application side *)
(* e.  Starting to advertise ends with the thread "starting": the check    *)
(* has been made, the rest is StartAdvertising below.                      *)

StoppingOf == [s \in Running |->
    CASE s = "ADVERTISING" -> "STOPPING_ADV"
      [] s = "SCANNING" -> "STOPPING_SCAN"
      [] s = "CONNECTING" -> "STOPPING_CONNECT"]

\* The three appm_stop functions are one: whatever runs is cancelled.
appm_stop_advertising(e) == Send([e EXCEPT !.ke = "READY"], Command("CANCEL"))

\* States in which nothing runs, or is already being cancelled.
Cancelled == {"STATE_IDLE", "STOPPING_ADV", "STOPPING_SCAN", "STOPPING_CONNECT"}

StopRunning(e, op) == appm_stop_advertising([e EXCEPT !.state = StoppingOf[@], !.op = op])

\* Mutant: a request that meets an operation in progress is dropped.
ImpatientStartAdv(e) ==
    CASE e.state \in Running -> StopRunning(e, "START_ADV")
      [] e.state = "STATE_IDLE" /\ ble_adv_allowed(e) -> [e EXCEPT !.thread = "starting"]
      [] OTHER -> e

ble_start_adv(e) ==
    CASE e.state \in Running -> StopRunning(e, "START_ADV")
      [] e.state = "STATE_IDLE" /\ ble_adv_allowed(e) -> [e EXCEPT !.thread = "starting"]
      [] e.state = "STATE_IDLE" /\ ~ble_adv_allowed(e) ->
            [e EXCEPT !.op = IF @ = "START_ADV" THEN "OP_IDLE" ELSE @]
      [] OTHER -> [e EXCEPT !.op = "START_ADV"]

ble_start_scan(e) ==
    CASE e.state \in Running -> StopRunning(e, "START_SCAN")
      [] e.state = "STATE_IDLE" ->
            Send([e EXCEPT !.state = "STARTING_SCAN", !.ke = "SCANNING"], Command("START_SCAN"))
      [] OTHER -> [e EXCEPT !.op = "START_SCAN"]

ble_start_connect(e) ==
    CASE e.state \in {"ADVERTISING", "SCANNING"} -> StopRunning(e, "START_CONNECT")
      [] e.state = "STATE_IDLE" ->
            Send([e EXCEPT !.state = "STARTING_CONNECT", !.op = "START_CONNECT", !.ke = "CONNECTING"],
                 Command("START_CONNECT"))
      [] OTHER -> [e EXCEPT !.op = "START_CONNECT"]

\* Mutant: a state where an operation is meant.
StateAsOp == [s \in {"STARTING_ADV", "STARTING_SCAN", "STARTING_CONNECT"} |->
    IF s = "STARTING_ADV" THEN "STOPPING_ADV" ELSE "STOP_SCAN"]

StopOf == [s \in {"STARTING_ADV", "STARTING_SCAN", "STARTING_CONNECT"} |->
    CASE s = "STARTING_ADV" -> "STOP_ADV"
      [] s = "STARTING_SCAN" -> "STOP_SCAN"
      [] s = "STARTING_CONNECT" -> "STOP_CONNECT"]

\* Mutant: what is still starting is not stopped.
StopOnlyRunning(e) ==
    IF e.state \in Running THEN StopRunning(e, "OP_IDLE") ELSE [e EXCEPT !.op = "OP_IDLE"]

ble_stop_all_activities(e) ==
    CASE e.state \in Running -> StopRunning(e, "OP_IDLE")
      [] e.state \in DOMAIN StopOf -> [e EXCEPT !.op = StopOf[e.state]]
      [] e.state = "STATE_IDLE" -> e
      [] OTHER -> [e EXCEPT !.op = "OP_IDLE"]

\* Mutant: the operation stays pending.
KeepPendingOp(e) ==
    CASE e.op = "START_ADV" -> ble_start_adv(e)
      [] e.op = "START_SCAN" -> ble_start_scan(e)
      [] e.op = "START_CONNECT" -> ble_start_connect(e)
      [] e.op = "OP_IDLE" -> e
      [] OTHER -> ble_stop_all_activities(e)

ble_execute_pending_op(e) ==
    LET f == [e EXCEPT !.op = "OP_IDLE"]
    IN  CASE e.op = "START_ADV" -> ble_start_adv(f)
          [] e.op = "START_SCAN" -> ble_start_scan(f)
          [] e.op = "START_CONNECT" -> ble_start_connect(f)
          [] e.op = "OP_IDLE" -> f
          [] OTHER -> ble_stop_all_activities(f)

ble_switch_activities(e) ==
    ble_execute_pending_op([e EXCEPT !.state =
        CASE @ = "STARTING_ADV" -> "ADVERTISING"
          [] @ = "STARTING_SCAN" -> "SCANNING"
          [] @ = "STARTING_CONNECT" -> "CONNECTING"
          [] @ \in {"STOPPING_ADV", "STOPPING_SCAN", "STOPPING_CONNECT"} -> "STATE_IDLE"
          [] OTHER -> @])

\* The three failure callbacks only leave the states they expect; the
\* pending operation stays pending.
FailedIn(e, states) == [e EXCEPT !.state = IF @ \in states THEN "STATE_IDLE" ELSE @]
ble_start_adv_failed_cb(e) == FailedIn(e, {"STARTING_ADV"})
app_ble_scanning_starting_failed_handler(e) == FailedIn(e, {"STARTING_SCAN"})
app_ble_connecting_failed_handler(e) ==
    FailedIn(e, {"CONNECTING", "STOPPING_CONNECT", "STARTING_CONNECT"})

ble_adv_refreshing(e) ==
    IF /\ e.state = "ADVERTISING" /\ e.op = "OP_IDLE"
       /\ e.advInfo # NoAdv
       /\ e.advInfo.advType = e.advParam.advType
       /\ e.advInfo.advInterval = e.advParam.advInterval
    THEN Send([e EXCEPT !.advInfo = e.advParam, !.state = "STARTING_ADV"],
              [cmd |-> "UPDATE_ADV", param |-> e.advParam])
    ELSE ble_start_adv(e)

app_ble_start_adv(e, interval) ==
    LET f == [e EXCEPT !.advParam = ble_adv_config_param(e, interval)]
    IN  CASE ~ble_adv_allowed(e) -> app_ble_stop_activities(e)
          [] ble_adv_allowed(e) /\ fill = NoUser -> app_ble_stop_activities(f)
          [] ble_adv_allowed(e) /\ fill # NoUser
                /\ f.state = "ADVERTISING" /\ f.advInfo = f.advParam -> f
          [] OTHER -> ble_adv_refreshing(f)

appm_disconnect(e, c) ==
    IF e.connect[c] # "DISCONNECTED"
    THEN Send(e, [cmd |-> "DISCONNECT", conidx |-> c]) ELSE e

\* BT_Custom_Func_req: the function named by the mail.
Process(e, m) ==
    CASE m.func = "app_ble_start_adv" -> app_ble_start_adv(e, m.interval)
      [] m.func = "ble_start_scan" -> ble_start_scan(e)
      [] m.func = "ble_start_connect" -> ble_start_connect(e)
      [] m.func = "ble_stop_all_activities" -> ble_stop_all_activities(e)
      [] m.func = "ble_switch_activities" -> ble_switch_activities(e)
      [] m.func = "ble_start_adv_failed_cb" -> ble_start_adv_failed_cb(e)
      [] m.func = "scan_failed" -> app_ble_scanning_starting_failed_handler(e)
      [] m.func = "connecting_failed" -> app_ble_connecting_failed_handler(e)
      [] m.func = "appm_disconnect" -> appm_disconnect(e, m.conidx)
-----------------------------------------------------------------------------
(* Events of the stack, handled in the Bluetooth thread (app_task.c).      *)

app_advertising_stopped(e) ==
    Post([e EXCEPT !.advInfo = NoAdv], Function("ble_switch_activities"))

gapm_cmp_evt_handler(e, op, status) ==
    CASE op = "ADV" /\ status = "NO_ERROR" /\ e.ke = "ADVERTISING" ->
            Post(e, Function("ble_switch_activities"))
      [] op = "ADV" /\ \/ status = "CANCELED"
                       \/ status = "NO_ERROR" /\ e.ke # "ADVERTISING" ->
            app_advertising_stopped(e)
      [] op = "ADV" /\ status = "FAILED" ->
            Post([e EXCEPT !.advInfo = NoAdv], Function("ble_start_adv_failed_cb"))
      [] op = "SCAN" /\ status = "FAILED" -> Post(e, Function("scan_failed"))
      [] op = "CONNECT" /\ status = "FAILED" -> Post(e, Function("connecting_failed"))
      [] OTHER -> Post(e, Function("ble_switch_activities"))

\* Mutant: a start in progress is not ended by a connection.
ConnectedWhileStarting(e) ==
    Post([e EXCEPT !.state = IF @ \in {"ADVERTISING", "CONNECTING"} THEN "STATE_IDLE" ELSE @,
                   !.op = IF @ = "START_CONNECT" THEN "OP_IDLE" ELSE @],
         StartAdvCall(Slow))

app_ble_connected_evt_handler(e) ==
    Post([e EXCEPT !.state = IF @ \in {"ADVERTISING", "STARTING_ADV", "CONNECTING"}
                             THEN "STATE_IDLE" ELSE @,
                   !.op = IF @ = "START_CONNECT" THEN "OP_IDLE" ELSE @],
         StartAdvCall(Slow))

gapc_connection_req_ind_handler(e, c) ==
    app_ble_connected_evt_handler([e EXCEPT !.connect[c] = "CONNECTED", !.ke = "CONNECTED"])

gapc_disconnect_ind_handler(e, c) ==
    Post([e EXCEPT !.connect[c] = "DISCONNECTED", !.ke = "READY"], StartAdvCall(Slow))
-----------------------------------------------------------------------------
(* Requests, from any thread.                                              *)

\* app_ble_start_disconnect for each connection; one order stands for all.
app_ble_disconnect_all(e) ==
    LET up == {c \in Conidx : e.connect[c] = "CONNECTED"}
        order == CHOOSE s \in [1..Cardinality(up) -> up] : {s[i] : i \in DOMAIN s} = up
    IN  [e EXCEPT !.connect = [c \in Conidx |-> IF c \in up THEN "DISCONNECTING" ELSE @[c]],
                  !.mail = @ \o [i \in DOMAIN order |-> Disconnect(order[i])]]

app_ble_force_switch_adv(e, user, onOff) ==
    IF onOff
    THEN Post([e EXCEPT !.advSwitch = @ \ {user}], StartAdvCall(Slow))
    ELSE IF user \in e.advSwitch THEN e
    ELSE LET f == app_ble_stop_activities([e EXCEPT !.advSwitch = @ \cup {user}])
         IN  IF user = BOX THEN app_ble_disconnect_all(f) ELSE f
-----------------------------------------------------------------------------
(* Actions of the Bluetooth thread.                                        *)

Mail ==
    /\ app.thread = "ready" /\ app.mail # <<>>
    /\ app' = Process([app EXCEPT !.mail = Tail(@)], Head(app.mail))
    /\ UNCHANGED <<radio, evts, fill, slave, asked, odd, calls, fails, due, barred, past>>

\* The rest of ble_start_adv once advertising was found to be allowed, with
\* appm_start_advertising, which sends nothing on a slave.
StartAdvertising ==
    /\ app.thread = "starting"
    /\ LET e == [app EXCEPT !.thread = "ready", !.advInfo = app.advParam, !.state = "STARTING_ADV"]
       IN  app' = IF slave THEN e
                  ELSE Send([e EXCEPT !.ke = "ADVERTISING"], StartAdvCommand(app.advParam))
    /\ UNCHANGED <<radio, evts, fill, slave, asked, odd, calls, fails, due, barred, past>>

Event ==
    /\ app.thread = "ready" /\ evts # <<>>
    /\ LET v == Head(evts)
       IN  /\ app' = CASE v.ind = "CONNECTED" -> gapc_connection_req_ind_handler(app, v.conidx)
                       [] v.ind = "DISCONNECTED" -> gapc_disconnect_ind_handler(app, v.conidx)
                       [] v.ind = "CMP" -> gapm_cmp_evt_handler(app, v.op, v.status)
           /\ asked' = IF v.ind = "CMP" THEN asked ELSE Slow
    /\ evts' = Tail(evts)
    /\ UNCHANGED <<radio, fill, slave, odd, calls, fails, due, barred, past>>

\* Mutant: a slave leaves its advertising to the state machine.
TrustingHandler(e) == e

\* A new TWS link: a slave cancels, whatever the state machine is about.
app_tws_if_tws_connected_handler(e) == IF slave THEN appm_stop_advertising(e) ELSE e

TwsConnected ==
    /\ app.thread = "ready" /\ due /\ due' = FALSE
    /\ app' = app_tws_if_tws_connected_handler(app)
    /\ past' = (past \/ (slave /\ app.state \notin Cancelled))
    /\ odd' = IF slave THEN odd + 1 ELSE odd
    /\ UNCHANGED <<radio, evts, fill, slave, barred, asked, calls, fails>>
-----------------------------------------------------------------------------
(* The stack.  It answers commands in order; a start it accepts occupies   *)
(* the radio, a cancel ends what the radio does, if anything, and a        *)
(* connection made through advertising completes the advertising.          *)

Complete(op, status) == [ind |-> "CMP", op |-> op, status |-> status]
OpOf == [adv |-> "ADV", scan |-> "SCAN", conn |-> "CONNECT"]

NextCommand(c) == app.cmds # <<>> /\ Head(app.cmds).cmd = c /\ app' = [app EXCEPT !.cmds = Tail(@)]

StackStarts(c, act, param) ==
    /\ NextCommand(c)
    /\ \/ /\ radio.act = "none"
          /\ radio' = [radio EXCEPT !.act = act, !.param = param]
          /\ evts' = Append(evts, Complete(OpOf[act], "NO_ERROR"))
          /\ UNCHANGED fails
       \/ /\ radio.act # "none"
          /\ evts' = Append(evts, Complete(OpOf[act], "FAILED"))
          /\ UNCHANGED <<radio, fails>>
       \/ /\ radio.act = "none" /\ fails < MaxFails
          /\ fails' = fails + 1
          /\ evts' = Append(evts, Complete(OpOf[act], "FAILED"))
          /\ UNCHANGED radio

StackCancels ==
    /\ NextCommand("CANCEL")
    /\ radio' = [radio EXCEPT !.act = "none", !.param = NoAdv]
    /\ evts' = IF radio.act = "none" THEN evts
               ELSE Append(evts, Complete(OpOf[radio.act], "CANCELED"))
    /\ UNCHANGED fails

StackUpdates ==
    /\ NextCommand("UPDATE_ADV")
    /\ radio' = IF radio.act = "adv" THEN [radio EXCEPT !.param = Head(app.cmds).param] ELSE radio
    /\ evts' = Append(evts, Complete("UPDATE", "NO_ERROR"))
    /\ UNCHANGED fails

StackDisconnects ==
    /\ NextCommand("DISCONNECT")
    /\ LET c == Head(app.cmds).conidx
       IN  /\ radio' = [radio EXCEPT !.links = @ \ {c}]
           /\ evts' = IF c \in radio.links
                      THEN Append(evts, [ind |-> "DISCONNECTED", conidx |-> c]) ELSE evts
    /\ UNCHANGED fails

Stack ==
    /\ \/ app.cmds # <<>> /\ Head(app.cmds).cmd = "START_ADV"
             /\ StackStarts("START_ADV", "adv", Head(app.cmds).param)
       \/ StackStarts("START_SCAN", "scan", NoAdv)
       \/ StackStarts("START_CONNECT", "conn", NoAdv)
       \/ StackCancels
       \/ StackUpdates
       \/ StackDisconnects
    /\ odd' = odd + (fails' - fails)
    /\ UNCHANGED <<fill, slave, asked, calls, due, barred, past>>

\* Nothing is on its way: the thread has no mail and the stack no command.
Quiet == ~due /\ app.thread = "ready" /\ app.mail = <<>> /\ app.cmds = <<>> /\ evts = <<>>

\* Once two of them have come together, or the state machine was bypassed,
\* things stay as they are.
Since == IF Quiet /\ odd <= 1 /\ ~past THEN 0 ELSE odd

Call == calls < MaxCalls /\ calls' = calls + 1

Free(c) == c \notin radio.links /\ app.connect[c] = "DISCONNECTED"
           /\ \A i \in DOMAIN evts : (evts[i].ind # "CMP" => evts[i].conidx # c)

\* A client connects to the advertising bud.
PeerConnects(c) ==
    /\ Call /\ Free(c)
    /\ radio.act = "adv" /\ radio.param.advType = "UNDIRECT"
    /\ radio' = [act |-> "none", param |-> NoAdv, links |-> radio.links \cup {c}]
    /\ evts' = evts \o <<[ind |-> "CONNECTED", conidx |-> c], Complete("ADV", "NO_ERROR")>>
    /\ odd' = Since + 1
    /\ UNCHANGED <<app, fill, slave, asked, fails, due, barred, past>>

\* The connection the bud asked for is made, or given up; it takes far
\* longer than the thread needs for what it has to do.
ConnectEnds(c) ==
    /\ Call /\ Free(c)
    /\ radio.act = "conn" /\ app.state # "STARTING_CONNECT"
    /\ \/ /\ radio' = [act |-> "none", param |-> NoAdv, links |-> radio.links \cup {c}]
          /\ evts' = evts \o <<[ind |-> "CONNECTED", conidx |-> c], Complete("CONNECT", "NO_ERROR")>>
          /\ odd' = Since + 1
          /\ UNCHANGED fails
       \/ /\ fails < MaxFails /\ fails' = fails + 1
          /\ radio' = [radio EXCEPT !.act = "none"]
          /\ evts' = Append(evts, Complete("CONNECT", "FAILED"))
          /\ odd' = Since + 1
    /\ UNCHANGED <<app, fill, slave, asked, due, barred, past>>

\* A link lasts longer than the thread needs to settle.
PeerLeaves(c) ==
    /\ Call /\ c \in radio.links /\ Quiet
    /\ radio' = [radio EXCEPT !.links = @ \ {c}]
    /\ evts' = Append(evts, [ind |-> "DISCONNECTED", conidx |-> c])
    /\ odd' = Since
    /\ UNCHANGED <<app, fill, slave, asked, fails, due, barred, past>>
-----------------------------------------------------------------------------
(* Requests.                                                               *)

Change == Call /\ (app.thread = "ready" \/ OtherThreads) /\ UNCHANGED <<radio, evts, past, fails>>

Request == Change /\ odd' = Since /\ UNCHANGED <<due, barred>>

StartConnectableAdv(i) ==
    /\ Request /\ app' = Post(app, StartAdvCall(i)) /\ asked' = i
    /\ UNCHANGED <<fill, slave>>

\* A user's data changes and it asks for a refresh.
FillChanges(d) ==
    /\ Request /\ d # fill /\ fill' = d
    /\ app' = Post(app, StartAdvCall(Slow)) /\ asked' = Slow
    /\ UNCHANGED slave

StartScan ==
    /\ Request /\ app' = Post(app, Function("ble_start_scan")) /\ asked' = "other"
    /\ UNCHANGED <<fill, slave>>

StartConnect ==
    /\ Request /\ app' = Post(app, Function("ble_start_connect")) /\ asked' = "other"
    /\ UNCHANGED <<fill, slave>>

StopActivities ==
    /\ Request /\ app' = app_ble_stop_activities(app) /\ asked' = "other"
    /\ UNCHANGED <<fill, slave>>

ForceSwitch(user, onOff) ==
    /\ Request /\ app' = app_ble_force_switch_adv(app, user, onOff)
    /\ asked' = IF onOff THEN Slow ELSE "other"
    /\ UNCHANGED <<fill, slave>>

\* The role changed; after a role switch (ble_callback_roleswitch_complete)
\* or otherwise (ble_callback_role_update).
RoleChanges(newSlave, switched) ==
    /\ Request /\ slave' = newSlave
    /\ switched => RS \in app.advSwitch
    /\ LET e == IF switched THEN app_ble_force_switch_adv(app, RS, TRUE)
                ELSE Post(app, StartAdvCall(Slow))
       IN  app' = IF newSlave THEN app_ble_disconnect_all(e) ELSE e
    /\ asked' = Slow
    /\ UNCHANGED fill
-----------------------------------------------------------------------------
(* Changes of what may advertise that post no request.                     *)

\* The TWS link comes up, in a role.
TwsConnects(newSlave) ==
    /\ Change /\ ~slave /\ ~due
    /\ slave' = newSlave /\ due' = TRUE
    /\ UNCHANGED <<app, fill, barred, asked, odd>>

\* Advertising is barred: SCO starts or the bud powers off.
Bar ==
    /\ Change /\ ~barred /\ barred' = TRUE
    /\ UNCHANGED <<app, fill, slave, due, asked, odd>>

\* A reason not to advertise goes away; nothing is restarted.  A start still
\* pending, left by a refusal for one, may by now belong to other
\* connections: it counts like two connections out of turn.
Lift ==
    /\ Change /\ asked' = "other"
    /\ odd' = IF app.op = "START_ADV" THEN odd + 2 ELSE odd
    /\ UNCHANGED <<app, fill, due>>

TwsDisconnects == Lift /\ slave /\ slave' = FALSE /\ UNCHANGED barred

\* The stack becomes ready or SCO ends; the request that follows is a
\* StartConnectableAdv or a ForceSwitch of its own.
Unbar == Lift /\ barred /\ barred' = FALSE /\ UNCHANGED slave
-----------------------------------------------------------------------------
Init ==
    /\ app = [state |-> "STATE_IDLE", op |-> "OP_IDLE", advInfo |-> NoAdv, advParam |-> NoAdv,
              advSwitch |-> {}, ke |-> "READY", connect |-> [c \in Conidx |-> "DISCONNECTED"],
              thread |-> "ready", mail |-> <<>>, cmds |-> <<>>]
    /\ radio = [act |-> "none", param |-> NoAdv, links |-> {}]
    /\ evts = <<>>
    /\ fill \in Fills \ {NoUser}
    /\ slave \in BOOLEAN /\ due = FALSE /\ barred \in BOOLEAN
    /\ asked = "other" /\ odd = 0 /\ past = FALSE
    /\ calls = 0 /\ fails = 0

Thread == Mail \/ StartAdvertising \/ Event \/ TwsConnected

Outside ==
    \/ \E i \in Intervals : StartConnectableAdv(i)
    \/ \E d \in Fills : FillChanges(d)
    \/ StartScan \/ StartConnect \/ StopActivities
    \/ \E u \in SwitchUsers, b \in BOOLEAN : ForceSwitch(u, b)
    \/ \E r, b \in BOOLEAN : RoleChanges(r, b)
    \/ \E r \in BOOLEAN : TwsConnects(r)
    \/ TwsDisconnects \/ Bar \/ Unbar
    \/ \E c \in Conidx : PeerConnects(c) \/ ConnectEnds(c) \/ PeerLeaves(c)

Next == Thread \/ Stack \/ Outside

Spec == Init /\ [][Next]_vars /\ WF_vars(Thread) /\ WF_vars(Stack)
-----------------------------------------------------------------------------
\* The type invariant; the radio never advertises with parameters that
\* nobody has configured.
TypeOK ==
    /\ app.state \in States /\ app.op \in Ops
    /\ app.advInfo \in AdvParam \cup {NoAdv} /\ app.advParam \in AdvParam \cup {NoAdv}
    /\ app.advSwitch \subseteq SwitchUsers
    /\ app.connect \in [Conidx -> {"DISCONNECTED", "CONNECTED", "DISCONNECTING"}]
    /\ app.thread \in {"ready", "starting"}
    /\ radio.act \in {"none", "adv", "scan", "conn"} /\ radio.links \subseteq Conidx
    /\ radio.act = "adv" => radio.param \in AdvParam

StateOf == [none |-> "STATE_IDLE", adv |-> "ADVERTISING", scan |-> "SCANNING", conn |-> "CONNECTING"]

\* A completion is not matched with the operation it completes: one
\* connection, refusal or direct cancel that comes while another operation
\* is under way is still told apart, a second one is not.
InStep == odd <= 1

\* When nothing is on its way any more, bleModeEnv.state says what the
\* radio does: no request, completion or connection leaves the state
\* machine waiting in a starting or stopping state, or believing in an
\* activity that has ended.  An activity that the handler of a new TWS link
\* cancelled past the state machine is believed in for ever, and excepted.
StateAgrees == Quiet /\ InStep /\ ~past => app.state = StateOf[radio.act]

\* Once app_ble_force_switch_adv has switched advertising off, or the bud
\* has become a slave, the radio does not go on advertising, whatever was
\* being started or pending (ble_adv_is_allowed, ble_stop_all_activities,
\* app_tws_if_tws_connected_handler), and even past the state machine.
OffMeansOff == Quiet /\ InStep /\ Forbidden(app) => radio.act # "adv"

\* The last request to advertise is not lost behind the operation it met:
\* the radio ends up advertising with the interval and the data of that
\* request, not of an earlier one (op START_ADV, advParam, advInfo).  Not
\* so once an activity was cancelled past the state machine.
Advertised ==
    Quiet /\ odd = 0 /\ ~past /\ fails = 0 /\ asked \in Intervals
        /\ ble_adv_allowed(app) /\ fill # NoUser =>
        radio.act = "adv" /\ radio.param = ble_adv_config_param(app, asked)

\* With a connection the bud does not stay connectable, even if the
\* advertising was configured before the connection was made and started
\* after it (ble_adv_config_param, app_ble_connected_evt_handler).
NotConnectable ==
    Quiet /\ InStep /\ Connected(app) # {} /\ radio.act = "adv" =>
        radio.param.advType = "NON_CONN"

\* Activities that replace each other come to an end: no completion sets off
\* an operation that completes and sets it off again (ble_switch_activities,
\* ble_execute_pending_op).
Settles == <>[]Quiet
=============================================================================
