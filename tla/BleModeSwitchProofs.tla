------------------------- MODULE BleModeSwitchProofs -------------------------
(***************************************************************************)
(* Proofs about BleModeSwitch.  Whatever requests, completions, refusals   *)
(* and connections come in whatever order, the Bluetooth thread has a      *)
(* function for every mail, and starts to advertise only with parameters   *)
(* that ble_adv_config_param has made (IInv).  And once everything on its  *)
(* way has arrived, the state is what the radio does, advertising that is  *)
(* off is off, and what is advertised is what was asked for last.  For     *)
(* that, the commands under way are followed to where they lead (BInv).    *)
(***************************************************************************)
EXTENDS BleModeSwitch, SequenceTheorems, FiniteSetTheorems, TLAPS

Functions == {"ble_start_scan", "ble_start_connect", "ble_stop_all_activities",
              "ble_switch_activities", "ble_start_adv_failed_cb", "scan_failed",
              "connecting_failed"}
Mails == {Function(f) : f \in Functions} \cup {StartAdvCall(i) : i \in Intervals}
         \cup {Disconnect(c) : c \in Conidx}

Commands == {Command(c) : c \in {"CANCEL", "START_SCAN", "START_CONNECT"}}
            \cup [cmd : {"START_ADV", "UPDATE_ADV"}, param : AdvParam]
            \cup [cmd : {"DISCONNECT"}, conidx : Conidx]

Statuses == {"NO_ERROR", "CANCELED", "FAILED"}
Events == [ind : {"CMP"}, op : {"ADV", "SCAN", "CONNECT", "UPDATE"}, status : Statuses]
          \cup [ind : {"CONNECTED", "DISCONNECTED"}, conidx : Conidx]

Links == [Conidx -> {"DISCONNECTED", "CONNECTED", "DISCONNECTING"}]
KeStates == {"READY", "ADVERTISING", "SCANNING", "CONNECTING", "CONNECTED"}
AppSet == [state : States, op : Ops, advInfo : AdvParam \cup {NoAdv},
           advParam : AdvParam \cup {NoAdv}, advSwitch : SUBSET SwitchUsers, ke : KeStates,
           connect : Links, thread : {"ready", "starting"}, mail : Seq(Mails),
           cmds : Seq(Commands)]

\* Advertising that is pending or being started has been configured.
Configured(e) == (e.op = "START_ADV" \/ e.thread = "starting") => e.advParam \in AdvParam
Good(e) == e \in AppSet /\ Configured(e)

IInv ==
    /\ Good(app)
    /\ evts \in Seq(Events)
    /\ radio \in [act : {"none", "adv", "scan", "conn"}, param : AdvParam \cup {NoAdv},
                  links : SUBSET Conidx]
    /\ radio.act = "adv" => radio.param \in AdvParam
    /\ fill \in Fills /\ slave \in BOOLEAN
    /\ due \in BOOLEAN /\ barred \in BOOLEAN /\ past \in BOOLEAN
-----------------------------------------------------------------------------
(* The application side keeps its form.                                    *)

\* Changing state, operation and kernel state.
LEMMA SetState ==
    ASSUME NEW e \in AppSet, NEW s \in States, NEW o \in Ops, NEW k \in KeStates
    PROVE  /\ [e EXCEPT !.state = s, !.op = o, !.ke = k] \in AppSet
           /\ [e EXCEPT !.state = s, !.op = o, !.ke = k].advParam = e.advParam
           /\ [e EXCEPT !.state = s, !.op = o, !.ke = k].thread = e.thread
           /\ [e EXCEPT !.state = s, !.op = o, !.ke = k].op = o
           /\ [e EXCEPT !.state = s, !.op = o] = [e EXCEPT !.state = s, !.op = o, !.ke = e.ke]
           /\ [e EXCEPT !.state = s] = [e EXCEPT !.state = s, !.op = e.op, !.ke = e.ke]
           /\ [e EXCEPT !.op = o] = [e EXCEPT !.state = e.state, !.op = o, !.ke = e.ke]
           /\ [e EXCEPT !.state = s, !.ke = k] = [e EXCEPT !.state = s, !.op = e.op, !.ke = k]
BY DEF AppSet

\* A mail queued for the Bluetooth thread.
LEMMA PostKeeps ==
    ASSUME NEW e, Good(e), NEW m \in Mails
    PROVE  Good(Post(e, m))
<1>1. e \in AppSet /\ e.mail \in Seq(Mails)
  BY DEF Good, AppSet
<1>2. Append(e.mail, m) \in Seq(Mails)
  BY <1>1
<1>3. [e EXCEPT !.mail = Append(e.mail, m)] \in AppSet
  BY <1>1, <1>2 DEF AppSet
<1>q. QED BY <1>1, <1>3 DEF Good, Configured, Post, AppSet

\* A command given to the stack.
LEMMA SendKeeps ==
    ASSUME NEW e, Good(e), NEW c \in Commands
    PROVE  Good(Send(e, c))
<1>1. e \in AppSet /\ e.cmds \in Seq(Commands)
  BY DEF Good, AppSet
<1>2. Append(e.cmds, c) \in Seq(Commands)
  BY <1>1
<1>3. [e EXCEPT !.cmds = Append(e.cmds, c)] \in AppSet
  BY <1>1, <1>2 DEF AppSet
<1>q. QED BY <1>1, <1>3 DEF Good, Configured, Send, AppSet

\* State, operation and kernel state change; an operation to advertise is
\* only set once it is configured.
LEMMA MoveKeeps ==
    ASSUME NEW e, Good(e), NEW s \in States, NEW o \in Ops, NEW k \in KeStates,
           o = "START_ADV" => e.advParam \in AdvParam
    PROVE  /\ Good([e EXCEPT !.state = s, !.op = o, !.ke = k])
           /\ Good([e EXCEPT !.state = s, !.op = o])
           /\ Good([e EXCEPT !.op = o])
<1>1. e \in AppSet /\ e.state \in States /\ e.ke \in KeStates
  BY DEF Good, AppSet
<1>2. ASSUME NEW u \in States, NEW v \in KeStates
      PROVE  Good([e EXCEPT !.state = u, !.op = o, !.ke = v])
  <2>0. PICK f : f = [e EXCEPT !.state = u, !.op = o, !.ke = v]
    OBVIOUS
  <2>1. f \in AppSet /\ f.advParam = e.advParam /\ f.thread = e.thread /\ f.op = o
    BY <1>1, <2>0 DEF AppSet
  <2>2. Good(f)
    BY <2>1 DEF Good, Configured
  <2>q. QED BY <2>0, <2>2
<1>3. /\ [e EXCEPT !.state = s, !.op = o] = [e EXCEPT !.state = s, !.op = o, !.ke = e.ke]
      /\ [e EXCEPT !.op = o] = [e EXCEPT !.state = e.state, !.op = o, !.ke = e.ke]
  BY <1>1, SetState
<1>q. QED BY <1>1, <1>2, <1>3

\* An operation is made pending.
LEMMA OpKeeps ==
    ASSUME NEW e, Good(e), NEW o \in Ops, o = "START_ADV" => e.advParam \in AdvParam
    PROVE  Good([e EXCEPT !.op = o])
<1>1. e.state \in States /\ e.ke \in KeStates
  BY DEF Good, AppSet
<1>q. QED BY <1>1, MoveKeeps

\* The state changes and the pending operation stays.
LEMMA StateKeeps ==
    ASSUME NEW e, Good(e), NEW s \in States, NEW k \in KeStates
    PROVE  Good([e EXCEPT !.state = s]) /\ Good([e EXCEPT !.state = s, !.ke = k])
<1>1. e \in AppSet /\ e.op \in Ops /\ e.ke \in KeStates /\ (e.op = "START_ADV" => e.advParam \in AdvParam)
  BY DEF Good, AppSet, Configured
<1>2. /\ [e EXCEPT !.state = s] = [e EXCEPT !.state = s, !.op = e.op, !.ke = e.ke]
      /\ [e EXCEPT !.state = s, !.ke = k] = [e EXCEPT !.state = s, !.op = e.op, !.ke = k]
  BY <1>1, SetState
<1>3. /\ Good([e EXCEPT !.state = s, !.op = e.op, !.ke = e.ke])
      /\ Good([e EXCEPT !.state = s, !.op = e.op, !.ke = k])
  BY <1>1, MoveKeeps
<1>q. QED BY <1>2, <1>3
-----------------------------------------------------------------------------
(* The functions of the Bluetooth thread.                                  *)

\* Cancelling the running activity.
LEMMA StopRunningKeeps ==
    ASSUME NEW e, Good(e), e.state \in Running, NEW o \in Ops,
           o = "START_ADV" => e.advParam \in AdvParam
    PROVE  Good(StopRunning(e, o))
<1>1. PICK s : s = StoppingOf[e.state]
  OBVIOUS
<1>2. s \in States
  BY <1>1 DEF StoppingOf, Running, States
<1>3. PICK f : f = [e EXCEPT !.state = s, !.op = o, !.ke = "READY"]
  OBVIOUS
<1>4. Good(f)
  BY <1>2, <1>3, MoveKeeps DEF KeStates
<1>5. Command("CANCEL") \in Commands
  BY DEF Commands
<1>6. StopRunning(e, o) = Send(f, Command("CANCEL"))
  BY <1>1, <1>3 DEF StopRunning, appm_stop_advertising
<1>q. QED BY <1>4, <1>5, <1>6, SendKeeps

\* ble_start_adv, with parameters that have been configured.
LEMMA StartAdvKeeps ==
    ASSUME NEW e, Good(e), e.advParam \in AdvParam
    PROVE  Good(ble_start_adv(e))
<1>1. CASE e.state \in Running
  <2>1. ble_start_adv(e) = StopRunning(e, "START_ADV")
    BY <1>1 DEF ble_start_adv, Running
  <2>2. "START_ADV" \in Ops
    BY DEF Ops
  <2>q. QED BY <1>1, <2>1, <2>2, StopRunningKeeps
<1>2. CASE e.state = "STATE_IDLE" /\ ble_adv_allowed(e)
  <2>1. PICK f : f = [e EXCEPT !.thread = "starting"]
    OBVIOUS
  <2>2. ble_start_adv(e) = f
    BY <1>2, <2>1 DEF ble_start_adv, Running
  <2>3. Good(f)
    BY <2>1 DEF Good, AppSet, Configured
  <2>q. QED BY <2>2, <2>3
<1>3. CASE e.state = "STATE_IDLE" /\ ~ble_adv_allowed(e)
  <2>1. PICK o : o = IF e.op = "START_ADV" THEN "OP_IDLE" ELSE e.op
    OBVIOUS
  <2>2. ble_start_adv(e) = [e EXCEPT !.op = o]
    BY <1>3, <2>1 DEF ble_start_adv, Running
  <2>3. o \in Ops /\ e.state \in States /\ e.ke \in KeStates
    BY <2>1 DEF Good, AppSet, Ops
  <2>q. QED BY <2>2, <2>3, OpKeeps
<1>4. CASE e.state \notin Running /\ e.state # "STATE_IDLE"
  <2>1. ble_start_adv(e) = [e EXCEPT !.op = "START_ADV"]
    BY <1>4 DEF ble_start_adv
  <2>2. "START_ADV" \in Ops /\ e.state \in States /\ e.ke \in KeStates
    BY DEF Good, AppSet, Ops
  <2>q. QED BY <2>1, <2>2, OpKeeps
<1>q. QED BY <1>1, <1>2, <1>3, <1>4

\* ble_start_scan and ble_start_connect.
LEMMA StartOtherKeeps ==
    ASSUME NEW e, Good(e)
    PROVE  Good(ble_start_scan(e)) /\ Good(ble_start_connect(e))
<1>0. /\ {"START_SCAN", "START_CONNECT"} \subseteq Ops /\ e.state \in States /\ e.ke \in KeStates
      /\ {"STARTING_SCAN", "STARTING_CONNECT"} \subseteq States
      /\ {"SCANNING", "CONNECTING"} \subseteq KeStates
      /\ Command("START_SCAN") \in Commands /\ Command("START_CONNECT") \in Commands
  BY DEF Good, AppSet, Ops, States, KeStates, Commands
<1>1. CASE e.state \in Running
  <2>1. Good(StopRunning(e, "START_SCAN")) /\ Good(StopRunning(e, "START_CONNECT"))
    BY <1>0, <1>1, StopRunningKeeps
  <2>2. ble_start_scan(e) = StopRunning(e, "START_SCAN")
    BY <1>1 DEF ble_start_scan, Running
  <2>3. Good([e EXCEPT !.op = "START_CONNECT"])
    BY <1>0, MoveKeeps
  <2>4. \/ ble_start_connect(e) = StopRunning(e, "START_CONNECT")
        \/ ble_start_connect(e) = [e EXCEPT !.op = "START_CONNECT"]
    BY <1>1 DEF ble_start_connect, Running
  <2>q. QED BY <2>1, <2>2, <2>3, <2>4
<1>2. CASE e.state = "STATE_IDLE"
  <2>1. Good([e EXCEPT !.state = "STARTING_SCAN", !.ke = "SCANNING"])
    BY <1>0, StateKeeps
  <2>2. Good([e EXCEPT !.state = "STARTING_CONNECT", !.op = "START_CONNECT", !.ke = "CONNECTING"])
    BY <1>0, MoveKeeps
  <2>3. ble_start_scan(e) = Send([e EXCEPT !.state = "STARTING_SCAN", !.ke = "SCANNING"],
                                 Command("START_SCAN"))
    BY <1>2 DEF ble_start_scan, Running
  <2>4. ble_start_connect(e) =
            Send([e EXCEPT !.state = "STARTING_CONNECT", !.op = "START_CONNECT", !.ke = "CONNECTING"],
                 Command("START_CONNECT"))
    BY <1>2 DEF ble_start_connect
  <2>q. QED BY <1>0, <2>1, <2>2, <2>3, <2>4, SendKeeps
<1>3. CASE e.state \notin Running /\ e.state # "STATE_IDLE"
  <2>1. /\ ble_start_scan(e) = [e EXCEPT !.op = "START_SCAN"]
        /\ ble_start_connect(e) = [e EXCEPT !.op = "START_CONNECT"]
    BY <1>3 DEF ble_start_scan, ble_start_connect, Running
  <2>2. Good([e EXCEPT !.op = "START_SCAN"]) /\ Good([e EXCEPT !.op = "START_CONNECT"])
    BY <1>0, MoveKeeps
  <2>q. QED BY <2>1, <2>2
<1>q. QED BY <1>1, <1>2, <1>3

\* ble_stop_all_activities.
LEMMA StopAllKeeps ==
    ASSUME NEW e, Good(e)
    PROVE  Good(ble_stop_all_activities(e))
<1>0. "OP_IDLE" \in Ops /\ e.state \in States /\ e.ke \in KeStates
  BY DEF Good, AppSet, Ops
<1>1. CASE e.state \in Running
  <2>1. ble_stop_all_activities(e) = StopRunning(e, "OP_IDLE")
    BY <1>1 DEF ble_stop_all_activities, Running, StopOf
  <2>q. QED BY <1>0, <1>1, <2>1, StopRunningKeeps
<1>2. CASE e.state \in DOMAIN StopOf
  <2>1. PICK o : o = StopOf[e.state]
    OBVIOUS
  <2>2. o \in Ops /\ o # "START_ADV"
    BY <1>2, <2>1 DEF StopOf, Ops
  <2>3. ble_stop_all_activities(e) = [e EXCEPT !.op = o]
    BY <1>2, <2>1 DEF ble_stop_all_activities, Running, StopOf
  <2>q. QED BY <1>0, <2>2, <2>3, OpKeeps
<1>3. CASE e.state \notin Running /\ e.state \notin DOMAIN StopOf
  <2>1. ble_stop_all_activities(e) = e \/ ble_stop_all_activities(e) = [e EXCEPT !.op = "OP_IDLE"]
    BY <1>3 DEF ble_stop_all_activities
  <2>q. QED BY <1>0, <2>1, OpKeeps
<1>q. QED BY <1>1, <1>2, <1>3

\* ble_execute_pending_op: advertising is only pending once configured.
LEMMA ExecuteKeeps ==
    ASSUME NEW e, Good(e)
    PROVE  Good(ble_execute_pending_op(e))
<1>0. PICK f : f = [e EXCEPT !.op = "OP_IDLE"]
  OBVIOUS
<1>1. Good(f) /\ f.advParam = e.advParam
  <2>1. "OP_IDLE" \in Ops /\ e.state \in States /\ e.ke \in KeStates
    BY DEF Good, AppSet, Ops
  <2>2. Good(f)
    BY <1>0, <2>1, MoveKeeps
  <2>q. QED BY <1>0, <2>2 DEF Good, AppSet
<1>2. CASE e.op = "START_ADV"
  <2>1. ble_execute_pending_op(e) = ble_start_adv(f)
    BY <1>0, <1>2 DEF ble_execute_pending_op
  <2>2. f.advParam \in AdvParam
    BY <1>1, <1>2 DEF Good, Configured
  <2>q. QED BY <1>1, <2>1, <2>2, StartAdvKeeps
<1>3. CASE e.op # "START_ADV"
  <2>1. ble_execute_pending_op(e) \in
            {f, ble_start_scan(f), ble_start_connect(f), ble_stop_all_activities(f)}
    BY <1>0, <1>3 DEF ble_execute_pending_op
  <2>q. QED BY <1>1, <2>1, StartOtherKeeps, StopAllKeeps
<1>q. QED BY <1>2, <1>3

\* ble_switch_activities, which takes a completion for that of the operation
\* in progress.
LEMMA SwitchKeeps ==
    ASSUME NEW e, Good(e)
    PROVE  Good(ble_switch_activities(e))
<1>1. PICK s : s = CASE e.state = "STARTING_ADV" -> "ADVERTISING"
                     [] e.state = "STARTING_SCAN" -> "SCANNING"
                     [] e.state = "STARTING_CONNECT" -> "CONNECTING"
                     [] e.state \in {"STOPPING_ADV", "STOPPING_SCAN", "STOPPING_CONNECT"} -> "STATE_IDLE"
                     [] OTHER -> e.state
  OBVIOUS
<1>2. s \in States /\ e.ke \in KeStates
  BY <1>1 DEF Good, AppSet, States, Running
<1>3. ble_switch_activities(e) = ble_execute_pending_op([e EXCEPT !.state = s])
  BY <1>1 DEF ble_switch_activities
<1>4. Good([e EXCEPT !.state = s])
  BY <1>2, StateKeeps
<1>q. QED BY <1>3, <1>4, ExecuteKeeps

\* The failure callbacks.
LEMMA FailedKeeps ==
    ASSUME NEW e, Good(e), NEW S
    PROVE  Good(FailedIn(e, S))
<1>1. PICK s : s = IF e.state \in S THEN "STATE_IDLE" ELSE e.state
  OBVIOUS
<1>2. s \in States /\ e.ke \in KeStates
  BY <1>1 DEF Good, AppSet, States
<1>3. FailedIn(e, S) = [e EXCEPT !.state = s]
  BY <1>1 DEF FailedIn
<1>q. QED BY <1>2, <1>3, StateKeeps

\* app_ble_stop_activities.
LEMMA StopActivitiesKeeps ==
    ASSUME NEW e, Good(e)
    PROVE  Good(app_ble_stop_activities(e))
<1>1. Function("ble_stop_all_activities") \in Mails
  BY DEF Mails, Functions
<1>q. QED BY <1>1, PostKeeps DEF app_ble_stop_activities

\* ble_adv_refreshing: the update carries configured parameters too.
LEMMA RefreshingKeeps ==
    ASSUME NEW e, Good(e), e.advParam \in AdvParam
    PROVE  Good(ble_adv_refreshing(e))
<1>1. PICK f : f = [e EXCEPT !.advInfo = e.advParam, !.state = "STARTING_ADV"]
  OBVIOUS
<1>2. Good(f)
  BY <1>1 DEF Good, AppSet, Configured, States
<1>3. PICK c : c = [cmd |-> "UPDATE_ADV", param |-> e.advParam]
  OBVIOUS
<1>4. c \in Commands
  BY <1>3 DEF Commands
<1>5. ble_adv_refreshing(e) \in {Send(f, c), ble_start_adv(e)}
  BY <1>1, <1>3 DEF ble_adv_refreshing
<1>q. QED BY <1>2, <1>4, <1>5, SendKeeps, StartAdvKeeps

\* app_ble_start_adv, which configures before it starts.
LEMMA AppStartAdvKeeps ==
    ASSUME NEW e, Good(e), NEW i \in Intervals, fill \in Fills
    PROVE  Good(app_ble_start_adv(e, i))
<1>1. PICK p : p = ble_adv_config_param(e, i)
  OBVIOUS
<1>2. p \in AdvParam
  BY <1>1 DEF ble_adv_config_param, AdvParam
<1>3. PICK f : f = [e EXCEPT !.advParam = p]
  OBVIOUS
<1>4. Good(f) /\ f.advParam \in AdvParam
  BY <1>2, <1>3 DEF Good, AppSet, Configured
<1>5. app_ble_start_adv(e, i) \in
          {app_ble_stop_activities(e), app_ble_stop_activities(f), f, ble_adv_refreshing(f)}
  BY <1>1, <1>3 DEF app_ble_start_adv
<1>q. QED BY <1>4, <1>5, StopActivitiesKeeps, RefreshingKeeps

\* Every mail names a function of the thread, which keeps its data.
LEMMA ProcessKeeps ==
    ASSUME NEW e, Good(e), NEW m \in Mails, fill \in Fills
    PROVE  Good(Process(e, m))
<1>1. CASE \E i \in Intervals : m = StartAdvCall(i)
  <2>1. PICK i \in Intervals : m = StartAdvCall(i)
    BY <1>1
  <2>2. Process(e, m) = app_ble_start_adv(e, i)
    BY <2>1 DEF Process, StartAdvCall
  <2>q. QED BY <2>2, AppStartAdvKeeps
<1>2. CASE \E c \in Conidx : m = Disconnect(c)
  <2>1. PICK c \in Conidx : m = Disconnect(c)
    BY <1>2
  <2>2. Process(e, m) = appm_disconnect(e, c)
    BY <2>1 DEF Process, Disconnect
  <2>3. PICK d : d = [cmd |-> "DISCONNECT", conidx |-> c]
    OBVIOUS
  <2>4. d \in Commands
    BY <2>3 DEF Commands
  <2>5. appm_disconnect(e, c) \in {e, Send(e, d)}
    BY <2>3 DEF appm_disconnect
  <2>q. QED BY <2>2, <2>4, <2>5, SendKeeps
<1>3. CASE \E f \in Functions : m = Function(f)
  <2>1. PICK f \in Functions : m = Function(f)
    BY <1>3
  <2>2. m.func = f
    BY <2>1 DEF Function
  <2>3. f \in {"ble_start_scan", "ble_start_connect", "ble_stop_all_activities"} =>
            Process(e, m) \in {ble_start_scan(e), ble_start_connect(e), ble_stop_all_activities(e)}
    BY <2>2 DEF Process
  <2>4. f \in {"ble_switch_activities", "ble_start_adv_failed_cb"} =>
            Process(e, m) \in {ble_switch_activities(e), ble_start_adv_failed_cb(e)}
    BY <2>2 DEF Process
  <2>5. f \in {"scan_failed", "connecting_failed"} =>
            Process(e, m) \in {app_ble_scanning_starting_failed_handler(e),
                               app_ble_connecting_failed_handler(e)}
    BY <2>2 DEF Process
  <2>6. /\ Good(ble_start_adv_failed_cb(e)) /\ Good(app_ble_scanning_starting_failed_handler(e))
        /\ Good(app_ble_connecting_failed_handler(e))
    BY FailedKeeps DEF ble_start_adv_failed_cb, app_ble_scanning_starting_failed_handler,
                       app_ble_connecting_failed_handler
  <2>q. QED BY <2>3, <2>4, <2>5, <2>6, StartOtherKeeps, StopAllKeeps, SwitchKeeps DEF Functions
<1>q. QED BY <1>1, <1>2, <1>3 DEF Mails
-----------------------------------------------------------------------------
(* Events and requests.                                                    *)

\* The completions of the stack.
LEMMA CompletionKeeps ==
    ASSUME NEW e, Good(e), NEW o, NEW s
    PROVE  Good(gapm_cmp_evt_handler(e, o, s))
<1>1. PICK f : f = [e EXCEPT !.advInfo = NoAdv]
  OBVIOUS
<1>2. Good(f)
  BY <1>1 DEF Good, AppSet, Configured
<1>3. \A g \in {"ble_switch_activities", "ble_start_adv_failed_cb", "scan_failed", "connecting_failed"} :
          Function(g) \in Mails
  BY DEF Mails, Functions
<1>4. gapm_cmp_evt_handler(e, o, s) \in
          {Post(e, Function("ble_switch_activities")), Post(f, Function("ble_switch_activities")),
           Post(f, Function("ble_start_adv_failed_cb")), Post(e, Function("scan_failed")),
           Post(e, Function("connecting_failed"))}
  BY <1>1 DEF gapm_cmp_evt_handler, app_advertising_stopped
<1>q. QED BY <1>2, <1>3, <1>4, PostKeeps

\* A connection is made or lost.
LEMMA ConnectionKeeps ==
    ASSUME NEW e, Good(e), NEW c \in Conidx
    PROVE  /\ Good(gapc_connection_req_ind_handler(e, c))
           /\ Good(gapc_disconnect_ind_handler(e, c))
<1>0. StartAdvCall(Slow) \in Mails
  BY DEF Mails, Intervals
<1>1. PICK f : f = [e EXCEPT !.connect[c] = "CONNECTED", !.ke = "CONNECTED"]
  OBVIOUS
<1>2. Good(f)
  BY <1>1 DEF Good, AppSet, Configured, Links, KeStates
<1>3. PICK g : g = [e EXCEPT !.connect[c] = "DISCONNECTED", !.ke = "READY"]
  OBVIOUS
<1>4. Good(g)
  BY <1>3 DEF Good, AppSet, Configured, Links, KeStates
<1>5. PICK s : s = IF f.state \in {"ADVERTISING", "STARTING_ADV", "CONNECTING"} THEN "STATE_IDLE"
                   ELSE f.state
  OBVIOUS
<1>6. PICK o : o = IF f.op = "START_CONNECT" THEN "OP_IDLE" ELSE f.op
  OBVIOUS
<1>7. /\ s \in States /\ o \in Ops /\ (o = "START_ADV" => f.advParam \in AdvParam)
      /\ f.ke \in KeStates
  BY <1>2, <1>5, <1>6 DEF Good, AppSet, Configured, States, Ops
<1>8. Good([f EXCEPT !.state = s, !.op = o])
  BY <1>2, <1>7, MoveKeeps
<1>9. gapc_connection_req_ind_handler(e, c) = Post([f EXCEPT !.state = s, !.op = o], StartAdvCall(Slow))
  BY <1>1, <1>5, <1>6 DEF gapc_connection_req_ind_handler, app_ble_connected_evt_handler
<1>10. gapc_disconnect_ind_handler(e, c) = Post(g, StartAdvCall(Slow))
  BY <1>3 DEF gapc_disconnect_ind_handler
<1>q. QED BY <1>0, <1>4, <1>8, <1>9, <1>10, PostKeeps

\* The connections can be put in an order.
LEMMA DisconnectOrder ==
    ASSUME NEW up \in SUBSET Conidx
    PROVE  /\ Cardinality(up) \in Nat
           /\ (CHOOSE s \in [1 .. Cardinality(up) -> up] : {s[i] : i \in DOMAIN s} = up)
                  \in [1 .. Cardinality(up) -> up]
<1>1. PICK n : n = Cardinality(up)
  OBVIOUS
<1>2. IsFiniteSet(up)
  BY BleAssumption, FS_Subset
<1>3. n \in Nat /\ ExistsBijection(1 .. n, up)
  BY <1>1, <1>2, FS_CardinalityType
<1>4. PICK s \in Bijection(1 .. n, up) : TRUE
  BY <1>3 DEF ExistsBijection
<1>5. s \in [1 .. n -> up] /\ \A c \in up : \E i \in 1 .. n : s[i] = c
  BY <1>4 DEF Bijection, Injection, Surjection
<1>6. \E x \in [1 .. n -> up] : {x[i] : i \in DOMAIN x} = up
  BY <1>5
<1>q. QED BY <1>1, <1>3, <1>6

\* app_ble_disconnect_all: a mail for every connection.
LEMMA DisconnectAllKeeps ==
    ASSUME NEW e, Good(e)
    PROVE  Good(app_ble_disconnect_all(e))
<1>1. PICK up : up = {c \in Conidx : e.connect[c] = "CONNECTED"}
  OBVIOUS
<1>2. PICK n : n = Cardinality(up)
  OBVIOUS
<1>3. PICK order : order = CHOOSE s \in [1 .. n -> up] : {s[i] : i \in DOMAIN s} = up
  OBVIOUS
<1>4. n \in Nat /\ order \in [1 .. n -> up] /\ up \in SUBSET Conidx
  BY <1>1, <1>2, <1>3, DisconnectOrder
<1>5. PICK new : new = [i \in DOMAIN order |-> Disconnect(order[i])]
  OBVIOUS
<1>6. new \in Seq(Mails)
  <2>1. DOMAIN order = 1 .. n /\ \A i \in 1 .. n : order[i] \in Conidx
    BY <1>4
  <2>2. \A c \in Conidx : Disconnect(c) \in Mails
    BY DEF Mails
  <2>3. \A i \in 1 .. n : Disconnect(order[i]) \in Mails
    BY <2>1, <2>2
  <2>4. new \in [1 .. n -> Mails]
    BY <1>5, <2>1, <2>3
  <2>q. QED BY <1>4, <2>4, SeqDef
<1>7. e.mail \o new \in Seq(Mails)
  BY <1>6, ConcatProperties DEF Good, AppSet
<1>8. PICK k : k = [c \in Conidx |-> IF c \in up THEN "DISCONNECTING" ELSE e.connect[c]]
  OBVIOUS
<1>9. k \in Links
  BY <1>8 DEF Good, AppSet, Links
<1>10. PICK f : f = [e EXCEPT !.connect = k, !.mail = e.mail \o new]
  OBVIOUS
<1>11. Good(f)
  BY <1>7, <1>9, <1>10 DEF Good, AppSet, Configured
<1>12. app_ble_disconnect_all(e) = f
  BY <1>1, <1>2, <1>3, <1>5, <1>8, <1>10 DEF app_ble_disconnect_all
<1>q. QED BY <1>11, <1>12

\* app_ble_force_switch_adv.
LEMMA ForceSwitchKeeps ==
    ASSUME NEW e, Good(e), NEW u \in SwitchUsers, NEW b
    PROVE  Good(app_ble_force_switch_adv(e, u, b))
<1>0. StartAdvCall(Slow) \in Mails
  BY DEF Mails, Intervals
<1>1. PICK f : f = [e EXCEPT !.advSwitch = @ \ {u}]
  OBVIOUS
<1>2. PICK g : g = [e EXCEPT !.advSwitch = @ \cup {u}]
  OBVIOUS
<1>3. Good(f) /\ Good(g)
  BY <1>1, <1>2 DEF Good, AppSet, Configured
<1>4. app_ble_force_switch_adv(e, u, b) \in
          {Post(f, StartAdvCall(Slow)), e, app_ble_stop_activities(g),
           app_ble_disconnect_all(app_ble_stop_activities(g))}
  BY <1>1, <1>2 DEF app_ble_force_switch_adv
<1>q. QED BY <1>0, <1>3, <1>4, PostKeeps, StopActivitiesKeeps, DisconnectAllKeeps
-----------------------------------------------------------------------------
(* The steps.                                                              *)

\* A mail or an event handled, advertising started.
LEMMA ThreadKeeps ==
    ASSUME IInv, Thread
    PROVE  IInv'
<1>0. Good(app) /\ evts \in Seq(Events) /\ fill \in Fills /\ slave \in BOOLEAN
  BY DEF IInv
<1>1. CASE Mail
  <2>1. app.mail \in Seq(Mails) /\ app.mail # <<>>
    BY <1>0, <1>1 DEF Mail, Good, AppSet
  <2>2. Head(app.mail) \in Mails /\ Tail(app.mail) \in Seq(Mails)
    BY <2>1
  <2>3. PICK e : e = [app EXCEPT !.mail = Tail(app.mail)]
    OBVIOUS
  <2>4. Good(e)
    BY <1>0, <2>2, <2>3 DEF Good, AppSet, Configured
  <2>5. app' = Process(e, Head(app.mail))
    BY <1>1, <2>3 DEF Mail
  <2>6. Good(app')
    BY <1>0, <2>2, <2>4, <2>5, ProcessKeeps
  <2>q. QED BY <1>1, <2>6 DEF IInv, Mail
<1>2. CASE StartAdvertising
  <2>1. app.advParam \in AdvParam
    BY <1>0, <1>2 DEF StartAdvertising, Good, Configured
  <2>2. PICK e : e = [app EXCEPT !.thread = "ready", !.advInfo = app.advParam,
                                 !.state = "STARTING_ADV"]
    OBVIOUS
  <2>3. Good(e)
    BY <1>0, <2>1, <2>2 DEF Good, AppSet, Configured, States
  <2>4. PICK f : f = [e EXCEPT !.ke = "ADVERTISING"]
    OBVIOUS
  <2>5. Good(f)
    BY <2>3, <2>4 DEF Good, AppSet, Configured, KeStates
  <2>6. StartAdvCommand(app.advParam) \in Commands
    BY <2>1 DEF StartAdvCommand, Commands
  <2>7. app' \in {e, Send(f, StartAdvCommand(app.advParam))}
    BY <1>2, <2>2, <2>4 DEF StartAdvertising
  <2>8. Good(app')
    BY <2>3, <2>5, <2>6, <2>7, SendKeeps
  <2>q. QED BY <1>2, <2>8 DEF IInv, StartAdvertising
<1>3. CASE Event
  <2>1. Head(evts) \in Events /\ Tail(evts) \in Seq(Events)
    BY <1>0, <1>3 DEF Event
  <2>2. PICK v : v = Head(evts)
    OBVIOUS
  <2>3. \/ v.ind = "CMP" /\ app' = gapm_cmp_evt_handler(app, v.op, v.status)
        \/ v.conidx \in Conidx /\ app' = gapc_connection_req_ind_handler(app, v.conidx)
        \/ v.conidx \in Conidx /\ app' = gapc_disconnect_ind_handler(app, v.conidx)
    BY <1>3, <2>1, <2>2 DEF Event, Events
  <2>4. Good(app')
    BY <1>0, <2>3, CompletionKeeps, ConnectionKeeps
  <2>q. QED BY <1>3, <2>1, <2>4 DEF IInv, Event
<1>4. CASE TwsConnected
  <2>1. PICK e : e = [app EXCEPT !.ke = "READY"]
    OBVIOUS
  <2>2. Good(e) /\ Command("CANCEL") \in Commands
    BY <1>0, <2>1 DEF Good, AppSet, Configured, KeStates, Commands
  <2>3. app' \in {app, Send(e, Command("CANCEL"))}
    BY <1>4, <2>1 DEF TwsConnected, app_tws_if_tws_connected_handler, appm_stop_advertising
  <2>4. Good(app')
    BY <1>0, <2>2, <2>3, SendKeeps
  <2>5. due' \in BOOLEAN /\ past' \in BOOLEAN
    BY <1>4 DEF TwsConnected, IInv
  <2>q. QED BY <1>4, <2>4, <2>5 DEF IInv, TwsConnected
<1>q. QED BY <1>1, <1>2, <1>3, <1>4 DEF Thread

\* The stack takes the next command.
LEMMA CommandTaken ==
    ASSUME Good(app), NEW c, NextCommand(c)
    PROVE  Good(app') /\ Head(app.cmds) \in Commands /\ Head(app.cmds).cmd = c
<1>1. app.cmds \in Seq(Commands) /\ app.cmds # <<>> /\ Head(app.cmds).cmd = c
  BY DEF NextCommand, Good, AppSet
<1>2. Head(app.cmds) \in Commands /\ Tail(app.cmds) \in Seq(Commands)
  BY <1>1
<1>3. PICK e : e = [app EXCEPT !.cmds = Tail(app.cmds)]
  OBVIOUS
<1>4. Good(e)
  BY <1>2, <1>3 DEF Good, AppSet, Configured
<1>q. QED BY <1>1, <1>2, <1>3, <1>4 DEF NextCommand

\* The stack answers.
LEMMA StackKeeps ==
    ASSUME IInv, Stack
    PROVE  IInv'
<1>0. /\ Good(app) /\ evts \in Seq(Events) /\ fill' = fill /\ slave' = slave
      /\ radio \in [act : {"none", "adv", "scan", "conn"}, param : AdvParam \cup {NoAdv},
                    links : SUBSET Conidx]
      /\ radio.act = "adv" => radio.param \in AdvParam
      /\ fill \in Fills /\ slave \in BOOLEAN
      /\ due' = due /\ barred' = barred /\ past' = past
      /\ due \in BOOLEAN /\ barred \in BOOLEAN /\ past \in BOOLEAN
  BY DEF IInv, Stack
<1>1. \A o \in {"ADV", "SCAN", "CONNECT", "UPDATE"}, s \in Statuses :
          Append(evts, Complete(o, s)) \in Seq(Events)
  <2>1. \A o \in {"ADV", "SCAN", "CONNECT", "UPDATE"}, s \in Statuses : Complete(o, s) \in Events
    BY DEF Complete, Events
  <2>q. QED BY <1>0, <2>1
<1>2. ASSUME NEW c, NEW a \in {"adv", "scan", "conn"}, NEW p \in AdvParam \cup {NoAdv},
             a = "adv" => p \in AdvParam, StackStarts(c, a, p)
      PROVE  IInv'
  <2>1. Good(app')
    BY <1>0, <1>2, CommandTaken DEF StackStarts
  <2>2. OpOf[a] \in {"ADV", "SCAN", "CONNECT", "UPDATE"} /\ {"NO_ERROR", "FAILED"} \subseteq Statuses
    BY DEF OpOf, Statuses
  <2>3. evts' \in Seq(Events)
    BY <1>1, <1>2, <2>2 DEF StackStarts
  <2>4. radio' = radio \/ radio' = [radio EXCEPT !.act = a, !.param = p]
    BY <1>2 DEF StackStarts
  <2>5. /\ radio' \in [act : {"none", "adv", "scan", "conn"}, param : AdvParam \cup {NoAdv},
                       links : SUBSET Conidx]
        /\ radio'.act = "adv" => radio'.param \in AdvParam
    BY <1>0, <1>2, <2>4
  <2>q. QED BY <1>0, <2>1, <2>3, <2>5 DEF IInv
<1>3. CASE app.cmds # <<>> /\ Head(app.cmds).cmd = "START_ADV"
           /\ StackStarts("START_ADV", "adv", Head(app.cmds).param)
  <2>1. Head(app.cmds) \in Commands /\ Head(app.cmds).cmd = "START_ADV"
    BY <1>0, <1>3, CommandTaken DEF StackStarts
  <2>2. Head(app.cmds).param \in AdvParam
    BY <2>1 DEF Commands, Command
  <2>q. QED BY <1>2, <1>3, <2>2
<1>4. CASE StackStarts("START_SCAN", "scan", NoAdv) \/ StackStarts("START_CONNECT", "conn", NoAdv)
  BY <1>2, <1>4
<1>5. CASE StackCancels
  <2>1. Good(app')
    BY <1>0, <1>5, CommandTaken DEF StackCancels
  <2>2. radio.act # "none" =>
            OpOf[radio.act] \in {"ADV", "SCAN", "CONNECT", "UPDATE"} /\ "CANCELED" \in Statuses
    BY <1>0 DEF OpOf, Statuses
  <2>3. evts' \in Seq(Events)
    BY <1>0, <1>1, <1>5, <2>2 DEF StackCancels
  <2>4. radio' = [radio EXCEPT !.act = "none", !.param = NoAdv]
    BY <1>5 DEF StackCancels
  <2>q. QED BY <1>0, <2>1, <2>3, <2>4 DEF IInv
<1>6. CASE StackUpdates
  <2>1. Good(app') /\ Head(app.cmds) \in Commands /\ Head(app.cmds).cmd = "UPDATE_ADV"
    BY <1>0, <1>6, CommandTaken DEF StackUpdates
  <2>2. Head(app.cmds).param \in AdvParam
    BY <2>1 DEF Commands, Command
  <2>3. evts' \in Seq(Events)
    BY <1>1, <1>6 DEF StackUpdates, Statuses
  <2>4. radio' = radio \/ radio' = [radio EXCEPT !.param = Head(app.cmds).param]
    BY <1>6 DEF StackUpdates
  <2>5. /\ radio' \in [act : {"none", "adv", "scan", "conn"}, param : AdvParam \cup {NoAdv},
                       links : SUBSET Conidx]
        /\ radio'.act = "adv" => radio'.param \in AdvParam
    BY <1>0, <2>2, <2>4
  <2>q. QED BY <1>0, <2>1, <2>3, <2>5 DEF IInv
<1>7. CASE StackDisconnects
  <2>1. Good(app') /\ Head(app.cmds) \in Commands /\ Head(app.cmds).cmd = "DISCONNECT"
    BY <1>0, <1>7, CommandTaken DEF StackDisconnects
  <2>2. PICK c : c = Head(app.cmds).conidx
    OBVIOUS
  <2>3. c \in Conidx
    BY <2>1, <2>2 DEF Commands, Command
  <2>4. [ind |-> "DISCONNECTED", conidx |-> c] \in Events
    BY <2>3 DEF Events
  <2>5. evts' \in {evts, Append(evts, [ind |-> "DISCONNECTED", conidx |-> c])}
    BY <1>7, <2>2 DEF StackDisconnects
  <2>6. evts' \in Seq(Events)
    BY <1>0, <2>4, <2>5
  <2>7. radio' = [radio EXCEPT !.links = @ \ {c}]
    BY <1>7, <2>2 DEF StackDisconnects
  <2>q. QED BY <1>0, <2>1, <2>6, <2>7 DEF IInv
<1>q. QED BY <1>3, <1>4, <1>5, <1>6, <1>7 DEF Stack

\* A peer connects or leaves, a connection attempt ends.
LEMMA PeerKeeps ==
    ASSUME IInv, NEW c \in Conidx, PeerConnects(c) \/ ConnectEnds(c) \/ PeerLeaves(c)
    PROVE  IInv'
<1>0. /\ Good(app) /\ evts \in Seq(Events) /\ fill' = fill /\ slave' = slave /\ app' = app
      /\ due' = due /\ barred' = barred /\ past' = past
      /\ due \in BOOLEAN /\ barred \in BOOLEAN /\ past \in BOOLEAN
      /\ radio \in [act : {"none", "adv", "scan", "conn"}, param : AdvParam \cup {NoAdv},
                    links : SUBSET Conidx]
      /\ fill \in Fills /\ slave \in BOOLEAN
  BY DEF IInv, PeerConnects, ConnectEnds, PeerLeaves
<1>1. /\ [ind |-> "CONNECTED", conidx |-> c] \in Events
      /\ [ind |-> "DISCONNECTED", conidx |-> c] \in Events
      /\ Complete("ADV", "NO_ERROR") \in Events /\ Complete("CONNECT", "NO_ERROR") \in Events
      /\ Complete("CONNECT", "FAILED") \in Events
  BY DEF Events, Complete, Statuses
<1>2. \A v, w \in Events : <<v, w>> \in Seq(Events)
  OBVIOUS
<1>3. \A v, w \in Events : evts \o <<v, w>> \in Seq(Events) /\ Append(evts, v) \in Seq(Events)
  BY <1>0, <1>2, ConcatProperties
<1>4. evts' \in {evts \o <<[ind |-> "CONNECTED", conidx |-> c], Complete("ADV", "NO_ERROR")>>,
                 evts \o <<[ind |-> "CONNECTED", conidx |-> c], Complete("CONNECT", "NO_ERROR")>>,
                 Append(evts, Complete("CONNECT", "FAILED")),
                 Append(evts, [ind |-> "DISCONNECTED", conidx |-> c])}
  BY DEF PeerConnects, ConnectEnds, PeerLeaves
<1>5. evts' \in Seq(Events)
  BY <1>1, <1>3, <1>4
<1>6. radio' \in {[act |-> "none", param |-> NoAdv, links |-> radio.links \cup {c}],
                  [radio EXCEPT !.act = "none"], [radio EXCEPT !.links = @ \ {c}]}
  BY DEF PeerConnects, ConnectEnds, PeerLeaves
<1>7. /\ radio' \in [act : {"none", "adv", "scan", "conn"}, param : AdvParam \cup {NoAdv},
                     links : SUBSET Conidx]
      /\ radio'.act = "adv" => radio'.param \in AdvParam
  BY <1>0, <1>6 DEF IInv
<1>q. QED BY <1>0, <1>5, <1>7 DEF IInv

\* The requests of other threads, and the peers.
LEMMA OutsideKeeps ==
    ASSUME IInv, Outside
    PROVE  IInv'
<1>0. Good(app) /\ fill \in Fills /\ slave \in BOOLEAN
  BY DEF IInv
<1>1. ASSUME Request, Good(app'), fill' \in Fills, slave' \in BOOLEAN
      PROVE  IInv'
  BY <1>1 DEF IInv, Request, Change
<1>2. \A i \in Intervals : StartAdvCall(i) \in Mails
  BY DEF Mails
<1>3. Function("ble_start_scan") \in Mails /\ Function("ble_start_connect") \in Mails /\ Slow \in Intervals
  BY DEF Mails, Functions, Intervals
<1>4. ASSUME NEW i \in Intervals, StartConnectableAdv(i)
      PROVE  IInv'
  <2>1. Good(app')
    BY <1>0, <1>2, <1>4, PostKeeps DEF StartConnectableAdv
  <2>q. QED BY <1>0, <1>1, <1>4, <2>1 DEF StartConnectableAdv
<1>5. ASSUME NEW d \in Fills, FillChanges(d)
      PROVE  IInv'
  <2>1. Good(app')
    BY <1>0, <1>2, <1>3, <1>5, PostKeeps DEF FillChanges
  <2>q. QED BY <1>0, <1>1, <1>5, <2>1 DEF FillChanges
<1>6. CASE StartScan \/ StartConnect
  <2>1. Good(app')
    BY <1>0, <1>3, <1>6, PostKeeps DEF StartScan, StartConnect
  <2>q. QED BY <1>0, <1>1, <1>6, <2>1 DEF StartScan, StartConnect
<1>7. CASE StopActivities
  <2>1. Good(app')
    BY <1>0, <1>7, StopActivitiesKeeps DEF StopActivities
  <2>q. QED BY <1>0, <1>1, <1>7, <2>1 DEF StopActivities
<1>8. ASSUME NEW u \in SwitchUsers, NEW b \in BOOLEAN, ForceSwitch(u, b)
      PROVE  IInv'
  <2>1. Good(app')
    BY <1>0, <1>8, ForceSwitchKeeps DEF ForceSwitch
  <2>q. QED BY <1>0, <1>1, <1>8, <2>1 DEF ForceSwitch
<1>9. ASSUME NEW r \in BOOLEAN, NEW b \in BOOLEAN, RoleChanges(r, b)
      PROVE  IInv'
  <2>1. Good(app_ble_force_switch_adv(app, RS, TRUE)) /\ Good(Post(app, StartAdvCall(Slow)))
    BY <1>0, <1>2, <1>3, BleAssumption, ForceSwitchKeeps, PostKeeps
  <2>2. PICK e : e = IF b THEN app_ble_force_switch_adv(app, RS, TRUE)
                     ELSE Post(app, StartAdvCall(Slow))
    OBVIOUS
  <2>3. Good(e) /\ app' \in {e, app_ble_disconnect_all(e)}
    BY <1>9, <2>1, <2>2 DEF RoleChanges
  <2>4. Good(app')
    BY <2>3, DisconnectAllKeeps
  <2>q. QED BY <1>0, <1>1, <1>9, <2>4 DEF RoleChanges
<1>10. ASSUME NEW r \in BOOLEAN, TwsConnects(r) \/ TwsDisconnects \/ Bar \/ Unbar
       PROVE  IInv'
  BY <1>10 DEF IInv, TwsConnects, TwsDisconnects, Bar, Unbar, Lift, Change
<1>q. QED BY <1>4, <1>5, <1>6, <1>7, <1>8, <1>9, <1>10, PeerKeeps DEF Outside

\* Nothing is on its way when the modes are set up.
LEMMA InitHolds ==
    ASSUME Init
    PROVE  IInv
<1>1. /\ app.state = "STATE_IDLE" /\ app.op = "OP_IDLE" /\ app.thread = "ready"
      /\ [c \in Conidx |-> "DISCONNECTED"] \in Links
      /\ <<>> \in Seq(Mails) /\ <<>> \in Seq(Commands) /\ <<>> \in Seq(Events)
  BY DEF Init, Links
<1>2. app \in AppSet
  BY <1>1 DEF Init, AppSet, States, Ops, KeStates
<1>q. QED BY <1>1, <1>2 DEF Init, IInv, Good, Configured

\* Whatever requests, completions, refusals and connections come in whatever
\* order, and from whatever threads: state, operation and connections of
\* app_ble_mode_switch.c are among those the code knows, and the radio
\* advertises with configured parameters only.
THEOREM TypeCorrectness == Spec => []TypeOK
<1>1. Init => IInv
  BY InitHolds
<1>2. IInv /\ [Next]_vars => IInv'
  <2>1. ASSUME IInv, UNCHANGED vars
        PROVE  IInv'
    BY <2>1 DEF IInv, vars
  <2>q. QED BY <2>1, ThreadKeeps, StackKeeps, OutsideKeeps DEF Next
<1>3. IInv => TypeOK
  BY DEF IInv, Good, AppSet, Links, TypeOK
<1>q. QED BY <1>1, <1>2, <1>3, PTL DEF Spec
-----------------------------------------------------------------------------
(* The strengthening for the properties of quiet states: what is on its    *)
(* way, and what it leads to.  e, v, r and fl are the application side,    *)
(* the events, the radio and the number of refusals.  Once an activity was *)
(* cancelled past the state machine (past), less is promised: the radio    *)
(* may rest whatever the state machine means it to do, and then nothing    *)
(* need be completed any more.                                             *)

Answers    == {m \in Mails : m.func \in {"ble_switch_activities", "ble_start_adv_failed_cb",
                                         "scan_failed", "connecting_failed"}}
Failures   == {m \in Answers : m.func # "ble_switch_activities"}
StartCalls == {m \in Mails : m.func = "app_ble_start_adv"}
Stops      == {m \in Mails : m.func \in {"ble_stop_all_activities", "app_ble_start_adv"}}
Spoils     == {m \in Mails : m \in Stops \/ m.func \in {"ble_start_scan", "ble_start_connect"}}
Cmps       == {x \in Events : x.ind = "CMP"}
Refusals   == {x \in Cmps : x.status = "FAILED"}
Ups        == {x \in Events : x.ind = "CONNECTED"}
Downs      == {x \in Events : x.ind = "DISCONNECTED"}
Asks       == {c \in Commands : c.cmd # "DISCONNECT"}
Starts     == {c \in Commands : c.cmd \in {"START_ADV", "START_SCAN", "START_CONNECT"}}

None(s, S)   == \A i \in 1 .. Len(s) : s[i] \notin S
Some(s, S)   == \E i \in 1 .. Len(s) : s[i] \in S
Single(s, S) == \A i, j \in 1 .. Len(s) : s[i] \in S /\ s[j] \in S => i = j

\* w is s with more elements behind it, none of S.
Grows(s, w, S) ==
    /\ Len(s) <= Len(w)
    /\ \A i \in 1 .. Len(s) : w[i] = s[i]
    /\ \A i \in Len(s) + 1 .. Len(w) : w[i] \notin S

\* What the radio does, and what the command c makes of it.
Tracks == [act : {"none", "adv", "scan", "conn"}, param : AdvParam \cup {NoAdv}]
Resting == [act |-> "none", param |-> NoAdv]
Track(r) == [act |-> r.act, param |-> r.param]
Effect(a, c) ==
    CASE c.cmd = "START_ADV" -> [act |-> "adv", param |-> c.param]
      [] c.cmd = "START_SCAN" -> [act |-> "scan", param |-> NoAdv]
      [] c.cmd = "START_CONNECT" -> [act |-> "conn", param |-> NoAdv]
      [] c.cmd = "CANCEL" -> Resting
      [] c.cmd = "UPDATE_ADV" -> IF a.act = "adv" THEN [act |-> "adv", param |-> c.param] ELSE a
      [] OTHER -> a

\* t is what the radio does before each of the commands s, and after them; a
\* start always finds it free.
Run(t, r, s) ==
    /\ t \in Seq(Tracks) /\ Len(t) = Len(s) + 1
    /\ t[1] = Track(r)
    /\ \A i \in 1 .. Len(s) : t[i + 1] = Effect(t[i], s[i])
    /\ \A i \in 1 .. Len(s) : s[i] \in Starts => t[i].act = "none"
End(t) == t[Len(t)]

\* What the state machine means the radio to do, and what it is stopping.
AdvStates == {"STARTING_ADV", "ADVERTISING"}
Goal(s) ==
    CASE s \in AdvStates -> "adv"
      [] s \in {"STARTING_SCAN", "SCANNING"} -> "scan"
      [] s \in {"STARTING_CONNECT", "CONNECTING"} -> "conn"
      [] OTHER -> "none"
Ending(s) ==
    CASE s = "STOPPING_ADV" -> "adv"
      [] s = "STOPPING_SCAN" -> "scan"
      [] s = "STOPPING_CONNECT" -> "conn"
      [] OTHER -> "none"
Settled(s) == s \in Running \cup {"STATE_IDLE"}

\* An operation is pending although nothing is in progress.
Stray(e) ==
    /\ Settled(e.state) /\ e.op # "OP_IDLE"
    /\ ~(e.state = "CONNECTING" /\ e.op = "START_CONNECT")

\* A completion is on its way.  A cancel is completed if it ends something.
Live(a, c) == c \in Asks /\ (c.cmd = "CANCEL" => a.act # "none")
Pending(t, e, v) ==
    \/ \E i \in 1 .. Len(e.cmds) : Live(t[i], e.cmds[i])
    \/ Some(v, Cmps)
    \/ Some(e.mail, Answers)

\* What became of an activity that was cancelled past the state machine.
Cut(a) == past /\ a = Resting

\* No connection and no refusal is on its way, and the commands that are
\* take the radio to where the state machine means it to be.
Course(t, e, v, r) ==
    /\ None(v, Ups) /\ None(v, Refusals) /\ None(e.mail, Failures)
    /\ Run(t, r, e.cmds)
    /\ End(t).act = Goal(e.state) \/ Cut(End(t))
    /\ (e.state \in AdvStates /\ e.advInfo # NoAdv => End(t).param = e.advInfo \/ Cut(End(t)))

\* Whoever waits for a completion gets one.
After(t, e, v, r, fl) ==
    /\ Course(t, e, v, r)
    /\ Cut(End(t)) \/ (~Settled(e.state) \/ (fl = 0 /\ Stray(e)) => Pending(t, e, v))

\* There is one completion for a state that waits for it, and none otherwise.
Tokens(e, v) ==
    /\ \/ None(e.cmds, Asks) /\ None(v, Cmps) /\ Single(e.mail, Answers)
       \/ None(e.cmds, Asks) /\ Single(v, Cmps) /\ None(e.mail, Answers)
       \/ Single(e.cmds, Asks) /\ None(v, Cmps) /\ None(e.mail, Answers)
    /\ Settled(e.state) => None(e.cmds, Asks) /\ None(v, Cmps) /\ None(e.mail, Answers)

\* Only the command that is to be completed changes what the radio does.
Flat(t, s) ==
    /\ None(s, Asks) => End(t) = t[1]
    /\ \A i \in 1 .. Len(s) : s[i] \in Asks => t[i] = t[1] /\ End(t) = t[i + 1]
Exact(t, e, v, r, fl) ==
    /\ After(t, e, v, r, fl) /\ ~past
    /\ Tokens(e, v) /\ Flat(t, e.cmds)
    /\ Ending(e.state) # "none" => r.act \in {"none", Ending(e.state)}
    /\ fl = 0 => ~Stray(e)

\* A connection has ended the activity and its indication k is on its way,
\* a completion behind it and at most the completion of the start ahead of it.
Ahead(e, v, k) ==
    \/ None(e.mail, Answers) /\ \A i \in 1 .. k : v[i] \notin Cmps
    \/ /\ e.state = "STARTING_ADV"
       /\ \/ Single(e.mail, Answers) /\ \A i \in 1 .. k : v[i] \notin Cmps
          \/ None(e.mail, Answers) /\ \A i, j \in 1 .. k : v[i] \in Cmps /\ v[j] \in Cmps => i = j
Indicated(e, v, k) ==
    /\ v[k] \in Ups
    /\ \A i \in 1 .. Len(v) : v[i] \in Ups => i = k
    /\ \E j \in k + 1 .. Len(v) : v[j] \in Cmps
    /\ Ahead(e, v, k)
LosesIn == {"ADVERTISING", "STARTING_ADV", "STOPPING_ADV", "CONNECTING", "STOPPING_CONNECT"}
Lost(e, v, r, fl) ==
    /\ Track(r) = Resting
    /\ None(e.cmds, Starts) /\ None(v, Refusals) /\ None(e.mail, Failures)
    /\ e.state \in LosesIn /\ e.thread = "ready"
    /\ (fl = 0 => ~Stray(e))
    /\ \E k \in 1 .. Len(v) : Indicated(e, v, k)

\* A refusal is on its way, to a state that it makes idle.
FailedFunc == [ADV |-> "ble_start_adv_failed_cb", SCAN |-> "scan_failed",
               CONNECT |-> "connecting_failed"]
FailsFrom == [ADV |-> {"STARTING_ADV"}, SCAN |-> {"STARTING_SCAN"},
              CONNECT |-> {"STARTING_CONNECT", "CONNECTING", "STOPPING_CONNECT"}]
RefusedOp(o, e, v) ==
    /\ e.state \in FailsFrom[o]
    /\ \/ None(e.mail, Answers) /\ Single(v, Cmps) /\ Some(v, {Complete(o, "FAILED")})
       \/ None(v, Cmps) /\ Single(e.mail, Answers) /\ Some(e.mail, {Function(FailedFunc[o])})
Refused(e, v, r, fl) ==
    /\ Track(r) = Resting /\ fl # 0
    /\ \A i \in 1 .. Len(e.cmds) : e.cmds[i].cmd \in {"CANCEL", "DISCONNECT"}
    /\ None(v, Ups) /\ e.thread = "ready"
    /\ \E o \in {"ADV", "SCAN", "CONNECT"} : RefusedOp(o, e, v)

\* Something on its way ends the advertising.
Stopper(e) == (e.state = "STARTING_ADV" /\ e.op # "OP_IDLE") \/ Some(e.mail, Stops)
Off(p, e) ==
    (e.advSwitch # {} \/ (slave /\ ~due)) /\ e.state \in AdvStates /\ p # NoAdv => Stopper(e)
Unconn(p, e) == Connected(e) # {} /\ e.state \in AdvStates /\ p.advType = "UNDIRECT" => Stopper(e)
Fit(p, e) == Off(p, e) /\ Unconn(p, e)

\* Advertising that is pending from before a connection is configured anew.
Renews(e) ==
    odd <= 1 /\ Connected(e) # {} /\ ble_adv_allowed(e) /\ e.advParam # NoAdv /\ e.advParam.advType = "UNDIRECT"
    /\ (e.op = "START_ADV" \/ e.thread = "starting") =>
        Some(e.mail, StartCalls)

\* The last request to advertise, for the interval i, is on its way or has
\* been carried out.
Carried(p, e, i) ==
    /\ e.advParam = ble_adv_config_param(e, i)
    /\ \/ e.thread = "starting"
       \/ e.op = "START_ADV"
       \/ e.state \in AdvStates /\ e.op = "OP_IDLE" /\ p = e.advParam
LastCall(s, i) == \E k \in 1 .. Len(s) : s[k] = StartAdvCall(i) /\ \A j \in k + 1 .. Len(s) : s[j] \notin Spoils
Wanted(p, e, v, i) ==
    \/ Some(v, Downs)
    \/ LastCall(e.mail, i)
    \/ None(e.mail, Spoils) /\ Carried(p, e, i)
Want(p, e, v, i, fl) ==
    fl = 0 /\ i \in Intervals /\ ble_adv_allowed(e) /\ fill # NoUser => Wanted(p, e, v, i)

Held(e) == e.thread = "starting" => e.state = "STATE_IDLE" /\ ble_adv_allowed(e)

Sound(t, e, v, r, fl) ==
    \/ After(t, e, v, r, fl) /\ Fit(End(t).param, e)
    \/ Lost(e, v, r, fl) \/ Refused(e, v, r, fl)

BInv(t) ==
    /\ odd \in Nat /\ fails \in Nat
    /\ (radio.act # "adv" => radio.param = NoAdv)
    /\ Held(app) /\ Renews(app)
    /\ (odd = 0 => /\ Exact(t, app, evts, radio, fails)
                   /\ Fit(End(t).param, app) /\ Want(End(t).param, app, evts, asked, fails))
    /\ (odd = 1 => Sound(t, app, evts, radio, fails))
-----------------------------------------------------------------------------
(* Queues.                                                                 *)

\* The first element of a queue, and the others.
LEMMA TailOf ==
    ASSUME NEW X, NEW s \in Seq(X), s # <<>>
    PROVE  /\ Len(s) \in Nat /\ Len(s) >= 1 /\ 1 \in 1 .. Len(s)
           /\ Head(s) = s[1] /\ s[1] \in X
           /\ Tail(s) \in Seq(X) /\ Len(Tail(s)) = Len(s) - 1
           /\ \A i \in 1 .. Len(Tail(s)) : i + 1 \in 1 .. Len(s) /\ Tail(s)[i] = s[i + 1]
           /\ \A i \in 1 .. Len(s) : i # 1 => i - 1 \in 1 .. Len(Tail(s)) /\ Tail(s)[i - 1] = s[i]
<1>1. Len(s) \in Nat /\ Len(s) >= 1 /\ Head(s) = s[1]
  BY EmptySeq
<1>2. /\ Tail(s) \in Seq(X) /\ Len(Tail(s)) = Len(s) - 1
      /\ \A i \in 1 .. Len(Tail(s)) : Tail(s)[i] = s[i + 1]
  BY HeadTailProperties
<1>3. 1 \in 1 .. Len(s) /\ s[1] \in X
  BY <1>1, ElementOfSeq
<1>q. QED BY <1>1, <1>2, <1>3

\* A queue with one more element.
LEMMA AppendOf ==
    ASSUME NEW X, NEW s \in Seq(X), NEW x \in X
    PROVE  /\ Append(s, x) \in Seq(X) /\ Len(s) \in Nat /\ Len(Append(s, x)) = Len(s) + 1
           /\ \A i \in 1 .. Len(s) : Append(s, x)[i] = s[i]
           /\ Append(s, x)[Len(s) + 1] = x
OBVIOUS

\* Taking the first element.
LEMMA QueueTail ==
    ASSUME NEW X, NEW s \in Seq(X), s # <<>>, NEW S
    PROVE  /\ None(s, S) => None(Tail(s), S) /\ s[1] \notin S
           /\ Single(s, S) => Single(Tail(s), S)
           /\ Single(s, S) /\ s[1] \in S => None(Tail(s), S)
           /\ Some(s, S) /\ s[1] \notin S => Some(Tail(s), S)
<1>1. PICK w : w = Tail(s)
  OBVIOUS
<1>2. /\ 1 \in 1 .. Len(s) /\ Len(s) \in Nat
      /\ \A i \in 1 .. Len(w) : i + 1 \in 1 .. Len(s) /\ w[i] = s[i + 1]
      /\ \A i \in 1 .. Len(s) : i # 1 => i - 1 \in 1 .. Len(w) /\ w[i - 1] = s[i]
      /\ Len(w) = Len(s) - 1
  BY <1>1, TailOf
<1>3. None(s, S) => None(w, S) /\ s[1] \notin S
  BY <1>2 DEF None
<1>4. ASSUME Single(s, S) PROVE Single(w, S)
  <2>1. ASSUME NEW i \in 1 .. Len(w), NEW j \in 1 .. Len(w), w[i] \in S, w[j] \in S
        PROVE  i = j
    <3>1. i + 1 \in 1 .. Len(s) /\ j + 1 \in 1 .. Len(s) /\ s[i + 1] \in S /\ s[j + 1] \in S
      BY <1>2, <2>1
    <3>2. i + 1 = j + 1
      BY <1>4, <3>1 DEF Single
    <3>q. QED BY <1>2, <3>2
  <2>q. QED BY <2>1 DEF Single
<1>5. ASSUME Single(s, S), s[1] \in S PROVE None(w, S)
  <2>1. ASSUME NEW i \in 1 .. Len(w), w[i] \in S
        PROVE  FALSE
    <3>1. i + 1 \in 1 .. Len(s) /\ s[i + 1] \in S
      BY <1>2, <2>1
    <3>2. i + 1 = 1
      BY <1>2, <1>5, <3>1 DEF Single
    <3>q. QED BY <1>2, <3>2
  <2>q. QED BY <2>1 DEF None
<1>6. ASSUME Some(s, S), s[1] \notin S PROVE Some(w, S)
  <2>1. PICK i \in 1 .. Len(s) : s[i] \in S
    BY <1>6 DEF Some
  <2>2. i # 1
    BY <1>6, <2>1
  <2>3. i - 1 \in 1 .. Len(w) /\ w[i - 1] \in S
    BY <1>2, <2>1, <2>2
  <2>q. QED BY <2>3 DEF Some
<1>q. QED BY <1>1, <1>3, <1>4, <1>5, <1>6

\* Queueing an element.
LEMMA QueueAppend ==
    ASSUME NEW X, NEW s \in Seq(X), NEW x \in X, NEW S
    PROVE  /\ None(s, S) /\ x \notin S => None(Append(s, x), S)
           /\ None(s, S) => Single(Append(s, x), S)
           /\ Single(s, S) /\ x \notin S => Single(Append(s, x), S)
           /\ Some(s, S) => Some(Append(s, x), S)
           /\ x \in S => Some(Append(s, x), S)
           /\ x \notin S => Grows(s, Append(s, x), S)
<1>1. PICK w : w = Append(s, x)
  OBVIOUS
<1>2. /\ Len(s) \in Nat /\ Len(w) = Len(s) + 1
      /\ \A i \in 1 .. Len(s) : w[i] = s[i]
      /\ w[Len(s) + 1] = x
  BY <1>1, AppendOf
<1>3. \A i \in 1 .. Len(w) : i \in 1 .. Len(s) \/ i = Len(s) + 1
  BY <1>2
<1>4. Len(s) + 1 \in 1 .. Len(w) /\ 1 .. Len(s) \subseteq 1 .. Len(w)
  BY <1>2
<1>5. None(s, S) /\ x \notin S => None(w, S)
  BY <1>2, <1>3 DEF None
<1>6. None(s, S) => Single(w, S)
  BY <1>2, <1>3 DEF None, Single
<1>7. Single(s, S) /\ x \notin S => Single(w, S)
  BY <1>2, <1>3 DEF Single
<1>8. (Some(s, S) => Some(w, S)) /\ (x \in S => Some(w, S))
  BY <1>2, <1>4 DEF Some
<1>9. x \notin S => Grows(s, w, S)
  BY <1>2, <1>3 DEF Grows
<1>q. QED BY <1>1, <1>5, <1>6, <1>7, <1>8, <1>9

\* Queueing elements that do not count.
LEMMA QueueGrows ==
    ASSUME NEW X, NEW s \in Seq(X), NEW w \in Seq(X), NEW S, Grows(s, w, S)
    PROVE  /\ None(s, S) => None(w, S)
           /\ Single(s, S) => Single(w, S)
           /\ \A T : Some(s, T) => Some(w, T)
           /\ \A T : T \subseteq S => Grows(s, w, T)
<1>1. /\ Len(s) \in Nat /\ Len(w) \in Nat
      /\ Len(s) <= Len(w)
      /\ \A i \in 1 .. Len(s) : w[i] = s[i]
      /\ \A i \in Len(s) + 1 .. Len(w) : w[i] \notin S
  BY DEF Grows
<1>2. \A i \in 1 .. Len(w) : i \in 1 .. Len(s) \/ i \in Len(s) + 1 .. Len(w)
  BY <1>1
<1>3. 1 .. Len(s) \subseteq 1 .. Len(w)
  BY <1>1
<1>4. None(s, S) => None(w, S)
  BY <1>1, <1>2 DEF None
<1>5. Single(s, S) => Single(w, S)
  BY <1>1, <1>2 DEF Single
<1>6. \A T : Some(s, T) => Some(w, T)
  BY <1>1, <1>3 DEF Some
<1>7. \A T : T \subseteq S => Grows(s, w, T)
  BY <1>1 DEF Grows
<1>q. QED BY <1>4, <1>5, <1>6, <1>7

\* None of a part.
LEMMA QueueSubset ==
    ASSUME NEW s, NEW S, NEW T, T \subseteq S
    PROVE  /\ None(s, S) => None(s, T) /\ Single(s, T)
           /\ Some(s, T) => Some(s, S)
           /\ None(s, S) <=> ~Some(s, S)
BY DEF None, Some, Single

\* A queue grows by nothing, and again.
LEMMA GrowsAgain ==
    ASSUME NEW X, NEW s \in Seq(X), NEW w \in Seq(X), NEW u \in Seq(X), NEW S
    PROVE  /\ Grows(s, s, S)
           /\ Grows(s, w, S) /\ Grows(w, u, S) => Grows(s, u, S)
<1>1. Len(s) \in Nat /\ Len(w) \in Nat /\ Len(u) \in Nat
  OBVIOUS
<1>2. Grows(s, s, S)
  BY <1>1 DEF Grows
<1>3. ASSUME Grows(s, w, S), Grows(w, u, S) PROVE Grows(s, u, S)
  <2>1. Len(s) <= Len(u) /\ \A i \in 1 .. Len(s) : u[i] = s[i]
    BY <1>1, <1>3 DEF Grows
  <2>2. ASSUME NEW i \in Len(s) + 1 .. Len(u) PROVE u[i] \notin S
    <3>1. CASE i <= Len(w)
      <4>1. i \in 1 .. Len(w) /\ i \in Len(s) + 1 .. Len(w)
        BY <1>1, <3>1
      <4>q. QED BY <1>3, <4>1 DEF Grows
    <3>2. CASE ~(i <= Len(w))
      <4>1. i \in Len(w) + 1 .. Len(u)
        BY <1>1, <3>2
      <4>q. QED BY <1>3, <4>1 DEF Grows
    <3>q. QED BY <3>1, <3>2
  <2>q. QED BY <2>1, <2>2 DEF Grows
<1>q. QED BY <1>2, <1>3
-----------------------------------------------------------------------------
(* What the commands make of the radio.                                    *)

\* A command makes the radio do something it can do.
LEMMA EffectType ==
    ASSUME NEW a \in Tracks, NEW c \in Commands
    PROVE  Effect(a, c) \in Tracks
<1>1. c.cmd \in {"START_ADV", "UPDATE_ADV"} => c.param \in AdvParam
  BY DEF Commands, Command
<1>2. Resting \in Tracks
  BY DEF Resting, Tracks
<1>3. \A p \in AdvParam \cup {NoAdv} : \A x \in {"adv", "scan", "conn"} : [act |-> x, param |-> p] \in Tracks
  BY DEF Tracks
<1>q. QED BY <1>1, <1>2, <1>3 DEF Effect

\* Only a start takes a resting radio out of its rest, and a disconnection
\* does not change what it does.
LEMMA EffectRests ==
    ASSUME NEW c \in Commands
    PROVE  /\ c \notin Starts => Effect(Resting, c) = Resting
           /\ \A a : c \notin Asks => Effect(a, c) = a
           /\ Starts \subseteq Asks
<1>1. c \notin Starts => c.cmd \notin {"START_ADV", "START_SCAN", "START_CONNECT"}
  BY DEF Starts
<1>2. c \notin Starts => Effect(Resting, c) = Resting
  BY <1>1 DEF Effect, Resting
<1>3. c \notin Asks => c.cmd = "DISCONNECT"
  BY DEF Asks
<1>q. QED BY <1>2, <1>3 DEF Effect, Starts, Asks

\* One more command.
LEMMA RunPush ==
    ASSUME NEW r, NEW s \in Seq(Commands), NEW t, Run(t, r, s), NEW c \in Commands,
           c \in Starts => End(t).act = "none"
    PROVE  \E u : /\ Run(u, r, Append(s, c))
                  /\ End(u) = Effect(End(t), c)
                  /\ u[Len(s) + 1] = End(t) /\ u[Len(s) + 2] = End(u)
                  /\ \A i \in 1 .. Len(s) + 1 : u[i] = t[i]
                  /\ 1 \in 1 .. Len(s) + 1
<1>1. /\ t \in Seq(Tracks) /\ Len(t) = Len(s) + 1 /\ Len(s) \in Nat
      /\ t[1] = Track(r)
      /\ \A i \in 1 .. Len(s) : t[i + 1] = Effect(t[i], s[i])
      /\ \A i \in 1 .. Len(s) : s[i] \in Starts => t[i].act = "none"
  BY DEF Run
<1>2. End(t) \in Tracks
  BY <1>1, ElementOfSeq DEF End
<1>3. PICK a : a = Effect(End(t), c)
  OBVIOUS
<1>4. a \in Tracks
  BY <1>2, <1>3, EffectType
<1>5. PICK u : u = Append(t, a)
  OBVIOUS
<1>6. /\ u \in Seq(Tracks) /\ Len(u) = Len(s) + 2
      /\ \A i \in 1 .. Len(s) + 1 : u[i] = t[i]
      /\ u[Len(s) + 2] = a
  BY <1>1, <1>4, <1>5, AppendOf
<1>7. PICK w : w = Append(s, c)
  OBVIOUS
<1>8. /\ Len(w) = Len(s) + 1 /\ w[Len(s) + 1] = c
      /\ \A i \in 1 .. Len(s) : w[i] = s[i]
  BY <1>7, AppendOf
<1>9. End(u) = a /\ u[Len(s) + 1] = End(t) /\ u[1] = Track(r)
  BY <1>1, <1>6 DEF End
<1>10. ASSUME NEW i \in 1 .. Len(w)
       PROVE  u[i + 1] = Effect(u[i], w[i]) /\ (w[i] \in Starts => u[i].act = "none")
  <2>1. CASE i = Len(s) + 1
    <3>1. i + 1 = Len(s) + 2
      BY <1>1, <2>1
    <3>q. QED BY <1>3, <1>6, <1>8, <1>9, <2>1, <3>1
  <2>2. CASE i # Len(s) + 1
    <3>1. i \in 1 .. Len(s) /\ i \in 1 .. Len(s) + 1 /\ i + 1 \in 1 .. Len(s) + 1
      BY <1>1, <1>8, <2>2
    <3>2. u[i + 1] = t[i + 1] /\ u[i] = t[i] /\ w[i] = s[i]
      BY <1>6, <1>8, <3>1
    <3>q. QED BY <1>1, <3>1, <3>2
  <2>q. QED BY <2>1, <2>2
<1>11. Run(u, r, w)
  BY <1>6, <1>8, <1>9, <1>10, <1>1 DEF Run
<1>q. QED BY <1>1, <1>3, <1>6, <1>7, <1>9, <1>11

\* The stack has taken a command.
LEMMA RunPop ==
    ASSUME NEW r, NEW s \in Seq(Commands), s # <<>>, NEW t, Run(t, r, s), NEW q,
           Track(q) = Effect(Track(r), s[1])
    PROVE  \E u : /\ Run(u, q, Tail(s))
                  /\ End(u) = End(t)
                  /\ \A i \in 1 .. Len(s) : u[i] = t[i + 1]
<1>1. /\ t \in Seq(Tracks) /\ Len(t) = Len(s) + 1 /\ Len(s) \in Nat
      /\ t[1] = Track(r)
      /\ \A i \in 1 .. Len(s) : t[i + 1] = Effect(t[i], s[i])
      /\ \A i \in 1 .. Len(s) : s[i] \in Starts => t[i].act = "none"
  BY DEF Run
<1>2. /\ Len(s) >= 1 /\ 1 \in 1 .. Len(s) /\ Len(Tail(s)) = Len(s) - 1
      /\ \A i \in 1 .. Len(Tail(s)) : i + 1 \in 1 .. Len(s) /\ Tail(s)[i] = s[i + 1]
  BY TailOf
<1>3. PICK u : u = Tail(t)
  OBVIOUS
<1>4. t # <<>>
  BY <1>1, <1>2
<1>5. u \in Seq(Tracks) /\ Len(u) = Len(s) /\ \A i \in 1 .. Len(s) : u[i] = t[i + 1]
  BY <1>1, <1>3, <1>4, TailOf
<1>6. End(u) = End(t)
  <2>1. Len(s) \in 1 .. Len(s)
    BY <1>1, <1>2
  <2>q. QED BY <1>1, <1>5, <2>1 DEF End
<1>7. u[1] = Track(q)
  BY <1>1, <1>2, <1>5
<1>8. ASSUME NEW i \in 1 .. Len(Tail(s))
      PROVE  u[i + 1] = Effect(u[i], Tail(s)[i]) /\ (Tail(s)[i] \in Starts => u[i].act = "none")
  <2>1. i + 1 \in 1 .. Len(s) /\ i \in 1 .. Len(s) /\ Tail(s)[i] = s[i + 1]
    BY <1>1, <1>2
  <2>2. u[i + 1] = t[(i + 1) + 1] /\ u[i] = t[i + 1]
    BY <1>5, <2>1
  <2>q. QED BY <1>1, <2>1, <2>2
<1>9. Run(u, q, Tail(s))
  BY <1>1, <1>2, <1>5, <1>7, <1>8 DEF Run
<1>q. QED BY <1>5, <1>6, <1>9

\* Without a start a resting radio goes on resting.
LEMMA RunRests ==
    ASSUME NEW r, NEW s \in Seq(Commands), Track(r) = Resting, None(s, Starts)
    PROVE  \E t : Run(t, r, s) /\ End(t) = Resting
<1>1. PICK n : n = Len(s) + 1
  OBVIOUS
<1>2. PICK t : t = [i \in 1 .. n |-> Resting]
  OBVIOUS
<1>3. Len(s) \in Nat /\ Resting \in Tracks
  BY DEF Resting, Tracks
<1>4. n \in Nat /\ 1 \in 1 .. n /\ n \in 1 .. n
  BY <1>1, <1>3
<1>5. t \in [1 .. n -> Tracks]
  BY <1>2, <1>3
<1>6. t \in Seq(Tracks) /\ Len(t) = n
  BY <1>4, <1>5
<1>7. ASSUME NEW i \in 1 .. Len(s)
      PROVE  t[i + 1] = Effect(t[i], s[i]) /\ t[i].act = "none"
  <2>1. t[i + 1] = Resting /\ t[i] = Resting
    BY <1>1, <1>2, <1>3
  <2>2. s[i] \in Commands /\ s[i] \notin Starts
    BY ElementOfSeq DEF None
  <2>3. Effect(Resting, s[i]) = Resting
    BY <2>2, EffectRests
  <2>q. QED BY <2>1, <2>3 DEF Resting
<1>8. t[1] = Resting /\ t[n] = Resting
  BY <1>2, <1>4
<1>q. QED BY <1>1, <1>6, <1>7, <1>8 DEF Run, End

\* The one command to be completed is sent when there is none.
LEMMA FlatPush ==
    ASSUME NEW s \in Seq(Commands), NEW t, Flat(t, s), NEW c \in Commands, NEW u,
           End(u) = Effect(End(t), c), u[Len(s) + 1] = End(t), End(u) = u[Len(s) + 2],
           \A i \in 1 .. Len(s) + 1 : u[i] = t[i],
           c \in Asks => None(s, Asks)
    PROVE  Flat(u, Append(s, c))
<1>1. PICK w : w = Append(s, c)
  OBVIOUS
<1>2. /\ Len(s) \in Nat /\ Len(w) = Len(s) + 1 /\ w[Len(s) + 1] = c
      /\ \A i \in 1 .. Len(s) : w[i] = s[i]
  BY <1>1, AppendOf
<1>3. u[1] = t[1] /\ Len(s) + 1 \in 1 .. Len(w)
  BY <1>2
<1>4. ASSUME None(w, Asks) PROVE End(u) = u[1]
  <2>1. None(s, Asks) /\ c \notin Asks
    BY <1>2, <1>3, <1>4 DEF None
  <2>2. Effect(End(t), c) = End(t)
    BY <2>1, EffectRests
  <2>q. QED BY <1>3, <2>1, <2>2 DEF Flat
<1>5. ASSUME NEW i \in 1 .. Len(w), w[i] \in Asks
      PROVE  u[i] = u[1] /\ End(u) = u[i + 1]
  <2>1. CASE i = Len(s) + 1
    <3>1. c \in Asks /\ None(s, Asks) /\ i + 1 = Len(s) + 2
      BY <1>2, <1>5, <2>1
    <3>q. QED BY <1>3, <2>1, <3>1 DEF Flat
  <2>2. CASE i # Len(s) + 1
    <3>1. i \in 1 .. Len(s) /\ i \in 1 .. Len(s) + 1 /\ i + 1 \in 1 .. Len(s) + 1
      BY <1>2, <2>2
    <3>2. s[i] \in Asks
      BY <1>2, <1>5, <3>1
    <3>3. c \notin Asks
      BY <3>1, <3>2 DEF None
    <3>4. End(u) = End(t)
      BY <3>3, EffectRests
    <3>5. t[i] = t[1] /\ End(t) = t[i + 1] /\ u[i] = t[i] /\ u[i + 1] = t[i + 1]
      BY <3>1, <3>2 DEF Flat
    <3>q. QED BY <1>3, <3>4, <3>5
  <2>q. QED BY <2>1, <2>2
<1>q. QED BY <1>1, <1>4, <1>5 DEF Flat

\* The stack takes the one command to be completed, or a disconnection.
LEMMA FlatPop ==
    ASSUME NEW r, NEW s \in Seq(Commands), s # <<>>, NEW t, Run(t, r, s), Flat(t, s), Single(s, Asks), NEW u,
           End(u) = End(t), \A i \in 1 .. Len(s) : u[i] = t[i + 1]
    PROVE  Flat(u, Tail(s)) /\ (s[1] \in Asks => End(t) = u[1])
<1>1. /\ Len(s) \in Nat /\ Len(s) >= 1 /\ 1 \in 1 .. Len(s) /\ Len(Tail(s)) = Len(s) - 1 /\ s[1] \in Commands
      /\ \A i \in 1 .. Len(Tail(s)) : i + 1 \in 1 .. Len(s) /\ Tail(s)[i] = s[i + 1]
  BY TailOf
<1>2. u[1] = t[2] /\ t[2] = Effect(t[1], s[1])
  BY <1>1 DEF Run
<1>3. CASE s[1] \in Asks
  <2>1. End(t) = t[2]
    BY <1>1, <1>3 DEF Flat
  <2>2. None(Tail(s), Asks)
    BY <1>3, QueueTail
  <2>q. QED BY <1>2, <2>1, <2>2 DEF Flat, None
<1>4. CASE s[1] \notin Asks
  <2>1. t[2] = t[1]
    BY <1>1, <1>2, <1>4, EffectRests
  <2>2. ASSUME None(Tail(s), Asks) PROVE End(u) = u[1]
    <3>1. None(s, Asks)
      BY <1>4, <2>2, QueueTail, QueueSubset
    <3>q. QED BY <1>2, <2>1, <3>1 DEF Flat
  <2>3. ASSUME NEW i \in 1 .. Len(Tail(s)), Tail(s)[i] \in Asks
        PROVE  u[i] = u[1] /\ End(u) = u[i + 1]
    <3>1. i + 1 \in 1 .. Len(s) /\ i \in 1 .. Len(s) /\ s[i + 1] \in Asks
      BY <1>1, <2>3
    <3>2. t[i + 1] = t[1] /\ End(t) = t[(i + 1) + 1]
      BY <3>1 DEF Flat
    <3>3. u[i] = t[i + 1] /\ u[i + 1] = t[(i + 1) + 1]
      BY <3>1
    <3>q. QED BY <1>2, <2>1, <3>2, <3>3
  <2>q. QED BY <1>4, <2>2, <2>3 DEF Flat
<1>q. QED BY <1>3, <1>4
-----------------------------------------------------------------------------
(* What a function of the thread may do: leave the state, or leave a       *)
(* settled state with a command.                                           *)

Stay(e, f) ==
    /\ f.state = e.state /\ f.cmds = e.cmds
    /\ Grows(e.mail, f.mail, Answers)
    /\ f.advInfo \in {e.advInfo, NoAdv}
    /\ (e.thread = "ready" => f.thread = "ready" \/ e.state = "STATE_IDLE")
    /\ (Stray(f) => Stray(e))

\* The command k takes the state x to y.
Kind(k, x, y) ==
    \/ k = "START_ADV" /\ x = "STATE_IDLE" /\ y = "STARTING_ADV"
    \/ k = "START_SCAN" /\ x = "STATE_IDLE" /\ y = "STARTING_SCAN"
    \/ k = "START_CONNECT" /\ x = "STATE_IDLE" /\ y = "STARTING_CONNECT"
    \/ k = "UPDATE_ADV" /\ x = "ADVERTISING" /\ y = "STARTING_ADV"
    \/ k = "CANCEL" /\ x = "ADVERTISING" /\ y = "STOPPING_ADV"
    \/ k = "CANCEL" /\ x = "SCANNING" /\ y = "STOPPING_SCAN"
    \/ k = "CANCEL" /\ x = "CONNECTING" /\ y = "STOPPING_CONNECT"

Ask(e, f, c) ==
    /\ c \in Asks /\ f.cmds = Append(e.cmds, c) /\ f.mail = e.mail
    /\ Kind(c.cmd, e.state, f.state)
    /\ (c.cmd \in {"START_ADV", "UPDATE_ADV"} => f.advInfo = c.param)
    /\ (e.thread = "ready" => f.thread = "ready")
Moves(e, f) == Stay(e, f) \/ \E c \in Asks : Ask(e, f, c)

\* The command fits the state it leaves and the one it leads to.
LEMMA KindStates ==
    ASSUME NEW c \in Asks, NEW x, NEW y, Kind(c.cmd, x, y)
    PROVE  /\ Settled(x) /\ ~Settled(y)
           /\ (y \in AdvStates => c.cmd \in {"START_ADV", "UPDATE_ADV"})
           /\ (Ending(y) # "none" => Ending(y) = Goal(x))
           /\ (x \in LosesIn => y \in LosesIn /\ c \notin Starts /\ x # "STARTING_ADV")
           /\ \A o \in {"ADV", "SCAN", "CONNECT"} :
                  x \in FailsFrom[o] => c.cmd = "CANCEL" /\ y \in FailsFrom[o]
<1>1. Settled(x) /\ ~Settled(y) /\ (Ending(y) # "none" => Ending(y) = Goal(x))
  BY DEF Kind, Settled, Running, Ending, Goal, AdvStates
<1>2. /\ (y \in AdvStates => c.cmd \in {"START_ADV", "UPDATE_ADV"})
      /\ (x \in LosesIn => y \in LosesIn /\ c \notin Starts /\ x # "STARTING_ADV")
  BY DEF Kind, AdvStates, LosesIn, Starts
<1>3. \A o \in {"ADV", "SCAN", "CONNECT"} :
          x \in FailsFrom[o] => c.cmd = "CANCEL" /\ y \in FailsFrom[o]
  BY DEF Kind, FailsFrom
<1>q. QED BY <1>1, <1>2, <1>3

\* It is completed, and takes the radio from one goal to the other.
LEMMA KindEffect ==
    ASSUME NEW c \in Asks, NEW x, NEW y, Kind(c.cmd, x, y), NEW a \in Tracks,
           a.act = Goal(x) \/ Cut(a)
    PROVE  /\ (c \in Starts => a.act = "none")
           /\ Cut(Effect(a, c)) \/ Live(a, c)
           /\ Effect(a, c).act = Goal(y) \/ Cut(Effect(a, c))
           /\ (y \in AdvStates => Effect(a, c).param = c.param \/ (past /\ Effect(a, c) = a /\ Cut(a)))
<1>1. (c \in Starts => a.act = "none") /\ (Cut(Effect(a, c)) \/ Live(a, c))
  BY DEF Kind, Starts, Goal, AdvStates, Live, Cut, Effect, Resting
<1>2. Effect(a, c).act = Goal(y) \/ Cut(Effect(a, c))
  BY DEF Kind, Goal, AdvStates, Effect, Resting, Cut
<1>3. y \in AdvStates => Effect(a, c).param = c.param \/ (past /\ Effect(a, c) = a /\ Cut(a))
  BY DEF Kind, Goal, AdvStates, Effect, Resting, Cut
<1>q. QED BY <1>1, <1>2, <1>3

\* The kinds of mail.
LEMMA MailKinds ==
    /\ Failures \subseteq Answers /\ StartCalls \subseteq Stops /\ Stops \subseteq Spoils
    /\ Answers \cap Spoils = {}
BY DEF Failures, Answers, StartCalls, Stops, Spoils

\* The kinds of event.
LEMMA EventKinds ==
    Refusals \subseteq Cmps /\ Ups \cap Cmps = {} /\ Downs \cap Cmps = {} /\ Ups \cap Downs = {}
BY DEF Refusals, Cmps, Ups, Downs

\* What stays in its state stays on its course.
LEMMA StayCourse ==
    ASSUME NEW e \in AppSet, NEW f \in AppSet, NEW v, NEW r, NEW fl, NEW t, Stay(e, f)
    PROVE  /\ (Course(t, e, v, r) => Course(t, f, v, r))
           /\ (Pending(t, e, v) => Pending(t, f, v))
           /\ (After(t, e, v, r, fl) => After(t, f, v, r, fl))
           /\ (Exact(t, e, v, r, fl) => Exact(t, f, v, r, fl))
           /\ (Lost(e, v, r, fl) => Lost(f, v, r, fl))
           /\ (Refused(e, v, r, fl) => Refused(f, v, r, fl))
<1>1. /\ f.state = e.state /\ f.cmds = e.cmds
      /\ f.advInfo \in {e.advInfo, NoAdv} /\ (Stray(f) => Stray(e))
      /\ (e.thread = "ready" => f.thread = "ready" \/ e.state = "STATE_IDLE")
  BY DEF Stay
<1>2. e.mail \in Seq(Mails) /\ f.mail \in Seq(Mails)
  BY DEF AppSet
<1>3. /\ (None(e.mail, Failures) => None(f.mail, Failures))
      /\ (None(e.mail, Answers) => None(f.mail, Answers))
      /\ (Single(e.mail, Answers) => Single(f.mail, Answers))
      /\ \A S : Some(e.mail, S) => Some(f.mail, S)
  <2>1. Grows(e.mail, f.mail, Answers) /\ Failures \subseteq Answers
    BY MailKinds DEF Stay
  <2>2. Grows(e.mail, f.mail, Failures)
    BY <1>2, <2>1, QueueGrows
  <2>q. QED BY <1>2, <2>1, <2>2, QueueGrows
<1>4. Course(t, e, v, r) => Course(t, f, v, r)
  BY <1>1, <1>3 DEF Course
<1>5. Pending(t, e, v) => Pending(t, f, v)
  BY <1>1, <1>3 DEF Pending
<1>6. After(t, e, v, r, fl) => After(t, f, v, r, fl)
  BY <1>1, <1>4, <1>5 DEF After
<1>7. Tokens(e, v) => Tokens(f, v)
  BY <1>1, <1>3 DEF Tokens
<1>8. Exact(t, e, v, r, fl) => Exact(t, f, v, r, fl)
  BY <1>1, <1>6, <1>7 DEF Exact
<1>9. \A k : Indicated(e, v, k) => Indicated(f, v, k)
  BY <1>1, <1>3 DEF Indicated, Ahead
<1>10. Lost(e, v, r, fl) => Lost(f, v, r, fl)
  <2>1. e.state \in LosesIn => e.state # "STATE_IDLE"
    BY DEF LosesIn
  <2>q. QED BY <1>1, <1>3, <1>9, <2>1 DEF Lost
<1>11. \A o : RefusedOp(o, e, v) => RefusedOp(o, f, v)
  BY <1>1, <1>3 DEF RefusedOp
<1>12. Refused(e, v, r, fl) => Refused(f, v, r, fl)
  <2>1. \A o \in {"ADV", "SCAN", "CONNECT"} : RefusedOp(o, e, v) => e.state # "STATE_IDLE"
    BY DEF RefusedOp, FailsFrom
  <2>q. QED BY <1>1, <1>11, <2>1 DEF Refused
<1>q. QED BY <1>4, <1>5, <1>6, <1>8, <1>10, <1>12

\* A command sent from a settled state keeps the course, for the new state.
LEMMA AskCourse ==
    ASSUME NEW e \in AppSet, NEW f \in AppSet, NEW v, NEW r, NEW fl, NEW t, NEW c, Ask(e, f, c),
           Course(t, e, v, r)
    PROVE  \E u : /\ After(u, f, v, r, fl)
                  /\ (f.state \in AdvStates => End(u).param = f.advInfo \/ Cut(End(u)))
                  /\ (Exact(t, e, v, r, fl) => Exact(u, f, v, r, fl))
<1>1. /\ c \in Asks /\ f.cmds = Append(e.cmds, c) /\ f.mail = e.mail
      /\ Kind(c.cmd, e.state, f.state) /\ c \in Commands
      /\ (c.cmd \in {"START_ADV", "UPDATE_ADV"} => f.advInfo = c.param)
  BY DEF Ask, Asks
<1>2. e.cmds \in Seq(Commands) /\ Len(e.cmds) \in Nat
  BY DEF AppSet
<1>3. Run(t, r, e.cmds) /\ (End(t).act = Goal(e.state) \/ Cut(End(t))) /\ End(t) \in Tracks
  <2>1. Run(t, r, e.cmds) /\ (End(t).act = Goal(e.state) \/ Cut(End(t)))
    BY DEF Course
  <2>2. t \in Seq(Tracks) /\ Len(t) = Len(e.cmds) + 1
    BY <2>1 DEF Run
  <2>q. QED BY <1>2, <2>1, <2>2, ElementOfSeq DEF End
<1>4. /\ Settled(e.state) /\ ~Settled(f.state) /\ (c \in Starts => End(t).act = "none")
      /\ Cut(Effect(End(t), c)) \/ Live(End(t), c)
      /\ Effect(End(t), c).act = Goal(f.state) \/ Cut(Effect(End(t), c))
      /\ (f.state \in AdvStates => /\ c.cmd \in {"START_ADV", "UPDATE_ADV"}
                                   /\ \/ Effect(End(t), c).param = c.param
                                      \/ past /\ Effect(End(t), c) = End(t) /\ Cut(End(t)))
      /\ (Ending(f.state) # "none" => Ending(f.state) = Goal(e.state))
  <2>1. PICK x : x = e.state
    OBVIOUS
  <2>2. PICK y : y = f.state
    OBVIOUS
  <2>3. PICK a : a = End(t)
    OBVIOUS
  <2>4. Kind(c.cmd, x, y) /\ a \in Tracks /\ (a.act = Goal(x) \/ Cut(a))
    BY <1>1, <1>3, <2>1, <2>2, <2>3
  <2>5. /\ (c \in Starts => a.act = "none")
        /\ Cut(Effect(a, c)) \/ Live(a, c)
        /\ Effect(a, c).act = Goal(y) \/ Cut(Effect(a, c))
        /\ (y \in AdvStates => Effect(a, c).param = c.param \/ (past /\ Effect(a, c) = a /\ Cut(a)))
    BY <1>1, <2>4, KindEffect
  <2>6. /\ Settled(x) /\ ~Settled(y)
        /\ (y \in AdvStates => c.cmd \in {"START_ADV", "UPDATE_ADV"})
        /\ (Ending(y) # "none" => Ending(y) = Goal(x))
    BY <1>1, <2>4, KindStates
  <2>q. QED BY <2>1, <2>2, <2>3, <2>5, <2>6
<1>5. PICK u : /\ Run(u, r, Append(e.cmds, c))
               /\ End(u) = Effect(End(t), c)
               /\ u[Len(e.cmds) + 1] = End(t) /\ u[Len(e.cmds) + 2] = End(u)
               /\ \A i \in 1 .. Len(e.cmds) + 1 : u[i] = t[i]
  <2>1. PICK s : s = e.cmds
    OBVIOUS
  <2>2. s \in Seq(Commands) /\ Run(t, r, s) /\ c \in Commands /\ (c \in Starts => End(t).act = "none")
    BY <1>1, <1>2, <1>3, <1>4, <2>1
  <2>3. \E u : /\ Run(u, r, Append(s, c))
               /\ End(u) = Effect(End(t), c)
               /\ u[Len(s) + 1] = End(t) /\ u[Len(s) + 2] = End(u)
               /\ \A i \in 1 .. Len(s) + 1 : u[i] = t[i]
               /\ 1 \in 1 .. Len(s) + 1
    BY <2>2, RunPush
  <2>q. QED BY <2>1, <2>3
<1>6. /\ Course(u, f, v, r)
      /\ (f.state \in AdvStates => End(u).param = f.advInfo \/ Cut(End(u)))
  BY <1>1, <1>4, <1>5 DEF Course
<1>7. Cut(End(u)) \/ Pending(u, f, v)
  <2>1. Len(f.cmds) = Len(e.cmds) + 1 /\ f.cmds[Len(e.cmds) + 1] = c
    BY <1>1, <1>2, AppendOf
  <2>2. /\ Len(e.cmds) + 1 \in 1 .. Len(f.cmds)
        /\ Cut(End(u)) \/ Live(u[Len(e.cmds) + 1], f.cmds[Len(e.cmds) + 1])
    BY <1>2, <1>4, <1>5, <2>1
  <2>q. QED BY <2>2 DEF Pending
<1>8. After(u, f, v, r, fl)
  BY <1>6, <1>7 DEF After
<1>9. ASSUME Exact(t, e, v, r, fl) PROVE Exact(u, f, v, r, fl)
  <2>0. ~past
    BY <1>9 DEF Exact
  <2>1. None(e.cmds, Asks) /\ None(v, Cmps) /\ None(e.mail, Answers)
    BY <1>4, <1>9 DEF Exact, Tokens
  <2>2. Single(f.cmds, Asks)
    BY <1>1, <1>2, <2>1, QueueAppend
  <2>3. Tokens(f, v)
    BY <1>1, <1>4, <2>1, <2>2 DEF Tokens
  <2>4. Flat(u, f.cmds)
    BY <1>1, <1>2, <1>5, <1>9, <2>1, FlatPush DEF Exact
  <2>5. End(t) = t[1] /\ t[1] = Track(r)
    BY <1>3, <1>9, <2>1 DEF Exact, Flat, Run
  <2>6. Ending(f.state) # "none" => r.act \in {"none", Ending(f.state)}
    BY <1>3, <1>4, <1>9, <2>5 DEF Track, Exact, Cut
  <2>7. ~Stray(f)
    BY <1>4 DEF Stray
  <2>q. QED BY <1>8, <2>0, <2>3, <2>4, <2>6, <2>7 DEF Exact
<1>q. QED BY <1>6, <1>8, <1>9

\* A command sent while a connection or a refusal is on its way.
LEMMA AskLost ==
    ASSUME NEW e \in AppSet, NEW f \in AppSet, NEW v, NEW r, NEW fl, NEW c, Ask(e, f, c)
    PROVE  /\ (Lost(e, v, r, fl) => Lost(f, v, r, fl))
           /\ (Refused(e, v, r, fl) => Refused(f, v, r, fl))
<1>1. /\ c \in Asks /\ f.cmds = Append(e.cmds, c) /\ f.mail = e.mail
      /\ Kind(c.cmd, e.state, f.state) /\ c \in Commands
      /\ (e.thread = "ready" => f.thread = "ready")
  BY DEF Ask, Asks
<1>2. e.cmds \in Seq(Commands) /\ Len(e.cmds) \in Nat
  BY DEF AppSet
<1>3. /\ ~Settled(f.state)
      /\ (e.state \in LosesIn => f.state \in LosesIn /\ c \notin Starts /\ e.state # "STARTING_ADV")
      /\ \A o \in {"ADV", "SCAN", "CONNECT"} :
             e.state \in FailsFrom[o] => c.cmd = "CANCEL" /\ f.state \in FailsFrom[o]
  BY <1>1, KindStates
<1>4. ~Stray(f)
  BY <1>3 DEF Stray
<1>5. ASSUME Lost(e, v, r, fl) PROVE Lost(f, v, r, fl)
  <2>1. None(f.cmds, Starts) /\ f.state \in LosesIn
    BY <1>1, <1>2, <1>3, <1>5, QueueAppend DEF Lost
  <2>2. \A k : Indicated(e, v, k) => Indicated(f, v, k)
    BY <1>1, <1>3, <1>5 DEF Indicated, Ahead, Lost
  <2>q. QED BY <1>1, <1>4, <1>5, <2>1, <2>2 DEF Lost
<1>6. ASSUME Refused(e, v, r, fl) PROVE Refused(f, v, r, fl)
  <2>1. PICK o \in {"ADV", "SCAN", "CONNECT"} : RefusedOp(o, e, v)
    BY <1>6 DEF Refused
  <2>2. c.cmd = "CANCEL" /\ RefusedOp(o, f, v)
    BY <1>1, <1>3, <2>1 DEF RefusedOp
  <2>3. \A i \in 1 .. Len(f.cmds) : f.cmds[i].cmd \in {"CANCEL", "DISCONNECT"}
    <3>1. \A i \in 1 .. Len(f.cmds) : (i \in 1 .. Len(e.cmds) /\ f.cmds[i] = e.cmds[i]) \/ f.cmds[i] = c
      BY <1>1, <1>2, AppendOf
    <3>q. QED BY <1>6, <2>2, <3>1 DEF Refused
  <2>q. QED BY <1>1, <1>6, <2>1, <2>2, <2>3 DEF Refused
<1>q. QED BY <1>5, <1>6
-----------------------------------------------------------------------------
(* The thread takes a mail.                                                *)

Took(e, g) ==
    /\ e.mail # <<>> /\ g.mail = Tail(e.mail)
    /\ g.state = e.state /\ g.op = e.op /\ g.cmds = e.cmds
    /\ g.advInfo = e.advInfo /\ g.thread = e.thread
    /\ g.advParam = e.advParam /\ g.connect = e.connect /\ g.advSwitch = e.advSwitch

\* A mail that completes nothing.
LEMMA TookOther ==
    ASSUME NEW e \in AppSet, NEW g \in AppSet, Took(e, g), e.mail[1] \notin Answers,
           NEW v, NEW r, NEW fl, NEW t
    PROVE  /\ (After(t, e, v, r, fl) => After(t, g, v, r, fl))
           /\ (Exact(t, e, v, r, fl) => Exact(t, g, v, r, fl))
           /\ (Lost(e, v, r, fl) => Lost(g, v, r, fl))
           /\ (Refused(e, v, r, fl) => Refused(g, v, r, fl))
<1>1. /\ g.mail = Tail(e.mail)
      /\ g.state = e.state /\ g.op = e.op /\ g.cmds = e.cmds
      /\ g.advInfo = e.advInfo /\ g.thread = e.thread
  BY DEF Took
<1>2. e.mail \in Seq(Mails) /\ e.mail # <<>>
  BY DEF AppSet, Took
<1>3. /\ \A S : None(e.mail, S) => None(g.mail, S)
      /\ \A S : Single(e.mail, S) => Single(g.mail, S)
      /\ \A S : Some(e.mail, S) /\ e.mail[1] \notin S => Some(g.mail, S)
  BY <1>1, <1>2, QueueTail
<1>4. Stray(g) = Stray(e)
  BY <1>1 DEF Stray
<1>5. Pending(t, e, v) => Pending(t, g, v)
  BY <1>1, <1>3 DEF Pending
<1>6. Course(t, e, v, r) => Course(t, g, v, r)
  BY <1>1, <1>3 DEF Course
<1>7. After(t, e, v, r, fl) => After(t, g, v, r, fl)
  BY <1>1, <1>4, <1>5, <1>6 DEF After
<1>8. Exact(t, e, v, r, fl) => Exact(t, g, v, r, fl)
  <2>1. Tokens(e, v) => Tokens(g, v)
    BY <1>1, <1>3 DEF Tokens
  <2>q. QED BY <1>1, <1>4, <1>7, <2>1 DEF Exact
<1>9. Lost(e, v, r, fl) => Lost(g, v, r, fl)
  <2>1. \A k : Indicated(e, v, k) => Indicated(g, v, k)
    BY <1>1, <1>3 DEF Indicated, Ahead
  <2>q. QED BY <1>1, <1>3, <1>4, <2>1 DEF Lost
<1>10. Refused(e, v, r, fl) => Refused(g, v, r, fl)
  <2>1. ASSUME NEW o \in {"ADV", "SCAN", "CONNECT"}, RefusedOp(o, e, v)
        PROVE  RefusedOp(o, g, v)
    <3>1. Function(FailedFunc[o]) \in Answers
      BY DEF Answers, Mails, Functions, FailedFunc, Function
    <3>2. e.mail[1] \notin {Function(FailedFunc[o])}
      BY <3>1
    <3>q. QED BY <1>1, <1>3, <2>1, <3>2 DEF RefusedOp
  <2>q. QED BY <1>1, <2>1 DEF Refused
<1>q. QED BY <1>7, <1>8, <1>9, <1>10

\* What a completion makes of the state.
Advanced(s) ==
    CASE s = "STARTING_ADV" -> "ADVERTISING"
      [] s = "STARTING_SCAN" -> "SCANNING"
      [] s = "STARTING_CONNECT" -> "CONNECTING"
      [] s \in {"STOPPING_ADV", "STOPPING_SCAN", "STOPPING_CONNECT"} -> "STATE_IDLE"
      [] OTHER -> s

\* It settles, and does not change what the radio is to do.
LEMMA AdvancedFacts ==
    ASSUME NEW s \in States
    PROVE  /\ Advanced(s) \in States /\ Settled(Advanced(s)) /\ Goal(Advanced(s)) = Goal(s)
           /\ Ending(Advanced(s)) = "none"
           /\ (Advanced(s) \in AdvStates <=> s \in AdvStates)
           /\ (Settled(s) => Advanced(s) = s)
<1>1. Advanced(s) \in States /\ Settled(Advanced(s)) /\ (Settled(s) => Advanced(s) = s)
  BY DEF Advanced, States, Settled, Running
<1>2. Goal(Advanced(s)) = Goal(s) /\ (Advanced(s) \in AdvStates <=> s \in AdvStates)
  BY DEF Advanced, Goal, AdvStates
<1>3. Ending(Advanced(s)) = "none"
  BY DEF Advanced, Ending
<1>q. QED BY <1>1, <1>2, <1>3

\* A completion settles the state it was for; the pending operation is taken.
LEMMA TookSwitch ==
    ASSUME NEW e \in AppSet, NEW g \in AppSet, Took(e, g), e.mail[1] \in Answers, e.mail[1] \notin Failures,
           NEW h \in AppSet, h.state = Advanced(e.state), h.op = "OP_IDLE", h.cmds = e.cmds,
           h.mail = g.mail, h.advInfo = e.advInfo, h.thread = e.thread,
           NEW v, NEW r, NEW fl, NEW t
    PROVE  /\ (After(t, e, v, r, fl) => After(t, h, v, r, fl))
           /\ (Exact(t, e, v, r, fl) => Exact(t, h, v, r, fl))
           /\ (Lost(e, v, r, fl) => Lost(h, v, r, fl))
           /\ ~Refused(e, v, r, fl)
<1>1. h.mail = Tail(e.mail) /\ e.mail # <<>>
  BY DEF Took
<1>2. e.mail \in Seq(Mails) /\ e.state \in States
  BY DEF AppSet
<1>3. /\ \A S : None(e.mail, S) => None(h.mail, S)
      /\ (Single(e.mail, Answers) => None(h.mail, Answers))
      /\ ~None(e.mail, Answers)
  BY <1>1, <1>2, QueueTail
<1>4. /\ Settled(h.state) /\ Goal(h.state) = Goal(e.state) /\ Ending(h.state) = "none"
      /\ (h.state \in AdvStates <=> e.state \in AdvStates)
      /\ (Settled(e.state) => h.state = e.state)
  BY <1>2, AdvancedFacts
<1>5. ~Stray(h)
  BY DEF Stray
<1>6. Course(t, e, v, r) => Course(t, h, v, r)
  BY <1>3, <1>4 DEF Course
<1>7. After(t, e, v, r, fl) => After(t, h, v, r, fl)
  BY <1>4, <1>5, <1>6 DEF After
<1>8. Exact(t, e, v, r, fl) => Exact(t, h, v, r, fl)
  <2>1. Tokens(e, v) => Tokens(h, v)
    <3>1. None(h.mail, Answers) => Single(h.mail, Answers)
      BY QueueSubset
    <3>q. QED BY <1>3, <3>1 DEF Tokens
  <2>q. QED BY <1>4, <1>5, <1>7, <2>1 DEF Exact
<1>9. ASSUME Lost(e, v, r, fl) PROVE Lost(h, v, r, fl)
  <2>1. PICK k \in 1 .. Len(v) : Indicated(e, v, k)
    BY <1>9 DEF Lost
  <2>2. e.state = "STARTING_ADV" /\ Single(e.mail, Answers) /\ \A i \in 1 .. k : v[i] \notin Cmps
    BY <1>3, <2>1 DEF Indicated, Ahead
  <2>3. h.state \in LosesIn
    BY <2>2 DEF Advanced, LosesIn
  <2>4. Indicated(h, v, k)
    BY <1>3, <2>1, <2>2 DEF Indicated, Ahead
  <2>q. QED BY <1>3, <1>5, <1>9, <2>3, <2>4 DEF Lost
<1>10. ASSUME Refused(e, v, r, fl) PROVE FALSE
  <2>1. PICK o \in {"ADV", "SCAN", "CONNECT"} : RefusedOp(o, e, v)
    BY <1>10 DEF Refused
  <2>2. Single(e.mail, Answers) /\ Some(e.mail, {Function(FailedFunc[o])})
    BY <1>3, <2>1 DEF RefusedOp
  <2>3. Function(FailedFunc[o]) \in Failures
    BY DEF Failures, Answers, Mails, Functions, FailedFunc, Function
  <2>4. PICK i \in 1 .. Len(e.mail) : e.mail[i] = Function(FailedFunc[o])
    BY <2>2 DEF Some
  <2>5. 1 \in 1 .. Len(e.mail) /\ e.mail[i] \in Answers
    BY <1>1, <1>2, <2>3, <2>4, TailOf, MailKinds
  <2>6. i = 1
    BY <2>2, <2>5 DEF Single
  <2>q. QED BY <2>3, <2>4, <2>6
<1>q. QED BY <1>7, <1>8, <1>9, <1>10

\* The failure callback finds the state it expects, and the radio free.
LEMMA TookFailed ==
    ASSUME NEW e \in AppSet, NEW g \in AppSet, Took(e, g), e.mail[1] \in Failures,
           NEW v, NEW r, NEW fl
    PROVE  /\ \A t : ~After(t, e, v, r, fl)
           /\ ~Lost(e, v, r, fl)
           /\ (Refused(e, v, r, fl) =>
                  \E o \in {"ADV", "SCAN", "CONNECT"} :
                      /\ e.mail[1] = Function(FailedFunc[o]) /\ e.state \in FailsFrom[o]
                      /\ \A h \in AppSet :
                            h.state = "STATE_IDLE" /\ h.cmds = e.cmds /\ h.mail = g.mail =>
                                \E t : After(t, h, v, r, fl))
<1>1. e.mail \in Seq(Mails) /\ e.cmds \in Seq(Commands) /\ e.mail # <<>> /\ g.mail = Tail(e.mail)
  BY DEF AppSet, Took
<1>2. 1 \in 1 .. Len(e.mail)
  BY <1>1, TailOf
<1>3. ~None(e.mail, Failures) /\ ~None(e.mail, Answers)
  BY <1>2, MailKinds DEF None
<1>4. (\A t : ~After(t, e, v, r, fl)) /\ ~Lost(e, v, r, fl)
  BY <1>3 DEF After, Course, Lost
<1>5. ASSUME Refused(e, v, r, fl)
      PROVE  \E o \in {"ADV", "SCAN", "CONNECT"} :
                 /\ e.mail[1] = Function(FailedFunc[o]) /\ e.state \in FailsFrom[o]
                 /\ \A h \in AppSet :
                       h.state = "STATE_IDLE" /\ h.cmds = e.cmds /\ h.mail = g.mail =>
                           \E t : After(t, h, v, r, fl)
  <2>1. PICK o \in {"ADV", "SCAN", "CONNECT"} : RefusedOp(o, e, v)
    BY <1>5 DEF Refused
  <2>2. /\ None(v, Cmps) /\ Single(e.mail, Answers) /\ Some(e.mail, {Function(FailedFunc[o])})
        /\ e.state \in FailsFrom[o]
    BY <1>3, <2>1 DEF RefusedOp
  <2>3. Function(FailedFunc[o]) \in Answers
    BY DEF Answers, Mails, Functions, FailedFunc, Function
  <2>4. PICK i \in 1 .. Len(e.mail) : e.mail[i] = Function(FailedFunc[o])
    BY <2>2 DEF Some
  <2>5. i = 1
    BY <1>2, <2>2, <2>3, <2>4, MailKinds DEF Single
  <2>6. None(g.mail, Answers)
    BY <1>1, <2>2, <2>3, <2>4, <2>5, QueueTail
  <2>7. ASSUME NEW h \in AppSet, h.state = "STATE_IDLE", h.cmds = e.cmds, h.mail = g.mail
        PROVE  \E t : After(t, h, v, r, fl)
    <3>1. None(e.cmds, Starts)
      BY <1>5 DEF None, Refused, Starts
    <3>2. PICK t : Run(t, r, h.cmds) /\ End(t) = Resting
      BY <1>1, <1>5, <2>7, <3>1, RunRests DEF Refused
    <3>3. None(v, Refusals) /\ None(v, Ups) /\ None(h.mail, Failures)
      BY <1>5, <2>2, <2>6, <2>7, MailKinds, EventKinds, QueueSubset DEF Refused
    <3>4. Goal(h.state) = "none" /\ h.state \notin AdvStates /\ Settled(h.state)
      BY <2>7 DEF Goal, AdvStates, Settled
    <3>5. After(t, h, v, r, fl)
      BY <1>5, <3>2, <3>3, <3>4 DEF After, Course, Resting, Refused
    <3>q. QED BY <3>5
  <2>q. QED BY <2>2, <2>4, <2>5, <2>7
<1>q. QED BY <1>4, <1>5

\* A disconnection is sent.
LEMMA DisconnectCourse ==
    ASSUME NEW g \in AppSet, NEW h \in AppSet, NEW d \in Commands, d \notin Asks,
           h.state = g.state, h.op = g.op, h.cmds = Append(g.cmds, d), h.mail = g.mail,
           h.advInfo = g.advInfo, h.thread = g.thread,
           NEW v, NEW r, NEW fl, NEW t
    PROVE  /\ (After(t, g, v, r, fl) =>
                  \E u : /\ After(u, h, v, r, fl) /\ End(u) = End(t)
                         /\ (Exact(t, g, v, r, fl) => Exact(u, h, v, r, fl)))
           /\ (Lost(g, v, r, fl) => Lost(h, v, r, fl))
           /\ (Refused(g, v, r, fl) => Refused(h, v, r, fl))
<1>1. g.cmds \in Seq(Commands) /\ Len(g.cmds) \in Nat /\ d \notin Starts /\ d.cmd = "DISCONNECT"
  BY DEF AppSet, Asks, Starts
<1>2. PICK s : s = g.cmds
  OBVIOUS
<1>3. /\ Len(h.cmds) = Len(s) + 1 /\ h.cmds[Len(s) + 1] = d
      /\ \A i \in 1 .. Len(s) : h.cmds[i] = s[i]
  BY <1>1, <1>2, AppendOf
<1>4. Stray(h) = Stray(g)
  BY DEF Stray
<1>5. ASSUME After(t, g, v, r, fl)
      PROVE  \E u : /\ After(u, h, v, r, fl) /\ End(u) = End(t)
                    /\ (Exact(t, g, v, r, fl) => Exact(u, h, v, r, fl))
  <2>1. s \in Seq(Commands) /\ Run(t, r, s) /\ (d \in Starts => End(t).act = "none")
    BY <1>1, <1>2, <1>5 DEF After, Course
  <2>2. \E u : /\ Run(u, r, Append(s, d))
               /\ End(u) = Effect(End(t), d)
               /\ u[Len(s) + 1] = End(t) /\ u[Len(s) + 2] = End(u)
               /\ \A i \in 1 .. Len(s) + 1 : u[i] = t[i]
               /\ 1 \in 1 .. Len(s) + 1
    BY <2>1, RunPush
  <2>3. PICK u : /\ Run(u, r, Append(s, d))
                 /\ End(u) = Effect(End(t), d)
                 /\ u[Len(s) + 1] = End(t) /\ u[Len(s) + 2] = End(u)
                 /\ \A i \in 1 .. Len(s) + 1 : u[i] = t[i]
    BY <2>2
  <2>4. End(u) = End(t)
    BY <2>3, EffectRests
  <2>5. Course(u, h, v, r)
    BY <1>2, <1>5, <2>3, <2>4 DEF Course, After
  <2>6. ASSUME Pending(t, g, v) PROVE Pending(u, h, v)
    <3>1. CASE \E i \in 1 .. Len(s) : Live(t[i], s[i])
      <4>1. PICK i \in 1 .. Len(s) : Live(t[i], s[i])
        BY <3>1
      <4>2. i \in 1 .. Len(h.cmds) /\ i \in 1 .. Len(s) + 1 /\ h.cmds[i] = s[i]
        BY <1>1, <1>2, <1>3
      <4>3. Live(u[i], h.cmds[i])
        BY <2>3, <4>1, <4>2
      <4>q. QED BY <4>2, <4>3 DEF Pending
    <3>q. QED BY <1>2, <2>6, <3>1 DEF Pending
  <2>7. After(u, h, v, r, fl)
    BY <1>4, <1>5, <2>4, <2>5, <2>6 DEF After, Cut
  <2>8. ASSUME Exact(t, g, v, r, fl) PROVE Exact(u, h, v, r, fl)
    <3>1. (None(s, Asks) => None(h.cmds, Asks)) /\ (Single(s, Asks) => Single(h.cmds, Asks))
      BY <1>1, <1>2, QueueAppend
    <3>2. Tokens(h, v)
      BY <1>2, <2>8, <3>1 DEF Exact, Tokens
    <3>3. Flat(u, Append(s, d))
      BY <1>1, <1>2, <2>3, <2>8, FlatPush DEF Exact
    <3>q. QED BY <1>2, <1>4, <2>7, <2>8, <3>2, <3>3 DEF Exact
  <2>q. QED BY <2>4, <2>7, <2>8
<1>6. Lost(g, v, r, fl) => Lost(h, v, r, fl)
  <2>1. None(g.cmds, Starts) => None(h.cmds, Starts)
    BY <1>1, QueueAppend
  <2>2. \A k : Indicated(g, v, k) => Indicated(h, v, k)
    BY DEF Indicated, Ahead
  <2>q. QED BY <1>4, <2>1, <2>2 DEF Lost
<1>7. ASSUME Refused(g, v, r, fl) PROVE Refused(h, v, r, fl)
  <2>1. \A o : RefusedOp(o, g, v) => RefusedOp(o, h, v)
    BY DEF RefusedOp
  <2>2. \A i \in 1 .. Len(h.cmds) : (i \in 1 .. Len(s) /\ h.cmds[i] = s[i]) \/ h.cmds[i] = d
    BY <1>1, <1>2, <1>3
  <2>3. \A i \in 1 .. Len(h.cmds) : h.cmds[i].cmd \in {"CANCEL", "DISCONNECT"}
    BY <1>1, <1>2, <1>7, <2>2 DEF Refused
  <2>q. QED BY <1>7, <2>1, <2>3 DEF Refused
<1>q. QED BY <1>5, <1>6, <1>7
-----------------------------------------------------------------------------
(* The thread takes an event.                                              *)

\* f is e with the mail m queued.
Posted(e, f, m) ==
    /\ f.mail = Append(e.mail, m) /\ m \in Mails
    /\ f.state = e.state /\ f.op = e.op /\ f.cmds = e.cmds /\ f.thread = e.thread
    /\ f.advInfo \in {e.advInfo, NoAdv}

\* The indication moves up.
LEMMA IndicatedTail ==
    ASSUME NEW e, NEW v \in Seq(Events), v # <<>>, NEW k \in 1 .. Len(v), Indicated(e, v, k),
           v[1] \notin Ups, NEW f, Ahead(e, v, k) => Ahead(f, Tail(v), k - 1)
    PROVE  k - 1 \in 1 .. Len(Tail(v)) /\ Indicated(f, Tail(v), k - 1)
<1>1. PICK w : w = Tail(v)
  OBVIOUS
<1>2. /\ Len(v) \in Nat /\ 1 \in 1 .. Len(v) /\ Len(w) = Len(v) - 1
      /\ \A i \in 1 .. Len(w) : i + 1 \in 1 .. Len(v) /\ w[i] = v[i + 1]
      /\ \A i \in 1 .. Len(v) : i # 1 => i - 1 \in 1 .. Len(w) /\ w[i - 1] = v[i]
  BY <1>1, TailOf
<1>3. k # 1 /\ v[k] \in Ups
  BY DEF Indicated
<1>4. k - 1 \in 1 .. Len(w) /\ w[k - 1] \in Ups
  BY <1>2, <1>3
<1>5. ASSUME NEW i \in 1 .. Len(w), w[i] \in Ups PROVE i = k - 1
  <2>1. i + 1 \in 1 .. Len(v) /\ v[i + 1] \in Ups
    BY <1>2, <1>5
  <2>2. i + 1 = k
    BY <2>1 DEF Indicated
  <2>q. QED BY <1>2, <2>2
<1>6. \E j \in k - 1 + 1 .. Len(w) : w[j] \in Cmps
  <2>1. PICK j \in k + 1 .. Len(v) : v[j] \in Cmps
    BY DEF Indicated
  <2>2. j \in 1 .. Len(v) /\ j # 1 /\ j - 1 \in k - 1 + 1 .. Len(w)
    BY <1>2, <2>1
  <2>3. w[j - 1] \in Cmps
    BY <1>2, <2>1, <2>2
  <2>q. QED BY <2>2, <2>3
<1>7. Ahead(f, w, k - 1)
  BY <1>1 DEF Indicated
<1>q. QED BY <1>1, <1>4, <1>5, <1>6, <1>7 DEF Indicated

\* A completion that is no refusal becomes a mail.
LEMMA CompletionCourse ==
    ASSUME NEW e \in AppSet, NEW f \in AppSet, NEW v \in Seq(Events), v # <<>>, NEW r, NEW fl, NEW t,
           v[1] \in Cmps, v[1] \notin Refusals, NEW m, m \in Answers, m \notin Failures, Posted(e, f, m)
    PROVE  /\ (After(t, e, v, r, fl) => After(t, f, Tail(v), r, fl))
           /\ (Exact(t, e, v, r, fl) => Exact(t, f, Tail(v), r, fl))
           /\ (Lost(e, v, r, fl) => Lost(f, Tail(v), r, fl))
           /\ ~Refused(e, v, r, fl)
<1>1. /\ f.mail = Append(e.mail, m) /\ m \in Mails
      /\ f.state = e.state /\ f.op = e.op /\ f.cmds = e.cmds /\ f.thread = e.thread
      /\ f.advInfo \in {e.advInfo, NoAdv}
  BY DEF Posted
<1>2. e.mail \in Seq(Mails)
  BY DEF AppSet
<1>3. /\ \A S : None(v, S) => None(Tail(v), S)
      /\ (Single(v, Cmps) => None(Tail(v), Cmps))
      /\ ~None(v, Cmps)
  BY QueueTail
<1>4. /\ (None(e.mail, Failures) => None(f.mail, Failures))
      /\ (None(e.mail, Answers) => Single(f.mail, Answers))
      /\ Some(f.mail, Answers)
  BY <1>1, <1>2, QueueAppend
<1>5. Stray(f) = Stray(e)
  BY <1>1 DEF Stray
<1>6. After(t, e, v, r, fl) => After(t, f, Tail(v), r, fl)
  <2>1. Course(t, e, v, r) => Course(t, f, Tail(v), r)
    BY <1>1, <1>3, <1>4 DEF Course
  <2>2. Pending(t, f, Tail(v))
    BY <1>4 DEF Pending
  <2>q. QED BY <2>1, <2>2 DEF After
<1>7. ASSUME Exact(t, e, v, r, fl) PROVE Exact(t, f, Tail(v), r, fl)
  <2>1. ~Settled(e.state) /\ None(e.cmds, Asks) /\ Single(v, Cmps) /\ None(e.mail, Answers)
    BY <1>3, <1>7 DEF Exact, Tokens
  <2>2. Tokens(f, Tail(v))
    BY <1>1, <1>3, <1>4, <2>1 DEF Tokens
  <2>q. QED BY <1>1, <1>5, <1>6, <1>7, <2>2 DEF Exact
<1>8. ASSUME Lost(e, v, r, fl) PROVE Lost(f, Tail(v), r, fl)
  <2>1. PICK k \in 1 .. Len(v) : Indicated(e, v, k)
    BY <1>8 DEF Lost
  <2>2. PICK w : w = Tail(v)
    OBVIOUS
  <2>3. /\ Len(v) \in Nat /\ 1 \in 1 .. Len(v) /\ Len(w) = Len(v) - 1
        /\ \A i \in 1 .. Len(w) : w[i] = v[i + 1]
    BY <2>2, TailOf
  <2>4. v[1] \notin Ups
    BY EventKinds
  <2>5. k \in Nat /\ 1 \in 1 .. k /\ k # 1
    BY <2>1, <2>3, <2>4 DEF Indicated
  <2>6. /\ e.state = "STARTING_ADV" /\ None(e.mail, Answers)
        /\ \A i, j \in 1 .. k : v[i] \in Cmps /\ v[j] \in Cmps => i = j
    BY <2>1, <2>5 DEF Indicated, Ahead
  <2>7. ASSUME NEW i \in 1 .. k - 1 PROVE w[i] \notin Cmps
    <3>1. i + 1 \in 1 .. k /\ i + 1 # 1 /\ i \in 1 .. Len(w)
      BY <2>3, <2>5
    <3>q. QED BY <2>3, <2>5, <2>6, <3>1
  <2>8. Ahead(f, w, k - 1)
    BY <1>1, <1>4, <2>6, <2>7 DEF Ahead
  <2>9. k - 1 \in 1 .. Len(w) /\ Indicated(f, w, k - 1)
    BY <2>1, <2>2, <2>4, <2>8, IndicatedTail
  <2>q. QED BY <1>1, <1>3, <1>4, <1>5, <1>8, <2>2, <2>9 DEF Lost
<1>9. ASSUME Refused(e, v, r, fl) PROVE FALSE
  <2>1. PICK o \in {"ADV", "SCAN", "CONNECT"} : RefusedOp(o, e, v)
    BY <1>9 DEF Refused
  <2>2. Single(v, Cmps) /\ Some(v, {Complete(o, "FAILED")})
    BY <1>3, <2>1 DEF RefusedOp
  <2>3. Complete(o, "FAILED") \in Refusals
    BY DEF Refusals, Cmps, Events, Statuses, Complete
  <2>4. PICK i \in 1 .. Len(v) : v[i] = Complete(o, "FAILED")
    BY <2>2 DEF Some
  <2>5. 1 \in 1 .. Len(v) /\ v[i] \in Cmps
    BY <2>3, <2>4, TailOf, EventKinds
  <2>6. i = 1
    BY <2>2, <2>5 DEF Single
  <2>q. QED BY <2>3, <2>4, <2>6
<1>q. QED BY <1>6, <1>7, <1>8, <1>9

\* A refusal becomes a mail to the failure callback of its operation.
LEMMA RefusalCourse ==
    ASSUME NEW e \in AppSet, NEW v \in Seq(Events), v # <<>>, NEW r, NEW fl, v[1] \in Refusals
    PROVE  /\ \A t : ~After(t, e, v, r, fl)
           /\ ~Lost(e, v, r, fl)
           /\ (Refused(e, v, r, fl) =>
                  \E o \in {"ADV", "SCAN", "CONNECT"} :
                      /\ v[1] = Complete(o, "FAILED")
                      /\ \A f \in AppSet : Posted(e, f, Function(FailedFunc[o])) =>
                                               Refused(f, Tail(v), r, fl))
<1>1. 1 \in 1 .. Len(v) /\ v[1] \in Cmps
  BY TailOf, EventKinds
<1>2. ~None(v, Refusals) /\ ~None(v, Cmps)
  BY <1>1 DEF None
<1>3. (\A t : ~After(t, e, v, r, fl)) /\ ~Lost(e, v, r, fl)
  BY <1>2 DEF After, Course, Lost
<1>4. ASSUME Refused(e, v, r, fl)
      PROVE  \E o \in {"ADV", "SCAN", "CONNECT"} :
                 /\ v[1] = Complete(o, "FAILED")
                 /\ \A f \in AppSet : Posted(e, f, Function(FailedFunc[o])) => Refused(f, Tail(v), r, fl)
  <2>1. PICK o \in {"ADV", "SCAN", "CONNECT"} : RefusedOp(o, e, v)
    BY <1>4 DEF Refused
  <2>2. /\ None(e.mail, Answers) /\ Single(v, Cmps) /\ Some(v, {Complete(o, "FAILED")})
        /\ e.state \in FailsFrom[o]
    BY <1>2, <2>1 DEF RefusedOp
  <2>3. PICK i \in 1 .. Len(v) : v[i] = Complete(o, "FAILED")
    BY <2>2 DEF Some
  <2>4. Complete(o, "FAILED") \in Cmps
    BY DEF Cmps, Events, Statuses, Complete
  <2>5. i = 1
    BY <1>1, <2>2, <2>3, <2>4 DEF Single
  <2>6. None(Tail(v), Cmps) /\ None(Tail(v), Ups)
    BY <1>1, <1>4, <2>2, QueueTail DEF Refused
  <2>7. ASSUME NEW f \in AppSet, Posted(e, f, Function(FailedFunc[o]))
        PROVE  Refused(f, Tail(v), r, fl)
    <3>1. PICK m : m = Function(FailedFunc[o])
      OBVIOUS
    <3>2. /\ f.mail = Append(e.mail, m) /\ m \in Mails /\ e.mail \in Seq(Mails)
          /\ f.state = e.state /\ f.cmds = e.cmds /\ f.thread = e.thread
      BY <2>7, <3>1 DEF Posted, AppSet
    <3>3. Single(f.mail, Answers) /\ Some(f.mail, {m})
      BY <2>2, <3>2, QueueAppend
    <3>4. RefusedOp(o, f, Tail(v))
      BY <2>2, <2>6, <3>1, <3>2, <3>3 DEF RefusedOp
    <3>q. QED BY <1>4, <2>6, <3>2, <3>4 DEF Refused
  <2>q. QED BY <2>3, <2>5, <2>7
<1>q. QED BY <1>3, <1>4

\* A disconnection is indicated: a request to advertise is queued.
LEMMA DownCourse ==
    ASSUME NEW e \in AppSet, NEW f \in AppSet, NEW v \in Seq(Events), v # <<>>, NEW r, NEW fl, NEW t,
           v[1] \in Downs, NEW m, m \notin Answers, Posted(e, f, m)
    PROVE  /\ (After(t, e, v, r, fl) => After(t, f, Tail(v), r, fl))
           /\ (Exact(t, e, v, r, fl) => Exact(t, f, Tail(v), r, fl))
           /\ (Lost(e, v, r, fl) => Lost(f, Tail(v), r, fl))
           /\ (Refused(e, v, r, fl) => Refused(f, Tail(v), r, fl))
<1>1. /\ f.mail = Append(e.mail, m) /\ m \in Mails
      /\ f.state = e.state /\ f.op = e.op /\ f.cmds = e.cmds /\ f.thread = e.thread
      /\ f.advInfo \in {e.advInfo, NoAdv}
  BY DEF Posted
<1>2. e.mail \in Seq(Mails) /\ v[1] \notin Cmps /\ v[1] \notin Ups
  BY EventKinds DEF AppSet
<1>3. /\ \A S : None(v, S) => None(Tail(v), S)
      /\ \A S : Single(v, S) => Single(Tail(v), S)
      /\ \A S : Some(v, S) /\ v[1] \notin S => Some(Tail(v), S)
  BY QueueTail
<1>4. /\ (None(e.mail, Failures) => None(f.mail, Failures))
      /\ (None(e.mail, Answers) => None(f.mail, Answers))
      /\ (Single(e.mail, Answers) => Single(f.mail, Answers))
      /\ \A S : Some(e.mail, S) => Some(f.mail, S)
  <2>1. m \notin Failures
    BY MailKinds
  <2>q. QED BY <1>1, <1>2, <2>1, QueueAppend
<1>5. Stray(f) = Stray(e)
  BY <1>1 DEF Stray
<1>6. After(t, e, v, r, fl) => After(t, f, Tail(v), r, fl)
  <2>1. Course(t, e, v, r) => Course(t, f, Tail(v), r)
    BY <1>1, <1>3, <1>4 DEF Course
  <2>2. Pending(t, e, v) => Pending(t, f, Tail(v))
    BY <1>1, <1>2, <1>3, <1>4 DEF Pending
  <2>q. QED BY <1>1, <1>5, <2>1, <2>2 DEF After
<1>7. Exact(t, e, v, r, fl) => Exact(t, f, Tail(v), r, fl)
  <2>1. Tokens(e, v) => Tokens(f, Tail(v))
    BY <1>1, <1>3, <1>4 DEF Tokens
  <2>q. QED BY <1>1, <1>5, <1>6, <2>1 DEF Exact
<1>8. ASSUME Lost(e, v, r, fl) PROVE Lost(f, Tail(v), r, fl)
  <2>1. PICK k \in 1 .. Len(v) : Indicated(e, v, k)
    BY <1>8 DEF Lost
  <2>2. PICK w : w = Tail(v)
    OBVIOUS
  <2>3. Len(v) \in Nat /\ Len(w) = Len(v) - 1 /\ \A i \in 1 .. Len(w) : w[i] = v[i + 1]
    BY <2>2, TailOf
  <2>4. ASSUME NEW i \in 1 .. k - 1
        PROVE  i + 1 \in 1 .. k /\ w[i] = v[i + 1]
    BY <2>3
  <2>5. Ahead(e, v, k) => Ahead(f, w, k - 1)
    <3>1. (\A i \in 1 .. k : v[i] \notin Cmps) => \A i \in 1 .. k - 1 : w[i] \notin Cmps
      BY <2>4
    <3>2. ASSUME \A i, j \in 1 .. k : v[i] \in Cmps /\ v[j] \in Cmps => i = j
          PROVE  \A i, j \in 1 .. k - 1 : w[i] \in Cmps /\ w[j] \in Cmps => i = j
      <4>1. ASSUME NEW i \in 1 .. k - 1, NEW j \in 1 .. k - 1, w[i] \in Cmps, w[j] \in Cmps
            PROVE  i = j
        <5>1. i + 1 = j + 1
          BY <2>4, <3>2, <4>1
        <5>q. QED BY <5>1
      <4>q. QED BY <4>1
    <3>q. QED BY <1>1, <1>4, <3>1, <3>2 DEF Ahead
  <2>6. k - 1 \in 1 .. Len(w) /\ Indicated(f, w, k - 1)
    BY <1>2, <2>1, <2>2, <2>5, IndicatedTail
  <2>q. QED BY <1>1, <1>3, <1>4, <1>5, <1>8, <2>2, <2>6 DEF Lost
<1>9. ASSUME Refused(e, v, r, fl) PROVE Refused(f, Tail(v), r, fl)
  <2>1. ASSUME NEW o \in {"ADV", "SCAN", "CONNECT"}, RefusedOp(o, e, v)
        PROVE  RefusedOp(o, f, Tail(v))
    <3>1. Complete(o, "FAILED") \in Cmps
      BY DEF Cmps, Events, Statuses, Complete
    <3>2. v[1] \notin {Complete(o, "FAILED")}
      BY <1>2, <3>1
    <3>q. QED BY <1>1, <1>3, <1>4, <2>1, <3>2 DEF RefusedOp
  <2>q. QED BY <1>1, <1>3, <1>9, <2>1 DEF Refused
<1>q. QED BY <1>6, <1>7, <1>8, <1>9

\* A connection is indicated: the state machine learns of it, and what is
\* still to be completed is what it was stopping.
LEMMA UpCourse ==
    ASSUME NEW e \in AppSet, NEW f \in AppSet, NEW v \in Seq(Events), v # <<>>, NEW r, NEW fl,
           v[1] \in Ups, NEW m \in Mails, m \notin Answers, f.mail = Append(e.mail, m), f.cmds = e.cmds,
           f.state = IF e.state \in {"ADVERTISING", "STARTING_ADV", "CONNECTING"} THEN "STATE_IDLE"
                     ELSE e.state
    PROVE  /\ \A t : ~After(t, e, v, r, fl)
           /\ ~Refused(e, v, r, fl)
           /\ (Lost(e, v, r, fl) => f.state \notin AdvStates /\ \E t : After(t, f, Tail(v), r, fl))
<1>1. 1 \in 1 .. Len(v) /\ Len(v) \in Nat
  BY TailOf
<1>2. ~None(v, Ups)
  BY <1>1 DEF None
<1>3. (\A t : ~After(t, e, v, r, fl)) /\ ~Refused(e, v, r, fl)
  BY <1>2 DEF After, Course, Refused
<1>4. ASSUME Lost(e, v, r, fl)
      PROVE  f.state \notin AdvStates /\ \E t : After(t, f, Tail(v), r, fl)
  <2>1. PICK k \in 1 .. Len(v) : Indicated(e, v, k)
    BY <1>4 DEF Lost
  <2>2. PICK w : w = Tail(v)
    OBVIOUS
  <2>3. /\ Len(w) = Len(v) - 1
        /\ \A i \in 1 .. Len(w) : i + 1 \in 1 .. Len(v) /\ w[i] = v[i + 1]
        /\ \A i \in 1 .. Len(v) : i # 1 => i - 1 \in 1 .. Len(w) /\ w[i - 1] = v[i]
    BY <2>2, TailOf
  <2>4. k = 1
    BY <1>1, <2>1 DEF Indicated
  <2>5. None(w, Ups)
    <3>1. ASSUME NEW i \in 1 .. Len(w), w[i] \in Ups PROVE FALSE
      <4>1. i + 1 = 1
        BY <2>1, <2>3, <2>4, <3>1 DEF Indicated
      <4>q. QED BY <4>1
    <3>q. QED BY <3>1 DEF None
  <2>6. Some(w, Cmps)
    <3>1. PICK j \in k + 1 .. Len(v) : v[j] \in Cmps
      BY <2>1 DEF Indicated
    <3>2. j \in 1 .. Len(v) /\ j # 1
      BY <1>1, <2>4, <3>1
    <3>q. QED BY <2>3, <3>1, <3>2 DEF Some
  <2>7. None(w, Refusals)
    BY <1>4, <2>2, QueueTail DEF Lost
  <2>8. None(f.mail, Failures)
    <3>1. e.mail \in Seq(Mails) /\ m \notin Failures
      BY MailKinds DEF AppSet
    <3>q. QED BY <1>4, <3>1, QueueAppend DEF Lost
  <2>9. Goal(f.state) = "none" /\ f.state \notin AdvStates
    BY <1>4 DEF Lost, LosesIn, Goal, AdvStates
  <2>10. e.cmds \in Seq(Commands) /\ None(e.cmds, Starts) /\ Track(r) = Resting
    BY <1>4 DEF Lost, AppSet
  <2>11. PICK t : Run(t, r, e.cmds) /\ End(t) = Resting
    BY <2>10, RunRests
  <2>12. After(t, f, w, r, fl)
    BY <2>5, <2>6, <2>7, <2>8, <2>9, <2>11 DEF After, Course, Pending, Resting
  <2>q. QED BY <2>2, <2>9, <2>12
<1>q. QED BY <1>3, <1>4
-----------------------------------------------------------------------------
(* The stack takes a command.                                              *)

Popped(e, f) ==
    /\ e.cmds # <<>> /\ f.cmds = Tail(e.cmds)
    /\ f.state = e.state /\ f.op = e.op /\ f.mail = e.mail
    /\ f.advInfo = e.advInfo /\ f.thread = e.thread

\* A command is completed if it is to be, and no connection is made.
Answered(v, w, a, c) ==
    \/ Live(a, c) /\ \E x \in Cmps \ Refusals : w = Append(v, x)
    \/ ~Live(a, c) /\ (w = v \/ \E x \in Downs : w = Append(v, x))

\* What the events lose and gain.
LEMMA AnsweredEvents ==
    ASSUME NEW v \in Seq(Events), NEW w, NEW a, NEW c, Answered(v, w, a, c)
    PROVE  /\ w \in Seq(Events)
           /\ Grows(v, w, Ups) /\ Grows(v, w, Refusals)
           /\ (~Live(a, c) => Grows(v, w, Cmps))
           /\ (Live(a, c) => Some(w, Cmps) /\ (None(v, Cmps) => Single(w, Cmps)))
<1>1. CASE w = v
  <2>1. \A S : Grows(v, v, S)
    BY GrowsAgain
  <2>q. QED BY <1>1, <2>1 DEF Answered
<1>2. CASE w # v
  <2>1. PICK x : /\ w = Append(v, x) /\ x \in Events /\ x \notin Ups /\ x \notin Refusals
                 /\ (Live(a, c) <=> x \in Cmps)
    BY <1>2, EventKinds DEF Answered, Cmps, Downs, Refusals
  <2>2. w \in Seq(Events)
    BY <2>1, AppendOf
  <2>3. \A S : x \notin S => Grows(v, w, S)
    BY <2>1, QueueAppend
  <2>4. x \in Cmps => Some(w, Cmps) /\ (None(v, Cmps) => Single(w, Cmps))
    BY <2>1, QueueAppend
  <2>q. QED BY <2>1, <2>2, <2>3, <2>4
<1>q. QED BY <1>1, <1>2

\* A queue that grows keeps the indication where it is.
LEMMA IndicatedGrows ==
    ASSUME NEW e, NEW f, f.mail = e.mail, f.state = e.state,
           NEW v \in Seq(Events), NEW w \in Seq(Events), Grows(v, w, Ups),
           NEW k \in 1 .. Len(v), Indicated(e, v, k)
    PROVE  k \in 1 .. Len(w) /\ Indicated(f, w, k)
<1>1. /\ Len(v) \in Nat /\ Len(w) \in Nat /\ Len(v) <= Len(w)
      /\ \A i \in 1 .. Len(v) : w[i] = v[i]
      /\ \A i \in Len(v) + 1 .. Len(w) : w[i] \notin Ups
  BY DEF Grows
<1>2. k \in 1 .. Len(w) /\ w[k] \in Ups /\ \A i \in 1 .. k : w[i] = v[i]
  BY <1>1 DEF Indicated
<1>3. \A i \in 1 .. Len(w) : i \in 1 .. Len(v) \/ i \in Len(v) + 1 .. Len(w)
  BY <1>1
<1>4. \A i \in 1 .. Len(w) : w[i] \in Ups => i = k
  BY <1>1, <1>3 DEF Indicated
<1>5. \E j \in k + 1 .. Len(w) : w[j] \in Cmps
  <2>1. PICK j \in k + 1 .. Len(v) : v[j] \in Cmps
    BY DEF Indicated
  <2>2. j \in k + 1 .. Len(w) /\ w[j] = v[j]
    BY <1>1, <2>1
  <2>q. QED BY <2>1, <2>2
<1>6. Ahead(f, w, k)
  BY <1>2 DEF Indicated, Ahead
<1>q. QED BY <1>2, <1>4, <1>5, <1>6 DEF Indicated

\* The radio follows its course and the completions are counted.
LEMMA StackCourse ==
    ASSUME NEW e \in AppSet, NEW f \in AppSet, Popped(e, f), NEW v \in Seq(Events), NEW w, NEW r, NEW q,
           NEW fl, NEW t, Track(q) = Effect(Track(r), e.cmds[1]), Answered(v, w, Track(r), e.cmds[1])
    PROVE  /\ (After(t, e, v, r, fl) =>
                  \E u : /\ After(u, f, w, q, fl) /\ End(u) = End(t)
                         /\ (Exact(t, e, v, r, fl) => Exact(u, f, w, q, fl)))
           /\ (Lost(e, v, r, fl) => Lost(f, w, q, fl))
           /\ (Refused(e, v, r, fl) => Refused(f, w, q, fl))
<1>0. /\ e.cmds # <<>> /\ f.cmds = Tail(e.cmds)
      /\ f.state = e.state /\ f.op = e.op /\ f.mail = e.mail
      /\ f.advInfo = e.advInfo /\ f.thread = e.thread
  BY DEF Popped
<1>1. PICK s : s = e.cmds
  OBVIOUS
<1>2. PICK c : c = s[1]
  OBVIOUS
<1>3. /\ s \in Seq(Commands) /\ s # <<>> /\ f.cmds = Tail(s)
      /\ Track(q) = Effect(Track(r), s[1]) /\ Answered(v, w, Track(r), c)
  BY <1>0, <1>1, <1>2 DEF AppSet
<1>4. /\ Len(s) \in Nat /\ 1 \in 1 .. Len(s) /\ c \in Commands /\ Len(Tail(s)) = Len(s) - 1
      /\ \A i \in 1 .. Len(s) : i # 1 => i - 1 \in 1 .. Len(Tail(s)) /\ Tail(s)[i - 1] = s[i]
      /\ \A i \in 1 .. Len(Tail(s)) : i + 1 \in 1 .. Len(s) /\ Tail(s)[i] = s[i + 1]
  BY <1>2, <1>3, TailOf
<1>5. /\ w \in Seq(Events)
      /\ Grows(v, w, Ups) /\ Grows(v, w, Refusals)
      /\ (~Live(Track(r), c) => Grows(v, w, Cmps))
      /\ (Live(Track(r), c) => Some(w, Cmps) /\ (None(v, Cmps) => Single(w, Cmps)))
  BY <1>3, AnsweredEvents
<1>6. /\ (None(v, Ups) => None(w, Ups)) /\ (None(v, Refusals) => None(w, Refusals))
      /\ \A S : Some(v, S) => Some(w, S)
      /\ (~Live(Track(r), c) => /\ (None(v, Cmps) => None(w, Cmps))
                                /\ (Single(v, Cmps) => Single(w, Cmps)))
  BY <1>5, QueueGrows
<1>7. Stray(f) = Stray(e)
  BY <1>0 DEF Stray
<1>8. ASSUME After(t, e, v, r, fl)
      PROVE  \E u : /\ After(u, f, w, q, fl) /\ End(u) = End(t)
                    /\ (Exact(t, e, v, r, fl) => Exact(u, f, w, q, fl))
  <2>1. Run(t, r, s) /\ t[1] = Track(r)
    BY <1>1, <1>8 DEF After, Course, Run
  <2>2. \E u : /\ Run(u, q, Tail(s))
               /\ End(u) = End(t)
               /\ \A i \in 1 .. Len(s) : u[i] = t[i + 1]
    BY <1>3, <2>1, RunPop
  <2>3. PICK u : /\ Run(u, q, Tail(s))
                 /\ End(u) = End(t)
                 /\ \A i \in 1 .. Len(s) : u[i] = t[i + 1]
    BY <2>2
  <2>4. Course(u, f, w, q)
    BY <1>0, <1>3, <1>6, <1>8, <2>3 DEF After, Course
  <2>5. ASSUME Pending(t, e, v) PROVE Pending(u, f, w)
    <3>1. CASE Some(v, Cmps) \/ Some(e.mail, Answers) \/ Live(Track(r), c)
      BY <1>0, <1>5, <1>6, <3>1 DEF Pending
    <3>2. CASE ~Live(Track(r), c) /\ \E i \in 1 .. Len(s) : Live(t[i], s[i])
      <4>1. PICK i \in 1 .. Len(s) : Live(t[i], s[i])
        BY <3>2
      <4>2. i # 1
        BY <1>2, <2>1, <3>2, <4>1
      <4>3. i - 1 \in 1 .. Len(Tail(s)) /\ Tail(s)[i - 1] = s[i]
        BY <1>4, <4>2
      <4>4. i - 1 \in 1 .. Len(s) /\ (i - 1) + 1 = i
        BY <1>4, <4>3
      <4>5. u[i - 1] = t[i]
        BY <2>3, <4>4
      <4>q. QED BY <1>3, <4>1, <4>3, <4>5 DEF Pending
    <3>q. QED BY <1>1, <2>5, <3>1, <3>2 DEF Pending
  <2>6. After(u, f, w, q, fl)
    BY <1>0, <1>7, <1>8, <2>3, <2>4, <2>5 DEF After, Cut
  <2>7. ASSUME Exact(t, e, v, r, fl) PROVE Exact(u, f, w, q, fl)
    <3>1. Tokens(e, v) /\ Flat(t, s) /\ Single(s, Asks)
      <4>1. None(s, Asks) => Single(s, Asks)
        BY QueueSubset
      <4>q. QED BY <1>1, <2>7, <4>1 DEF Exact, Tokens
    <3>2. Flat(u, Tail(s)) /\ (s[1] \in Asks => End(t) = u[1])
      BY <1>3, <2>1, <2>3, <3>1, FlatPop
    <3>3. CASE c \in Asks
      <4>1. /\ ~None(s, Asks) /\ None(v, Cmps) /\ None(e.mail, Answers) /\ ~Settled(e.state)
        BY <1>1, <1>2, <1>4, <3>1, <3>3 DEF Tokens, None
      <4>2. None(Tail(s), Asks) /\ Single(w, Cmps)
        <5>1. None(w, Cmps) => Single(w, Cmps)
          BY QueueSubset
        <5>q. QED BY <1>2, <1>3, <1>5, <1>6, <3>1, <3>3, <4>1, <5>1, QueueTail
      <4>3. Tokens(f, w)
        BY <1>0, <1>3, <4>1, <4>2 DEF Tokens
      <4>4. End(u).act = Goal(e.state) /\ u[1] = Track(q) /\ End(u) = u[1]
        BY <1>0, <1>2, <2>3, <2>4, <2>7, <3>2, <3>3 DEF Course, Run, Exact, Cut
      <4>5. Ending(e.state) # "none" => Goal(e.state) = "none"
        BY DEF Ending, Goal, AdvStates
      <4>6. Ending(f.state) # "none" => q.act = "none"
        BY <1>0, <4>4, <4>5 DEF Track
      <4>q. QED BY <1>0, <1>3, <1>7, <2>6, <2>7, <3>2, <4>3, <4>6 DEF Exact
    <3>4. CASE c \notin Asks
      <4>1. ~Live(Track(r), c) /\ Track(q) = Track(r)
        BY <1>2, <1>3, <1>4, <3>4, EffectRests DEF Live
      <4>2. /\ (None(s, Asks) => None(Tail(s), Asks)) /\ Single(Tail(s), Asks)
        BY <1>3, <3>1, QueueTail
      <4>3. Tokens(f, w)
        BY <1>0, <1>1, <1>3, <1>6, <3>1, <4>1, <4>2 DEF Tokens
      <4>4. q.act = r.act
        BY <4>1 DEF Track
      <4>q. QED BY <1>0, <1>3, <1>7, <2>6, <2>7, <3>2, <4>3, <4>4 DEF Exact
    <3>q. QED BY <3>3, <3>4
  <2>q. QED BY <2>3, <2>6, <2>7
<1>9. ASSUME Lost(e, v, r, fl) PROVE Lost(f, w, q, fl)
  <2>1. None(s, Starts) /\ Track(r) = Resting
    BY <1>1, <1>9 DEF Lost
  <2>2. c \notin Starts /\ None(Tail(s), Starts)
    BY <1>2, <1>3, <2>1, QueueTail
  <2>3. Track(q) = Resting
    BY <1>2, <1>3, <1>4, <2>1, <2>2, EffectRests
  <2>4. PICK k \in 1 .. Len(v) : Indicated(e, v, k)
    BY <1>9 DEF Lost
  <2>5. k \in 1 .. Len(w) /\ Indicated(f, w, k)
    BY <1>0, <1>5, <2>4, IndicatedGrows
  <2>q. QED BY <1>0, <1>3, <1>6, <1>7, <1>9, <2>2, <2>3, <2>5 DEF Lost
<1>10. ASSUME Refused(e, v, r, fl) PROVE Refused(f, w, q, fl)
  <2>1. c.cmd \in {"CANCEL", "DISCONNECT"} /\ Track(r) = Resting
    BY <1>1, <1>2, <1>4, <1>10 DEF Refused
  <2>2. ~Live(Track(r), c) /\ c \notin Starts
    BY <2>1 DEF Live, Resting, Asks, Starts
  <2>3. Track(q) = Resting
    BY <1>2, <1>3, <1>4, <2>1, <2>2, EffectRests
  <2>4. PICK o \in {"ADV", "SCAN", "CONNECT"} : RefusedOp(o, e, v)
    BY <1>10 DEF Refused
  <2>5. RefusedOp(o, f, w)
    BY <1>0, <1>6, <2>2, <2>4 DEF RefusedOp
  <2>6. \A i \in 1 .. Len(Tail(s)) : Tail(s)[i].cmd \in {"CANCEL", "DISCONNECT"}
    BY <1>1, <1>4, <1>10 DEF Refused
  <2>q. QED BY <1>0, <1>3, <1>6, <1>10, <2>3, <2>4, <2>5, <2>6 DEF Refused
<1>q. QED BY <1>8, <1>9, <1>10

\* The one start is refused.
LEMMA StackRefuses ==
    ASSUME NEW e \in AppSet, NEW f \in AppSet, Popped(e, f), NEW v \in Seq(Events), NEW r, NEW fl,
           NEW t, Exact(t, e, v, r, fl), r.act = "none", r.param = NoAdv, Held(e), NEW k,
           NEW a \in {"adv", "scan", "conn"}, e.cmds[1] \in Starts, Effect(Track(r), e.cmds[1]).act = a,
           k # 0
    PROVE  Refused(f, Append(v, Complete(OpOf[a], "FAILED")), r, k)
<1>0. /\ e.cmds # <<>> /\ f.cmds = Tail(e.cmds)
      /\ f.state = e.state /\ f.mail = e.mail /\ f.thread = e.thread
  BY DEF Popped
<1>1. PICK s : s = e.cmds
  OBVIOUS
<1>2. s \in Seq(Commands) /\ s # <<>> /\ f.cmds = Tail(s) /\ s[1] \in Starts /\ s[1] \in Asks
  BY <1>0, <1>1, EffectRests DEF AppSet, Starts, Asks
<1>3. 1 \in 1 .. Len(s) /\ Tail(s) \in Seq(Commands)
  BY <1>2, TailOf
<1>4. /\ ~None(s, Asks) /\ Single(s, Asks) /\ None(v, Cmps) /\ None(e.mail, Answers)
      /\ ~Settled(e.state)
  BY <1>1, <1>2, <1>3 DEF Exact, Tokens, None
<1>5. Run(t, r, s) /\ End(t).act = Goal(e.state) /\ None(v, Ups)
  BY <1>1 DEF Exact, After, Course, Cut
<1>6. t[1] = Track(r) /\ t[1 + 1] = Effect(t[1], s[1]) /\ End(t) = t[1 + 1]
  BY <1>1, <1>2, <1>3, <1>5 DEF Run, Exact, Flat
<1>7. Goal(e.state) = a
  BY <1>1, <1>5, <1>6
<1>8. OpOf[a] \in {"ADV", "SCAN", "CONNECT"} /\ e.state \in FailsFrom[OpOf[a]]
  BY <1>4, <1>7 DEF Goal, AdvStates, Settled, Running, OpOf, FailsFrom
<1>9. PICK o : o = OpOf[a]
  OBVIOUS
<1>10. Complete(o, "FAILED") \in Events /\ Complete(o, "FAILED") \in Cmps
  BY <1>8, <1>9 DEF Cmps, Events, Statuses, Complete
<1>11. PICK w : w = Append(v, Complete(o, "FAILED"))
  OBVIOUS
<1>12. Single(w, Cmps) /\ Some(w, {Complete(o, "FAILED")}) /\ None(w, Ups)
  BY <1>4, <1>5, <1>10, <1>11, QueueAppend, EventKinds
<1>13. \A i \in 1 .. Len(Tail(s)) : Tail(s)[i].cmd \in {"CANCEL", "DISCONNECT"}
  <2>1. None(Tail(s), Asks)
    BY <1>2, <1>4, QueueTail
  <2>2. \A i \in 1 .. Len(Tail(s)) : Tail(s)[i] \in Commands /\ Tail(s)[i] \notin Asks
    BY <1>3, <2>1, ElementOfSeq DEF None
  <2>q. QED BY <2>2 DEF Asks
<1>14. e.thread = "ready"
  <2>1. e.state # "STATE_IDLE" /\ e.thread \in {"ready", "starting"}
    BY <1>4 DEF Settled, AppSet
  <2>q. QED BY <2>1 DEF Held
<1>15. Track(r) = Resting
  BY DEF Track, Resting
<1>16. RefusedOp(o, f, w)
  BY <1>0, <1>4, <1>8, <1>9, <1>12 DEF RefusedOp
<1>17. Refused(f, w, r, k)
  BY <1>0, <1>2, <1>8, <1>9, <1>12, <1>13, <1>14, <1>15, <1>16 DEF Refused
<1>q. QED BY <1>9, <1>11, <1>17
-----------------------------------------------------------------------------
(* Connections.                                                            *)

\* Where the state machine can be while the radio advertises or connects.
LEMMA ActiveState ==
    ASSUME NEW e \in AppSet, NEW v, NEW r, NEW fl, NEW t, Exact(t, e, v, r, fl), Held(e),
           r.act \in {"adv", "conn"}, r.act = "conn" => e.state # "STARTING_CONNECT"
    PROVE  /\ e.state \in LosesIn /\ e.thread = "ready" /\ None(e.cmds, Starts)
           /\ \/ None(v, Cmps) /\ None(e.mail, Answers)
              \/ /\ e.state = "STARTING_ADV"
                 /\ \/ Single(e.mail, Answers) /\ None(v, Cmps)
                    \/ None(e.mail, Answers) /\ Single(v, Cmps)
           /\ (r.act = "conn" => /\ e.state \in FailsFrom["CONNECT"]
                                 /\ None(v, Cmps) /\ None(e.mail, Answers)
                                 /\ \A i \in 1 .. Len(e.cmds) : e.cmds[i].cmd \in {"CANCEL", "DISCONNECT"})
<1>1. PICK s : s = e.cmds
  OBVIOUS
<1>2. /\ s \in Seq(Commands) /\ Run(t, r, s) /\ End(t).act = Goal(e.state)
      /\ Tokens(e, v) /\ Flat(t, s) /\ t[1] = Track(r)
      /\ (Ending(e.state) # "none" => r.act \in {"none", Ending(e.state)})
      /\ e.state \in States /\ e.thread \in {"ready", "starting"}
  BY <1>1 DEF Exact, After, Course, AppSet, Run, Cut
<1>3. e.state \in LosesIn => e.thread = "ready"
  BY <1>2 DEF Held, LosesIn
<1>4. CASE None(s, Asks)
  <2>1. Goal(e.state) = r.act
    BY <1>2, <1>4 DEF Flat, Track
  <2>2. e.state \in {"ADVERTISING", "STARTING_ADV", "CONNECTING"} /\ (r.act = "conn" => e.state = "CONNECTING")
    BY <2>1 DEF Goal, AdvStates
  <2>3. e.state \in LosesIn /\ (r.act = "conn" => e.state \in FailsFrom["CONNECT"])
    BY <2>2 DEF LosesIn, FailsFrom
  <2>4. \A i \in 1 .. Len(s) : s[i] \in Commands /\ s[i] \notin Asks
    BY <1>2, <1>4, ElementOfSeq DEF None
  <2>5. /\ None(s, Starts)
        /\ \A i \in 1 .. Len(s) : s[i].cmd \in {"CANCEL", "DISCONNECT"}
    BY <2>4 DEF None, Asks, Starts
  <2>6. e.state # "STARTING_ADV" => None(v, Cmps) /\ None(e.mail, Answers)
    BY <1>2, <2>2 DEF Tokens, Settled, Running
  <2>7. (None(v, Cmps) /\ Single(e.mail, Answers)) \/ (Single(v, Cmps) /\ None(e.mail, Answers))
    <3>1. None(v, Cmps) => Single(v, Cmps)
      BY QueueSubset
    <3>2. \/ None(v, Cmps) /\ Single(e.mail, Answers)
          \/ Single(v, Cmps) /\ None(e.mail, Answers)
          \/ None(v, Cmps) /\ None(e.mail, Answers)
      BY <1>2 DEF Tokens
    <3>q. QED BY <3>1, <3>2
  <2>8. r.act = "conn" => e.state # "STARTING_ADV"
    BY <2>2
  <2>q. QED BY <1>1, <1>3, <2>3, <2>5, <2>6, <2>7, <2>8
<1>5. CASE ~None(s, Asks)
  <2>1. None(v, Cmps) /\ None(e.mail, Answers) /\ ~Settled(e.state)
    BY <1>1, <1>2, <1>5 DEF Tokens
  <2>2. ASSUME NEW i \in 1 .. Len(s), s[i] \in Asks
        PROVE  /\ s[i] \notin Starts /\ e.state \in LosesIn
               /\ (r.act = "conn" => s[i].cmd = "CANCEL" /\ e.state \in FailsFrom["CONNECT"])
    <3>1. t[i] = t[1] /\ End(t) = Effect(t[1], s[i]) /\ (s[i] \in Starts => t[i].act = "none")
      BY <1>2, <2>2 DEF Flat, Run
    <3>2. t[1].act = r.act /\ r.act # "none"
      BY <1>2 DEF Track
    <3>3. s[i] \notin Starts
      BY <3>1, <3>2
    <3>4. s[i].cmd \in {"CANCEL", "UPDATE_ADV"}
      BY <2>2, <3>3 DEF Asks, Starts, Commands, Command
    <3>5. CASE s[i].cmd = "CANCEL"
      <4>1. Goal(e.state) = "none"
        BY <1>2, <3>1, <3>5 DEF Effect, Resting
      <4>2. e.state \in {"STOPPING_ADV", "STOPPING_SCAN", "STOPPING_CONNECT"}
        BY <1>2, <2>1, <4>1 DEF Goal, AdvStates, Settled, Running, States
      <4>3. e.state = IF r.act = "adv" THEN "STOPPING_ADV" ELSE "STOPPING_CONNECT"
        BY <1>2, <4>2 DEF Ending
      <4>q. QED BY <3>3, <3>5, <4>3 DEF LosesIn, FailsFrom
    <3>6. CASE s[i].cmd = "UPDATE_ADV"
      <4>1. Goal(e.state) = r.act
        BY <1>2, <3>1, <3>2, <3>6 DEF Effect
      <4>2. e.state = "STARTING_ADV" /\ r.act = "adv"
        BY <2>1, <4>1 DEF Goal, AdvStates, Settled, Running
      <4>q. QED BY <3>3, <4>2 DEF LosesIn
    <3>q. QED BY <3>4, <3>5, <3>6
  <2>3. \E i \in 1 .. Len(s) : s[i] \in Asks
    BY <1>5 DEF None
  <2>4. e.state \in LosesIn /\ (r.act = "conn" => e.state \in FailsFrom["CONNECT"])
    BY <2>2, <2>3
  <2>5. \A i \in 1 .. Len(s) : s[i] \in Commands
    BY <1>2, ElementOfSeq
  <2>6. None(s, Starts)
    BY <2>2, <2>5, EffectRests DEF None
  <2>7. ASSUME r.act = "conn", NEW i \in 1 .. Len(s)
        PROVE  s[i].cmd \in {"CANCEL", "DISCONNECT"}
    <3>1. s[i] \notin Asks => s[i].cmd = "DISCONNECT"
      BY <2>5 DEF Asks
    <3>q. QED BY <2>2, <2>7, <3>1
  <2>q. QED BY <1>1, <1>3, <2>1, <2>4, <2>6, <2>7
<1>q. QED BY <1>4, <1>5

\* A connection ends what the radio does; its indication is on its way.
LEMMA ConnectionCourse ==
    ASSUME NEW e \in AppSet, NEW v \in Seq(Events), NEW r, NEW fl, NEW t, Exact(t, e, v, r, fl), Held(e),
           r.act \in {"adv", "conn"}, r.act = "conn" => e.state # "STARTING_CONNECT",
           NEW x \in Ups, NEW y \in Cmps, y \notin Refusals, NEW q, Track(q) = Resting
    PROVE  Lost(e, v \o <<x, y>>, q, fl)
<1>1. /\ e.state \in LosesIn /\ e.thread = "ready" /\ None(e.cmds, Starts)
      /\ \/ None(v, Cmps) /\ None(e.mail, Answers)
         \/ /\ e.state = "STARTING_ADV"
            /\ \/ Single(e.mail, Answers) /\ None(v, Cmps)
               \/ None(e.mail, Answers) /\ Single(v, Cmps)
  BY ActiveState
<1>2. /\ None(v, Ups) /\ None(v, Refusals) /\ None(e.mail, Failures)
      /\ (fl = 0 => ~Stray(e))
  BY DEF Exact, After, Course
<1>3. PICK w : w = v \o <<x, y>>
  OBVIOUS
<1>4. PICK n : n = Len(v)
  OBVIOUS
<1>5. x \in Events /\ y \in Events /\ <<x, y>> \in Seq(Events)
  BY DEF Ups, Cmps
<1>6. /\ n \in Nat /\ Len(w) = n + 2
      /\ \A i \in 1 .. n : w[i] = v[i]
      /\ w[n + 1] = x /\ w[n + 2] = y
  BY <1>3, <1>4, <1>5, ConcatProperties
<1>7. \A i \in 1 .. Len(w) : i \in 1 .. n \/ i = n + 1 \/ i = n + 2
  BY <1>6
<1>8. x \notin Cmps /\ x \notin Refusals /\ y \notin Ups
  BY EventKinds
<1>9. None(w, Refusals)
  BY <1>2, <1>4, <1>6, <1>7, <1>8 DEF None
<1>10. n + 1 \in 1 .. Len(w) /\ n + 2 \in n + 1 + 1 .. Len(w)
  BY <1>6
<1>11. \A i \in 1 .. Len(w) : w[i] \in Ups => i = n + 1
  BY <1>2, <1>4, <1>6, <1>7, <1>8 DEF None
<1>12. \A i \in 1 .. n + 1 : i \in 1 .. n \/ i = n + 1
  BY <1>6
<1>13. /\ (None(v, Cmps) => \A i \in 1 .. n + 1 : w[i] \notin Cmps)
       /\ (Single(v, Cmps) => \A i, j \in 1 .. n + 1 : w[i] \in Cmps /\ w[j] \in Cmps => i = j)
  BY <1>4, <1>6, <1>8, <1>12 DEF None, Single
<1>14. Ahead(e, w, n + 1)
  BY <1>1, <1>13 DEF Ahead
<1>15. Indicated(e, w, n + 1)
  BY <1>6, <1>10, <1>11, <1>14 DEF Indicated
<1>q. QED BY <1>1, <1>2, <1>3, <1>9, <1>10, <1>15 DEF Lost

\* A connection is given up.
LEMMA GivenUpCourse ==
    ASSUME NEW e \in AppSet, NEW v \in Seq(Events), NEW r, NEW fl, NEW t, Exact(t, e, v, r, fl), Held(e),
           r.act = "conn", e.state # "STARTING_CONNECT", NEW q, Track(q) = Resting, NEW k, k # 0
    PROVE  Refused(e, Append(v, Complete("CONNECT", "FAILED")), q, k)
<1>1. /\ e.thread = "ready" /\ e.state \in FailsFrom["CONNECT"]
      /\ None(v, Cmps) /\ None(e.mail, Answers)
      /\ \A i \in 1 .. Len(e.cmds) : e.cmds[i].cmd \in {"CANCEL", "DISCONNECT"}
  BY ActiveState
<1>2. None(v, Ups)
  BY DEF Exact, After, Course
<1>3. PICK x : x = Complete("CONNECT", "FAILED")
  OBVIOUS
<1>4. x \in Events /\ x \in Cmps
  BY <1>3 DEF Events, Statuses, Complete, Cmps
<1>5. PICK w : w = Append(v, x)
  OBVIOUS
<1>6. None(w, Ups) /\ Single(w, Cmps) /\ Some(w, {x})
  BY <1>1, <1>2, <1>4, <1>5, QueueAppend, EventKinds
<1>7. RefusedOp("CONNECT", e, w)
  BY <1>1, <1>3, <1>6 DEF RefusedOp
<1>8. Refused(e, w, q, k)
  BY <1>1, <1>6, <1>7 DEF Refused
<1>q. QED BY <1>3, <1>5, <1>8

\* A link ends while it is quiet.
LEMMA LinkCourse ==
    ASSUME NEW e, NEW v \in Seq(Events), NEW r, NEW q, Track(q) = Track(r), NEW fl, NEW t,
           NEW x \in Downs
    PROVE  /\ (After(t, e, v, r, fl) => After(t, e, Append(v, x), q, fl))
           /\ (Exact(t, e, v, r, fl) => Exact(t, e, Append(v, x), q, fl))
<1>1. PICK w : w = Append(v, x)
  OBVIOUS
<1>2. x \in Events /\ x \notin Ups /\ x \notin Refusals /\ x \notin Cmps
  BY EventKinds DEF Downs
<1>3. /\ (None(v, Ups) => None(w, Ups)) /\ (None(v, Refusals) => None(w, Refusals))
      /\ (None(v, Cmps) => None(w, Cmps)) /\ (Single(v, Cmps) => Single(w, Cmps))
      /\ (Some(v, Cmps) => Some(w, Cmps))
  BY <1>1, <1>2, QueueAppend
<1>4. q.act = r.act
  BY DEF Track
<1>5. Run(t, r, e.cmds) => Run(t, q, e.cmds)
  BY DEF Run
<1>6. Course(t, e, v, r) => Course(t, e, w, q)
  BY <1>3, <1>5 DEF Course
<1>7. Pending(t, e, v) => Pending(t, e, w)
  BY <1>3 DEF Pending
<1>8. After(t, e, v, r, fl) => After(t, e, w, q, fl)
  BY <1>6, <1>7 DEF After
<1>9. Tokens(e, v) => Tokens(e, w)
  BY <1>3 DEF Tokens
<1>q. QED BY <1>1, <1>4, <1>8, <1>9 DEF Exact

\* With nothing on its way, nothing is waited for.
LEMMA QuietExact ==
    ASSUME NEW e \in AppSet, NEW v \in Seq(Events), NEW r, NEW fl, e.mail = <<>>, e.cmds = <<>>, v = <<>>
    PROVE  /\ ~Lost(e, v, r, fl) /\ ~Refused(e, v, r, fl)
           /\ \A t : After(t, e, v, r, fl) =>
                  /\ (~past => Exact(t, e, v, r, fl))
                  /\ (~Cut(Track(r)) => Settled(e.state))
                  /\ End(t) = Track(r)
<1>1. Len(e.mail) = 0 /\ Len(e.cmds) = 0 /\ Len(v) = 0 /\ 1 .. 0 = {}
  BY EmptySeq
<1>2. \A S : /\ ~Some(v, S) /\ ~Some(e.mail, S)
             /\ None(v, S) /\ None(e.mail, S) /\ None(e.cmds, S) /\ Single(e.mail, S)
  BY <1>1 DEF Some, None, Single
<1>3. ~Lost(e, v, r, fl)
  BY <1>1 DEF Lost
<1>4. ~Refused(e, v, r, fl)
  BY <1>2 DEF Refused, RefusedOp
<1>5. ASSUME NEW t, After(t, e, v, r, fl)
      PROVE  /\ (~past => Exact(t, e, v, r, fl)) /\ End(t) = Track(r)
             /\ (~Cut(Track(r)) => Settled(e.state))
  <2>1. ~Pending(t, e, v)
    BY <1>1, <1>2 DEF Pending
  <2>2. End(t) = t[1] /\ t[1] = Track(r)
    BY <1>1, <1>5 DEF After, Course, Run, End
  <2>3. ~Cut(Track(r)) => Settled(e.state) /\ (fl = 0 => ~Stray(e))
    BY <1>5, <2>1, <2>2 DEF After
  <2>4. Flat(t, e.cmds)
    BY <1>1, <2>2 DEF Flat
  <2>5. Tokens(e, v)
    BY <1>2 DEF Tokens
  <2>6. ~past => Ending(e.state) = "none"
    BY <2>3 DEF Ending, Settled, Running, Cut
  <2>q. QED BY <1>5, <2>2, <2>3, <2>4, <2>5, <2>6 DEF Exact, Cut
<1>q. QED BY <1>3, <1>4, <1>5
-----------------------------------------------------------------------------
(* The functions that start and stop activities.                           *)

\* What f leaves of e alone; advertising that goes on is to be ended.
Done(e, f) ==
    /\ Moves(e, f) /\ f.mail = e.mail
    /\ f.advParam = e.advParam /\ f.connect = e.connect /\ f.advSwitch = e.advSwitch
    /\ (f.state \in AdvStates => f.state = "STARTING_ADV" /\ f.op # "OP_IDLE")
    /\ \/ f.thread = e.thread
       \/ f.thread = "starting" /\ f.state = "STATE_IDLE" /\ ble_adv_allowed(e)

\* Cancelling the running activity.
LEMMA StopRunningDone ==
    ASSUME NEW e \in AppSet, e.state \in Running, NEW o
    PROVE  Done(e, StopRunning(e, o)) /\ StopRunning(e, o).op = o
<1>1. PICK s : s = StoppingOf[e.state]
  OBVIOUS
<1>2. Kind("CANCEL", e.state, s) /\ s \notin AdvStates
  BY <1>1 DEF StoppingOf, Running, Kind, AdvStates
<1>3. PICK c : c = Command("CANCEL")
  OBVIOUS
<1>4. c \in Asks /\ c.cmd = "CANCEL"
  BY <1>3 DEF Asks, Commands, Command
<1>5. PICK f : f = StopRunning(e, o)
  OBVIOUS
<1>6. /\ f.state = s /\ f.op = o /\ f.cmds = Append(e.cmds, c) /\ f.mail = e.mail
      /\ f.thread = e.thread /\ f.advParam = e.advParam /\ f.connect = e.connect
      /\ f.advSwitch = e.advSwitch
  BY <1>1, <1>3, <1>5 DEF StopRunning, appm_stop_advertising, Send, AppSet
<1>7. Ask(e, f, c)
  BY <1>2, <1>4, <1>6 DEF Ask
<1>q. QED BY <1>2, <1>4, <1>5, <1>6, <1>7 DEF Done, Moves

\* An operation is made pending, or dropped.
LEMMA OpDone ==
    ASSUME NEW e \in AppSet, NEW o, NEW f, f = [e EXCEPT !.op = o],
           Stray(f) => Stray(e),
           e.state \in AdvStates => e.state = "STARTING_ADV" /\ o # "OP_IDLE"
    PROVE  Done(e, f) /\ f.op = o /\ f.state = e.state
<1>1. /\ f.state = e.state /\ f.op = o /\ f.cmds = e.cmds /\ f.mail = e.mail
      /\ f.thread = e.thread /\ f.advParam = e.advParam /\ f.connect = e.connect
      /\ f.advSwitch = e.advSwitch /\ f.advInfo = e.advInfo
  BY DEF AppSet
<1>2. Grows(e.mail, f.mail, Answers)
  <2>1. e.mail \in Seq(Mails)
    BY DEF AppSet
  <2>q. QED BY <1>1, <2>1, GrowsAgain
<1>3. Stay(e, f)
  BY <1>1, <1>2 DEF Stay
<1>q. QED BY <1>1, <1>3 DEF Done, Moves

\* Doing nothing.
LEMMA NothingDone ==
    ASSUME NEW e \in AppSet, e.state \notin AdvStates
    PROVE  Done(e, e)
<1>1. Grows(e.mail, e.mail, Answers)
  BY GrowsAgain DEF AppSet
<1>2. Stay(e, e)
  BY <1>1 DEF Stay
<1>q. QED BY <1>2 DEF Done, Moves

\* ble_start_adv: advertising is pending or being started if it is allowed.
LEMMA StartAdvDone ==
    ASSUME NEW e \in AppSet
    PROVE  /\ Done(e, ble_start_adv(e))
           /\ (ble_adv_allowed(e) => ble_start_adv(e).op = "START_ADV" \/ ble_start_adv(e).thread = "starting")
<1>0. e.state \in States
  BY DEF AppSet
<1>1. CASE e.state \in Running
  <2>1. ble_start_adv(e) = StopRunning(e, "START_ADV")
    BY <1>1 DEF ble_start_adv, Running
  <2>q. QED BY <1>1, <2>1, StopRunningDone
<1>2. CASE e.state = "STATE_IDLE" /\ ble_adv_allowed(e)
  <2>1. PICK f : f = [e EXCEPT !.thread = "starting"]
    OBVIOUS
  <2>2. ble_start_adv(e) = f
    BY <1>2, <2>1 DEF ble_start_adv, Running
  <2>3. /\ f.state = e.state /\ f.op = e.op /\ f.cmds = e.cmds /\ f.mail = e.mail
        /\ f.thread = "starting" /\ f.advParam = e.advParam /\ f.connect = e.connect
        /\ f.advSwitch = e.advSwitch /\ f.advInfo = e.advInfo
    BY <2>1 DEF AppSet
  <2>4. Grows(e.mail, f.mail, Answers)
    <3>1. e.mail \in Seq(Mails)
      BY DEF AppSet
    <3>q. QED BY <2>3, <3>1, GrowsAgain
  <2>5. Stay(e, f)
    BY <1>2, <2>3, <2>4 DEF Stay, Stray
  <2>6. f.state \notin AdvStates
    BY <1>2, <2>3 DEF AdvStates
  <2>q. QED BY <1>2, <2>2, <2>3, <2>5, <2>6 DEF Done, Moves
<1>3. CASE e.state = "STATE_IDLE" /\ ~ble_adv_allowed(e)
  <2>1. PICK o : o = IF e.op = "START_ADV" THEN "OP_IDLE" ELSE e.op
    OBVIOUS
  <2>2. PICK f : f = [e EXCEPT !.op = o]
    OBVIOUS
  <2>3. ble_start_adv(e) = f
    BY <1>3, <2>1, <2>2 DEF ble_start_adv, Running
  <2>4. f.state = e.state /\ f.op = o
    BY <2>2 DEF AppSet
  <2>5. (Stray(f) => Stray(e)) /\ e.state \notin AdvStates
    BY <1>3, <2>1, <2>4 DEF Stray, AdvStates
  <2>q. QED BY <1>3, <2>2, <2>3, <2>5, OpDone
<1>4. CASE ~Settled(e.state)
  <2>1. PICK f : f = [e EXCEPT !.op = "START_ADV"]
    OBVIOUS
  <2>2. ble_start_adv(e) = f
    BY <1>4, <2>1 DEF ble_start_adv, Settled
  <2>3. f.state = e.state
    BY <2>1 DEF AppSet
  <2>4. (Stray(f) => Stray(e)) /\ (e.state \in AdvStates => e.state = "STARTING_ADV")
    BY <1>4, <2>3 DEF Stray, AdvStates, Settled, Running
  <2>q. QED BY <2>1, <2>2, <2>4, OpDone
<1>q. QED BY <1>1, <1>2, <1>3, <1>4 DEF Settled

\* ble_start_scan.
LEMMA StartScanDone ==
    ASSUME NEW e \in AppSet
    PROVE  Done(e, ble_start_scan(e))
<1>1. CASE e.state \in Running
  <2>1. ble_start_scan(e) = StopRunning(e, "START_SCAN")
    BY <1>1 DEF ble_start_scan, Running
  <2>q. QED BY <1>1, <2>1, StopRunningDone
<1>2. CASE e.state = "STATE_IDLE"
  <2>1. PICK c : c = Command("START_SCAN")
    OBVIOUS
  <2>2. PICK f : f = Send([e EXCEPT !.state = "STARTING_SCAN", !.ke = "SCANNING"], c)
    OBVIOUS
  <2>3. ble_start_scan(e) = f
    BY <1>2, <2>1, <2>2 DEF ble_start_scan, Running
  <2>4. /\ f.state = "STARTING_SCAN" /\ f.cmds = Append(e.cmds, c) /\ f.mail = e.mail
        /\ f.thread = e.thread /\ f.advParam = e.advParam /\ f.connect = e.connect
        /\ f.advSwitch = e.advSwitch
    BY <2>2 DEF Send, AppSet
  <2>5. c \in Asks /\ c.cmd = "START_SCAN"
    BY <2>1 DEF Asks, Commands, Command
  <2>6. Ask(e, f, c) /\ f.state \notin AdvStates
    BY <1>2, <2>4, <2>5 DEF Ask, Kind, AdvStates
  <2>q. QED BY <2>3, <2>4, <2>5, <2>6 DEF Done, Moves
<1>3. CASE ~Settled(e.state)
  <2>1. PICK f : f = [e EXCEPT !.op = "START_SCAN"]
    OBVIOUS
  <2>2. ble_start_scan(e) = f
    BY <1>3, <2>1 DEF ble_start_scan, Settled
  <2>3. f.state = e.state
    BY <2>1 DEF AppSet
  <2>4. (Stray(f) => Stray(e)) /\ (e.state \in AdvStates => e.state = "STARTING_ADV")
    BY <1>3, <2>3 DEF Stray, AdvStates, Settled, Running
  <2>q. QED BY <2>1, <2>2, <2>4, OpDone
<1>q. QED BY <1>1, <1>2, <1>3 DEF Settled

\* ble_start_connect.
LEMMA StartConnectDone ==
    ASSUME NEW e \in AppSet
    PROVE  Done(e, ble_start_connect(e))
<1>1. CASE e.state \in {"ADVERTISING", "SCANNING"}
  <2>1. ble_start_connect(e) = StopRunning(e, "START_CONNECT")
    BY <1>1 DEF ble_start_connect
  <2>2. e.state \in Running
    BY <1>1 DEF Running
  <2>q. QED BY <2>1, <2>2, StopRunningDone
<1>2. CASE e.state = "STATE_IDLE"
  <2>1. PICK c : c = Command("START_CONNECT")
    OBVIOUS
  <2>2. PICK f : f = Send([e EXCEPT !.state = "STARTING_CONNECT", !.op = "START_CONNECT",
                                    !.ke = "CONNECTING"], c)
    OBVIOUS
  <2>3. ble_start_connect(e) = f
    BY <1>2, <2>1, <2>2 DEF ble_start_connect
  <2>4. /\ f.state = "STARTING_CONNECT" /\ f.cmds = Append(e.cmds, c) /\ f.mail = e.mail
        /\ f.thread = e.thread /\ f.advParam = e.advParam /\ f.connect = e.connect
        /\ f.advSwitch = e.advSwitch
    BY <2>2 DEF Send, AppSet
  <2>5. c \in Asks /\ c.cmd = "START_CONNECT"
    BY <2>1 DEF Asks, Commands, Command
  <2>6. Ask(e, f, c) /\ f.state \notin AdvStates
    BY <1>2, <2>4, <2>5 DEF Ask, Kind, AdvStates
  <2>q. QED BY <2>3, <2>4, <2>5, <2>6 DEF Done, Moves
<1>3. CASE e.state \notin {"ADVERTISING", "SCANNING", "STATE_IDLE"}
  <2>1. PICK f : f = [e EXCEPT !.op = "START_CONNECT"]
    OBVIOUS
  <2>2. ble_start_connect(e) = f
    BY <1>3, <2>1 DEF ble_start_connect
  <2>3. f.state = e.state /\ f.op = "START_CONNECT"
    BY <2>1 DEF AppSet
  <2>4. (Stray(f) => Stray(e)) /\ (e.state \in AdvStates => e.state = "STARTING_ADV")
    BY <1>3, <2>3 DEF Stray, AdvStates, Settled, Running
  <2>q. QED BY <2>1, <2>2, <2>4, OpDone
<1>q. QED BY <1>1, <1>2, <1>3

\* ble_stop_all_activities.
LEMMA StopAllDone ==
    ASSUME NEW e \in AppSet
    PROVE  Done(e, ble_stop_all_activities(e))
<1>1. CASE e.state \in Running
  <2>1. ble_stop_all_activities(e) = StopRunning(e, "OP_IDLE")
    BY <1>1 DEF ble_stop_all_activities, Running, StopOf
  <2>q. QED BY <1>1, <2>1, StopRunningDone
<1>2. CASE e.state \in DOMAIN StopOf
  <2>1. PICK o : o = StopOf[e.state]
    OBVIOUS
  <2>2. o # "OP_IDLE" /\ ~Settled(e.state)
    BY <1>2, <2>1 DEF StopOf, Settled, Running
  <2>3. PICK f : f = [e EXCEPT !.op = o]
    OBVIOUS
  <2>4. ble_stop_all_activities(e) = f
    BY <1>2, <2>1, <2>3 DEF ble_stop_all_activities, Running, StopOf
  <2>5. f.state = e.state
    BY <2>3 DEF AppSet
  <2>6. (Stray(f) => Stray(e)) /\ (e.state \in AdvStates => e.state = "STARTING_ADV")
    BY <2>2, <2>5 DEF Stray, AdvStates, Settled, Running
  <2>q. QED BY <2>2, <2>3, <2>4, <2>6, OpDone
<1>3. CASE e.state \notin Running /\ e.state \notin DOMAIN StopOf
  <2>1. PICK f : f = [e EXCEPT !.op = "OP_IDLE"]
    OBVIOUS
  <2>2. ble_stop_all_activities(e) \in {e, f}
    BY <1>3, <2>1 DEF ble_stop_all_activities
  <2>3. f.op = "OP_IDLE"
    BY <2>1 DEF AppSet
  <2>4. ~Stray(f) /\ e.state \notin AdvStates
    BY <1>3, <2>3 DEF Stray, AdvStates, Running, StopOf
  <2>5. Done(e, f)
    BY <2>1, <2>4, OpDone
  <2>q. QED BY <2>2, <2>4, <2>5, NothingDone
<1>q. QED BY <1>1, <1>2, <1>3

\* Of these functions only ble_start_adv makes advertising pending.
LEMMA OtherOps ==
    ASSUME NEW e \in AppSet, NEW f,
           f \in {ble_start_scan(e), ble_start_connect(e), ble_stop_all_activities(e)}
    PROVE  f.thread = e.thread /\ (f.op = "START_ADV" => e.op = "START_ADV")
<1>1. \A o \in Ops \ {"START_ADV"} :
          e.state \in Running =>
              StopRunning(e, o).thread = e.thread /\ StopRunning(e, o).op # "START_ADV"
  BY DEF StopRunning, appm_stop_advertising, Send, AppSet
<1>2. "START_SCAN" \in Ops \ {"START_ADV"} /\ "START_CONNECT" \in Ops \ {"START_ADV"} /\ "OP_IDLE" \in Ops \ {"START_ADV"}
  BY DEF Ops
<1>3. {"ADVERTISING", "SCANNING"} \subseteq Running
  BY DEF Running
<1>4. CASE f = ble_start_scan(e)
  BY <1>1, <1>2, <1>4 DEF ble_start_scan, Send, AppSet
<1>5. CASE f = ble_start_connect(e)
  BY <1>1, <1>2, <1>3, <1>5 DEF ble_start_connect, Send, AppSet
<1>6. CASE f = ble_stop_all_activities(e)
  <2>1. \A s \in DOMAIN StopOf : StopOf[s] # "START_ADV"
    BY DEF StopOf
  <2>q. QED BY <1>1, <1>2, <1>6, <2>1 DEF ble_stop_all_activities, AppSet
<1>q. QED BY <1>4, <1>5, <1>6
-----------------------------------------------------------------------------
(* The functions that combine them.                                        *)

\* ble_switch_activities: a completion settles the state, and the pending
\* operation is carried out.
LEMMA SwitchDone ==
    ASSUME NEW e \in AppSet
    PROVE  \E h \in AppSet :
              /\ h.state = Advanced(e.state) /\ h.op = "OP_IDLE" /\ h.cmds = e.cmds
              /\ h.mail = e.mail /\ h.advInfo = e.advInfo /\ h.thread = e.thread
              /\ h.advParam = e.advParam /\ h.connect = e.connect /\ h.advSwitch = e.advSwitch
              /\ \/ e.op = "OP_IDLE" /\ ble_switch_activities(e) = h
                 \/ e.op # "OP_IDLE" /\ Done(h, ble_switch_activities(e))
              /\ (e.op = "START_ADV" /\ ble_adv_allowed(e) =>
                      \/ ble_switch_activities(e).op = "START_ADV"
                      \/ ble_switch_activities(e).thread = "starting")
              /\ (ble_switch_activities(e).op = "START_ADV" \/ ble_switch_activities(e).thread = "starting" =>
                      e.op = "START_ADV" \/ e.thread = "starting")
<1>1. PICK s : s = Advanced(e.state)
  OBVIOUS
<1>2. s \in States
  BY <1>1, AdvancedFacts DEF AppSet
<1>3. PICK g : g = [e EXCEPT !.state = s]
  OBVIOUS
<1>4. PICK h : h = [g EXCEPT !.op = "OP_IDLE"]
  OBVIOUS
<1>5. g \in AppSet /\ g.op = e.op
  BY <1>2, <1>3 DEF AppSet
<1>6. /\ h \in AppSet /\ h.state = s /\ h.op = "OP_IDLE" /\ h.cmds = e.cmds
      /\ h.mail = e.mail /\ h.advInfo = e.advInfo /\ h.thread = e.thread
      /\ h.advParam = e.advParam /\ h.connect = e.connect /\ h.advSwitch = e.advSwitch
  <2>1. h \in AppSet
    BY <1>4, <1>5 DEF AppSet, Ops
  <2>q. QED BY <1>3, <1>4, <2>1 DEF AppSet
<1>7. ble_switch_activities(e) = ble_execute_pending_op(g)
  BY <1>1, <1>3 DEF ble_switch_activities, Advanced
<1>8. CASE e.op = "OP_IDLE"
  <2>1. ble_execute_pending_op(g) = h
    BY <1>4, <1>5, <1>8 DEF ble_execute_pending_op
  <2>q. QED BY <1>1, <1>6, <1>7, <1>8, <2>1
<1>9. CASE e.op = "START_ADV"
  <2>1. ble_execute_pending_op(g) = ble_start_adv(h)
    BY <1>4, <1>5, <1>9 DEF ble_execute_pending_op
  <2>2. ble_adv_allowed(e) => ble_adv_allowed(h)
    BY <1>6 DEF ble_adv_allowed, Forbidden
  <2>3. /\ Done(h, ble_start_adv(h))
        /\ (ble_adv_allowed(h) => ble_start_adv(h).op = "START_ADV" \/ ble_start_adv(h).thread = "starting")
    BY <1>6, StartAdvDone
  <2>q. QED BY <1>1, <1>6, <1>7, <1>9, <2>1, <2>2, <2>3
<1>10. CASE e.op \notin {"OP_IDLE", "START_ADV"}
  <2>1. ble_execute_pending_op(g) \in
            {ble_start_scan(h), ble_start_connect(h), ble_stop_all_activities(h)}
    BY <1>4, <1>5, <1>10 DEF ble_execute_pending_op
  <2>2. Done(h, ble_execute_pending_op(g))
    BY <1>6, <2>1, StartScanDone, StartConnectDone, StopAllDone
  <2>3. /\ ble_execute_pending_op(g).thread = h.thread
        /\ (ble_execute_pending_op(g).op = "START_ADV" => h.op = "START_ADV")
    BY <1>6, <2>1, OtherOps
  <2>q. QED BY <1>1, <1>6, <1>7, <1>10, <2>2, <2>3
<1>q. QED BY <1>8, <1>9, <1>10

\* ble_adv_refreshing: what is advertised is updated, or advertising is
\* started anew.
Updated(e, f) ==
    /\ \E c \in Asks : Ask(e, f, c)
    /\ f.state = "STARTING_ADV" /\ f.op = "OP_IDLE" /\ f.advInfo = e.advParam
    /\ f.mail = e.mail /\ f.advParam = e.advParam /\ f.connect = e.connect
    /\ f.advSwitch = e.advSwitch /\ f.thread = e.thread

\* One of the two happens.
LEMMA RefreshingDone ==
    ASSUME NEW e \in AppSet, e.advParam \in AdvParam, ble_adv_allowed(e)
    PROVE  \/ Updated(e, ble_adv_refreshing(e))
           \/ /\ Done(e, ble_adv_refreshing(e))
              /\ ble_adv_refreshing(e).op = "START_ADV" \/ ble_adv_refreshing(e).thread = "starting"
<1>1. PICK c : c = [cmd |-> "UPDATE_ADV", param |-> e.advParam]
  OBVIOUS
<1>2. PICK f : f = Send([e EXCEPT !.advInfo = e.advParam, !.state = "STARTING_ADV"], c)
  OBVIOUS
<1>3. CASE e.state = "ADVERTISING" /\ e.op = "OP_IDLE" /\ ble_adv_refreshing(e) = f
  <2>1. /\ f.state = "STARTING_ADV" /\ f.op = e.op /\ f.advInfo = e.advParam
        /\ f.cmds = Append(e.cmds, c) /\ f.mail = e.mail /\ f.thread = e.thread
        /\ f.advParam = e.advParam /\ f.connect = e.connect /\ f.advSwitch = e.advSwitch
    BY <1>2 DEF Send, AppSet
  <2>2. c \in Asks /\ c.cmd = "UPDATE_ADV" /\ c.param = e.advParam
    BY <1>1 DEF Asks, Commands
  <2>3. Ask(e, f, c)
    BY <1>3, <2>1, <2>2 DEF Ask, Kind
  <2>q. QED BY <1>3, <2>1, <2>2, <2>3 DEF Updated
<1>4. CASE ble_adv_refreshing(e) = ble_start_adv(e)
  BY <1>4, StartAdvDone
<1>q. QED BY <1>1, <1>2, <1>3, <1>4 DEF ble_adv_refreshing

\* app_ble_stop_activities.
LEMMA StopActivitiesDone ==
    ASSUME NEW e \in AppSet
    PROVE  \/ e.state = "STATE_IDLE" /\ app_ble_stop_activities(e) = e
           \/ /\ Posted(e, app_ble_stop_activities(e), Function("ble_stop_all_activities"))
              /\ app_ble_stop_activities(e) \in AppSet
              /\ app_ble_stop_activities(e).advInfo = e.advInfo
              /\ app_ble_stop_activities(e).advParam = e.advParam
              /\ app_ble_stop_activities(e).connect = e.connect
              /\ app_ble_stop_activities(e).advSwitch = e.advSwitch
<1>1. CASE e.state = "STATE_IDLE"
  BY <1>1 DEF app_ble_stop_activities
<1>2. CASE e.state # "STATE_IDLE"
  <2>1. PICK m : m = Function("ble_stop_all_activities")
    OBVIOUS
  <2>2. m \in Mails /\ e.mail \in Seq(Mails)
    BY <2>1 DEF Mails, Functions, AppSet
  <2>3. PICK f : f = [e EXCEPT !.mail = Append(e.mail, m)]
    OBVIOUS
  <2>4. app_ble_stop_activities(e) = f
    BY <1>2, <2>1, <2>3 DEF app_ble_stop_activities, Post
  <2>5. /\ f \in AppSet /\ f.mail = Append(e.mail, m) /\ f.state = e.state /\ f.op = e.op
        /\ f.cmds = e.cmds /\ f.thread = e.thread /\ f.advInfo = e.advInfo
        /\ f.advParam = e.advParam /\ f.connect = e.connect /\ f.advSwitch = e.advSwitch
    <3>1. Append(e.mail, m) \in Seq(Mails)
      BY <2>2
    <3>2. f \in AppSet
      BY <2>3, <3>1 DEF AppSet
    <3>q. QED BY <2>3, <3>2 DEF AppSet
  <2>q. QED BY <2>1, <2>2, <2>4, <2>5 DEF Posted
<1>q. QED BY <1>1, <1>2
-----------------------------------------------------------------------------
(* The inductive invariant, for one step of the application side.          *)

Rest(e) == Held(e) /\ Renews(e)
Zero(t, e, v, r, i, fl) ==
    /\ Exact(t, e, v, r, fl)
    /\ Fit(End(t).param, e) /\ Want(End(t).param, e, v, i, fl)

\* f, w, q and j are on course, as e, v, r and i were.
Follows(t, e, v, r, i, f, w, q, j, fl) ==
    \E u : /\ After(u, f, w, q, fl) /\ Fit(End(u).param, f)
           /\ (Exact(t, e, v, r, fl) => Exact(u, f, w, q, fl))
           /\ (Exact(t, e, v, r, fl) /\ Want(End(t).param, e, v, i, fl) =>
                   Want(End(u).param, f, w, j, fl))
Recovers(f, w, q, fl) ==
    \/ Lost(f, w, q, fl) \/ Refused(f, w, q, fl)
    \/ \E u : After(u, f, w, q, fl) /\ Fit(End(u).param, f)

\* From the course of e to the course of f, after a connection or a refusal too.
Passes(t, e, v, r, i, f, w, q, j, fl) ==
    /\ (After(t, e, v, r, fl) /\ Fit(End(t).param, e) => Follows(t, e, v, r, i, f, w, q, j, fl))
    /\ (Lost(e, v, r, fl) => Recovers(f, w, q, fl))
    /\ (Refused(e, v, r, fl) => Recovers(f, w, q, fl))

\* From the cases to the invariant.
LEMMA Combine ==
    ASSUME NEW t, NEW e, NEW v, NEW r, NEW i, NEW f, NEW w, NEW q, NEW j, NEW fl,
           Passes(t, e, v, r, i, f, w, q, j, fl)
    PROVE  \E u : /\ (Zero(t, e, v, r, i, fl) => Zero(u, f, w, q, j, fl))
                  /\ (Sound(t, e, v, r, fl) => Sound(u, f, w, q, fl))
<1>1. CASE After(t, e, v, r, fl) /\ Fit(End(t).param, e)
  <2>1. PICK u : /\ After(u, f, w, q, fl) /\ Fit(End(u).param, f)
                 /\ (Exact(t, e, v, r, fl) => Exact(u, f, w, q, fl))
                 /\ (Exact(t, e, v, r, fl) /\ Want(End(t).param, e, v, i, fl) =>
                         Want(End(u).param, f, w, j, fl))
    BY <1>1 DEF Follows, Passes
  <2>q. QED BY <2>1 DEF Zero, Sound
<1>2. CASE ~(After(t, e, v, r, fl) /\ Fit(End(t).param, e))
  <2>1. ~Zero(t, e, v, r, i, fl)
    BY <1>2 DEF Zero, Exact
  <2>2. Sound(t, e, v, r, fl) => Recovers(f, w, q, fl)
    BY <1>2 DEF Sound, Passes
  <2>3. Recovers(f, w, q, fl) => \E u : Sound(u, f, w, q, fl)
    BY DEF Recovers, Sound
  <2>q. QED BY <2>1, <2>2, <2>3
<1>q. QED BY <1>1, <1>2
-----------------------------------------------------------------------------
(* Mails, one kind after the other.                                        *)

\* What moves stays on course.
LEMMA MovesCourse ==
    ASSUME NEW e \in AppSet, NEW f \in AppSet, NEW v, NEW r, NEW fl, NEW t, Moves(e, f)
    PROVE  /\ (After(t, e, v, r, fl) =>
                  \E u : /\ After(u, f, v, r, fl)
                         /\ (Exact(t, e, v, r, fl) => Exact(u, f, v, r, fl)))
           /\ (Lost(e, v, r, fl) => Lost(f, v, r, fl))
           /\ (Refused(e, v, r, fl) => Refused(f, v, r, fl))
<1>1. CASE Stay(e, f)
  BY <1>1, StayCourse
<1>2. ASSUME NEW c \in Asks, Ask(e, f, c)
      PROVE  /\ (After(t, e, v, r, fl) =>
                  \E u : /\ After(u, f, v, r, fl)
                         /\ (Exact(t, e, v, r, fl) => Exact(u, f, v, r, fl)))
             /\ (Lost(e, v, r, fl) => Lost(f, v, r, fl))
             /\ (Refused(e, v, r, fl) => Refused(f, v, r, fl))
  <2>1. After(t, e, v, r, fl) => Course(t, e, v, r)
    BY DEF After
  <2>2. Course(t, e, v, r) =>
           \E u : /\ After(u, f, v, r, fl)
                  /\ (f.state \in AdvStates => End(u).param = f.advInfo \/ Cut(End(u)))
                  /\ (Exact(t, e, v, r, fl) => Exact(u, f, v, r, fl))
    BY <1>2, AskCourse
  <2>3. (Lost(e, v, r, fl) => Lost(f, v, r, fl)) /\ (Refused(e, v, r, fl) => Refused(f, v, r, fl))
    BY <1>2, AskLost
  <2>q. QED BY <2>1, <2>2, <2>3
<1>q. QED BY <1>1, <1>2 DEF Moves

\* The last request to advertise, when the queue changes.
LEMMA LastCallTail ==
    ASSUME NEW s \in Seq(Mails), s # <<>>, NEW i, LastCall(s, i)
    PROVE  LastCall(Tail(s), i) \/ (s[1] = StartAdvCall(i) /\ None(Tail(s), Spoils))
<1>1. PICK w : w = Tail(s)
  OBVIOUS
<1>2. /\ Len(s) \in Nat /\ 1 \in 1 .. Len(s) /\ Len(w) = Len(s) - 1
      /\ \A k \in 1 .. Len(w) : k + 1 \in 1 .. Len(s) /\ w[k] = s[k + 1]
      /\ \A k \in 1 .. Len(s) : k # 1 => k - 1 \in 1 .. Len(w) /\ w[k - 1] = s[k]
  BY <1>1, TailOf
<1>3. PICK k \in 1 .. Len(s) : s[k] = StartAdvCall(i) /\ \A j \in k + 1 .. Len(s) : s[j] \notin Spoils
  BY DEF LastCall
<1>4. CASE k = 1
  <2>1. \A j \in 1 .. Len(w) : j + 1 \in 1 + 1 .. Len(s)
    BY <1>2
  <2>2. None(w, Spoils)
    BY <1>2, <1>3, <1>4, <2>1 DEF None
  <2>q. QED BY <1>1, <1>3, <1>4, <2>2
<1>5. CASE k # 1
  <2>1. k - 1 \in 1 .. Len(w) /\ w[k - 1] = StartAdvCall(i)
    BY <1>2, <1>3, <1>5
  <2>2. \A j \in k - 1 + 1 .. Len(w) : j \in 1 .. Len(w) /\ j + 1 \in k + 1 .. Len(s)
    BY <1>2, <2>1
  <2>3. \A j \in k - 1 + 1 .. Len(w) : w[j] \notin Spoils
    BY <1>2, <1>3, <2>2
  <2>q. QED BY <1>1, <2>1, <2>3 DEF LastCall
<1>q. QED BY <1>4, <1>5

\* It stays the last one as long as nothing overrides it.
LEMMA LastCallGrows ==
    ASSUME NEW s \in Seq(Mails), NEW w \in Seq(Mails), Grows(s, w, Spoils), NEW i, LastCall(s, i)
    PROVE  LastCall(w, i)
<1>1. PICK k \in 1 .. Len(s) : s[k] = StartAdvCall(i) /\ \A j \in k + 1 .. Len(s) : s[j] \notin Spoils
  BY DEF LastCall
<1>2. Len(s) \in Nat /\ Len(w) \in Nat
  OBVIOUS
<1>3. k \in 1 .. Len(w) /\ w[k] = StartAdvCall(i)
  BY <1>1, <1>2 DEF Grows
<1>4. \A j \in k + 1 .. Len(w) : j \in k + 1 .. Len(s) \/ j \in Len(s) + 1 .. Len(w)
  BY <1>1, <1>2
<1>5. \A j \in k + 1 .. Len(s) : j \in 1 .. Len(s)
  BY <1>1, <1>2
<1>6. \A j \in k + 1 .. Len(w) : w[j] \notin Spoils
  BY <1>1, <1>4, <1>5 DEF Grows
<1>q. QED BY <1>3, <1>6 DEF LastCall

\* A new request is the last one.
LEMMA LastCallNew ==
    ASSUME NEW s \in Seq(Mails), NEW i \in Intervals
    PROVE  LastCall(Append(s, StartAdvCall(i)), i)
<1>1. StartAdvCall(i) \in Mails
  BY DEF Mails
<1>2. PICK w : w = Append(s, StartAdvCall(i))
  OBVIOUS
<1>3. Len(s) \in Nat /\ Len(w) = Len(s) + 1 /\ w[Len(s) + 1] = StartAdvCall(i)
  BY <1>1, <1>2, AppendOf
<1>4. Len(s) + 1 \in 1 .. Len(w) /\ Len(s) + 1 + 1 .. Len(w) = {}
  BY <1>3
<1>5. LastCall(w, i)
  BY <1>3, <1>4 DEF LastCall
<1>q. QED BY <1>2, <1>5

\* The parameters only depend on the connections, and what is allowed on
\* the switches.
LEMMA SameConfig ==
    ASSUME NEW e, NEW f, f.connect = e.connect
    PROVE  /\ Connected(f) = Connected(e)
           /\ \A i : ble_adv_config_param(f, i) = ble_adv_config_param(e, i)
           /\ (f.advSwitch = e.advSwitch => (ble_adv_allowed(f) <=> ble_adv_allowed(e)))
BY DEF Connected, ble_adv_config_param, ble_adv_allowed, Forbidden

\* What a mail takes with it.
LEMMA TookRest ==
    ASSUME NEW e \in AppSet, NEW g \in AppSet, Took(e, g)
    PROVE  /\ Connected(g) = Connected(e) /\ (ble_adv_allowed(g) <=> ble_adv_allowed(e))
           /\ (Held(e) => Held(g))
           /\ (Stopper(e) /\ e.mail[1] \notin Stops => Stopper(g))
           /\ (Renews(e) /\ e.mail[1] \notin StartCalls => Renews(g))
           /\ \A p : Fit(p, e) /\ e.mail[1] \notin Stops => Fit(p, g)
           /\ \A p, v, i : Wanted(p, e, v, i) =>
                 \/ Some(v, Downs)
                 \/ LastCall(g.mail, i)
                 \/ e.mail[1] = StartAdvCall(i) /\ None(g.mail, Spoils)
                 \/ e.mail[1] \notin Spoils /\ None(g.mail, Spoils) /\ Carried(p, g, i)
<1>1. /\ e.mail # <<>> /\ g.mail = Tail(e.mail)
      /\ g.state = e.state /\ g.op = e.op /\ g.thread = e.thread
      /\ g.advParam = e.advParam /\ g.connect = e.connect /\ g.advSwitch = e.advSwitch
  BY DEF Took
<1>2. e.mail \in Seq(Mails)
  BY DEF AppSet
<1>3. /\ \A S : Some(e.mail, S) /\ e.mail[1] \notin S => Some(g.mail, S)
      /\ \A S : None(e.mail, S) => None(g.mail, S) /\ e.mail[1] \notin S
  BY <1>1, <1>2, QueueTail
<1>4. /\ Connected(g) = Connected(e) /\ (ble_adv_allowed(g) <=> ble_adv_allowed(e))
      /\ \A i : ble_adv_config_param(g, i) = ble_adv_config_param(e, i)
  BY <1>1, SameConfig
<1>5. Held(e) => Held(g)
  BY <1>1, <1>4 DEF Held
<1>6. Stopper(e) /\ e.mail[1] \notin Stops => Stopper(g)
  BY <1>1, <1>3 DEF Stopper
<1>7. \A p : Fit(p, e) /\ e.mail[1] \notin Stops => Fit(p, g)
  BY <1>1, <1>4, <1>6 DEF Fit, Off, Unconn
<1>8. Renews(e) /\ e.mail[1] \notin StartCalls => Renews(g)
  BY <1>1, <1>3, <1>4 DEF Renews
<1>9. ASSUME NEW p, NEW v, NEW i, Wanted(p, e, v, i)
      PROVE  \/ Some(v, Downs)
             \/ LastCall(g.mail, i)
             \/ e.mail[1] = StartAdvCall(i) /\ None(g.mail, Spoils)
             \/ e.mail[1] \notin Spoils /\ None(g.mail, Spoils) /\ Carried(p, g, i)
  <2>1. CASE LastCall(e.mail, i)
    BY <1>1, <1>2, <2>1, LastCallTail
  <2>2. CASE None(e.mail, Spoils) /\ Carried(p, e, i)
    <3>1. Carried(p, g, i)
      BY <1>1, <1>4, <2>2 DEF Carried
    <3>q. QED BY <1>3, <2>2, <3>1
  <2>q. QED BY <1>9, <2>1, <2>2 DEF Wanted
<1>q. QED BY <1>4, <1>5, <1>6, <1>7, <1>8, <1>9

\* A request to scan, to connect or to stop.
LEMMA MailDone ==
    ASSUME NEW e \in AppSet, NEW g \in AppSet, NEW f \in AppSet, Took(e, g), Done(g, f), Rest(e),
           f.thread = g.thread, f.op = "START_ADV" => g.op = "START_ADV",
           e.thread = "ready", e.mail[1] \in Spoils, e.mail[1] \notin StartCalls,
           NEW v, NEW r, NEW fl, NEW i, NEW t
    PROVE  /\ Rest(f)
           /\ Passes(t, e, v, r, i, f, v, r, i, fl)
<1>1. /\ Moves(g, f) /\ f.mail = g.mail /\ f.advParam = g.advParam /\ f.connect = g.connect
      /\ f.advSwitch = g.advSwitch
      /\ (f.state \in AdvStates => f.state = "STARTING_ADV" /\ f.op # "OP_IDLE")
      /\ \/ f.thread = g.thread
         \/ f.thread = "starting" /\ f.state = "STATE_IDLE" /\ ble_adv_allowed(g)
  BY DEF Done
<1>2. e.mail[1] \notin Answers
  BY MailKinds
<1>3. Connected(f) = Connected(g) /\ (ble_adv_allowed(f) <=> ble_adv_allowed(g))
  BY <1>1, SameConfig
<1>4. /\ (ble_adv_allowed(g) <=> ble_adv_allowed(e)) /\ Renews(g) /\ g.thread = "ready"
  BY TookRest DEF Rest, Took
<1>5. f.state \in AdvStates => Stopper(f)
  BY <1>1 DEF Stopper
<1>6. Held(f) /\ \A p : Fit(p, f)
  BY <1>1, <1>3, <1>4, <1>5 DEF Held, Fit, Off, Unconn
<1>7. Renews(f)
  BY <1>1, <1>3, <1>4 DEF Renews
<1>8. ASSUME NEW p, NEW q, Want(p, e, v, i, fl) PROVE Want(q, f, v, i, fl)
  <2>1. \A k : StartAdvCall(k) \in Mails => StartAdvCall(k) \in StartCalls
    BY DEF StartCalls, StartAdvCall
  <2>2. i \in Intervals => e.mail[1] # StartAdvCall(i)
    BY <2>1 DEF Mails
  <2>3. i \in Intervals /\ Wanted(p, e, v, i) => Some(v, Downs) \/ LastCall(g.mail, i)
    BY <2>2, TookRest
  <2>q. QED BY <1>1, <1>3, <1>4, <1>8, <2>3 DEF Want, Wanted
<1>9. ASSUME After(t, e, v, r, fl), Fit(End(t).param, e)
      PROVE  Follows(t, e, v, r, i, f, v, r, i, fl)
  <2>1. After(t, g, v, r, fl) /\ (Exact(t, e, v, r, fl) => Exact(t, g, v, r, fl))
    BY <1>2, <1>9, TookOther
  <2>2. PICK u : /\ After(u, f, v, r, fl)
                 /\ (Exact(t, g, v, r, fl) => Exact(u, f, v, r, fl))
    BY <1>1, <2>1, MovesCourse
  <2>q. QED BY <1>6, <1>8, <2>1, <2>2 DEF Follows
<1>10. (Lost(e, v, r, fl) => Lost(f, v, r, fl)) /\ (Refused(e, v, r, fl) => Refused(f, v, r, fl))
  <2>1. (Lost(e, v, r, fl) => Lost(g, v, r, fl)) /\ (Refused(e, v, r, fl) => Refused(g, v, r, fl))
    BY <1>2, TookOther
  <2>2. (Lost(g, v, r, fl) => Lost(f, v, r, fl)) /\ (Refused(g, v, r, fl) => Refused(f, v, r, fl))
    BY <1>1, MovesCourse
  <2>q. QED BY <2>1, <2>2
<1>q. QED BY <1>6, <1>7, <1>9, <1>10 DEF Rest, Recovers, Passes
-----------------------------------------------------------------------------
(* A request to advertise.                                                 *)

\* What such a request has to make sure of.
Obeys(f, k, v, r, fl) ==
    /\ Rest(f)
    /\ \A u : After(u, f, v, r, fl) => Fit(End(u).param, f)
    /\ \A u : Exact(u, f, v, r, fl) /\ fl = 0 /\ ble_adv_allowed(f) /\ fill # NoUser =>
                  Carried(End(u).param, f, k)

\* A request that does keeps everything on course.
LEMMA RequestDone ==
    ASSUME NEW e \in AppSet, NEW g \in AppSet, NEW f \in AppSet, Took(e, g), Moves(g, f),
           NEW k, e.mail[1] = StartAdvCall(k), NEW v, NEW r, NEW fl, NEW i, NEW t,
           ble_adv_allowed(f) <=> ble_adv_allowed(e),
           ble_adv_allowed(f) /\ fill # NoUser => f.mail = g.mail,
           Obeys(f, k, v, r, fl)
    PROVE  Passes(t, e, v, r, i, f, v, r, i, fl)
<1>1. e.mail[1] \notin Answers
  BY DEF Answers, StartAdvCall
<1>3. e.mail[1] \in Spoils
  <2>1. e.mail \in Seq(Mails) /\ e.mail # <<>>
    BY DEF Took, AppSet
  <2>2. e.mail[1] \in Mails
    BY <2>1, TailOf
  <2>q. QED BY <2>2 DEF Spoils, Stops, StartAdvCall
<1>4. ASSUME NEW p, NEW u, Exact(u, f, v, r, fl), Want(p, e, v, i, fl)
      PROVE  Want(End(u).param, f, v, i, fl)
  <2>1. SUFFICES ASSUME fl = 0, i \in Intervals, ble_adv_allowed(f), fill # NoUser
                 PROVE  Wanted(End(u).param, f, v, i)
    BY DEF Want
  <2>2. Wanted(p, e, v, i)
    BY <1>4, <2>1 DEF Want
  <2>3. /\ f.mail = g.mail
        /\ Carried(End(u).param, f, k)
    BY <1>4, <2>1 DEF Obeys
  <2>4. \/ Some(v, Downs)
        \/ LastCall(g.mail, i)
        \/ e.mail[1] = StartAdvCall(i) /\ None(g.mail, Spoils)
    BY <1>3, <2>2, TookRest
  <2>5. e.mail[1] = StartAdvCall(i) => k = i
    BY DEF StartAdvCall
  <2>q. QED BY <2>3, <2>4, <2>5 DEF Wanted
<1>5. ASSUME After(t, e, v, r, fl)
      PROVE  Follows(t, e, v, r, i, f, v, r, i, fl)
  <2>1. After(t, g, v, r, fl) /\ (Exact(t, e, v, r, fl) => Exact(t, g, v, r, fl))
    BY <1>1, <1>5, TookOther
  <2>2. PICK u : /\ After(u, f, v, r, fl)
                 /\ (Exact(t, g, v, r, fl) => Exact(u, f, v, r, fl))
    BY <2>1, MovesCourse
  <2>3. Fit(End(u).param, f)
    BY <2>2 DEF Obeys
  <2>q. QED BY <1>4, <2>1, <2>2, <2>3 DEF Follows
<1>6. (Lost(e, v, r, fl) => Lost(f, v, r, fl)) /\ (Refused(e, v, r, fl) => Refused(f, v, r, fl))
  <2>1. (Lost(e, v, r, fl) => Lost(g, v, r, fl)) /\ (Refused(e, v, r, fl) => Refused(g, v, r, fl))
    BY <1>1, TookOther
  <2>2. (Lost(g, v, r, fl) => Lost(f, v, r, fl)) /\ (Refused(g, v, r, fl) => Refused(f, v, r, fl))
    BY MovesCourse
  <2>q. QED BY <2>1, <2>2
<1>q. QED BY <1>5, <1>6 DEF Recovers, Passes

\* Another set of parameters in advParam.
Prepared(g, x) ==
    /\ x.state = g.state /\ x.op = g.op /\ x.cmds = g.cmds /\ x.mail = g.mail
    /\ x.advInfo = g.advInfo /\ x.thread = g.thread /\ x.connect = g.connect
    /\ x.advSwitch = g.advSwitch

\* That by itself moves nothing.
LEMMA PreparedMoves ==
    ASSUME NEW g \in AppSet, NEW x \in AppSet, NEW f \in AppSet, Prepared(g, x)
    PROVE  /\ Stay(g, x)
           /\ (Moves(x, f) => Moves(g, f))
<1>1. /\ x.state = g.state /\ x.op = g.op /\ x.cmds = g.cmds /\ x.mail = g.mail
      /\ x.advInfo = g.advInfo /\ x.thread = g.thread
  BY DEF Prepared
<1>2. Grows(g.mail, x.mail, Answers)
  <2>1. g.mail \in Seq(Mails)
    BY DEF AppSet
  <2>q. QED BY <1>1, <2>1, GrowsAgain
<1>3. Stray(x) <=> Stray(g)
  BY <1>1 DEF Stray
<1>4. Stay(g, x)
  BY <1>1, <1>2, <1>3 DEF Stay
<1>5. Stay(x, f) => Stay(g, f)
  BY <1>1, <1>3 DEF Stay
<1>6. \A c \in Asks : Ask(x, f, c) => Ask(g, f, c)
  BY <1>1 DEF Ask
<1>q. QED BY <1>4, <1>5, <1>6 DEF Moves

\* With a connection the new parameters are not connectable.
LEMMA ConfigRenews ==
    ASSUME NEW x, NEW k, x.advParam = ble_adv_config_param(x, k)
    PROVE  /\ Renews(x) /\ x.advParam # NoAdv
           /\ (Connected(x) # {} => x.advParam.advType # "UNDIRECT")
<1>1. Connected(x) # {} => x.advParam.advType = "NON_CONN"
  BY DEF ble_adv_config_param
<1>2. x.advParam.advType # "ZERO"
  BY DEF ble_adv_config_param
<1>q. QED BY <1>1, <1>2 DEF Renews, NoAdv

\* Advertising is not allowed, or there is nothing to advertise.
LEMMA RequestStops ==
    ASSUME NEW g \in AppSet, NEW x \in AppSet, Prepared(g, x), g.thread = "ready", NEW k,
           \/ ~ble_adv_allowed(g)
           \/ fill = NoUser /\ x.advParam = ble_adv_config_param(x, k),
           NEW f, f = app_ble_stop_activities(x), NEW v, NEW r, NEW fl
    PROVE  /\ f \in AppSet /\ Moves(g, f) /\ Obeys(f, k, v, r, fl)
           /\ (ble_adv_allowed(f) <=> ble_adv_allowed(g))
<1>1. /\ x.state = g.state /\ x.op = g.op /\ x.thread = g.thread /\ x.connect = g.connect
      /\ x.advSwitch = g.advSwitch
  BY DEF Prepared
<1>2. (ble_adv_allowed(x) <=> ble_adv_allowed(g)) /\ Connected(x) = Connected(g)
  BY <1>1, SameConfig
<1>3. /\ f \in AppSet /\ Moves(x, f) /\ f.state = x.state /\ f.thread = x.thread
      /\ f.advParam = x.advParam /\ f.connect = x.connect /\ f.advSwitch = x.advSwitch
      /\ (f.state \in AdvStates => Stopper(f))
  <2>1. CASE x.state = "STATE_IDLE" /\ f = x
    <3>1. x.state \notin AdvStates
      BY <2>1 DEF AdvStates
    <3>q. QED BY <2>1, <3>1, NothingDone DEF Done
  <2>2. PICK m : m = Function("ble_stop_all_activities")
    OBVIOUS
  <2>3. CASE /\ Posted(x, f, m) /\ f \in AppSet /\ f.advInfo = x.advInfo
             /\ f.advParam = x.advParam /\ f.connect = x.connect /\ f.advSwitch = x.advSwitch
    <3>1. /\ f.mail = Append(x.mail, m) /\ m \in Mails
          /\ f.state = x.state /\ f.op = x.op /\ f.cmds = x.cmds /\ f.thread = x.thread
      BY <2>3 DEF Posted
    <3>2. m \notin Answers /\ m \in Stops
      BY <2>2, <3>1 DEF Answers, Stops, Function
    <3>3. x.mail \in Seq(Mails)
      BY DEF AppSet
    <3>4. Grows(x.mail, f.mail, Answers) /\ Some(f.mail, Stops)
      BY <3>1, <3>2, <3>3, QueueAppend
    <3>5. Stay(x, f)
      BY <2>3, <3>1, <3>4 DEF Stay, Stray
    <3>q. QED BY <2>3, <3>1, <3>4, <3>5 DEF Moves, Stopper
  <2>q. QED BY <2>1, <2>2, <2>3, StopActivitiesDone
<1>4. (ble_adv_allowed(f) <=> ble_adv_allowed(g)) /\ Connected(f) = Connected(x)
  BY <1>2, <1>3, SameConfig
<1>5. Held(f) /\ \A p : Fit(p, f)
  BY <1>1, <1>3 DEF Held, Fit, Off, Unconn
<1>6. Renews(f)
  <2>1. CASE ~ble_adv_allowed(g)
    BY <1>4, <2>1 DEF Renews
  <2>2. CASE x.advParam = ble_adv_config_param(x, k)
    <3>1. Connected(x) # {} => x.advParam.advType # "UNDIRECT"
      BY <2>2, ConfigRenews
    <3>q. QED BY <1>3, <1>4, <3>1 DEF Renews
  <2>q. QED BY <2>1, <2>2
<1>7. Moves(g, f)
  BY <1>3, PreparedMoves
<1>q. QED BY <1>3, <1>4, <1>5, <1>6, <1>7 DEF Obeys, Rest

\* What is asked for is already advertised, or being started.
LEMMA RequestServed ==
    ASSUME NEW x \in AppSet, x.thread = "ready", NEW k, x.advParam = ble_adv_config_param(x, k),
           x.advParam \in AdvParam, ble_adv_allowed(x), NEW f \in AppSet, NEW v, NEW r, NEW fl,
           \/ x.state = "ADVERTISING" /\ x.advInfo = x.advParam /\ f = x
           \/ f = ble_adv_refreshing(x)
    PROVE  /\ Moves(x, f) /\ Obeys(f, k, v, r, fl) /\ f.mail = x.mail /\ ble_adv_allowed(f)
<1>1. /\ f.mail = x.mail /\ f.advParam = x.advParam /\ f.connect = x.connect
      /\ f.advSwitch = x.advSwitch /\ Moves(x, f)
      /\ \/ /\ f.advInfo = f.advParam /\ f.thread = "ready"
            /\ \/ f.state = "ADVERTISING"
               \/ f.state = "STARTING_ADV" /\ f.op = "OP_IDLE"
         \/ /\ (f.state \in AdvStates => Stopper(f))
            /\ (f.op = "START_ADV" \/ f.thread = "starting")
            /\ (f.thread = "starting" => f.state = "STATE_IDLE")
  <2>1. CASE x.state = "ADVERTISING" /\ x.advInfo = x.advParam /\ f = x
    <3>1. Grows(x.mail, x.mail, Answers)
      BY GrowsAgain DEF AppSet
    <3>2. Stay(x, x)
      BY <3>1 DEF Stay
    <3>q. QED BY <2>1, <3>2 DEF Moves
  <2>2. CASE Updated(x, f)
    BY <2>2 DEF Updated, Moves
  <2>3. CASE Done(x, f) /\ (f.op = "START_ADV" \/ f.thread = "starting")
    BY <2>3 DEF Done, Stopper
  <2>q. QED BY <2>1, <2>2, <2>3, RefreshingDone
<1>2. /\ ble_adv_allowed(f) /\ Connected(f) = Connected(x)
      /\ f.advParam = ble_adv_config_param(f, k)
  BY <1>1, SameConfig
<1>3. /\ Renews(f) /\ f.advParam # NoAdv
      /\ (Connected(f) # {} => f.advParam.advType # "UNDIRECT")
  BY <1>2, ConfigRenews
<1>4. Rest(f)
  BY <1>1, <1>2, <1>3 DEF Rest, Held
<1>5. ASSUME NEW u, After(u, f, v, r, fl), f.advInfo = f.advParam
      PROVE  f.state \in AdvStates => End(u).param = f.advParam \/ Cut(End(u))
  BY <1>3, <1>5 DEF After, Course
<1>6. ASSUME NEW u, After(u, f, v, r, fl) PROVE Fit(End(u).param, f)
  <2>1. Off(End(u).param, f)
    BY <1>2 DEF Off, ble_adv_allowed, Forbidden
  <2>2. Resting.param.advType = "ZERO"
    BY DEF Resting, NoAdv
  <2>3. Unconn(End(u).param, f)
    BY <1>1, <1>3, <1>5, <1>6, <2>2 DEF Unconn, Cut
  <2>q. QED BY <2>1, <2>3 DEF Fit
<1>7. ASSUME NEW u, Exact(u, f, v, r, fl), fl = 0
      PROVE  Carried(End(u).param, f, k)
  <2>1. After(u, f, v, r, fl) /\ ~Stray(f) /\ ~Cut(End(u))
    BY <1>7 DEF Exact, Cut
  <2>2. f.state = "ADVERTISING" => f.op = "OP_IDLE"
    BY <2>1 DEF Stray, Settled, Running
  <2>3. {"ADVERTISING", "STARTING_ADV"} \subseteq AdvStates
    BY DEF AdvStates
  <2>q. QED BY <1>1, <1>2, <1>5, <2>1, <2>2, <2>3 DEF Carried
<1>q. QED BY <1>1, <1>2, <1>4, <1>6, <1>7 DEF Obeys

\* A request to advertise.
LEMMA MailRequest ==
    ASSUME NEW e \in AppSet, NEW g \in AppSet, NEW f \in AppSet, Took(e, g), e.thread = "ready",
           NEW k \in Intervals, e.mail[1] = StartAdvCall(k), fill \in Fills,
           f = app_ble_start_adv(g, k), NEW v, NEW r, NEW fl, NEW i, NEW t
    PROVE  /\ Rest(f)
           /\ Passes(t, e, v, r, i, f, v, r, i, fl)
<1>1. PICK p : p = ble_adv_config_param(g, k)
  OBVIOUS
<1>2. p \in AdvParam
  BY <1>1 DEF ble_adv_config_param, AdvParam
<1>3. PICK x : x = [g EXCEPT !.advParam = p]
  OBVIOUS
<1>4. x \in AppSet /\ Prepared(g, x) /\ x.advParam = p
  BY <1>2, <1>3 DEF AppSet, Prepared
<1>5. Prepared(g, g) /\ g.thread = "ready"
  BY DEF Prepared, Took
<1>6. /\ (ble_adv_allowed(g) <=> ble_adv_allowed(e)) /\ (ble_adv_allowed(x) <=> ble_adv_allowed(g))
      /\ x.advParam = ble_adv_config_param(x, k) /\ x.thread = "ready" /\ x.mail = g.mail
  <2>1. ble_adv_allowed(g) <=> ble_adv_allowed(e)
    BY TookRest
  <2>2. x.connect = g.connect /\ x.advSwitch = g.advSwitch /\ x.thread = "ready" /\ x.mail = g.mail
    BY <1>4, <1>5 DEF Prepared
  <2>q. QED BY <1>1, <1>4, <2>1, <2>2, SameConfig
<1>7. \/ ~ble_adv_allowed(g) /\ f = app_ble_stop_activities(g)
      \/ fill = NoUser /\ f = app_ble_stop_activities(x)
      \/ /\ ble_adv_allowed(g) /\ fill # NoUser
         /\ \/ x.state = "ADVERTISING" /\ x.advInfo = x.advParam /\ f = x
            \/ f = ble_adv_refreshing(x)
  BY <1>1, <1>3 DEF app_ble_start_adv
<1>8. /\ Moves(g, f) /\ Obeys(f, k, v, r, fl) /\ (ble_adv_allowed(f) <=> ble_adv_allowed(g))
      /\ (ble_adv_allowed(f) /\ fill # NoUser => f.mail = g.mail)
  <2>1. CASE ~ble_adv_allowed(g) /\ f = app_ble_stop_activities(g)
    BY <1>5, <2>1, RequestStops
  <2>2. CASE fill = NoUser /\ f = app_ble_stop_activities(x)
    BY <1>4, <1>5, <1>6, <2>2, RequestStops
  <2>3. CASE /\ ble_adv_allowed(g) /\ fill # NoUser
             /\ \/ x.state = "ADVERTISING" /\ x.advInfo = x.advParam /\ f = x
                \/ f = ble_adv_refreshing(x)
    <3>1. /\ Moves(x, f) /\ Obeys(f, k, v, r, fl) /\ f.mail = x.mail /\ ble_adv_allowed(f)
      BY <1>2, <1>4, <1>6, <2>3, RequestServed
    <3>2. Moves(g, f)
      BY <1>4, <3>1, PreparedMoves
    <3>q. QED BY <1>6, <2>3, <3>1, <3>2
  <2>q. QED BY <1>7, <2>1, <2>2, <2>3
<1>9. Rest(f)
  BY <1>8 DEF Obeys
<1>q. QED BY <1>6, <1>8, <1>9, RequestDone
-----------------------------------------------------------------------------
(* A completion, a refusal and a disconnection that have been queued.      *)

\* ble_switch_activities.
LEMMA MailSwitch ==
    ASSUME NEW e \in AppSet, NEW g \in AppSet, NEW f \in AppSet, Took(e, g), Rest(e), e.thread = "ready",
           e.mail[1] \in Answers, e.mail[1] \notin Failures, f = ble_switch_activities(g),
           NEW v, NEW r, NEW fl, NEW i, NEW t
    PROVE  /\ Rest(f)
           /\ Passes(t, e, v, r, i, f, v, r, i, fl)
<1>1. PICK h \in AppSet :
              /\ h.state = Advanced(g.state) /\ h.op = "OP_IDLE" /\ h.cmds = g.cmds
              /\ h.mail = g.mail /\ h.advInfo = g.advInfo /\ h.thread = g.thread
              /\ h.advParam = g.advParam /\ h.connect = g.connect /\ h.advSwitch = g.advSwitch
              /\ \/ g.op = "OP_IDLE" /\ ble_switch_activities(g) = h
                 \/ g.op # "OP_IDLE" /\ Done(h, ble_switch_activities(g))
              /\ (g.op = "START_ADV" /\ ble_adv_allowed(g) =>
                      \/ ble_switch_activities(g).op = "START_ADV"
                      \/ ble_switch_activities(g).thread = "starting")
              /\ (ble_switch_activities(g).op = "START_ADV" \/ ble_switch_activities(g).thread = "starting" =>
                      g.op = "START_ADV" \/ g.thread = "starting")
  BY SwitchDone
<1>2. /\ g.state = e.state /\ g.op = e.op /\ g.cmds = e.cmds /\ g.advInfo = e.advInfo
      /\ g.thread = e.thread /\ g.mail = Tail(e.mail)
  BY DEF Took
<1>3. /\ h.state = Advanced(e.state) /\ h.cmds = e.cmds /\ h.advInfo = e.advInfo /\ h.thread = "ready"
  BY <1>1, <1>2
<1>4. /\ (After(t, e, v, r, fl) => After(t, h, v, r, fl))
      /\ (Exact(t, e, v, r, fl) => Exact(t, h, v, r, fl))
      /\ (Lost(e, v, r, fl) => Lost(h, v, r, fl))
      /\ ~Refused(e, v, r, fl)
  BY <1>1, <1>3, TookSwitch
<1>5. /\ (ble_adv_allowed(g) <=> ble_adv_allowed(e)) /\ Connected(g) = Connected(e)
      /\ Renews(g) /\ Held(g)
      /\ e.mail[1] \notin Spoils
  <2>1. e.mail[1] \notin Spoils /\ e.mail[1] \notin Stops /\ e.mail[1] \notin StartCalls
    BY MailKinds
  <2>q. QED BY <2>1, TookRest DEF Rest
<1>6. /\ (ble_adv_allowed(h) <=> ble_adv_allowed(e)) /\ Connected(h) = Connected(e)
      /\ \A k : ble_adv_config_param(h, k) = ble_adv_config_param(g, k)
  BY <1>1, <1>5, SameConfig
<1>7. Renews(f)
  <2>1. /\ f.mail = g.mail /\ f.advParam = g.advParam /\ f.connect = g.connect
        /\ f.advSwitch = g.advSwitch
        /\ (f.op = "START_ADV" \/ f.thread = "starting" => g.op = "START_ADV" \/ g.thread = "starting")
    <3>1. f.op = "START_ADV" \/ f.thread = "starting" => g.op = "START_ADV" \/ g.thread = "starting"
      BY <1>1
    <3>2. CASE f = h
      BY <1>1, <3>1, <3>2
    <3>3. CASE Done(h, f)
      BY <1>1, <3>1, <3>3 DEF Done
    <3>q. QED BY <1>1, <3>2, <3>3
  <2>2. Connected(f) = Connected(g) /\ (ble_adv_allowed(f) <=> ble_adv_allowed(g))
    BY <2>1, SameConfig
  <2>q. QED BY <1>5, <2>1, <2>2 DEF Renews
<1>8. h.state \in AdvStates <=> g.state \in AdvStates
  <2>1. g.state \in States
    BY DEF AppSet
  <2>q. QED BY <1>1, <2>1, AdvancedFacts
<1>9. \A p : Fit(p, e) => Fit(p, g)
  BY <1>5, TookRest, MailKinds
<1>10. \A p : Wanted(p, e, v, i) =>
                 Some(v, Downs) \/ LastCall(g.mail, i) \/ (None(g.mail, Spoils) /\ Carried(p, g, i)) \/ i \notin Intervals
  <2>1. i \in Intervals => StartAdvCall(i) \in Spoils
    BY DEF Spoils, Stops, StartAdvCall, Mails
  <2>q. QED BY <1>5, <2>1, TookRest
<1>11. CASE g.op = "OP_IDLE" /\ f = h
  <2>1. \A p : Fit(p, g) => Fit(p, h)
    <3>1. Stopper(g) => Stopper(h)
      BY <1>1, <1>11 DEF Stopper
    <3>q. QED BY <1>1, <1>5, <1>6, <1>8, <3>1 DEF Fit, Off, Unconn
  <2>2. Rest(h)
    BY <1>3, <1>7, <1>11 DEF Rest, Held
  <2>3. \A p : Carried(p, g, i) => Carried(p, h, i)
    BY <1>1, <1>2, <1>6, <1>8, <1>11 DEF Carried
  <2>4. \A p : Want(p, e, v, i, fl) => Want(p, h, v, i, fl)
    BY <1>1, <1>6, <1>10, <2>3 DEF Want, Wanted
  <2>5. After(t, e, v, r, fl) /\ Fit(End(t).param, e) => Follows(t, e, v, r, i, h, v, r, i, fl)
    BY <1>4, <1>9, <2>1, <2>4 DEF Follows
  <2>q. QED BY <1>4, <1>11, <2>2, <2>5 DEF Recovers, Passes
<1>12. CASE g.op # "OP_IDLE" /\ Done(h, f)
  <2>1. /\ Moves(h, f) /\ f.mail = h.mail /\ f.advParam = h.advParam /\ f.connect = h.connect
        /\ f.advSwitch = h.advSwitch
        /\ (f.state \in AdvStates => f.state = "STARTING_ADV" /\ f.op # "OP_IDLE")
        /\ \/ f.thread = h.thread
           \/ f.thread = "starting" /\ f.state = "STATE_IDLE" /\ ble_adv_allowed(h)
    BY <1>12 DEF Done
  <2>2. /\ Connected(f) = Connected(h) /\ (ble_adv_allowed(f) <=> ble_adv_allowed(h))
        /\ \A k : ble_adv_config_param(f, k) = ble_adv_config_param(h, k)
    BY <2>1, SameConfig
  <2>3. f.state \in AdvStates => Stopper(f)
    BY <2>1 DEF Stopper
  <2>4. Held(f) /\ \A p : Fit(p, f)
    BY <1>3, <2>1, <2>2, <2>3 DEF Held, Fit, Off, Unconn
  <2>6. \A p, q : Carried(p, g, i) /\ ble_adv_allowed(g) => Carried(q, f, i)
    BY <1>1, <1>2, <1>6, <1>12, <2>1, <2>2 DEF Carried
  <2>7. \A p, q : Want(p, e, v, i, fl) => Want(q, f, v, i, fl)
    BY <1>1, <1>5, <1>6, <1>10, <2>1, <2>2, <2>6 DEF Want, Wanted
  <2>8. ASSUME After(t, e, v, r, fl) PROVE Follows(t, e, v, r, i, f, v, r, i, fl)
    <3>1. PICK u : /\ After(u, f, v, r, fl)
                   /\ (Exact(t, h, v, r, fl) => Exact(u, f, v, r, fl))
      BY <1>4, <2>1, <2>8, MovesCourse
    <3>q. QED BY <1>4, <2>4, <2>7, <3>1 DEF Follows
  <2>9. Lost(e, v, r, fl) => Lost(f, v, r, fl)
    BY <1>4, <2>1, MovesCourse
  <2>q. QED BY <1>4, <1>7, <2>4, <2>8, <2>9 DEF Recovers, Rest, Passes
<1>q. QED BY <1>1, <1>11, <1>12

\* The failure callbacks.
LEMMA MailFailed ==
    ASSUME NEW e \in AppSet, NEW g \in AppSet, NEW f \in AppSet, Took(e, g), Rest(e), e.thread = "ready",
           e.mail[1] \in Failures, NEW S, f = FailedIn(g, S),
           \A o \in {"ADV", "SCAN", "CONNECT"} : e.mail[1] = Function(FailedFunc[o]) => S = FailsFrom[o],
           NEW v, NEW r, NEW fl, NEW i, NEW t
    PROVE  /\ Rest(f)
           /\ Passes(t, e, v, r, i, f, v, r, i, fl)
<1>1. /\ f.state = (IF g.state \in S THEN "STATE_IDLE" ELSE g.state)
      /\ f.op = g.op /\ f.mail = g.mail /\ f.cmds = g.cmds /\ f.thread = g.thread
      /\ f.advParam = g.advParam /\ f.connect = g.connect /\ f.advSwitch = g.advSwitch
  BY DEF FailedIn, AppSet
<1>2. e.mail[1] \notin Stops /\ e.mail[1] \notin StartCalls
  BY MailKinds
<1>3. Renews(g)
  BY <1>2, TookRest DEF Rest
<1>4. Connected(f) = Connected(g) /\ (ble_adv_allowed(f) <=> ble_adv_allowed(g))
  BY <1>1, SameConfig
<1>7. Rest(f)
  <2>1. Renews(f)
    BY <1>1, <1>3, <1>4 DEF Renews
  <2>2. Held(f)
    BY <1>1 DEF Held, Took
  <2>q. QED BY <2>1, <2>2 DEF Rest
<1>8. ~After(t, e, v, r, fl) /\ ~Lost(e, v, r, fl)
  BY TookFailed
<1>9. ASSUME Refused(e, v, r, fl) PROVE Recovers(f, v, r, fl)
  <2>1. PICK o \in {"ADV", "SCAN", "CONNECT"} :
                      /\ e.mail[1] = Function(FailedFunc[o]) /\ e.state \in FailsFrom[o]
                      /\ \A h \in AppSet :
                            h.state = "STATE_IDLE" /\ h.cmds = e.cmds /\ h.mail = g.mail =>
                                \E u : After(u, h, v, r, fl)
    BY <1>9, TookFailed
  <2>2. f.state = "STATE_IDLE" /\ f.cmds = e.cmds
    BY <1>1, <2>1 DEF Took
  <2>3. \A p : Fit(p, f)
    BY <2>2 DEF Fit, Off, Unconn, AdvStates
  <2>q. QED BY <1>1, <2>1, <2>2, <2>3 DEF Recovers
<1>q. QED BY <1>7, <1>8, <1>9 DEF Passes

\* appm_disconnect.
LEMMA MailDisconnect ==
    ASSUME NEW e \in AppSet, NEW g \in AppSet, NEW f \in AppSet, Took(e, g), Rest(e), e.thread = "ready",
           NEW c \in Conidx, e.mail[1] = Disconnect(c), f = appm_disconnect(g, c),
           NEW v, NEW r, NEW fl, NEW i, NEW t
    PROVE  /\ Rest(f)
           /\ Passes(t, e, v, r, i, f, v, r, i, fl)
<1>1. PICK d : d = [cmd |-> "DISCONNECT", conidx |-> c]
  OBVIOUS
<1>2. d \in Commands /\ d \notin Asks
  BY <1>1 DEF Commands, Asks
<1>3. /\ f.state = g.state /\ f.op = g.op /\ f.mail = g.mail /\ f.thread = g.thread
      /\ f.advInfo = g.advInfo /\ f.advParam = g.advParam /\ f.connect = g.connect
      /\ f.advSwitch = g.advSwitch
      /\ \/ f = g
         \/ f.cmds = Append(g.cmds, d)
  BY <1>1 DEF appm_disconnect, Send, AppSet
<1>4. e.mail[1] \notin Answers /\ e.mail[1] \notin Spoils /\ e.mail[1] \notin Stops
      /\ e.mail[1] \notin StartCalls
  BY DEF Answers, Spoils, Stops, StartCalls, Disconnect
<1>5. /\ Held(g) /\ Renews(g) /\ (\A p : Fit(p, e) => Fit(p, g))
      /\ (ble_adv_allowed(g) <=> ble_adv_allowed(e))
  BY <1>4, TookRest DEF Rest
<1>6. /\ Connected(f) = Connected(g) /\ (ble_adv_allowed(f) <=> ble_adv_allowed(g))
      /\ \A k : ble_adv_config_param(f, k) = ble_adv_config_param(g, k)
  BY <1>3, SameConfig
<1>7. Stopper(g) <=> Stopper(f)
  BY <1>3 DEF Stopper
<1>8. Rest(f) /\ \A p : Fit(p, g) => Fit(p, f)
  BY <1>3, <1>5, <1>6, <1>7 DEF Rest, Held, Renews, Fit, Off, Unconn
<1>9. \A p : Want(p, e, v, i, fl) => Want(p, f, v, i, fl)
  <2>1. e.mail[1] # StartAdvCall(i)
    BY DEF Disconnect, StartAdvCall
  <2>2. \A p : Carried(p, g, i) => Carried(p, f, i)
    BY <1>3, <1>6 DEF Carried
  <2>3. \A p : Wanted(p, e, v, i) =>
                 Some(v, Downs) \/ LastCall(g.mail, i) \/ (None(g.mail, Spoils) /\ Carried(p, g, i))
    BY <2>1, TookRest
  <2>q. QED BY <1>3, <1>5, <1>6, <2>2, <2>3 DEF Want, Wanted
<1>10. /\ (After(t, e, v, r, fl) => After(t, g, v, r, fl))
       /\ (Exact(t, e, v, r, fl) => Exact(t, g, v, r, fl))
       /\ (Lost(e, v, r, fl) => Lost(g, v, r, fl))
       /\ (Refused(e, v, r, fl) => Refused(g, v, r, fl))
  BY <1>4, TookOther
<1>11. /\ (After(t, g, v, r, fl) =>
                  \E u : /\ After(u, f, v, r, fl) /\ End(u) = End(t)
                         /\ (Exact(t, g, v, r, fl) => Exact(u, f, v, r, fl)))
       /\ (Lost(g, v, r, fl) => Lost(f, v, r, fl))
       /\ (Refused(g, v, r, fl) => Refused(f, v, r, fl))
  <2>1. CASE f = g
    BY <2>1
  <2>2. CASE f.cmds = Append(g.cmds, d)
    <3>1. /\ f.state = g.state /\ f.op = g.op /\ f.mail = g.mail /\ f.thread = g.thread
          /\ f.advInfo = g.advInfo
      BY <1>3
    <3>2. /\ (Lost(g, v, r, fl) => Lost(f, v, r, fl))
          /\ (Refused(g, v, r, fl) => Refused(f, v, r, fl))
      BY <1>2, <2>2, <3>1, DisconnectCourse
    <3>3. After(t, g, v, r, fl) =>
              \E u : /\ After(u, f, v, r, fl) /\ End(u) = End(t)
                     /\ (Exact(t, g, v, r, fl) => Exact(u, f, v, r, fl))
      BY <1>2, <2>2, <3>1, DisconnectCourse
    <3>q. QED BY <3>2, <3>3
  <2>q. QED BY <1>3, <2>1, <2>2
<1>12. ASSUME After(t, e, v, r, fl), Fit(End(t).param, e)
       PROVE  Follows(t, e, v, r, i, f, v, r, i, fl)
  <2>1. PICK u : /\ After(u, f, v, r, fl) /\ End(u) = End(t)
                 /\ (Exact(t, g, v, r, fl) => Exact(u, f, v, r, fl))
    BY <1>10, <1>11, <1>12
  <2>q. QED BY <1>5, <1>8, <1>9, <1>10, <1>12, <2>1 DEF Follows
<1>q. QED BY <1>8, <1>10, <1>11, <1>12 DEF Recovers, Passes
-----------------------------------------------------------------------------
(* The steps of the thread and of the stack.                               *)

\* As long as only the application side, the radio and what is on its way change.
Unchanged == fill' = fill /\ slave' = slave /\ due' = due /\ barred' = barred /\ past' = past

\* What is said of them is the same before and after.
LEMMA Unmoved ==
    ASSUME Unchanged, odd' <= 1 => odd <= 1, NEW p
    PROVE  /\ (Rest(app') => (Held(app) /\ Renews(app))')
           /\ (Fit(p, app') => Fit(p, app)')
           /\ (Want(p, app', evts', asked', fails') => Want(p, app, evts, asked, fails)')
<1>1. ble_adv_allowed(app') <=> ble_adv_allowed(app)'
  BY DEF ble_adv_allowed, Forbidden, Unchanged
<1>2. Connected(app') = Connected(app)'
  BY DEF Connected
<1>3. \A i : ble_adv_config_param(app', i) = ble_adv_config_param(app, i)'
  BY <1>2 DEF ble_adv_config_param, Unchanged
<1>4. Held(app') => Held(app)'
  BY <1>1 DEF Held
<1>5. Off(p, app') => Off(p, app)'
  BY DEF Off, Unchanged
<1>6. Renews(app') => Renews(app)'
  BY <1>1, <1>2 DEF Renews
<1>7. Unconn(p, app') => Unconn(p, app)'
  BY <1>2 DEF Unconn
<1>8. ASSUME Want(p, app', evts', asked', fails')
      PROVE  Want(p, app, evts, asked, fails)'
  <2>1. Carried(p, app', asked') => Carried(p, app, asked)'
    BY <1>3 DEF Carried
  <2>2. Wanted(p, app', evts', asked') => Wanted(p, app, evts, asked)'
    BY <2>1 DEF Wanted
  <2>q. QED BY <1>1, <1>8, <2>2 DEF Want, Unchanged
<1>q. QED BY <1>4, <1>5, <1>6, <1>7, <1>8 DEF Rest, Fit

\* The same of the course.
LEMMA SamePast ==
    ASSUME past' = past, NEW t
    PROVE  /\ After(t, app', evts', radio', fails') <=> After(t, app, evts, radio, fails)'
           /\ Exact(t, app', evts', radio', fails') <=> Exact(t, app, evts, radio, fails)'
<1>1. Cut(End(t)) <=> Cut(End(t))'
  BY DEF Cut
<1>2. Course(t, app', evts', radio') <=> Course(t, app, evts, radio)'
  BY <1>1 DEF Course
<1>3. After(t, app', evts', radio', fails') <=> After(t, app, evts, radio, fails)'
  BY <1>1, <1>2 DEF After
<1>q. QED BY <1>3 DEF Exact

\* From a step of the application side to the invariant.
LEMMA Concluded ==
    ASSUME NEW t, BInv(t), Unchanged, odd' = odd, fails' = fails,
           radio'.act # "adv" => radio'.param = NoAdv, Rest(app'),
           odd <= 1 => Passes(t, app, evts, radio, asked, app', evts', radio', asked', fails)
    PROVE  \E u : BInv(u)'
<1>0. /\ (Held(app) /\ Renews(app))' /\ odd' \in Nat /\ fails' \in Nat
  BY Unmoved DEF BInv
<1>1. CASE odd > 1
  <2>1. odd' # 0 /\ odd' # 1
    BY <1>0, <1>1
  <2>q. QED BY <1>0, <2>1 DEF BInv
<1>2. CASE ~(odd > 1)
  <2>0. Passes(t, app, evts, radio, asked, app', evts', radio', asked', fails)
    BY <1>0, <1>2
  <2>1. PICK u : /\ (Zero(t, app, evts, radio, asked, fails) => Zero(u, app', evts', radio', asked', fails))
                 /\ (Sound(t, app, evts, radio, fails) => Sound(u, app', evts', radio', fails))
    BY <2>0, Combine
  <2>2. /\ (Fit(End(u).param, app') => Fit(End(u).param, app)')
        /\ (Want(End(u).param, app', evts', asked', fails') => Want(End(u).param, app, evts, asked, fails)')
    BY Unmoved
  <2>3. /\ (After(u, app', evts', radio', fails') => After(u, app, evts, radio, fails)')
        /\ (Exact(u, app', evts', radio', fails') => Exact(u, app, evts, radio, fails)')
    BY SamePast DEF Unchanged
  <2>4. ASSUME odd' = 0
        PROVE  (/\ Exact(u, app, evts, radio, fails)
                /\ Fit(End(u).param, app) /\ Want(End(u).param, app, evts, asked, fails))'
    <3>1. Zero(t, app, evts, radio, asked, fails)
      BY <2>4 DEF BInv, Zero
    <3>2. Zero(u, app', evts', radio', asked', fails')
      BY <2>1, <3>1
    <3>q. QED BY <2>2, <2>3, <3>2 DEF Zero
  <2>5. ASSUME odd' = 1
        PROVE  Sound(u, app, evts, radio, fails)'
    <3>1. Sound(t, app, evts, radio, fails)
      BY <2>5 DEF BInv
    <3>2. Sound(u, app', evts', radio', fails')
      BY <2>1, <3>1
    <3>q. QED BY <2>2, <2>3, <3>2 DEF Sound
  <2>q. QED BY <1>0, <2>4, <2>5 DEF BInv
<1>q. QED BY <1>1, <1>2

\* The function named by a mail.
LEMMA MailCourse ==
    ASSUME NEW e \in AppSet, NEW g \in AppSet, NEW f \in AppSet, Took(e, g), Rest(e), e.thread = "ready",
           NEW m \in Mails, e.mail[1] = m, f = Process(g, m), fill \in Fills,
           NEW v, NEW r, NEW fl, NEW i, NEW t
    PROVE  /\ Rest(f)
           /\ Passes(t, e, v, r, i, f, v, r, i, fl)
<1>1. CASE \E k \in Intervals : m = StartAdvCall(k)
  <2>1. PICK k \in Intervals : m = StartAdvCall(k)
    BY <1>1
  <2>2. f = app_ble_start_adv(g, k)
    BY <2>1 DEF Process, StartAdvCall
  <2>q. QED BY <2>1, <2>2, MailRequest
<1>2. CASE \E c \in Conidx : m = Disconnect(c)
  <2>1. PICK c \in Conidx : m = Disconnect(c)
    BY <1>2
  <2>2. f = appm_disconnect(g, c)
    BY <2>1 DEF Process, Disconnect
  <2>q. QED BY <2>1, <2>2, MailDisconnect
<1>3. CASE \E n \in Functions : m = Function(n)
  <2>1. PICK n \in Functions : m = Function(n)
    BY <1>3
  <2>2. m.func = n
    BY <2>1 DEF Function
  <2>3. CASE n \in {"ble_start_scan", "ble_start_connect", "ble_stop_all_activities"}
    <3>1. f \in {ble_start_scan(g), ble_start_connect(g), ble_stop_all_activities(g)}
      BY <2>2, <2>3 DEF Process
    <3>2. Done(g, f)
      BY <3>1, StartScanDone, StartConnectDone, StopAllDone
    <3>3. m \in Spoils /\ m \notin StartCalls
      BY <2>2, <2>3 DEF Spoils, Stops, StartCalls
    <3>4. f.thread = g.thread /\ (f.op = "START_ADV" => g.op = "START_ADV")
      BY <3>1, OtherOps
    <3>q. QED BY <3>2, <3>3, <3>4, MailDone
  <2>4. CASE n = "ble_switch_activities"
    <3>1. f = ble_switch_activities(g)
      BY <2>2, <2>4 DEF Process
    <3>2. m \in Answers /\ m \notin Failures
      BY <2>2, <2>4 DEF Answers, Failures
    <3>q. QED BY <3>1, <3>2, MailSwitch
  <2>5. CASE n \in {"ble_start_adv_failed_cb", "scan_failed", "connecting_failed"}
    <3>1. PICK o \in {"ADV", "SCAN", "CONNECT"} : n = FailedFunc[o]
      BY <2>5 DEF FailedFunc
    <3>2. f = FailedIn(g, FailsFrom[o])
      BY <2>2, <2>5, <3>1 DEF Process, FailedFunc, FailsFrom, ble_start_adv_failed_cb,
         app_ble_scanning_starting_failed_handler, app_ble_connecting_failed_handler
    <3>3. \A x \in {"ADV", "SCAN", "CONNECT"} : m = Function(FailedFunc[x]) => x = o
      BY <2>1, <3>1 DEF Function, FailedFunc
    <3>4. m \in Failures
      BY <2>2, <2>5 DEF Failures, Answers
    <3>q. QED BY <3>2, <3>3, <3>4, MailFailed
  <2>q. QED BY <2>3, <2>4, <2>5 DEF Functions
<1>q. QED BY <1>1, <1>2, <1>3 DEF Mails

\* A mail.
LEMMA MailStep ==
    ASSUME IInv, NEW t, BInv(t), Mail
    PROVE  \E u : BInv(u)'
<1>1. /\ app \in AppSet /\ fill \in Fills /\ app' \in AppSet
      /\ app.thread = "ready" /\ app.mail # <<>>
      /\ Unchanged /\ odd' = odd /\ fails' = fails /\ radio' = radio
      /\ evts' = evts /\ asked' = asked
      /\ (radio'.act # "adv" => radio'.param = NoAdv) /\ Rest(app)
  <2>1. IInv'
    BY ThreadKeeps DEF Thread
  <2>q. QED BY <2>1 DEF IInv, Good, Mail, BInv, Rest, Unchanged
<1>2. app.mail \in Seq(Mails)
  BY <1>1 DEF AppSet
<1>3. PICK m : m = app.mail[1]
  OBVIOUS
<1>4. m = Head(app.mail) /\ m \in Mails /\ Tail(app.mail) \in Seq(Mails)
  BY <1>1, <1>2, <1>3, TailOf
<1>5. PICK g : g = [app EXCEPT !.mail = Tail(app.mail)]
  OBVIOUS
<1>6. g \in AppSet /\ Took(app, g)
  BY <1>1, <1>4, <1>5 DEF AppSet, Took
<1>7. app' = Process(g, m)
  BY <1>4, <1>5 DEF Mail
<1>8. PICK f : f = app'
  OBVIOUS
<1>9. f \in AppSet /\ f = Process(g, m)
  BY <1>1, <1>7, <1>8
<1>10. /\ Rest(f)
       /\ Passes(t, app, evts, radio, asked, f, evts, radio, asked, fails)
  BY <1>1, <1>3, <1>4, <1>6, <1>9, MailCourse
<1>q. QED BY <1>1, <1>8, <1>10, Concluded

\* Advertising is started: what was allowed when the thread decided still
\* is, and the parameters are not older than the last connection unless a
\* request that renews them is on its way.
LEMMA StartCourse ==
    ASSUME NEW e \in AppSet, NEW f \in AppSet, Rest(e), e.thread = "starting", e.advParam \in AdvParam,
           f.state = "STARTING_ADV", f.op = e.op, f.advInfo = e.advParam, f.thread = "ready",
           f.advParam = e.advParam, f.connect = e.connect, f.advSwitch = e.advSwitch, f.mail = e.mail,
           f.cmds = Append(e.cmds, StartAdvCommand(e.advParam)),
           NEW v, NEW r, NEW fl, NEW i, NEW t
    PROVE  /\ Rest(f)
           /\ (odd <= 1 => Passes(t, e, v, r, i, f, v, r, i, fl))
<1>1. e.state = "STATE_IDLE" /\ ble_adv_allowed(e) /\ Renews(e)
  BY DEF Rest, Held
<1>2. PICK c : c = StartAdvCommand(e.advParam)
  OBVIOUS
<1>3. c \in Asks /\ c.cmd = "START_ADV" /\ c.param = e.advParam
  BY <1>2 DEF Asks, Commands, StartAdvCommand
<1>4. Ask(e, f, c)
  BY <1>1, <1>2, <1>3 DEF Ask, Kind
<1>5. /\ Connected(f) = Connected(e) /\ (ble_adv_allowed(f) <=> ble_adv_allowed(e))
      /\ \A k : ble_adv_config_param(f, k) = ble_adv_config_param(e, k)
  BY SameConfig
<1>6. Rest(f)
  BY <1>1, <1>5 DEF Rest, Held, Renews
<1>7. ASSUME odd <= 1, NEW u, f.state \in AdvStates => End(u).param = f.advInfo \/ Cut(End(u))
      PROVE  Fit(End(u).param, f)
  <2>0. Off(End(u).param, f)
    BY <1>1, <1>5 DEF Off, ble_adv_allowed, Forbidden
  <2>1. End(u).param = f.advParam \/ End(u).param.advType = "ZERO"
    BY <1>7 DEF AdvStates, Cut, Resting, NoAdv
  <2>2. f.advParam # NoAdv
    BY DEF AdvParam, NoAdv
  <2>3. Connected(f) # {} /\ f.advParam.advType = "UNDIRECT" => Some(f.mail, StartCalls)
    BY <1>1, <1>5, <1>7, <2>2 DEF Renews
  <2>4. Some(f.mail, StartCalls) => Some(f.mail, Stops)
    BY QueueSubset, MailKinds
  <2>q. QED BY <2>0, <2>1, <2>3, <2>4 DEF Fit, Unconn, Stopper
<1>8. ASSUME NEW u, NEW p, f.state \in AdvStates => End(u).param = f.advInfo \/ Cut(End(u)),
             Exact(t, e, v, r, fl), Want(p, e, v, i, fl)
      PROVE  Want(End(u).param, f, v, i, fl)
  <2>1. fl = 0 => f.op = "OP_IDLE"
    BY <1>1, <1>8 DEF Exact, Stray, Settled
  <2>2. End(u).param = f.advParam /\ f.state \in AdvStates
    BY <1>8 DEF AdvStates, Exact, Cut
  <2>3. Carried(p, e, i) /\ fl = 0 => Carried(End(u).param, f, i)
    BY <1>5, <2>1, <2>2 DEF Carried
  <2>q. QED BY <1>5, <1>8, <2>3 DEF Want, Wanted
<1>9. ASSUME odd <= 1, After(t, e, v, r, fl) PROVE Follows(t, e, v, r, i, f, v, r, i, fl)
  <2>1. Course(t, e, v, r)
    BY <1>9 DEF After
  <2>2. PICK u : /\ After(u, f, v, r, fl)
                 /\ (f.state \in AdvStates => End(u).param = f.advInfo \/ Cut(End(u)))
                 /\ (Exact(t, e, v, r, fl) => Exact(u, f, v, r, fl))
    BY <1>4, <2>1, AskCourse
  <2>q. QED BY <1>7, <1>8, <1>9, <2>2 DEF Follows
<1>10. ~Lost(e, v, r, fl) /\ ~Refused(e, v, r, fl)
  BY DEF Lost, Refused
<1>q. QED BY <1>6, <1>9, <1>10 DEF Passes

\* The rest of ble_start_adv.
LEMMA StartAdvertisingStep ==
    ASSUME IInv, NEW t, BInv(t), StartAdvertising
    PROVE  \E u : BInv(u)'
<1>1. /\ app \in AppSet /\ app' \in AppSet /\ app.advParam \in AdvParam
      /\ app.thread = "starting"
      /\ Unchanged /\ odd' = odd /\ fails' = fails /\ radio' = radio
      /\ evts' = evts /\ asked' = asked
      /\ (radio'.act # "adv" => radio'.param = NoAdv) /\ Rest(app)
  <2>1. IInv'
    BY ThreadKeeps DEF Thread
  <2>q. QED BY <2>1 DEF IInv, Good, Configured, StartAdvertising, BInv, Rest, Unchanged
<1>2. ~slave
  BY <1>1 DEF Rest, Held, ble_adv_allowed, Forbidden
<1>3. PICK f : f = app'
  OBVIOUS
<1>4. PICK c : c = StartAdvCommand(app.advParam)
  OBVIOUS
<1>5. f = [app EXCEPT !.thread = "ready", !.advInfo = app.advParam, !.state = "STARTING_ADV",
                      !.ke = "ADVERTISING", !.cmds = Append(app.cmds, c)]
  BY <1>1, <1>2, <1>3, <1>4 DEF StartAdvertising, Send, AppSet
<1>6. /\ f.state = "STARTING_ADV" /\ f.op = app.op /\ f.advInfo = app.advParam /\ f.thread = "ready"
      /\ f.advParam = app.advParam /\ f.connect = app.connect /\ f.advSwitch = app.advSwitch
      /\ f.mail = app.mail /\ f.cmds = Append(app.cmds, StartAdvCommand(app.advParam))
  BY <1>1, <1>4, <1>5 DEF AppSet
<1>7. f \in AppSet
  BY <1>1, <1>3
<1>8. /\ Rest(f)
      /\ (odd <= 1 => Passes(t, app, evts, radio, asked, f, evts, radio, asked, fails))
  BY <1>1, <1>6, <1>7, StartCourse
<1>q. QED BY <1>1, <1>3, <1>8, Concluded

\* A request to advertise that is queued takes care of everything.
LEMMA CallPosted ==
    ASSUME NEW s \in Seq(Mails), NEW k \in Intervals, NEW w, w = Append(s, StartAdvCall(k))
    PROVE  /\ Some(w, StartCalls) /\ Some(w, Stops) /\ LastCall(w, k)
           /\ StartAdvCall(k) \in Mails /\ StartAdvCall(k) \notin Answers
<1>1. StartAdvCall(k) \in Mails
  BY DEF Mails
<1>2. StartAdvCall(k) \in StartCalls /\ StartAdvCall(k) \in Stops /\ StartAdvCall(k) \notin Answers
  BY <1>1 DEF StartCalls, Stops, Answers, StartAdvCall
<1>3. Some(w, StartCalls) /\ Some(w, Stops)
  BY <1>1, <1>2, QueueAppend
<1>q. QED BY <1>1, <1>2, <1>3, LastCallNew

\* As long as the thread is ready to handle it.
LEMMA CallServes ==
    ASSUME NEW f, f.thread = "ready", Some(f.mail, StartCalls), Some(f.mail, Stops), NEW k, LastCall(f.mail, k)
    PROVE  Rest(f) /\ (\A p : Fit(p, f)) /\ \A p, v, fl : Want(p, f, v, k, fl)
<1>1. Stopper(f)
  BY DEF Stopper
<1>q. QED BY <1>1 DEF Rest, Held, Renews, Fit, Off, Unconn, Want, Wanted

\* The handler of a completion queues a function for it.
LEMMA Completed ==
    ASSUME NEW e \in AppSet, NEW o, NEW s
    PROVE  /\ gapm_cmp_evt_handler(e, o, s).advParam = e.advParam
           /\ gapm_cmp_evt_handler(e, o, s).connect = e.connect
           /\ gapm_cmp_evt_handler(e, o, s).advSwitch = e.advSwitch
           /\ \E m \in Answers :
                  /\ Posted(e, gapm_cmp_evt_handler(e, o, s), m)
                  /\ (s # "FAILED" => m \notin Failures)
                  /\ (s = "FAILED" /\ o \in {"ADV", "SCAN", "CONNECT"} => m = Function(FailedFunc[o]))
<1>1. PICK m : m = IF s = "FAILED" /\ o \in {"ADV", "SCAN", "CONNECT"} THEN Function(FailedFunc[o])
                   ELSE Function("ble_switch_activities")
  OBVIOUS
<1>2. m \in Mails
  <2>1. \A n \in Functions : Function(n) \in Mails
    BY DEF Mails
  <2>2. "ble_switch_activities" \in Functions
    BY DEF Functions
  <2>3. o \in {"ADV", "SCAN", "CONNECT"} => FailedFunc[o] \in Functions
    BY DEF FailedFunc, Functions
  <2>q. QED BY <1>1, <2>1, <2>2, <2>3
<1>3. m \in Answers /\ (s # "FAILED" => m \notin Failures)
  BY <1>1, <1>2 DEF Answers, Failures, Function, FailedFunc
<1>4. PICK f : f = gapm_cmp_evt_handler(e, o, s)
  OBVIOUS
<1>5. f \in {Post(e, m), Post([e EXCEPT !.advInfo = NoAdv], m)}
  BY <1>1, <1>4 DEF gapm_cmp_evt_handler, app_advertising_stopped, FailedFunc
<1>6. /\ f.mail = Append(e.mail, m) /\ f.state = e.state /\ f.op = e.op /\ f.cmds = e.cmds
      /\ f.thread = e.thread /\ f.advInfo \in {e.advInfo, NoAdv}
      /\ f.advParam = e.advParam /\ f.connect = e.connect /\ f.advSwitch = e.advSwitch
  BY <1>5 DEF Post, AppSet
<1>7. Posted(e, f, m)
  BY <1>2, <1>6 DEF Posted
<1>q. QED BY <1>1, <1>3, <1>4, <1>6, <1>7

\* A completion.
LEMMA EventCompletion ==
    ASSUME NEW e \in AppSet, NEW f \in AppSet, Rest(e), NEW v \in Seq(Events), v # <<>>, v[1] \in Cmps,
           f = gapm_cmp_evt_handler(e, v[1].op, v[1].status), NEW r, NEW fl, NEW i, NEW t
    PROVE  /\ Rest(f)
           /\ Passes(t, e, v, r, i, f, Tail(v), r, i, fl)
<1>1. PICK o : o = v[1].op
  OBVIOUS
<1>2. PICK s : s = v[1].status
  OBVIOUS
<1>3. f = gapm_cmp_evt_handler(e, o, s)
  BY <1>1, <1>2
<1>4. f.advParam = e.advParam /\ f.connect = e.connect /\ f.advSwitch = e.advSwitch
  BY <1>3, Completed
<1>5. PICK m \in Answers :
                  /\ Posted(e, f, m)
                  /\ (s # "FAILED" => m \notin Failures)
                  /\ (s = "FAILED" /\ o \in {"ADV", "SCAN", "CONNECT"} => m = Function(FailedFunc[o]))
  BY <1>3, Completed
<1>6. /\ f.mail = Append(e.mail, m) /\ m \in Mails
      /\ f.state = e.state /\ f.op = e.op /\ f.cmds = e.cmds /\ f.thread = e.thread
  BY <1>5 DEF Posted
<1>7. e.mail \in Seq(Mails) /\ f.mail \in Seq(Mails)
  BY DEF AppSet
<1>8. m \notin Spoils /\ Grows(e.mail, f.mail, Spoils)
  BY <1>6, <1>7, MailKinds, QueueAppend
<1>9. (\A S : Some(e.mail, S) => Some(f.mail, S)) /\ (None(e.mail, Spoils) => None(f.mail, Spoils))
  BY <1>7, <1>8, QueueGrows
<1>10. /\ Connected(f) = Connected(e) /\ (ble_adv_allowed(f) <=> ble_adv_allowed(e))
       /\ \A k : ble_adv_config_param(f, k) = ble_adv_config_param(e, k)
  BY <1>4, SameConfig
<1>11. Stopper(e) => Stopper(f)
  BY <1>6, <1>9 DEF Stopper
<1>12. Rest(f) /\ \A p : Fit(p, e) => Fit(p, f)
  BY <1>4, <1>6, <1>9, <1>10, <1>11 DEF Rest, Held, Renews, Fit, Off, Unconn
<1>13. \A p : Want(p, e, v, i, fl) => Want(p, f, Tail(v), i, fl)
  <2>1. Some(v, Downs) => Some(Tail(v), Downs)
    BY QueueTail, EventKinds
  <2>2. LastCall(e.mail, i) => LastCall(f.mail, i)
    BY <1>7, <1>8, LastCallGrows
  <2>3. \A p : Carried(p, e, i) => Carried(p, f, i)
    BY <1>4, <1>6, <1>10 DEF Carried
  <2>q. QED BY <1>9, <1>10, <2>1, <2>2, <2>3 DEF Want, Wanted
<1>14. CASE v[1] \notin Refusals
  <2>1. s # "FAILED"
    BY <1>2, <1>14 DEF Refusals
  <2>2. /\ (After(t, e, v, r, fl) => After(t, f, Tail(v), r, fl))
        /\ (Exact(t, e, v, r, fl) => Exact(t, f, Tail(v), r, fl))
        /\ (Lost(e, v, r, fl) => Lost(f, Tail(v), r, fl))
        /\ ~Refused(e, v, r, fl)
    BY <1>5, <1>14, <2>1, CompletionCourse
  <2>q. QED BY <1>12, <1>13, <2>2 DEF Follows, Recovers, Passes
<1>15. CASE v[1] \in Refusals
  <2>1. ~After(t, e, v, r, fl) /\ ~Lost(e, v, r, fl)
    BY <1>15, RefusalCourse
  <2>2. ASSUME Refused(e, v, r, fl) PROVE Recovers(f, Tail(v), r, fl)
    <3>1. PICK n \in {"ADV", "SCAN", "CONNECT"} :
                      /\ v[1] = Complete(n, "FAILED")
                      /\ \A h \in AppSet : Posted(e, h, Function(FailedFunc[n])) =>
                                               Refused(h, Tail(v), r, fl)
      BY <1>15, <2>2, RefusalCourse
    <3>2. o = n /\ s = "FAILED"
      BY <1>1, <1>2, <3>1 DEF Complete
    <3>q. QED BY <1>5, <3>1, <3>2 DEF Recovers
  <2>q. QED BY <1>12, <2>1, <2>2 DEF Passes
<1>q. QED BY <1>14, <1>15

\* A connection has ended.
LEMMA EventDown ==
    ASSUME NEW e \in AppSet, NEW f \in AppSet, e.thread = "ready", NEW v \in Seq(Events), v # <<>>,
           v[1] \in Downs, NEW c, f = gapc_disconnect_ind_handler(e, c), NEW r, NEW fl, NEW i, NEW t
    PROVE  /\ Rest(f)
           /\ Passes(t, e, v, r, i, f, Tail(v), r, Slow, fl)
<1>1. PICK m : m = StartAdvCall(Slow)
  OBVIOUS
<1>2. /\ f.mail = Append(e.mail, m) /\ f.state = e.state /\ f.op = e.op /\ f.cmds = e.cmds
      /\ f.thread = e.thread /\ f.advInfo = e.advInfo
  BY <1>1 DEF gapc_disconnect_ind_handler, Post, AppSet
<1>3. e.mail \in Seq(Mails) /\ Slow \in Intervals
  BY DEF AppSet, Intervals
<1>4. Some(f.mail, StartCalls) /\ Some(f.mail, Stops) /\ LastCall(f.mail, Slow) /\ m \in Mails /\ m \notin Answers
  BY <1>1, <1>2, <1>3, CallPosted
<1>5. Rest(f) /\ (\A p : Fit(p, f)) /\ \A p, w, k : Want(p, f, w, Slow, k)
  BY <1>2, <1>4, CallServes
<1>6. Posted(e, f, m)
  BY <1>2, <1>4 DEF Posted
<1>7. /\ (After(t, e, v, r, fl) => After(t, f, Tail(v), r, fl))
      /\ (Exact(t, e, v, r, fl) => Exact(t, f, Tail(v), r, fl))
      /\ (Lost(e, v, r, fl) => Lost(f, Tail(v), r, fl))
      /\ (Refused(e, v, r, fl) => Refused(f, Tail(v), r, fl))
  BY <1>4, <1>6, DownCourse
<1>q. QED BY <1>5, <1>7 DEF Follows, Recovers, Passes

\* A connection has been made.
LEMMA EventUp ==
    ASSUME NEW e \in AppSet, NEW f \in AppSet, e.thread = "ready", NEW v \in Seq(Events), v # <<>>,
           v[1] \in Ups, NEW c, f = gapc_connection_req_ind_handler(e, c), NEW r, NEW fl, NEW i, NEW t
    PROVE  /\ Rest(f)
           /\ Passes(t, e, v, r, i, f, Tail(v), r, Slow, fl)
<1>1. PICK m : m = StartAdvCall(Slow)
  OBVIOUS
<1>4. /\ f.mail = Append(e.mail, m) /\ f.cmds = e.cmds /\ f.thread = "ready"
      /\ f.state = IF e.state \in {"ADVERTISING", "STARTING_ADV", "CONNECTING"} THEN "STATE_IDLE"
                   ELSE e.state
  BY <1>1 DEF gapc_connection_req_ind_handler, app_ble_connected_evt_handler, Post, AppSet
<1>5. e.mail \in Seq(Mails) /\ Slow \in Intervals
  BY DEF AppSet, Intervals
<1>6. Some(f.mail, StartCalls) /\ Some(f.mail, Stops) /\ LastCall(f.mail, Slow) /\ m \in Mails /\ m \notin Answers
  BY <1>1, <1>4, <1>5, CallPosted
<1>7. Rest(f) /\ (\A p : Fit(p, f))
  BY <1>4, <1>6, CallServes
<1>8. /\ ~After(t, e, v, r, fl) /\ ~Refused(e, v, r, fl)
      /\ (Lost(e, v, r, fl) => \E u : After(u, f, Tail(v), r, fl))
  <2>1. ~After(t, e, v, r, fl)
    BY <1>4, <1>6, UpCourse
  <2>2. ~Refused(e, v, r, fl)
    BY <1>4, <1>6, UpCourse
  <2>3. Lost(e, v, r, fl) => \E u : After(u, f, Tail(v), r, fl)
    BY <1>4, <1>6, UpCourse
  <2>q. QED BY <2>1, <2>2, <2>3
<1>q. QED BY <1>7, <1>8 DEF Recovers, Passes

\* An event.
LEMMA EventStep ==
    ASSUME IInv, NEW t, BInv(t), Event
    PROVE  \E u : BInv(u)'
<1>1. /\ app \in AppSet /\ app' \in AppSet /\ evts \in Seq(Events) /\ evts # <<>>
      /\ app.thread = "ready"
      /\ Unchanged /\ odd' = odd /\ fails' = fails /\ radio' = radio
      /\ evts' = Tail(evts)
      /\ (radio'.act # "adv" => radio'.param = NoAdv) /\ Rest(app)
  <2>1. IInv'
    BY ThreadKeeps DEF Thread
  <2>q. QED BY <2>1 DEF IInv, Good, Event, BInv, Rest, Unchanged
<1>2. PICK x : x = evts[1]
  OBVIOUS
<1>3. x = Head(evts) /\ x \in Events
  BY <1>1, <1>2, TailOf
<1>4. PICK f : f = app'
  OBVIOUS
<1>5. \/ x \in Cmps /\ f = gapm_cmp_evt_handler(app, x.op, x.status) /\ asked' = asked
      \/ x \in Downs /\ f = gapc_disconnect_ind_handler(app, x.conidx) /\ asked' = Slow
      \/ x \in Ups /\ f = gapc_connection_req_ind_handler(app, x.conidx) /\ asked' = Slow
  BY <1>3, <1>4 DEF Event, Events, Cmps, Downs, Ups
<1>6. f \in AppSet
  BY <1>1, <1>4
<1>7. /\ Rest(f)
      /\ Passes(t, app, evts, radio, asked, f, Tail(evts), radio, asked', fails)
  <2>1. CASE x \in Cmps /\ f = gapm_cmp_evt_handler(app, x.op, x.status) /\ asked' = asked
    BY <1>1, <1>2, <1>6, <2>1, EventCompletion
  <2>2. CASE x \in Downs /\ f = gapc_disconnect_ind_handler(app, x.conidx) /\ asked' = Slow
    BY <1>1, <1>2, <1>6, <2>2, EventDown
  <2>3. CASE x \in Ups /\ f = gapc_connection_req_ind_handler(app, x.conidx) /\ asked' = Slow
    BY <1>1, <1>2, <1>6, <2>3, EventUp
  <2>q. QED BY <1>5, <2>1, <2>2, <2>3
<1>q. QED BY <1>1, <1>4, <1>7, Concluded

\* The stack answers a command as it was meant.
LEMMA CommandCourse ==
    ASSUME NEW e \in AppSet, NEW f \in AppSet, Popped(e, f), f.advParam = e.advParam,
           f.connect = e.connect, f.advSwitch = e.advSwitch, Rest(e),
           NEW v \in Seq(Events), NEW w, NEW r, NEW q, NEW fl, NEW i, NEW t,
           Track(q) = Effect(Track(r), e.cmds[1]), Answered(v, w, Track(r), e.cmds[1])
    PROVE  /\ Rest(f)
           /\ Passes(t, e, v, r, i, f, w, q, i, fl)
<1>1. /\ f.state = e.state /\ f.op = e.op /\ f.mail = e.mail /\ f.thread = e.thread
  BY DEF Popped
<1>2. /\ Connected(f) = Connected(e) /\ (ble_adv_allowed(f) <=> ble_adv_allowed(e))
      /\ \A k : ble_adv_config_param(f, k) = ble_adv_config_param(e, k)
  BY SameConfig
<1>3. Stopper(f) <=> Stopper(e)
  BY <1>1 DEF Stopper
<1>4. Rest(f) /\ \A p : Fit(p, e) => Fit(p, f)
  BY <1>1, <1>2, <1>3 DEF Rest, Held, Renews, Fit, Off, Unconn
<1>5. \A p : Want(p, e, v, i, fl) => Want(p, f, w, i, fl)
  <2>1. Some(v, Downs) => Some(w, Downs)
    <3>1. w \in Seq(Events) /\ Grows(v, w, Ups)
      BY AnsweredEvents
    <3>q. QED BY <3>1, QueueGrows
  <2>2. \A p : Carried(p, e, i) => Carried(p, f, i)
    BY <1>1, <1>2 DEF Carried
  <2>q. QED BY <1>1, <1>2, <2>1, <2>2 DEF Want, Wanted
<1>6. After(t, e, v, r, fl) =>
                  \E u : /\ After(u, f, w, q, fl) /\ End(u) = End(t)
                         /\ (Exact(t, e, v, r, fl) => Exact(u, f, w, q, fl))
  BY StackCourse
<1>7. (Lost(e, v, r, fl) => Lost(f, w, q, fl)) /\ (Refused(e, v, r, fl) => Refused(f, w, q, fl))
  BY StackCourse
<1>8. ASSUME After(t, e, v, r, fl), Fit(End(t).param, e)
      PROVE  Follows(t, e, v, r, i, f, w, q, i, fl)
  <2>1. PICK u : /\ After(u, f, w, q, fl) /\ End(u) = End(t)
                 /\ (Exact(t, e, v, r, fl) => Exact(u, f, w, q, fl))
    BY <1>6, <1>8
  <2>q. QED BY <1>4, <1>5, <1>8, <2>1 DEF Follows
<1>q. QED BY <1>4, <1>7, <1>8 DEF Recovers, Passes

\* A start finds the radio free.
LEMMA StartFindsFree ==
    ASSUME NEW e \in AppSet, e.cmds # <<>>, e.cmds[1] \in Starts, NEW r, r.act # "none", NEW v, NEW fl, NEW t
    PROVE  ~After(t, e, v, r, fl) /\ ~Lost(e, v, r, fl) /\ ~Refused(e, v, r, fl)
<1>1. e.cmds \in Seq(Commands)
  BY DEF AppSet
<1>2. 1 \in 1 .. Len(e.cmds)
  BY <1>1, TailOf
<1>3. Track(r) # Resting /\ Track(r).act # "none"
  BY DEF Track, Resting
<1>4. ~After(t, e, v, r, fl)
  BY <1>2, <1>3 DEF After, Course, Run
<1>q. QED BY <1>3, <1>4 DEF Lost, Refused

\* What the stack answers, if it does not refuse.
Replied(c) ==
    \/ c \in Starts /\ radio.act # "none" /\ radio' = radio
    \/ /\ Track(radio') = Effect(Track(radio), c)
       /\ Answered(evts, evts', Track(radio), c)
       /\ (radio'.act # "adv" => radio'.param = NoAdv)

\* Every command but a refused one is answered so.
LEMMA StackAnswers ==
    ASSUME IInv, Stack, fails \in Nat, fails' = fails, radio.act # "adv" => radio.param = NoAdv
    PROVE  Replied(Head(app.cmds))
<1>1. /\ Good(app) /\ evts \in Seq(Events)
      /\ radio \in [act : {"none", "adv", "scan", "conn"}, param : AdvParam \cup {NoAdv},
                    links : SUBSET Conidx]
  BY DEF IInv
<1>2. PICK c : c = Head(app.cmds)
  OBVIOUS
<1>3. PICK a : a = Track(radio)
  OBVIOUS
<1>4. a.act = radio.act /\ a.param = radio.param /\ a = [act |-> radio.act, param |-> radio.param]
  BY <1>3 DEF Track
<1>5. \A o \in {"ADV", "SCAN", "CONNECT", "UPDATE"}, s \in {"NO_ERROR", "CANCELED"} :
          Complete(o, s) \in Cmps \ Refusals
  BY DEF Complete, Events, Cmps, Refusals, Statuses
<1>6. ASSUME NEW k, NEW x \in {"adv", "scan", "conn"}, NEW p, StackStarts(k, x, p),
             k \in {"START_ADV", "START_SCAN", "START_CONNECT"},
             radio.act = "none" => Effect(a, c) = [act |-> x, param |-> p],
             x # "adv" => p = NoAdv
      PROVE  Replied(c)
  <2>1. c \in Commands /\ c.cmd = k
    BY <1>1, <1>2, <1>6, CommandTaken DEF StackStarts
  <2>2. c \in Starts /\ Live(a, c)
    BY <1>6, <2>1 DEF Starts, Asks, Live
  <2>3. CASE radio.act # "none" /\ radio' = radio
    BY <2>2, <2>3 DEF Replied
  <2>4. CASE /\ radio.act = "none"
             /\ radio' = [radio EXCEPT !.act = x, !.param = p]
             /\ evts' = Append(evts, Complete(OpOf[x], "NO_ERROR"))
    <3>1. radio'.act = x /\ radio'.param = p
      BY <1>1, <2>4
    <3>2. Track(radio') = Effect(a, c)
      BY <1>6, <2>4, <3>1 DEF Track
    <3>3. OpOf[x] \in {"ADV", "SCAN", "CONNECT", "UPDATE"}
      BY DEF OpOf
    <3>4. Answered(evts, evts', a, c)
      BY <1>5, <2>2, <2>4, <3>3 DEF Answered
    <3>q. QED BY <1>3, <1>6, <3>1, <3>2, <3>4 DEF Replied
  <2>5. fails + 1 # fails
    OBVIOUS
  <2>q. QED BY <1>6, <2>3, <2>4, <2>5 DEF StackStarts
<1>7. CASE app.cmds # <<>> /\ Head(app.cmds).cmd = "START_ADV"
           /\ StackStarts("START_ADV", "adv", Head(app.cmds).param)
  <2>1. Effect(a, c) = [act |-> "adv", param |-> c.param]
    BY <1>2, <1>7 DEF Effect
  <2>q. QED BY <1>2, <1>6, <1>7, <2>1
<1>8. CASE StackStarts("START_SCAN", "scan", NoAdv)
  <2>1. c.cmd = "START_SCAN"
    BY <1>1, <1>2, <1>8, CommandTaken DEF StackStarts
  <2>2. Effect(a, c) = [act |-> "scan", param |-> NoAdv]
    BY <2>1 DEF Effect
  <2>q. QED BY <1>2, <1>6, <1>8, <2>2
<1>9. CASE StackStarts("START_CONNECT", "conn", NoAdv)
  <2>1. c.cmd = "START_CONNECT"
    BY <1>1, <1>2, <1>9, CommandTaken DEF StackStarts
  <2>2. Effect(a, c) = [act |-> "conn", param |-> NoAdv]
    BY <2>1 DEF Effect
  <2>q. QED BY <1>2, <1>6, <1>9, <2>2
<1>10. CASE StackCancels
  <2>1. c \in Commands /\ c.cmd = "CANCEL"
    BY <1>1, <1>2, <1>10, CommandTaken DEF StackCancels
  <2>2. radio'.act = "none" /\ radio'.param = NoAdv
    BY <1>1, <1>10 DEF StackCancels
  <2>3. Effect(a, c) = Resting
    BY <2>1 DEF Effect
  <2>4. Track(radio') = Effect(a, c)
    BY <2>2, <2>3 DEF Track, Resting
  <2>5. Live(a, c) <=> radio.act # "none"
    BY <1>4, <2>1 DEF Live, Asks
  <2>6. Answered(evts, evts', a, c)
    <3>1. CASE radio.act = "none"
      BY <1>10, <2>5, <3>1 DEF Answered, StackCancels
    <3>2. CASE radio.act # "none"
      <4>1. OpOf[radio.act] \in {"ADV", "SCAN", "CONNECT", "UPDATE"}
        BY <1>1, <3>2 DEF OpOf
      <4>2. evts' = Append(evts, Complete(OpOf[radio.act], "CANCELED"))
        BY <1>10, <3>2 DEF StackCancels
      <4>q. QED BY <1>5, <2>5, <3>2, <4>1, <4>2 DEF Answered
    <3>q. QED BY <3>1, <3>2
  <2>q. QED BY <1>2, <1>3, <2>2, <2>4, <2>6 DEF Replied
<1>11. CASE StackUpdates
  <2>1. c \in Commands /\ c.cmd = "UPDATE_ADV"
    BY <1>1, <1>2, <1>11, CommandTaken DEF StackUpdates
  <2>2. Effect(a, c) = IF a.act = "adv" THEN [act |-> "adv", param |-> c.param] ELSE a
    BY <2>1 DEF Effect
  <2>3. /\ Track(radio') = Effect(a, c)
        /\ (radio'.act # "adv" => radio'.param = NoAdv)
    <3>1. CASE radio.act = "adv"
      <4>1. radio'.act = "adv" /\ radio'.param = c.param
        BY <1>1, <1>2, <1>11, <3>1 DEF StackUpdates
      <4>q. QED BY <1>4, <2>2, <3>1, <4>1 DEF Track
    <3>2. CASE radio.act # "adv"
      <4>1. radio' = radio
        BY <1>11, <3>2 DEF StackUpdates
      <4>2. Track(radio') = a
        BY <1>3, <4>1
      <4>q. QED BY <1>4, <2>2, <3>2, <4>1, <4>2
    <3>q. QED BY <3>1, <3>2
  <2>4. Live(a, c)
    BY <2>1 DEF Live, Asks
  <2>5. Answered(evts, evts', a, c)
    BY <1>5, <1>11, <2>4 DEF Answered, StackUpdates
  <2>q. QED BY <1>2, <1>3, <2>3, <2>5 DEF Replied
<1>12. CASE StackDisconnects
  <2>1. c \in Commands /\ c.cmd = "DISCONNECT"
    BY <1>1, <1>2, <1>12, CommandTaken DEF StackDisconnects
  <2>2. Effect(a, c) = a
    BY <2>1 DEF Effect
  <2>3. radio'.act = radio.act /\ radio'.param = radio.param
    BY <1>1, <1>12 DEF StackDisconnects
  <2>4. Track(radio') = Effect(a, c)
    BY <1>4, <2>2, <2>3 DEF Track
  <2>5. ~Live(a, c)
    BY <2>1 DEF Live, Asks
  <2>6. c.conidx \in Conidx
    BY <2>1 DEF Commands, Command
  <2>7. PICK y : y = [ind |-> "DISCONNECTED", conidx |-> c.conidx]
    OBVIOUS
  <2>8. y \in Downs
    BY <2>6, <2>7 DEF Downs, Events
  <2>9. evts' \in {evts, Append(evts, y)}
    BY <1>2, <1>12, <2>7 DEF StackDisconnects
  <2>10. Answered(evts, evts', a, c)
    BY <2>5, <2>8, <2>9 DEF Answered
  <2>q. QED BY <1>2, <1>3, <2>3, <2>4, <2>10 DEF Replied
<1>q. QED BY <1>2, <1>7, <1>8, <1>9, <1>10, <1>11, <1>12 DEF Stack

\* What a refusal is.
LEMMA StackFails ==
    ASSUME IInv, Stack, fails' # fails
    PROVE  /\ fails' = fails + 1 /\ radio' = radio /\ radio.act = "none"
           /\ Head(app.cmds) \in Starts
           /\ \E x \in {"adv", "scan", "conn"} :
                  /\ Effect(Track(radio), Head(app.cmds)).act = x
                  /\ evts' = Append(evts, Complete(OpOf[x], "FAILED"))
<1>1. Good(app)
  BY DEF IInv
<1>2. PICK c : c = Head(app.cmds)
  OBVIOUS
<1>3. ASSUME NEW k \in {"START_ADV", "START_SCAN", "START_CONNECT"}, NEW p,
             NEW x \in {"adv", "scan", "conn"}, StackStarts(k, x, p),
             c.cmd = k => Effect(Track(radio), c).act = x
      PROVE  /\ fails' = fails + 1 /\ radio' = radio /\ radio.act = "none"
             /\ c \in Starts
             /\ \E y \in {"adv", "scan", "conn"} :
                    /\ Effect(Track(radio), c).act = y
                    /\ evts' = Append(evts, Complete(OpOf[y], "FAILED"))
  <2>1. c \in Commands /\ c.cmd = k
    BY <1>1, <1>2, <1>3, CommandTaken DEF StackStarts
  <2>2. c \in Starts
    BY <2>1 DEF Starts
  <2>q. QED BY <1>3, <2>1, <2>2 DEF StackStarts
<1>4. /\ (c.cmd = "START_ADV" => Effect(Track(radio), c).act = "adv")
      /\ (c.cmd = "START_SCAN" => Effect(Track(radio), c).act = "scan")
      /\ (c.cmd = "START_CONNECT" => Effect(Track(radio), c).act = "conn")
  BY DEF Effect
<1>5. \/ StackStarts("START_ADV", "adv", c.param)
      \/ StackStarts("START_SCAN", "scan", NoAdv)
      \/ StackStarts("START_CONNECT", "conn", NoAdv)
  BY <1>2 DEF Stack, StackCancels, StackUpdates, StackDisconnects
<1>q. QED BY <1>2, <1>3, <1>4, <1>5

\* The stack.
LEMMA StackStep ==
    ASSUME IInv, NEW t, BInv(t), Stack
    PROVE  \E u : BInv(u)'
<1>1. /\ app \in AppSet /\ app' \in AppSet /\ evts \in Seq(Events)
      /\ Unchanged /\ asked' = asked
      /\ odd' = odd + (fails' - fails) /\ odd \in Nat /\ fails \in Nat
      /\ (radio.act # "adv" => radio.param = NoAdv) /\ Rest(app)
  <2>1. IInv'
    BY StackKeeps
  <2>q. QED BY <2>1 DEF IInv, Good, Stack, BInv, Rest, Unchanged
<1>2. app.cmds # <<>> /\ app' = [app EXCEPT !.cmds = Tail(app.cmds)]
  BY DEF Stack, StackStarts, StackCancels, StackUpdates, StackDisconnects, NextCommand
<1>3. PICK f : f = app'
  OBVIOUS
<1>4. /\ f.state = app.state /\ f.op = app.op /\ f.mail = app.mail /\ f.advInfo = app.advInfo
      /\ f.thread = app.thread /\ f.cmds = Tail(app.cmds)
      /\ f.advParam = app.advParam /\ f.connect = app.connect /\ f.advSwitch = app.advSwitch
      /\ f \in AppSet
  BY <1>1, <1>2, <1>3 DEF AppSet
<1>5. Popped(app, f)
  BY <1>2, <1>4 DEF Popped
<1>6. PICK c : c = app.cmds[1]
  OBVIOUS
<1>7. c = Head(app.cmds)
  <2>1. app.cmds \in Seq(Commands)
    BY <1>1 DEF AppSet
  <2>q. QED BY <1>2, <1>6, <2>1, TailOf
<1>8. Rest(f)
  <2>1. /\ Connected(f) = Connected(app) /\ (ble_adv_allowed(f) <=> ble_adv_allowed(app))
    BY <1>4, SameConfig
  <2>q. QED BY <1>1, <1>4, <2>1 DEF Rest, Held, Renews
<1>9. CASE fails' = fails
  <2>1. odd' = odd
    BY <1>1, <1>9
  <2>2. Replied(c)
    BY <1>1, <1>7, <1>9, StackAnswers
  <2>3. CASE c \in Starts /\ radio.act # "none" /\ radio' = radio
    <3>1. /\ ~After(t, app, evts, radio, fails) /\ ~Lost(app, evts, radio, fails)
          /\ ~Refused(app, evts, radio, fails)
      BY <1>1, <1>2, <1>6, <2>3, StartFindsFree
    <3>q. QED BY <1>1, <1>3, <1>8, <1>9, <2>1, <2>3, <3>1, Concluded DEF Passes
  <2>4. CASE /\ Track(radio') = Effect(Track(radio), c)
             /\ Answered(evts, evts', Track(radio), c)
             /\ (radio'.act # "adv" => radio'.param = NoAdv)
    <3>1. PICK w : w = evts'
      OBVIOUS
    <3>2. PICK q : q = radio'
      OBVIOUS
    <3>3. Track(q) = Effect(Track(radio), app.cmds[1]) /\ Answered(evts, w, Track(radio), app.cmds[1])
      BY <1>6, <2>4, <3>1, <3>2
    <3>4. Passes(t, app, evts, radio, asked, f, w, q, asked, fails)
      BY <1>1, <1>4, <1>5, <3>3, CommandCourse
    <3>q. QED BY <1>1, <1>3, <1>8, <1>9, <2>1, <2>4, <3>1, <3>2, <3>4, Concluded
  <2>q. QED BY <2>2, <2>3, <2>4 DEF Replied
<1>10. CASE fails' # fails
  <2>1. /\ fails' = fails + 1 /\ radio' = radio /\ radio.act = "none" /\ c \in Starts
    BY <1>7, <1>10, StackFails
  <2>2. PICK x \in {"adv", "scan", "conn"} :
                  /\ Effect(Track(radio), c).act = x
                  /\ evts' = Append(evts, Complete(OpOf[x], "FAILED"))
    BY <1>7, <1>10, StackFails
  <2>3. odd' = odd + 1 /\ odd' \in Nat /\ fails' \in Nat /\ fails' # 0
    BY <1>1, <2>1
  <2>4. ASSUME odd = 0 PROVE Refused(app', evts', radio', fails')
    <3>1. Exact(t, app, evts, radio, fails)
      BY <2>4 DEF BInv
    <3>2. radio.param = NoAdv /\ Held(app)
      BY <1>1, <2>1 DEF Rest
    <3>3. PICK k : k = fails'
      OBVIOUS
    <3>4. k # 0
      BY <2>3, <3>3
    <3>5. Effect(Track(radio), app.cmds[1]).act = x /\ app.cmds[1] \in Starts
      BY <1>6, <2>1, <2>2
    <3>6. Refused(f, Append(evts, Complete(OpOf[x], "FAILED")), radio, k)
      BY <1>1, <1>4, <1>5, <2>1, <3>1, <3>2, <3>4, <3>5, StackRefuses
    <3>q. QED BY <1>3, <2>1, <2>2, <3>3, <3>6
  <2>5. (Held(app) /\ Renews(app))'
    <3>1. odd \in Nat /\ odd' = odd + 1
      BY <1>1, <2>3
    <3>2. odd' <= 1 => odd <= 1
      BY <3>1
    <3>q. QED BY <1>1, <1>3, <1>8, <3>2, Unmoved
  <2>6. odd' # 0 /\ (odd' = 1 => odd = 0)
    <3>1. odd \in Nat /\ odd' = odd + 1
      BY <1>1, <2>3
    <3>q. QED BY <3>1
  <2>7. \A u : odd' = 1 => Sound(u, app, evts, radio, fails)'
    BY <2>4, <2>6 DEF Sound
  <2>8. radio'.act # "adv" => radio'.param = NoAdv
    BY <1>1, <2>1
  <2>q. QED BY <2>3, <2>5, <2>6, <2>7, <2>8 DEF BInv
<1>q. QED BY <1>9, <1>10
-----------------------------------------------------------------------------
(* Peers and requests.                                                     *)

\* When nothing is on its way, a connection or a refusal has been dealt with.
LEMMA SinceCourse ==
    ASSUME IInv, NEW t, BInv(t)
    PROVE  /\ Since \in Nat /\ (Since <= 1 => odd <= 1) /\ (Since = 1 => odd = 1)
           /\ (Since = 0 => /\ Exact(t, app, evts, radio, fails) /\ Fit(End(t).param, app))
           /\ (Quiet /\ Since = 1 => /\ After(t, app, evts, radio, fails) /\ Fit(End(t).param, app))
<1>1. odd \in Nat
  BY DEF BInv
<1>2. Since \in Nat /\ (Since <= 1 => odd <= 1) /\ (Since = 1 => odd = 1)
      /\ (Since = 0 => odd = 0 \/ (Quiet /\ odd = 1 /\ ~past))
  BY <1>1 DEF Since
<1>3. CASE odd = 0
  BY <1>2, <1>3 DEF BInv
<1>4. CASE Quiet /\ odd = 1
  <2>1. Sound(t, app, evts, radio, fails)
    BY <1>4 DEF BInv
  <2>2. app \in AppSet /\ evts \in Seq(Events) /\ app.mail = <<>> /\ app.cmds = <<>> /\ evts = <<>>
    BY <1>4 DEF IInv, Good, Quiet
  <2>3. ~Lost(app, evts, radio, fails) /\ ~Refused(app, evts, radio, fails)
    BY <2>2, QuietExact
  <2>4. After(t, app, evts, radio, fails) /\ ~past => Exact(t, app, evts, radio, fails)
    BY <2>2, QuietExact
  <2>5. Since = 0 => ~past
    BY <1>2, <1>4
  <2>q. QED BY <1>2, <2>1, <2>3, <2>4, <2>5 DEF Sound
<1>q. QED BY <1>2, <1>3, <1>4

\* A peer connects or leaves, a connection attempt ends.
LEMMA PeerStep ==
    ASSUME IInv, NEW t, BInv(t), NEW c \in Conidx, PeerConnects(c) \/ ConnectEnds(c) \/ PeerLeaves(c)
    PROVE  \E u : BInv(u)'
<1>1. /\ app \in AppSet /\ evts \in Seq(Events) /\ app' = app
      /\ Unchanged /\ asked' = asked /\ fails \in Nat
      /\ (radio.act # "adv" => radio.param = NoAdv) /\ Rest(app)
      /\ radio \in [act : {"none", "adv", "scan", "conn"}, param : AdvParam \cup {NoAdv},
                    links : SUBSET Conidx]
  BY DEF IInv, Good, BInv, Rest, PeerConnects, ConnectEnds, PeerLeaves, Unchanged
<1>2. /\ Since \in Nat /\ (Since <= 1 => odd <= 1) /\ (Since = 1 => odd = 1)
      /\ (Since = 0 => /\ Exact(t, app, evts, radio, fails) /\ Fit(End(t).param, app))
      /\ (Quiet /\ Since = 1 => /\ After(t, app, evts, radio, fails) /\ Fit(End(t).param, app))
  BY SinceCourse
<1>3. (Held(app) /\ Renews(app))'
  <2>1. odd' = Since \/ odd' = Since + 1
    BY DEF PeerConnects, ConnectEnds, PeerLeaves
  <2>2. odd' <= 1 => odd <= 1
    BY <1>2, <2>1
  <2>q. QED BY <1>1, <2>2, Unmoved
<1>4. PICK x : x = [ind |-> "CONNECTED", conidx |-> c]
  OBVIOUS
<1>5. x \in Ups
  BY <1>4 DEF Ups, Events
<1>6. Held(app)
  BY <1>1 DEF Rest
<1>7. CASE PeerConnects(c)
  <2>1. PICK y : y = Complete("ADV", "NO_ERROR")
    OBVIOUS
  <2>2. y \in Cmps /\ y \notin Refusals
    BY <2>1 DEF Complete, Cmps, Refusals, Events, Statuses
  <2>3. /\ radio.act = "adv" /\ odd' = Since + 1 /\ fails' = fails /\ evts' = evts \o <<x, y>>
        /\ radio' = [act |-> "none", param |-> NoAdv, links |-> radio.links \cup {c}]
    BY <1>4, <1>7, <2>1 DEF PeerConnects
  <2>4. PICK q : q = radio'
    OBVIOUS
  <2>5. Track(q) = Resting /\ q.param = NoAdv
    BY <2>3, <2>4 DEF Track, Resting
  <2>6. Since = 0 => Lost(app, evts \o <<x, y>>, q, fails)
    BY <1>1, <1>2, <1>5, <1>6, <2>2, <2>3, <2>5, ConnectionCourse
  <2>7. odd' \in Nat /\ odd' # 0 /\ (odd' = 1 => Since = 0)
    BY <1>2, <2>3
  <2>8. odd' = 1 => Sound(t, app, evts, radio, fails)'
    BY <1>1, <2>3, <2>4, <2>6, <2>7 DEF Sound
  <2>q. QED BY <1>1, <1>3, <2>3, <2>4, <2>5, <2>7, <2>8 DEF BInv
<1>8. CASE ConnectEnds(c) /\ fails' = fails
  <2>1. PICK y : y = Complete("CONNECT", "NO_ERROR")
    OBVIOUS
  <2>2. y \in Cmps /\ y \notin Refusals
    BY <2>1 DEF Complete, Cmps, Refusals, Events, Statuses
  <2>3. /\ radio.act = "conn" /\ app.state # "STARTING_CONNECT" /\ odd' = Since + 1
        /\ evts' = evts \o <<x, y>>
        /\ radio' = [act |-> "none", param |-> NoAdv, links |-> radio.links \cup {c}]
    <3>1. fails + 1 # fails
      BY <1>1
    <3>q. QED BY <1>4, <1>8, <2>1, <3>1 DEF ConnectEnds
  <2>4. PICK q : q = radio'
    OBVIOUS
  <2>5. Track(q) = Resting /\ q.param = NoAdv
    BY <2>3, <2>4 DEF Track, Resting
  <2>6. Since = 0 => Lost(app, evts \o <<x, y>>, q, fails)
    BY <1>1, <1>2, <1>5, <1>6, <2>2, <2>3, <2>5, ConnectionCourse
  <2>7. odd' \in Nat /\ odd' # 0 /\ (odd' = 1 => Since = 0)
    BY <1>2, <2>3
  <2>8. odd' = 1 => Sound(t, app, evts, radio, fails)'
    BY <1>1, <1>8, <2>3, <2>4, <2>6, <2>7 DEF Sound
  <2>q. QED BY <1>1, <1>3, <1>8, <2>3, <2>4, <2>5, <2>7, <2>8 DEF BInv
<1>9. CASE ConnectEnds(c) /\ fails' # fails
  <2>1. PICK y : y = Complete("CONNECT", "FAILED")
    OBVIOUS
  <2>2. /\ radio.act = "conn" /\ app.state # "STARTING_CONNECT" /\ odd' = Since + 1
        /\ evts' = Append(evts, y) /\ fails' = fails + 1
        /\ radio' = [radio EXCEPT !.act = "none"]
    BY <1>9, <2>1 DEF ConnectEnds
  <2>3. PICK q : q = radio'
    OBVIOUS
  <2>4. q.act = "none" /\ q.param = NoAdv
    BY <1>1, <2>2, <2>3
  <2>5. Track(q) = Resting
    BY <2>4 DEF Track, Resting
  <2>6. PICK k : k = fails'
    OBVIOUS
  <2>7. k # 0 /\ k \in Nat
    BY <1>1, <2>2, <2>6
  <2>8. Since = 0 => Refused(app, Append(evts, Complete("CONNECT", "FAILED")), q, k)
    BY <1>1, <1>2, <1>6, <2>2, <2>5, <2>7, GivenUpCourse
  <2>9. odd' \in Nat /\ odd' # 0 /\ (odd' = 1 => Since = 0)
    BY <1>2, <2>2
  <2>10. odd' = 1 => Sound(t, app, evts, radio, fails)'
    BY <1>1, <2>1, <2>2, <2>3, <2>6, <2>8, <2>9 DEF Sound
  <2>q. QED BY <1>3, <2>3, <2>4, <2>6, <2>7, <2>9, <2>10 DEF BInv
<1>10. CASE PeerLeaves(c)
  <2>1. PICK y : y = [ind |-> "DISCONNECTED", conidx |-> c]
    OBVIOUS
  <2>2. y \in Downs /\ y \in Events
    BY <2>1 DEF Downs, Events
  <2>3. /\ Quiet /\ odd' = Since /\ fails' = fails /\ evts' = Append(evts, y)
        /\ radio' = [radio EXCEPT !.links = @ \ {c}]
    BY <1>10, <2>1 DEF PeerLeaves
  <2>4. PICK q : q = radio'
    OBVIOUS
  <2>5. Track(q) = Track(radio) /\ q.act = radio.act /\ q.param = radio.param
    BY <1>1, <2>3, <2>4 DEF Track
  <2>6. /\ (After(t, app, evts, radio, fails) => After(t, app, Append(evts, y), q, fails))
        /\ (Exact(t, app, evts, radio, fails) => Exact(t, app, Append(evts, y), q, fails))
    BY <1>1, <2>2, <2>5, LinkCourse
  <2>7. PICK w : w = evts'
    OBVIOUS
  <2>8. Some(w, Downs)
    BY <1>1, <2>2, <2>3, <2>7, QueueAppend
  <2>9. Want(End(t).param, app', w, asked', fails')
    BY <2>8 DEF Want, Wanted
  <2>10. odd' <= 1 => odd <= 1
    BY <1>2, <2>3
  <2>11. /\ (Fit(End(t).param, app) => Fit(End(t).param, app)')
         /\ Want(End(t).param, app, evts, asked, fails)'
    BY <1>1, <2>7, <2>9, <2>10, Unmoved
  <2>12. /\ (After(t, app, evts, radio, fails) => After(t, app, evts, radio, fails)')
         /\ (Exact(t, app, evts, radio, fails) => Exact(t, app, evts, radio, fails)')
    <3>1. /\ (After(t, app, evts, radio, fails) => After(t, app', evts', radio', fails'))
          /\ (Exact(t, app, evts, radio, fails) => Exact(t, app', evts', radio', fails'))
      BY <1>1, <2>3, <2>4, <2>6
    <3>2. past' = past
      BY <1>1 DEF Unchanged
    <3>q. QED BY <3>1, <3>2, SamePast
  <2>13. odd' = 1 => Sound(t, app, evts, radio, fails)'
    BY <1>2, <2>3, <2>11, <2>12 DEF Sound
  <2>14. radio'.act # "adv" => radio'.param = NoAdv
    BY <1>1, <2>4, <2>5
  <2>15. odd' = 0 => (/\ Exact(t, app, evts, radio, fails) /\ Fit(End(t).param, app)
                      /\ Want(End(t).param, app, evts, asked, fails))'
    BY <1>2, <2>3, <2>11, <2>12
  <2>16. odd' \in Nat /\ fails' \in Nat
    BY <1>1, <1>2, <2>3
  <2>q. QED BY <1>3, <2>13, <2>14, <2>15, <2>16 DEF BInv
<1>q. QED BY <1>7, <1>8, <1>9, <1>10

\* A queue that only grows: what a request does to the application side.
Grown(e, f) ==
    /\ f.state = e.state /\ f.op = e.op /\ f.cmds = e.cmds /\ f.advInfo = e.advInfo
    /\ f.thread = e.thread /\ f.advParam = e.advParam /\ Connected(f) = Connected(e)
    /\ Grows(e.mail, f.mail, Answers)

\* Nothing is thrown off course by it.
LEMMA GrownFacts ==
    ASSUME NEW e \in AppSet, NEW f \in AppSet, Grown(e, f)
    PROVE  /\ Stay(e, f) /\ (Stopper(e) => Stopper(f)) /\ (\A p : Unconn(p, e) => Unconn(p, f))
           /\ (f.advSwitch = e.advSwitch => \A p : Fit(p, e) => Fit(p, f))
           /\ \A S : Some(e.mail, S) => Some(f.mail, S)
<1>1. /\ f.state = e.state /\ f.op = e.op /\ f.cmds = e.cmds /\ f.advInfo = e.advInfo
      /\ f.thread = e.thread /\ Connected(f) = Connected(e) /\ Grows(e.mail, f.mail, Answers)
  BY DEF Grown
<1>2. e.mail \in Seq(Mails) /\ f.mail \in Seq(Mails)
  BY DEF AppSet
<1>3. \A S : Some(e.mail, S) => Some(f.mail, S)
  BY <1>1, <1>2, QueueGrows
<1>4. Stopper(e) => Stopper(f)
  BY <1>1, <1>3 DEF Stopper
<1>q. QED BY <1>1, <1>3, <1>4 DEF Stay, Stray, Fit, Off, Unconn

\* Posting, and posting once more.
LEMMA PostGrows ==
    ASSUME NEW e \in AppSet, NEW m \in Mails, m \notin Answers
    PROVE  /\ Post(e, m) \in AppSet /\ Grown(e, Post(e, m)) /\ Post(e, m).mail = Append(e.mail, m)
           /\ Post(e, m).advSwitch = e.advSwitch
<1>1. e.mail \in Seq(Mails)
  BY DEF AppSet
<1>2. Append(e.mail, m) \in Seq(Mails) /\ Grows(e.mail, Append(e.mail, m), Answers)
  BY <1>1, QueueAppend
<1>3. PICK f : f = Post(e, m)
  OBVIOUS
<1>4. f \in AppSet
  BY <1>2, <1>3 DEF Post, AppSet
<1>5. /\ f.state = e.state /\ f.op = e.op /\ f.cmds = e.cmds /\ f.advInfo = e.advInfo
      /\ f.thread = e.thread /\ f.advParam = e.advParam /\ f.connect = e.connect
      /\ f.mail = Append(e.mail, m) /\ f.advSwitch = e.advSwitch
  BY <1>3 DEF Post, AppSet
<1>6. Connected(f) = Connected(e)
  BY <1>5 DEF Connected
<1>q. QED BY <1>2, <1>3, <1>4, <1>5, <1>6 DEF Grown

\* Two such steps are one.
LEMMA GrownTwice ==
    ASSUME NEW e \in AppSet, NEW f \in AppSet, NEW g \in AppSet, Grown(e, f), Grown(f, g)
    PROVE  Grown(e, g)
<1>1. e.mail \in Seq(Mails) /\ f.mail \in Seq(Mails) /\ g.mail \in Seq(Mails)
  BY DEF AppSet
<1>2. Grows(e.mail, g.mail, Answers)
  BY <1>1, GrowsAgain DEF Grown
<1>q. QED BY <1>2 DEF Grown

\* app_ble_disconnect_all: what is connected stays so until the stack says
\* otherwise.
LEMMA DisconnectAllGrows ==
    ASSUME NEW e, Good(e)
    PROVE  /\ app_ble_disconnect_all(e) \in AppSet /\ Grown(e, app_ble_disconnect_all(e))
           /\ Grows(e.mail, app_ble_disconnect_all(e).mail, Spoils)
           /\ app_ble_disconnect_all(e).advSwitch = e.advSwitch
<1>1. e \in AppSet /\ e.mail \in Seq(Mails) /\ e.connect \in Links
  BY DEF Good, AppSet
<1>2. PICK f : f = app_ble_disconnect_all(e)
  OBVIOUS
<1>3. f \in AppSet
  BY <1>2, DisconnectAllKeeps DEF Good
<1>4. PICK up : up = {c \in Conidx : e.connect[c] = "CONNECTED"}
  OBVIOUS
<1>5. PICK n : n = Cardinality(up)
  OBVIOUS
<1>6. PICK order : order = CHOOSE s \in [1 .. n -> up] : {s[i] : i \in DOMAIN s} = up
  OBVIOUS
<1>7. n \in Nat /\ order \in [1 .. n -> up] /\ up \in SUBSET Conidx
  BY <1>4, <1>5, <1>6, DisconnectOrder
<1>8. PICK new : new = [i \in DOMAIN order |-> Disconnect(order[i])]
  OBVIOUS
<1>9. PICK k : k = [c \in Conidx |-> IF c \in up THEN "DISCONNECTING" ELSE e.connect[c]]
  OBVIOUS
<1>10. f = [e EXCEPT !.connect = k, !.mail = e.mail \o new]
  BY <1>2, <1>4, <1>5, <1>6, <1>8, <1>9 DEF app_ble_disconnect_all
<1>11. /\ f.state = e.state /\ f.op = e.op /\ f.cmds = e.cmds /\ f.advInfo = e.advInfo
       /\ f.thread = e.thread /\ f.advParam = e.advParam /\ f.connect = k
       /\ f.mail = e.mail \o new /\ f.advSwitch = e.advSwitch
  BY <1>1, <1>10 DEF AppSet
<1>12. Connected(f) = Connected(e)
  <2>1. \A c \in Conidx : k[c] # "DISCONNECTED" <=> e.connect[c] # "DISCONNECTED"
    BY <1>1, <1>4, <1>9 DEF Links
  <2>q. QED BY <1>11, <2>1 DEF Connected
<1>13. DOMAIN new = 1 .. n /\ \A i \in 1 .. n : new[i] \in Mails /\ new[i] \notin Answers /\ new[i] \notin Spoils
  <2>1. DOMAIN order = 1 .. n /\ \A i \in 1 .. n : order[i] \in Conidx
    BY <1>7
  <2>2. \A c \in Conidx : Disconnect(c) \in Mails /\ Disconnect(c) \notin Answers /\ Disconnect(c) \notin Spoils
    BY DEF Mails, Disconnect, Answers, Spoils, Stops
  <2>3. DOMAIN new = 1 .. n /\ \A i \in 1 .. n : new[i] = Disconnect(order[i])
    BY <1>8, <2>1
  <2>q. QED BY <2>1, <2>2, <2>3
<1>14. new \in Seq(Mails) /\ Len(new) = n
  <2>1. new \in [1 .. n -> Mails]
    BY <1>8, <1>13
  <2>2. new \in Seq(Mails)
    BY <1>7, <2>1, SeqDef
  <2>q. QED BY <1>7, <1>13, <2>2
<1>15. PICK w : w = e.mail \o new
  OBVIOUS
<1>16. /\ Len(e.mail) \in Nat /\ Len(w) = Len(e.mail) + n
       /\ \A i \in 1 .. Len(e.mail) : w[i] = e.mail[i]
       /\ \A i \in Len(e.mail) + 1 .. Len(w) : i - Len(e.mail) \in 1 .. n /\ w[i] = new[i - Len(e.mail)]
  <2>1. Len(e.mail) \in Nat
    BY <1>1
  <2>2. /\ Len(w) = Len(e.mail) + n
        /\ \A i \in 1 .. Len(e.mail) + n :
              w[i] = IF i <= Len(e.mail) THEN e.mail[i] ELSE new[i - Len(e.mail)]
    BY <1>1, <1>14, <1>15, ConcatProperties
  <2>3. \A i \in 1 .. Len(e.mail) : i \in 1 .. Len(e.mail) + n /\ i <= Len(e.mail)
    BY <1>7, <2>1
  <2>4. \A i \in Len(e.mail) + 1 .. Len(e.mail) + n :
            i \in 1 .. Len(e.mail) + n /\ ~(i <= Len(e.mail)) /\ i - Len(e.mail) \in 1 .. n
    BY <1>7, <2>1
  <2>q. QED BY <2>1, <2>2, <2>3, <2>4
<1>17. Len(e.mail) <= Len(w)
  BY <1>7, <1>16
<1>18. Grows(e.mail, w, Answers) /\ Grows(e.mail, w, Spoils)
  BY <1>13, <1>16, <1>17 DEF Grows
<1>q. QED BY <1>2, <1>3, <1>11, <1>12, <1>15, <1>18 DEF Grown

\* A step that takes nothing off a queue, and its new count.
Counts(t) ==
    /\ odd' \in Nat
    /\ (odd' = 0 => /\ Exact(t, app, evts, radio, fails) /\ Fit(End(t).param, app))
    /\ (odd' = 1 => Sound(t, app, evts, radio, fails))

\* Nothing is thrown off course by it if it sees to what must stop, to the
\* parameters and to what the last request asked for.
LEMMA GrownStep ==
    ASSUME IInv, NEW t, BInv(t), Counts(t), app' \in AppSet, Grown(app, app'),
           radio' = radio, evts' = evts, fails' = fails, past' = past,
           (Held(app) /\ Renews(app))', \A p : Fit(p, app) => Fit(p, app)',
           odd' = 0 => Want(End(t).param, app, evts, asked, fails)'
    PROVE  \E u : BInv(u)'
<1>1. /\ app \in AppSet /\ fails \in Nat /\ (radio.act # "adv" => radio.param = NoAdv)
  BY DEF IInv, Good, BInv
<1>3. PICK f : f = app'
  OBVIOUS
<1>4. f \in AppSet /\ Stay(app, f)
  BY <1>1, <1>3, GrownFacts
<1>5. /\ (After(t, app, evts, radio, fails) => After(t, f, evts, radio, fails))
      /\ (Exact(t, app, evts, radio, fails) => Exact(t, f, evts, radio, fails))
      /\ (Lost(app, evts, radio, fails) => Lost(f, evts, radio, fails))
      /\ (Refused(app, evts, radio, fails) => Refused(f, evts, radio, fails))
  BY <1>1, <1>4, StayCourse
<1>6. /\ (After(t, app, evts, radio, fails) => After(t, app, evts, radio, fails)')
      /\ (Exact(t, app, evts, radio, fails) => Exact(t, app, evts, radio, fails)')
  BY <1>3, <1>5, SamePast
<1>7. odd' = 0 => (/\ Exact(t, app, evts, radio, fails) /\ Fit(End(t).param, app)
                   /\ Want(End(t).param, app, evts, asked, fails))'
  BY <1>6 DEF Counts
<1>8. odd' = 1 => Sound(t, app, evts, radio, fails)'
  <2>1. Lost(app, evts, radio, fails) => Lost(app, evts, radio, fails)'
    BY <1>3, <1>5
  <2>2. Refused(app, evts, radio, fails) => Refused(app, evts, radio, fails)'
    BY <1>3, <1>5
  <2>q. QED BY <1>6, <2>1, <2>2 DEF Counts, Sound
<1>q. QED BY <1>1, <1>7, <1>8 DEF BInv, Counts

\* A request, which takes the count up.
LEMMA RequestStep ==
    ASSUME IInv, NEW t, BInv(t), Request, app' \in AppSet, Grown(app, app'),
           (Held(app) /\ Renews(app))', \A p : Fit(p, app) => Fit(p, app)',
           \A p : Want(p, app, evts, asked, fails)'
    PROVE  \E u : BInv(u)'
<1>1. /\ odd' = Since /\ radio' = radio /\ evts' = evts /\ fails' = fails /\ past' = past
  BY DEF Request, Change
<1>2. /\ Since \in Nat /\ (Since = 1 => odd = 1)
      /\ (Since = 0 => /\ Exact(t, app, evts, radio, fails) /\ Fit(End(t).param, app))
  BY SinceCourse
<1>3. Counts(t)
  BY <1>1, <1>2 DEF Counts, BInv
<1>q. QED BY <1>1, <1>3, GrownStep

\* A request that ends with one to advertise, whatever role and data are.
LEMMA CallStep ==
    ASSUME IInv, NEW t, BInv(t), Request, OtherThreads = FALSE, app' \in AppSet, Grown(app, app'),
           Some(app'.mail, StartCalls), Some(app'.mail, Stops), LastCall(app'.mail, asked')
    PROVE  \E u : BInv(u)'
<1>1. app'.thread = "ready"
  BY DEF Request, Change, Grown
<1>2. Stopper(app')
  BY DEF Stopper
<1>3. (Held(app) /\ Renews(app))'
  BY <1>1 DEF Held, Renews
<1>4. \A p : Fit(p, app)'
  BY <1>2 DEF Fit, Off, Unconn
<1>5. \A p : Want(p, app, evts, asked, fails)'
  BY DEF Want, Wanted
<1>q. QED BY <1>3, <1>4, <1>5, RequestStep

\* One that does not.
LEMMA OtherStep ==
    ASSUME IInv, NEW t, BInv(t), Request, fill' = fill, slave' = slave, asked' = "other",
           app' \in AppSet, Grown(app, app'), Rest(app'), \A p : Fit(p, app) => Fit(p, app')
    PROVE  \E u : BInv(u)'
<1>1. Unchanged /\ odd' = Since
  BY DEF Request, Change, Unchanged
<1>2. odd' <= 1 => odd <= 1
  BY <1>1, SinceCourse
<1>3. (Held(app) /\ Renews(app))'
  BY <1>1, <1>2, Unmoved
<1>4. \A p : Fit(p, app) => Fit(p, app)'
  BY <1>1, <1>2, Unmoved
<1>5. asked' \notin Intervals
  BY BleAssumption DEF Intervals
<1>6. \A p : Want(p, app, evts, asked, fails)'
  BY <1>5 DEF Want
<1>q. QED BY <1>3, <1>4, <1>6, RequestStep

\* What keeps the switches keeps the rest.
LEMMA GrownRest ==
    ASSUME NEW e \in AppSet, NEW f \in AppSet, Grown(e, f), f.advSwitch = e.advSwitch, Rest(e)
    PROVE  Rest(f) /\ \A p : Fit(p, e) => Fit(p, f)
<1>1. ble_adv_allowed(f) <=> ble_adv_allowed(e)
  BY DEF ble_adv_allowed, Forbidden
<1>2. (\A p : Fit(p, e) => Fit(p, f)) /\ \A S : Some(e.mail, S) => Some(f.mail, S)
  BY GrownFacts
<1>q. QED BY <1>1, <1>2 DEF Rest, Held, Renews, Grown

\* app_ble_stop_activities.
LEMMA StopActivitiesGrows ==
    ASSUME NEW e \in AppSet
    PROVE  /\ app_ble_stop_activities(e) \in AppSet /\ Grown(e, app_ble_stop_activities(e))
           /\ app_ble_stop_activities(e).advSwitch = e.advSwitch
           /\ (e.state \in AdvStates => Some(app_ble_stop_activities(e).mail, Stops))
<1>1. PICK m : m = Function("ble_stop_all_activities")
  OBVIOUS
<1>2. m \in Mails
  BY <1>1 DEF Mails, Functions
<1>3. m \notin Answers /\ m \in Stops
  BY <1>1, <1>2 DEF Answers, Stops, Function
<1>4. CASE e.state = "STATE_IDLE"
  <2>1. app_ble_stop_activities(e) = e /\ e.state \notin AdvStates
    BY <1>4 DEF app_ble_stop_activities, AdvStates
  <2>2. Grows(e.mail, e.mail, Answers)
    BY GrowsAgain DEF AppSet
  <2>q. QED BY <2>1, <2>2 DEF Grown
<1>5. CASE e.state # "STATE_IDLE"
  <2>1. app_ble_stop_activities(e) = Post(e, m)
    BY <1>1, <1>5 DEF app_ble_stop_activities
  <2>2. /\ Post(e, m) \in AppSet /\ Grown(e, Post(e, m)) /\ Post(e, m).mail = Append(e.mail, m)
        /\ Post(e, m).advSwitch = e.advSwitch
    BY <1>2, <1>3, PostGrows
  <2>3. e.mail \in Seq(Mails)
    BY DEF AppSet
  <2>4. Some(Append(e.mail, m), Stops)
    BY <1>2, <1>3, <2>3, QueueAppend
  <2>q. QED BY <2>1, <2>2, <2>4
<1>q. QED BY <1>4, <1>5

\* app_ble_force_switch_adv switches off.
LEMMA SwitchOffGrows ==
    ASSUME NEW e, Good(e), Rest(e), e.thread = "ready", NEW u \in SwitchUsers
    PROVE  /\ app_ble_force_switch_adv(e, u, FALSE) \in AppSet
           /\ Grown(e, app_ble_force_switch_adv(e, u, FALSE))
           /\ Rest(app_ble_force_switch_adv(e, u, FALSE))
           /\ \A p : Fit(p, e) => Fit(p, app_ble_force_switch_adv(e, u, FALSE))
<1>1. e \in AppSet
  BY DEF Good
<1>2. PICK f : f = app_ble_force_switch_adv(e, u, FALSE)
  OBVIOUS
<1>3. CASE u \in e.advSwitch
  <2>1. f = e
    BY <1>2, <1>3 DEF app_ble_force_switch_adv
  <2>2. Grows(e.mail, e.mail, Answers)
    BY <1>1, GrowsAgain DEF AppSet
  <2>3. Grown(e, e)
    BY <2>2 DEF Grown
  <2>q. QED BY <1>1, <1>2, <2>1, <2>3
<1>4. CASE u \notin e.advSwitch
  <2>1. PICK g : g = [e EXCEPT !.advSwitch = @ \cup {u}]
    OBVIOUS
  <2>2. /\ g \in AppSet /\ Good(g) /\ g.advSwitch # {} /\ g.thread = "ready" /\ g.state = e.state
    BY <1>1, <2>1 DEF Good, Configured, AppSet
  <2>3. Grown(e, g)
    <3>1. /\ g.state = e.state /\ g.op = e.op /\ g.cmds = e.cmds /\ g.advInfo = e.advInfo
          /\ g.thread = e.thread /\ g.advParam = e.advParam /\ g.connect = e.connect
          /\ g.mail = e.mail
      BY <1>1, <2>1 DEF AppSet
    <3>2. Grows(e.mail, e.mail, Answers)
      BY <1>1, GrowsAgain DEF AppSet
    <3>q. QED BY <3>1, <3>2 DEF Grown, Connected
  <2>4. PICK h : h = app_ble_stop_activities(g)
    OBVIOUS
  <2>5. /\ h \in AppSet /\ Grown(g, h) /\ h.advSwitch = g.advSwitch
        /\ (g.state \in AdvStates => Some(h.mail, Stops))
    BY <2>2, <2>4, StopActivitiesGrows
  <2>6. Good(h)
    BY <2>2, <2>4, StopActivitiesKeeps
  <2>7. f \in {h, app_ble_disconnect_all(h)}
    BY <1>2, <1>4, <2>1, <2>4 DEF app_ble_force_switch_adv
  <2>8. /\ f \in AppSet /\ Grown(h, f) /\ f.advSwitch = h.advSwitch
    <3>1. Grows(h.mail, h.mail, Answers)
      BY <2>5, GrowsAgain DEF AppSet
    <3>2. Grown(h, h)
      BY <3>1 DEF Grown
    <3>q. QED BY <2>5, <2>6, <2>7, <3>2, DisconnectAllGrows
  <2>9. Grown(e, f)
    <3>1. Grown(e, h)
      BY <1>1, <2>2, <2>3, <2>5, GrownTwice
    <3>q. QED BY <1>1, <2>5, <2>8, <3>1, GrownTwice
  <2>10. ~ble_adv_allowed(f)
    BY <2>2, <2>5, <2>8 DEF ble_adv_allowed, Forbidden
  <2>11. f.state \in AdvStates => Stopper(f)
    <3>1. f.state = g.state
      BY <2>5, <2>8 DEF Grown
    <3>2. Some(h.mail, Stops) => Some(f.mail, Stops)
      BY <2>5, <2>8, GrownFacts
    <3>q. QED BY <2>5, <3>1, <3>2 DEF Stopper
  <2>12. f.thread = "ready"
    BY <2>2, <2>5, <2>8 DEF Grown
  <2>13. \A p : Fit(p, f)
    BY <2>11 DEF Fit, Off, Unconn
  <2>q. QED BY <1>2, <2>8, <2>9, <2>10, <2>12, <2>13 DEF Rest, Held, Renews
<1>q. QED BY <1>3, <1>4

\* What an unchanged application side needs.
LEMMA AsideStep ==
    ASSUME IInv, NEW t, BInv(t), Change, OtherThreads = FALSE, app' = app, odd' \in {odd, odd + 2},
           Renews(app)', \A p : Fit(p, app) => Fit(p, app)',
           odd' = 0 => Want(End(t).param, app, evts, asked, fails)'
    PROVE  \E u : BInv(u)'
<1>1. /\ radio' = radio /\ evts' = evts /\ fails' = fails /\ past' = past
      /\ app.thread = "ready" /\ app \in AppSet /\ odd \in Nat
  BY DEF Change, IInv, Good, BInv
<1>2. app' \in AppSet /\ Grown(app, app')
  <2>1. Grows(app.mail, app.mail, Answers)
    BY <1>1, GrowsAgain DEF AppSet
  <2>q. QED BY <1>1, <2>1 DEF Grown
<1>3. Held(app)'
  BY <1>1 DEF Held
<1>4. odd' \in Nat /\ (odd' = 0 => odd = 0) /\ (odd' = 1 => odd = 1)
  BY <1>1
<1>5. Counts(t)
  BY <1>4 DEF Counts, BInv
<1>q. QED BY <1>1, <1>2, <1>3, <1>5, GrownStep

\* The TWS link comes up: its handler is still to stop the advertising.
LEMMA TwsConnectsStep ==
    ASSUME IInv, NEW t, BInv(t), NEW r \in BOOLEAN, TwsConnects(r), OtherThreads = FALSE
    PROVE  \E u : BInv(u)'
<1>1. /\ ~slave /\ due' = TRUE /\ Change
      /\ app' = app /\ fill' = fill /\ barred' = barred /\ asked' = asked /\ odd' = odd
      /\ evts' = evts /\ fails' = fails
  BY DEF TwsConnects, Change
<1>2. Connected(app)' = Connected(app) /\ (ble_adv_allowed(app)' => ble_adv_allowed(app))
  BY <1>1 DEF Connected, ble_adv_allowed, Forbidden
<1>3. Renews(app)'
  BY <1>1, <1>2 DEF Renews, BInv
<1>4. \A p : Fit(p, app) => Fit(p, app)'
  BY <1>1, <1>2 DEF Fit, Off, Unconn
<1>5. \A i : ble_adv_config_param(app, i)' = ble_adv_config_param(app, i)
  BY <1>1, <1>2 DEF ble_adv_config_param
<1>6. odd' = 0 => Want(End(t).param, app, evts, asked, fails)'
  <2>1. odd' = 0 => Want(End(t).param, app, evts, asked, fails)
    BY <1>1 DEF BInv
  <2>2. Carried(End(t).param, app, asked) => Carried(End(t).param, app, asked)'
    BY <1>1, <1>5 DEF Carried
  <2>q. QED BY <1>1, <1>2, <2>1, <2>2 DEF Want, Wanted
<1>q. QED BY <1>1, <1>3, <1>4, <1>6, AsideStep

\* Advertising is barred: nothing need be renewed or carried out any more.
LEMMA BarStep ==
    ASSUME IInv, NEW t, BInv(t), Bar, OtherThreads = FALSE
    PROVE  \E u : BInv(u)'
<1>1. /\ Change /\ barred' = TRUE
      /\ app' = app /\ slave' = slave /\ due' = due /\ odd' = odd
  BY DEF Bar
<1>2. Connected(app)' = Connected(app) /\ ~ble_adv_allowed(app)'
  BY <1>1 DEF Connected, ble_adv_allowed
<1>3. Renews(app)' /\ Want(End(t).param, app, evts, asked, fails)'
  BY <1>2 DEF Renews, Want
<1>4. \A p : Fit(p, app) => Fit(p, app)'
  BY <1>1, <1>2 DEF Fit, Off, Unconn
<1>q. QED BY <1>1, <1>3, <1>4, AsideStep

\* A reason not to advertise goes away.
LEMMA LiftStep ==
    ASSUME IInv, NEW t, BInv(t), TwsDisconnects \/ Unbar, OtherThreads = FALSE
    PROVE  \E u : BInv(u)'
<1>1. /\ Change /\ asked' = "other" /\ app' = app /\ due' = due
      /\ odd' = (IF app.op = "START_ADV" THEN odd + 2 ELSE odd)
      /\ slave' \in {slave, FALSE}
  BY DEF TwsDisconnects, Unbar, Lift
<1>2. odd \in Nat /\ app.thread = "ready"
  BY <1>1 DEF BInv, Change
<1>3. app.op = "START_ADV" => ~(odd' <= 1)
  BY <1>1, <1>2
<1>4. Renews(app)'
  BY <1>1, <1>2, <1>3 DEF Renews
<1>5. Connected(app)' = Connected(app)
  BY <1>1 DEF Connected
<1>6. \A p : Fit(p, app) => Fit(p, app)'
  BY <1>1, <1>5 DEF Fit, Off, Unconn
<1>7. asked' \notin Intervals
  BY <1>1, BleAssumption DEF Intervals
<1>8. Want(End(t).param, app, evts, asked, fails)'
  BY <1>7 DEF Want
<1>q. QED BY <1>1, <1>4, <1>6, <1>8, AsideStep

\* Requests and peers.
LEMMA OutsideStep ==
    ASSUME IInv, NEW t, BInv(t), Outside, OtherThreads = FALSE
    PROVE  \E u : BInv(u)'
<1>1. Good(app) /\ app \in AppSet /\ Rest(app) /\ Slow \in Intervals /\ app' \in AppSet
  <2>1. IInv'
    BY OutsideKeeps
  <2>q. QED BY <2>1 DEF IInv, Good, BInv, Rest, Intervals
<1>2. ASSUME NEW e \in AppSet, NEW i \in Intervals
      PROVE  /\ Post(e, StartAdvCall(i)) \in AppSet /\ Grown(e, Post(e, StartAdvCall(i)))
             /\ Some(Post(e, StartAdvCall(i)).mail, StartCalls)
             /\ Some(Post(e, StartAdvCall(i)).mail, Stops)
             /\ LastCall(Post(e, StartAdvCall(i)).mail, i)
  <2>1. e.mail \in Seq(Mails)
    BY DEF AppSet
  <2>2. PICK w : w = Append(e.mail, StartAdvCall(i))
    OBVIOUS
  <2>3. /\ Some(w, StartCalls) /\ Some(w, Stops) /\ LastCall(w, i)
        /\ StartAdvCall(i) \in Mails /\ StartAdvCall(i) \notin Answers
    BY <2>1, <2>2, CallPosted
  <2>4. /\ Post(e, StartAdvCall(i)) \in AppSet /\ Grown(e, Post(e, StartAdvCall(i)))
        /\ Post(e, StartAdvCall(i)).mail = w
    BY <2>2, <2>3, PostGrows
  <2>q. QED BY <2>3, <2>4
<1>3. ASSUME NEW i \in Intervals, Request, app' = Post(app, StartAdvCall(i)), asked' = i
      PROVE  \E u : BInv(u)'
  BY <1>1, <1>2, <1>3, CallStep
<1>4. CASE \E i \in Intervals : StartConnectableAdv(i)
  BY <1>3, <1>4 DEF StartConnectableAdv
<1>5. CASE \E d \in Fills : FillChanges(d)
  BY <1>1, <1>3, <1>5 DEF FillChanges
<1>6. ASSUME NEW n \in {"ble_start_scan", "ble_start_connect"}, Request, app' = Post(app, Function(n)),
             asked' = "other", fill' = fill, slave' = slave
      PROVE  \E u : BInv(u)'
  <2>1. Function(n) \in Mails
    BY DEF Mails, Functions
  <2>2. Function(n) \notin Answers
    BY DEF Answers, Function
  <2>3. PICK f : f = Post(app, Function(n))
    OBVIOUS
  <2>4. f \in AppSet /\ Grown(app, f) /\ f.advSwitch = app.advSwitch
    BY <1>1, <2>1, <2>2, <2>3, PostGrows
  <2>5. Rest(f) /\ \A p : Fit(p, app) => Fit(p, f)
    BY <1>1, <2>4, GrownRest
  <2>q. QED BY <1>6, <2>3, <2>4, <2>5, OtherStep
<1>7. CASE StartScan
  BY <1>6, <1>7 DEF StartScan
<1>8. CASE StartConnect
  BY <1>6, <1>8 DEF StartConnect
<1>9. CASE StopActivities
  <2>1. PICK f : f = app_ble_stop_activities(app)
    OBVIOUS
  <2>2. f \in AppSet /\ Grown(app, f) /\ f.advSwitch = app.advSwitch
    BY <1>1, <2>1, StopActivitiesGrows
  <2>3. Rest(f) /\ \A p : Fit(p, app) => Fit(p, f)
    BY <1>1, <2>2, GrownRest
  <2>4. app' = f /\ Request /\ asked' = "other" /\ fill' = fill /\ slave' = slave
    BY <1>9, <2>1 DEF StopActivities
  <2>q. QED BY <2>2, <2>3, <2>4, OtherStep
<1>10. ASSUME NEW s \in SwitchUsers
       PROVE  LET f == app_ble_force_switch_adv(app, s, TRUE)
              IN  /\ f \in AppSet /\ Good(f) /\ Grown(app, f) /\ Some(f.mail, StartCalls)
                  /\ Some(f.mail, Stops) /\ LastCall(f.mail, Slow)
  <2>1. PICK g : g = [app EXCEPT !.advSwitch = @ \ {s}]
    OBVIOUS
  <2>2. g \in AppSet
    BY <1>1, <2>1 DEF AppSet
  <2>3. Grown(app, g)
    <3>1. /\ g.state = app.state /\ g.op = app.op /\ g.cmds = app.cmds /\ g.advInfo = app.advInfo
          /\ g.thread = app.thread /\ g.advParam = app.advParam /\ g.connect = app.connect
          /\ g.mail = app.mail
      BY <1>1, <2>1 DEF AppSet
    <3>2. Grows(app.mail, app.mail, Answers)
      BY <1>1, GrowsAgain DEF AppSet
    <3>q. QED BY <3>1, <3>2 DEF Grown, Connected
  <2>4. PICK f : f = app_ble_force_switch_adv(app, s, TRUE)
    OBVIOUS
  <2>5. f = Post(g, StartAdvCall(Slow))
    BY <2>1, <2>4 DEF app_ble_force_switch_adv
  <2>6. /\ f \in AppSet /\ Grown(g, f) /\ Some(f.mail, StartCalls)
        /\ Some(f.mail, Stops) /\ LastCall(f.mail, Slow)
    BY <1>1, <1>2, <2>2, <2>5
  <2>7. Good(f)
    BY <1>1, <2>4, ForceSwitchKeeps
  <2>8. Grown(app, f)
    BY <1>1, <2>2, <2>3, <2>6, GrownTwice
  <2>q. QED BY <2>4, <2>6, <2>7, <2>8
<1>11. ASSUME NEW s \in SwitchUsers, NEW b \in BOOLEAN, ForceSwitch(s, b)
       PROVE  \E u : BInv(u)'
  <2>1. CASE b = TRUE
    <3>1. app' = app_ble_force_switch_adv(app, s, TRUE) /\ asked' = Slow /\ Request
      BY <1>11, <2>1 DEF ForceSwitch
    <3>q. QED BY <1>10, <3>1, CallStep
  <2>2. CASE b = FALSE
    <3>1. /\ app' = app_ble_force_switch_adv(app, s, FALSE) /\ asked' = "other" /\ Request
          /\ fill' = fill /\ slave' = slave
      BY <1>11, <2>2 DEF ForceSwitch
    <3>2. app.thread = "ready"
      BY <3>1 DEF Request, Change
    <3>3. Grown(app, app') /\ Rest(app') /\ app' \in AppSet /\ \A p : Fit(p, app) => Fit(p, app')
      BY <1>1, <3>1, <3>2, SwitchOffGrows
    <3>q. QED BY <3>1, <3>3, OtherStep
  <2>q. QED BY <2>1, <2>2
<1>12. ASSUME NEW r \in BOOLEAN, NEW b \in BOOLEAN, RoleChanges(r, b)
       PROVE  \E u : BInv(u)'
  <2>1. PICK e : e = IF b THEN app_ble_force_switch_adv(app, RS, TRUE) ELSE Post(app, StartAdvCall(Slow))
    OBVIOUS
  <2>2. app' \in {e, app_ble_disconnect_all(e)} /\ asked' = Slow /\ Request
    BY <1>12, <2>1 DEF RoleChanges
  <2>3. /\ Good(e) /\ e \in AppSet /\ Grown(app, e) /\ Some(e.mail, StartCalls)
        /\ Some(e.mail, Stops) /\ LastCall(e.mail, Slow)
    <3>1. CASE b = TRUE
      <4>1. RS \in SwitchUsers
        BY BleAssumption
      <4>q. QED BY <1>10, <2>1, <3>1, <4>1
    <3>2. CASE b = FALSE
      <4>1. e = Post(app, StartAdvCall(Slow)) /\ StartAdvCall(Slow) \in Mails
        BY <1>1, <2>1, <3>2 DEF Mails
      <4>q. QED BY <1>1, <1>2, <4>1, PostKeeps
    <3>q. QED BY <3>1, <3>2
  <2>4. CASE app' = e
    BY <2>2, <2>3, <2>4, CallStep
  <2>5. CASE app' = app_ble_disconnect_all(e)
    <3>1. PICK f : f = app_ble_disconnect_all(e)
      OBVIOUS
    <3>2. f \in AppSet /\ Grown(e, f) /\ Grows(e.mail, f.mail, Spoils)
      BY <2>3, <3>1, DisconnectAllGrows
    <3>3. Grown(app, f)
      BY <1>1, <2>3, <3>2, GrownTwice
    <3>4. Some(f.mail, StartCalls) /\ Some(f.mail, Stops)
      BY <2>3, <3>2, GrownFacts
    <3>5. LastCall(f.mail, Slow)
      <4>1. e.mail \in Seq(Mails) /\ f.mail \in Seq(Mails)
        BY <2>3, <3>2 DEF AppSet
      <4>q. QED BY <2>3, <3>2, <4>1, LastCallGrows
    <3>q. QED BY <2>2, <2>5, <3>1, <3>2, <3>3, <3>4, <3>5, CallStep
  <2>q. QED BY <2>2, <2>4, <2>5
<1>q. QED BY <1>4, <1>5, <1>7, <1>8, <1>9, <1>11, <1>12, PeerStep, TwsConnectsStep, BarStep,
             LiftStep DEF Outside

\* The handler of a new TWS link on a slave cancels: what the state machine
\* has not ended itself is cut.
LEMMA CancelCourse ==
    ASSUME IInv, NEW t, Exact(t, app, evts, radio, fails), slave, TwsConnected
    PROVE  \E u : After(u, app, evts, radio, fails)' /\ Fit(End(u).param, app)'
<1>1. PICK c : c = Command("CANCEL")
  OBVIOUS
<1>2. /\ app \in AppSet /\ radio' = radio /\ evts' = evts /\ fails' = fails
      /\ app' = [app EXCEPT !.ke = "READY", !.cmds = Append(app.cmds, c)]
  BY <1>1 DEF IInv, Good, TwsConnected, app_tws_if_tws_connected_handler, appm_stop_advertising,
     Send, AppSet
<1>3. /\ c \in Commands /\ c \notin Starts /\ c.cmd = "CANCEL"
      /\ app.cmds \in Seq(Commands) /\ Len(app.cmds) \in Nat
  BY <1>1, <1>2 DEF Commands, Command, Starts, AppSet
<1>4. PICK s : s = app.cmds
  OBVIOUS
<1>5. After(t, app, evts, radio, fails) /\ Course(t, app, evts, radio) /\ Run(t, radio, s) /\ ~past
  BY <1>4 DEF Exact, After, Course
<1>6. PICK u : /\ Run(u, radio, Append(s, c))
               /\ End(u) = Effect(End(t), c)
               /\ \A i \in 1 .. Len(s) + 1 : u[i] = t[i]
  <2>1. s \in Seq(Commands) /\ c \in Commands /\ Run(t, radio, s)
    BY <1>3, <1>4, <1>5
  <2>2. c \in Starts => End(t).act = "none"
    BY <1>3
  <2>3. \E u : /\ Run(u, radio, Append(s, c))
               /\ End(u) = Effect(End(t), c)
               /\ u[Len(s) + 1] = End(t) /\ u[Len(s) + 2] = End(u)
               /\ \A i \in 1 .. Len(s) + 1 : u[i] = t[i]
               /\ 1 \in 1 .. Len(s) + 1
    BY <2>1, <2>2, RunPush
  <2>q. QED BY <2>3
<1>7. End(u) = Resting
  BY <1>3, <1>6 DEF Effect
<1>8. PICK f : f = app'
  OBVIOUS
<1>9. /\ f.state = app.state /\ f.op = app.op /\ f.mail = app.mail /\ f.advInfo = app.advInfo
      /\ f.cmds = Append(s, c)
  BY <1>2, <1>4, <1>8 DEF AppSet
<1>10. past' = (app.state \notin Cancelled)
  BY <1>5 DEF TwsConnected
<1>11. /\ (None(evts, Ups) /\ None(evts, Refusals) /\ None(app.mail, Failures))'
       /\ Run(u, radio, app.cmds)'
  BY <1>2, <1>5, <1>6, <1>8, <1>9 DEF Course
<1>12. ASSUME app.state \notin Cancelled PROVE After(u, app, evts, radio, fails)'
  <2>1. Cut(End(u))'
    BY <1>7, <1>10, <1>12 DEF Cut
  <2>2. Course(u, app, evts, radio)'
    BY <1>11, <2>1 DEF Course
  <2>q. QED BY <2>1, <2>2 DEF After
<1>13. ASSUME app.state \in Cancelled PROVE After(u, app, evts, radio, fails)'
  <2>1. app.state \notin AdvStates /\ Goal(app.state) = "none" /\ End(u).act = "none"
    BY <1>7, <1>13 DEF Cancelled, AdvStates, Goal, Resting
  <2>2. Course(u, app, evts, radio)'
    BY <1>8, <1>9, <1>11, <2>1 DEF Course
  <2>3. ~Cut(End(t))
    BY <1>5 DEF Cut
  <2>4. ~Settled(app.state) \/ (fails = 0 /\ Stray(app)) => Pending(t, app, evts)
    BY <1>5, <2>3 DEF After
  <2>5. Stray(f) <=> Stray(app)
    BY <1>9 DEF Stray
  <2>6. \A i \in 1 .. Len(s) : i \in 1 .. Len(f.cmds) /\ f.cmds[i] = s[i] /\ u[i] = t[i]
    <3>1. \A i \in 1 .. Len(s) : i \in 1 .. Len(s) + 1
      BY <1>3, <1>4
    <3>2. Len(f.cmds) = Len(s) + 1 /\ \A i \in 1 .. Len(s) : f.cmds[i] = s[i]
      BY <1>3, <1>4, <1>9, AppendOf
    <3>q. QED BY <1>6, <3>1, <3>2
  <2>7. Pending(t, app, evts) => Pending(u, f, evts)
    BY <1>4, <1>9, <2>6 DEF Pending
  <2>8. ~Settled(f.state) \/ (fails = 0 /\ Stray(f)) => Pending(u, f, evts)
    BY <1>9, <2>4, <2>5, <2>7
  <2>q. QED BY <1>2, <1>8, <2>2, <2>8 DEF After
<1>14. Fit(End(u).param, app)'
  <2>1. End(u).param = NoAdv /\ End(u).param.advType = "ZERO"
    BY <1>7 DEF Resting, NoAdv
  <2>q. QED BY <2>1 DEF Fit, Off, Unconn
<1>q. QED BY <1>12, <1>13, <1>14

\* On another bud it does nothing.
LEMMA TwsConnectedStep ==
    ASSUME IInv, NEW t, BInv(t), TwsConnected
    PROVE  \E u : BInv(u)'
<1>1. /\ app \in AppSet /\ app.thread = "ready" /\ odd \in Nat /\ fails \in Nat
      /\ radio' = radio /\ evts' = evts /\ fails' = fails /\ fill' = fill /\ slave' = slave
      /\ barred' = barred /\ asked' = asked
      /\ odd' = (IF slave THEN odd + 1 ELSE odd)
      /\ (radio.act # "adv" => radio.param = NoAdv)
  BY DEF TwsConnected, IInv, Good, BInv
<1>2. CASE slave
  <2>1. app'.thread = "ready"
    BY <1>1 DEF TwsConnected, app_tws_if_tws_connected_handler, appm_stop_advertising, Send, AppSet
  <2>2. (Held(app) /\ Renews(app))'
    BY <1>1, <1>2, <2>1 DEF Held, Renews, ble_adv_allowed, Forbidden
  <2>3. odd' \in Nat /\ odd' # 0 /\ (odd' = 1 => odd = 0) /\ fails' \in Nat
    BY <1>1, <1>2
  <2>4. radio'.act # "adv" => radio'.param = NoAdv
    BY <1>1
  <2>5. CASE odd = 0
    <3>1. Exact(t, app, evts, radio, fails)
      BY <2>5 DEF BInv
    <3>2. PICK u : After(u, app, evts, radio, fails)' /\ Fit(End(u).param, app)'
      BY <1>2, <3>1, CancelCourse
    <3>3. Sound(u, app, evts, radio, fails)'
      BY <3>2 DEF Sound
    <3>q. QED BY <2>2, <2>3, <2>4, <3>3 DEF BInv
  <2>6. CASE odd # 0
    BY <2>2, <2>3, <2>4, <2>6 DEF BInv
  <2>q. QED BY <2>5, <2>6
<1>3. CASE ~slave
  <2>1. app' = app /\ odd' = odd /\ past' = past
    BY <1>1, <1>3 DEF TwsConnected, app_tws_if_tws_connected_handler, IInv
  <2>2. Grown(app, app') /\ app' \in AppSet
    <3>1. Grows(app.mail, app.mail, Answers)
      BY <1>1, GrowsAgain DEF AppSet
    <3>q. QED BY <1>1, <2>1, <3>1 DEF Grown
  <2>3. Connected(app)' = Connected(app) /\ (ble_adv_allowed(app)' <=> ble_adv_allowed(app))
    BY <1>1, <2>1 DEF Connected, ble_adv_allowed, Forbidden
  <2>4. (Held(app) /\ Renews(app))'
    BY <1>1, <2>1, <2>3 DEF BInv, Held, Renews
  <2>5. \A p : Fit(p, app) => Fit(p, app)'
    BY <1>1, <1>3, <2>1, <2>3 DEF Fit, Off, Unconn
  <2>6. \A i : ble_adv_config_param(app, i)' = ble_adv_config_param(app, i)
    BY <1>1, <2>3 DEF ble_adv_config_param
  <2>7. odd' = 0 => Want(End(t).param, app, evts, asked, fails)'
    <3>1. odd' = 0 => Want(End(t).param, app, evts, asked, fails)
      BY <2>1 DEF BInv
    <3>2. Carried(End(t).param, app, asked) => Carried(End(t).param, app, asked)'
      BY <1>1, <2>1, <2>6 DEF Carried
    <3>q. QED BY <1>1, <2>1, <2>3, <3>1, <3>2 DEF Want, Wanted
  <2>8. Counts(t)
    BY <1>1, <2>1 DEF Counts, BInv
  <2>q. QED BY <1>1, <2>1, <2>2, <2>4, <2>5, <2>7, <2>8, GrownStep
<1>q. QED BY <1>2, <1>3

\* Nothing is on its way when the modes are set up.
LEMMA InitCourse ==
    ASSUME Init
    PROVE  \E t : BInv(t)
<1>1. PICK t : t = <<Resting>>
  OBVIOUS
<1>2. Resting \in Tracks
  BY DEF Resting, Tracks
<1>3. t \in Seq(Tracks) /\ Len(t) = 1 /\ t[1] = Resting /\ End(t) = Resting
  BY <1>1, <1>2 DEF End
<1>4. /\ app.state = "STATE_IDLE" /\ app.op = "OP_IDLE" /\ app.advInfo = NoAdv /\ app.advParam = NoAdv
      /\ app.thread = "ready" /\ app.mail = <<>> /\ app.cmds = <<>> /\ evts = <<>>
      /\ radio.act = "none" /\ radio.param = NoAdv /\ asked = "other" /\ odd = 0 /\ fails = 0 /\ ~past
  BY DEF Init
<1>5. Len(app.mail) = 0 /\ Len(app.cmds) = 0 /\ Len(evts) = 0 /\ 1 .. 0 = {}
  BY <1>4
<1>6. Track(radio) = Resting
  BY <1>4 DEF Track, Resting
<1>7. Run(t, radio, app.cmds)
  BY <1>3, <1>5, <1>6 DEF Run
<1>8. app.state \notin AdvStates /\ Goal(app.state) = "none" /\ Settled(app.state) /\ ~Stray(app)
  BY <1>4 DEF AdvStates, Goal, Settled, Stray
<1>9. Course(t, app, evts, radio)
  <2>1. End(t).act = "none"
    BY <1>3 DEF Resting
  <2>q. QED BY <1>5, <1>7, <1>8, <2>1 DEF Course, None
<1>10. After(t, app, evts, radio, fails)
  BY <1>8, <1>9 DEF After
<1>11. app \in AppSet /\ evts \in Seq(Events)
  BY InitHolds DEF IInv, Good
<1>12. Exact(t, app, evts, radio, fails)
  BY <1>4, <1>10, <1>11, QuietExact
<1>13. Held(app) /\ Renews(app) /\ Fit(End(t).param, app)
  BY <1>4, <1>8 DEF Held, Renews, Fit, Off, Unconn
<1>14. Want(End(t).param, app, evts, asked, fails)
  <2>1. asked \notin Intervals
    BY <1>4, BleAssumption DEF Intervals
  <2>q. QED BY <2>1 DEF Want
<1>q. QED BY <1>4, <1>12, <1>13, <1>14 DEF BInv

\* The inductive invariant.
OnCourse == \E t : BInv(t)

\* It holds in every behaviour in which no request arrives while the thread
\* is deciding (between the check and the rest of ble_start_adv).
LEMMA CourseKept ==
    ASSUME OtherThreads = FALSE
    PROVE  Spec => [](IInv /\ OnCourse)
<1>1. Init => IInv /\ OnCourse
  BY InitHolds, InitCourse DEF OnCourse
<1>2. ASSUME IInv, OnCourse, [Next]_vars
      PROVE  (IInv /\ OnCourse)'
  <2>1. PICK t : BInv(t)
    BY <1>2 DEF OnCourse
  <2>2. CASE UNCHANGED vars
    <3>1. IInv'
      BY <1>2, <2>2 DEF IInv, vars
    <3>2. Unchanged /\ app' = app /\ evts' = evts /\ radio' = radio /\ asked' = asked
          /\ odd' = odd /\ fails' = fails
      BY <2>2 DEF vars, Unchanged
    <3>4. /\ (Held(app) /\ Renews(app))' /\ (Fit(End(t).param, app) => Fit(End(t).param, app)')
          /\ (Want(End(t).param, app, evts, asked, fails) => Want(End(t).param, app, evts, asked, fails)')
      BY <2>1, <3>2, Unmoved DEF BInv, Rest
    <3>5. /\ (After(t, app, evts, radio, fails) => After(t, app, evts, radio, fails)')
          /\ (Exact(t, app, evts, radio, fails) => Exact(t, app, evts, radio, fails)')
      BY <3>2, SamePast DEF Unchanged
    <3>6. Sound(t, app, evts, radio, fails) => Sound(t, app, evts, radio, fails)'
      BY <3>2, <3>4, <3>5 DEF Sound
    <3>7. BInv(t)'
      BY <2>1, <3>2, <3>4, <3>5, <3>6 DEF BInv
    <3>3. OnCourse'
      BY <3>7 DEF OnCourse
    <3>q. QED BY <3>1, <3>3
  <2>3. CASE Thread
    BY <1>2, <2>1, <2>3, ThreadKeeps, MailStep, StartAdvertisingStep, EventStep, TwsConnectedStep
       DEF Thread, OnCourse
  <2>4. CASE Stack
    BY <1>2, <2>1, <2>4, StackKeeps, StackStep DEF OnCourse
  <2>5. CASE Outside
    BY <1>2, <2>1, <2>5, OutsideKeeps, OutsideStep DEF OnCourse
  <2>q. QED BY <1>2, <2>2, <2>3, <2>4, <2>5 DEF Next
<1>q. QED BY <1>1, <1>2, PTL DEF Spec
-----------------------------------------------------------------------------
(* Quiet states.                                                           *)

\* When nothing is on its way the radio is where the commands have led to.
LEMMA QuietCourse ==
    ASSUME IInv, OnCourse, Quiet, InStep
    PROVE  /\ app.state \in States /\ Fit(radio.param, app)
           /\ (~Cut(Track(radio)) => Settled(app.state) /\ radio.act = Goal(app.state))
           /\ (Settled(app.state) /\ app.state \in AdvStates => app.state = "ADVERTISING")
           /\ ~Some(app.mail, Stops)
           /\ (odd = 0 => /\ Want(radio.param, app, evts, asked, fails)
                          /\ (fails = 0 => ~Stray(app)))
           /\ Len(app.mail) = 0 /\ Len(evts) = 0
<1>1. PICK t : BInv(t)
  BY DEF OnCourse
<1>2. /\ app \in AppSet /\ evts \in Seq(Events) /\ app.mail = <<>> /\ app.cmds = <<>> /\ evts = <<>>
  BY DEF IInv, Good, Quiet
<1>3. odd = 0 \/ odd = 1
  BY <1>1 DEF BInv, InStep
<1>4. ~Lost(app, evts, radio, fails) /\ ~Refused(app, evts, radio, fails)
  BY <1>2, QuietExact
<1>5. After(t, app, evts, radio, fails) /\ Fit(End(t).param, app)
  BY <1>1, <1>3, <1>4 DEF BInv, Exact, Sound
<1>6. End(t) = Track(radio) /\ (~Cut(Track(radio)) => Settled(app.state))
  BY <1>2, <1>5, QuietExact
<1>7. End(t).act = radio.act /\ End(t).param = radio.param
  BY <1>6 DEF Track
<1>8. ~Cut(Track(radio)) => radio.act = Goal(app.state)
  BY <1>5, <1>6, <1>7 DEF After, Course
<1>9. app.state \in States /\ (Settled(app.state) /\ app.state \in AdvStates => app.state = "ADVERTISING")
  BY <1>2 DEF AppSet, Settled, AdvStates, Running
<1>10. Len(app.mail) = 0 /\ Len(evts) = 0 /\ 1 .. 0 = {}
  BY <1>2
<1>11. ~Some(app.mail, Stops)
  BY <1>10 DEF Some
<1>12. odd = 0 => /\ Want(radio.param, app, evts, asked, fails)
                  /\ (fails = 0 => ~Stray(app))
  BY <1>1, <1>7 DEF BInv, Exact
<1>13. Fit(radio.param, app)
  BY <1>5, <1>7
<1>q. QED BY <1>6, <1>8, <1>9, <1>10, <1>11, <1>12, <1>13

\* What advertises is what the state machine says.
LEMMA QuietAdvertises ==
    ASSUME IInv, OnCourse, Quiet, InStep, radio.act = "adv"
    PROVE  /\ app.state = "ADVERTISING" /\ radio.param \in AdvParam /\ ~Stopper(app)
           /\ Fit(radio.param, app)
<1>1. ~Cut(Track(radio))
  BY DEF Cut, Track, Resting
<1>2. /\ Settled(app.state) /\ Goal(app.state) = "adv" /\ Fit(radio.param, app) /\ ~Some(app.mail, Stops)
      /\ (app.state \in AdvStates => app.state = "ADVERTISING")
  BY <1>1, QuietCourse
<1>3. app.state \in AdvStates
  BY <1>2 DEF Goal
<1>4. radio.param \in AdvParam
  BY DEF IInv
<1>q. QED BY <1>2, <1>3, <1>4 DEF Stopper

\* Whatever requests come in whatever order, and whichever completions they
\* meet: once everything has been answered, and at most one connection,
\* refusal or direct cancel has come in between, bleModeEnv.state says what
\* the radio does; not, however, once the handler of a new TWS link has
\* cancelled an activity that the state machine goes on believing in.
\* Requests must not arrive while the Bluetooth thread is deciding.
THEOREM StateMatchesRadio ==
    ASSUME OtherThreads = FALSE
    PROVE  Spec => []StateAgrees
<1>1. IInv /\ OnCourse => StateAgrees
  <2>1. SUFFICES ASSUME IInv, OnCourse, Quiet, InStep, ~past PROVE app.state = StateOf[radio.act]
    BY DEF StateAgrees
  <2>2. ~Cut(Track(radio))
    BY <2>1 DEF Cut
  <2>3. Settled(app.state) /\ radio.act = Goal(app.state)
    BY <2>1, <2>2, QuietCourse
  <2>q. QED BY <2>3 DEF Settled, Running, Goal, AdvStates, StateOf
<1>q. QED BY <1>1, CourseKept, PTL

\* Under the same conditions, and even after such a direct cancel:
\* advertising that has been switched off, or that a slave must not do, does
\* not go on, whatever was being started or pending when
\* app_ble_force_switch_adv, the role change or the new TWS link came.
THEOREM SwitchedOffStaysOff ==
    ASSUME OtherThreads = FALSE
    PROVE  Spec => []OffMeansOff
<1>1. IInv /\ OnCourse => OffMeansOff
  <2>1. SUFFICES ASSUME IInv, OnCourse, Quiet, InStep, Forbidden(app), radio.act = "adv"
                 PROVE  FALSE
    BY DEF OffMeansOff
  <2>2. /\ app.state = "ADVERTISING" /\ radio.param \in AdvParam /\ ~Stopper(app)
        /\ Fit(radio.param, app)
    BY <2>1, QuietAdvertises
  <2>3. radio.param # NoAdv
    BY <2>2 DEF AdvParam, NoAdv
  <2>4. app.advSwitch # {} \/ (slave /\ ~due)
    BY <2>1 DEF Forbidden, Quiet
  <2>q. QED BY <2>2, <2>3, <2>4 DEF Fit, Off, AdvStates
<1>q. QED BY <1>1, CourseKept, PTL

\* Under the same conditions: with a connection the bud does not stay
\* connectable, even if the advertising was configured before it was made.
THEOREM ConnectedIsNotConnectable ==
    ASSUME OtherThreads = FALSE
    PROVE  Spec => []NotConnectable
<1>1. IInv /\ OnCourse => NotConnectable
  <2>1. SUFFICES ASSUME IInv, OnCourse, Quiet, InStep, Connected(app) # {}, radio.act = "adv"
                 PROVE  radio.param.advType = "NON_CONN"
    BY DEF NotConnectable
  <2>2. /\ app.state = "ADVERTISING" /\ radio.param \in AdvParam /\ ~Stopper(app)
        /\ Fit(radio.param, app)
    BY <2>1, QuietAdvertises
  <2>3. radio.param.advType # "UNDIRECT"
    BY <2>1, <2>2 DEF Fit, Unconn, AdvStates
  <2>q. QED BY <2>2, <2>3 DEF AdvParam
<1>q. QED BY <1>1, CourseKept, PTL

\* As long as nothing was refused, no connection interfered and nothing was
\* cancelled past the state machine: the last request to advertise is not
\* lost behind the operation it met, nor are its interval and data.
THEOREM LastRequestAdvertised ==
    ASSUME OtherThreads = FALSE
    PROVE  Spec => []Advertised
<1>1. IInv /\ OnCourse => Advertised
  <2>1. SUFFICES ASSUME IInv, OnCourse, Quiet, odd = 0, ~past, fails = 0, asked \in Intervals,
                        ble_adv_allowed(app), fill # NoUser
                 PROVE  radio.act = "adv" /\ radio.param = ble_adv_config_param(app, asked)
    BY DEF Advertised
  <2>2. InStep /\ ~Cut(Track(radio))
    BY <2>1 DEF InStep, Cut
  <2>3. /\ radio.act = Goal(app.state) /\ Settled(app.state)
        /\ (app.state \in AdvStates => app.state = "ADVERTISING")
        /\ Want(radio.param, app, evts, asked, fails) /\ ~Stray(app)
        /\ Len(app.mail) = 0 /\ Len(evts) = 0
    BY <2>1, <2>2, QuietCourse
  <2>4. ~Some(evts, Downs) /\ ~LastCall(app.mail, asked)
    BY <2>3 DEF Some, LastCall
  <2>5. Carried(radio.param, app, asked)
    BY <2>1, <2>3, <2>4 DEF Want, Wanted
  <2>6. app.thread = "ready" /\ app.op # "START_ADV"
    BY <2>1, <2>3 DEF Quiet, Stray
  <2>7. /\ app.advParam = ble_adv_config_param(app, asked)
        /\ app.state \in AdvStates /\ radio.param = app.advParam
    BY <2>5, <2>6 DEF Carried
  <2>q. QED BY <2>3, <2>7 DEF Goal
<1>q. QED BY <1>1, CourseKept, PTL
=============================================================================
