------------------------------ MODULE OpbConfig ------------------------------
(***************************************************************************)
(* The button configuration and device name of a pair of earbuds: written  *)
(* over BLE (opb_configps_task.c), kept in RAM (app_opb_config.c), saved    *)
(* through the NV record (nvrecord_env.c) and synchronised between the      *)
(* buds over the TWS link (app_tws_if.cpp).                                 *)
(*                                                                         *)
(* A write is applied, put into the mirror of the NV record and sent to    *)
(* the peer as a command.  The peer applies it and answers with its own    *)
(* configuration, and the first bud applies the answer.  The GATT task and *)
(* the command handlers run in the Bluetooth thread, so a handler is one   *)
(* step; a link delivers in order until it drops.                          *)
(***************************************************************************)
EXTENDS Naturals, Sequences, FiniteSets

CONSTANTS
    Buds,       \* the two earbuds
    Writers,    \* the buds a BLE client is connected to
    Settings,   \* settings of the four gestures with known action codes
    Unknown,    \* a setting with an action code >= OPB_ACTION_MAX
    Default,    \* the settings of a fresh record
    Names,      \* device names [id, len] that clients write
    NoName,     \* the empty name of a fresh record
    GattMax,    \* longest name the characteristic takes
    NvMax,      \* longest name the record holds
    MaxWrites,  \* bound on the writes that are explored
    MaxDrops    \* bound on the link losses and reboots that are explored

ASSUME BudAssumption == IsFiniteSet(Buds) /\ Cardinality(Buds) = 2 /\ Writers \subseteq Buds
ASSUME SettingAssumption == Default \in Settings /\ Unknown \notin Settings
ASSUME NameAssumption ==
    /\ \A n \in Names \cup {NoName} : n = [id |-> n.id, len |-> n.len] /\ n.len \in Nat
    /\ NoName.len = 0 /\ GattMax \in Nat /\ NvMax \in Nat
ASSUME BoundAssumption == MaxWrites \in Nat /\ MaxDrops \in Nat

VARIABLES
    current,    \* current_config
    mirror,     \* button_config and device_name in the RAM image of the NV record
    stored,     \* the same in flash
    chan,       \* chan[b]: commands and responses on their way to b
    connected,  \* the TWS link is up
    written,    \* history: what the last accepted write of each field left
    writes,     \* writes so far
    drops       \* link losses and reboots so far

vars == <<current, mirror, stored, chan, connected, written, writes, drops>>

Peer(b) == CHOOSE c \in Buds : c # b

Config == [left : Settings, right : Settings]

\* strncpy into a field of NvMax bytes and a terminator.
Shortened(n) == IF n.len > NvMax THEN [n EXCEPT !.len = NvMax] ELSE n
StoredNames == {Shortened(n) : n \in Names} \cup {NoName}
Record == [config : Config, name : StoredNames]
Message == [kind : {"cmd", "rsp"}, data : Record]

TypeOK ==
    /\ current \in [Buds -> Config]
    /\ mirror \in [Buds -> Record]
    /\ stored \in [Buds -> Record]
    /\ chan \in [Buds -> Seq(Message)]
    /\ connected \in BOOLEAN
    /\ writes \in 0 .. MaxWrites
    /\ drops \in 0 .. MaxDrops

-----------------------------------------------------------------------------
(* Applying and saving.                                                    *)

\* (variant: only the left bud's action codes are looked at)
ValidatesLeft(c) == c.left # Unknown

validate_config(c) == c.left # Unknown /\ c.right # Unknown

\* nv_record_set_button_config, nv_record_set_device_name: they copy the
\* record, change one field and put it back.
nv_record_set_button_config(rec, c) == [rec EXCEPT !.config = c]
nv_record_set_device_name(rec, n) == [rec EXCEPT !.name = Shortened(n)]

\* (variant: the configuration is not saved)
SetUnsaved(st, c) == IF validate_config(c) THEN [st EXCEPT !.cur = c] ELSE st

\* app_opb_config_set(c, true) on the configuration and mirror of a bud.
app_opb_config_set(st, c) ==
    IF validate_config(c)
    THEN [cur |-> c, rec |-> nv_record_set_button_config(st.rec, c)]
    ELSE st

StateOf(b) == [cur |-> current[b], rec |-> mirror[b]]
Became(b, st) ==
    /\ current' = [current EXCEPT ![b] = st.cur]
    /\ mirror' = [mirror EXCEPT ![b] = st.rec]

\* opb_config_tws_sync_info_prepare_handler.
Prepared(st) == [config |-> st.cur, name |-> Shortened(st.rec.name)]

\* opb_config_tws_sync_info_received_handler: the name is taken whatever
\* becomes of the configuration.
Received(st, data) ==
    LET s == app_opb_config_set(st, data.config)
    IN  [s EXCEPT !.rec = nv_record_set_device_name(@, data.name)]

-----------------------------------------------------------------------------
(* The BLE client writes.                                                  *)

\* app_tws_if_sync_info: the command is lost when there is no link.
app_tws_if_sync_info(b, st) ==
    chan' = IF connected
            THEN [chan EXCEPT ![Peer(b)] = Append(@, [kind |-> "cmd", data |-> Prepared(st)])]
            ELSE chan

Accepted(b, st, field, value) ==
    /\ Became(b, st)
    /\ app_tws_if_sync_info(b, st)
    /\ written' = [written EXCEPT ![field] = value]
Refused == UNCHANGED <<current, mirror, chan, written>>

\* gattc_write_req_ind_handler, one action per characteristic.
WriteConfig(b, side, v) ==
    LET c == [current[b] EXCEPT ![side] = v] IN
    /\ b \in Writers /\ writes < MaxWrites
    /\ writes' = writes + 1
    /\ \/ validate_config(c) /\ Accepted(b, app_opb_config_set(StateOf(b), c), side, v)
       \/ ~validate_config(c) /\ Refused
    /\ UNCHANGED <<stored, connected, drops>>

WriteName(b, n) ==
    /\ b \in Writers /\ writes < MaxWrites
    /\ writes' = writes + 1
    /\ \/ n.len <= GattMax
          /\ Accepted(b, [StateOf(b) EXCEPT !.rec = nv_record_set_device_name(@, n)], "name", n)
       \/ n.len > GattMax /\ Refused
    /\ UNCHANGED <<stored, connected, drops>>

-----------------------------------------------------------------------------
(* The TWS link.                                                           *)

\* (variant: the answer is prepared before the command is applied)
AnswersFirst(b, st) == [kind |-> "rsp", data |-> Prepared(StateOf(b))]

\* The answer to a command, from the state st it left.
Answer(b, st) == [kind |-> "rsp", data |-> Prepared(st)]

\* app_tws_if_sync_info_received_handler.
ReceiveCommand(b) ==
    /\ chan[b] # <<>> /\ Head(chan[b]).kind = "cmd"
    /\ LET st == Received(StateOf(b), Head(chan[b]).data) IN
       /\ Became(b, st)
       /\ chan' = [chan EXCEPT ![b] = Tail(@), ![Peer(b)] = Append(@, Answer(b, st))]
    /\ UNCHANGED <<stored, connected, written, writes, drops>>

\* app_tws_if_sync_info_rsp_received_handler.
ReceiveResponse(b) ==
    /\ chan[b] # <<>> /\ Head(chan[b]).kind = "rsp"
    /\ Became(b, Received(StateOf(b), Head(chan[b]).data))
    /\ chan' = [chan EXCEPT ![b] = Tail(@)]
    /\ UNCHANGED <<stored, connected, written, writes, drops>>

\* The link drops with everything on it; the user's timeout handler is NULL.
Disconnect ==
    /\ connected /\ drops < MaxDrops
    /\ drops' = drops + 1
    /\ connected' = FALSE
    /\ chan' = [b \in Buds |-> <<>>]
    /\ UNCHANGED <<current, mirror, stored, written, writes>>

\* app_tws_if_tws_connected_sync_info: sends nothing for this user.
Connect ==
    /\ ~connected
    /\ connected' = TRUE
    /\ UNCHANGED <<current, mirror, stored, chan, written, writes, drops>>

-----------------------------------------------------------------------------
(* NV record and reboot.                                                   *)

\* (variant: the change is marked but never flushed on the peer)
FlushWritersOnly(b) ==
    /\ b \in Writers /\ stored[b] # mirror[b]
    /\ stored' = [stored EXCEPT ![b] = mirror[b]]
    /\ UNCHANGED <<current, mirror, chan, connected, written, writes, drops>>

\* The record reaches flash (module NvRecord).
Flush(b) ==
    /\ stored[b] # mirror[b]
    /\ stored' = [stored EXCEPT ![b] = mirror[b]]
    /\ UNCHANGED <<current, mirror, chan, connected, written, writes, drops>>

\* app_opb_config_init after a restart.
Reboot(b) ==
    /\ drops < MaxDrops
    /\ drops' = drops + 1
    /\ mirror' = [mirror EXCEPT ![b] = stored[b]]
    /\ current' = [current EXCEPT ![b] = stored[b].config]
    /\ connected' = FALSE
    /\ chan' = [c \in Buds |-> <<>>]
    /\ UNCHANGED <<stored, written, writes>>

Init ==
    LET fresh == [config |-> [left |-> Default, right |-> Default], name |-> NoName] IN
    /\ current = [b \in Buds |-> fresh.config]
    /\ mirror = [b \in Buds |-> fresh]
    /\ stored = [b \in Buds |-> fresh]
    /\ chan = [b \in Buds |-> <<>>]
    /\ connected = TRUE
    /\ written = [left |-> Default, right |-> Default, name |-> NoName]
    /\ writes = 0 /\ drops = 0

Next ==
    \/ \E b \in Buds, side \in {"left", "right"}, v \in Settings \cup {Unknown} :
          WriteConfig(b, side, v)
    \/ \E b \in Buds, n \in Names : WriteName(b, n)
    \/ \E b \in Buds : ReceiveCommand(b) \/ ReceiveResponse(b) \/ Flush(b) \/ Reboot(b)
    \/ Disconnect
    \/ Connect

Fairness ==
    \A b \in Buds : WF_vars(ReceiveCommand(b)) /\ WF_vars(ReceiveResponse(b)) /\ WF_vars(Flush(b))

Spec == Init /\ [][Next]_vars
FairSpec == Spec /\ Fairness
-----------------------------------------------------------------------------
(* Properties.                                                             *)

Quiet == connected /\ \A b \in Buds : chan[b] = <<>>

\* When the link is up and nothing is on it, both buds hold the same
\* configuration and name, in RAM and in the record.
BudsAgree == Quiet => \A b, c \in Buds : current[b] = current[c] /\ mirror[b] = mirror[c]

\* As long as the link has held, the buds agree whenever it is quiet, however
\* commands and responses crossed the writes of the client.
InStep == drops = 0 => BudsAgree

\* What a key press does is what the record will bring back after a reboot:
\* every route that changes current_config also saves it, and none of them
\* lets an unknown action code through.
SavedAsApplied ==
    \A b \in Buds : current[b] = mirror[b].config /\ validate_config(current[b])

\* When everything has been delivered, each field is what the last accepted
\* write made it.
LastWriteStays ==
    Quiet => \A b \in Buds : /\ current[b].left = written.left
                             /\ current[b].right = written.right

\* Once the client stops writing, commands and responses die out and each bud
\* ends with the configuration in use in its flash; both with the same record,
\* if the link has held.
Settles ==
    /\ <>[](\A b \in Buds : stored[b].config = current[b])
    /\ [](drops = 0) => <>[](\A b, c \in Buds : stored[b] = stored[c])
=============================================================================
