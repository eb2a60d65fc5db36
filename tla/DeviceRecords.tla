---------------------------- MODULE DeviceRecords ----------------------------
(***************************************************************************)
(* The paired-device records of nvrecord_bt.c: an array of                 *)
(* MAX_BT_PAIRED_DEVICE_COUNT slots and a count, kept most recent first by *)
(* copying slots, and the volume pointer of app_bt_stream.cpp, which aims  *)
(* at the volume field inside a slot.                                      *)
(*                                                                         *)
(* The Bluetooth thread links and deletes records and aims the pointer; the *)
(* audio manager's thread changes volumes through it; the sleep hook saves *)
(* the record when it is marked as changed (module NvRecord has the        *)
(* details of saving).  Each of nv_record_pre_write_operation ...          *)
(* nv_record_post_write_operation is one step: interrupts are locked.      *)
(***************************************************************************)
EXTENDS Integers, Sequences

CONSTANTS
    Mobiles,    \* addresses of phones
    Bud,        \* address of the other earbud
    Keys,       \* link keys
    Count,      \* MAX_BT_PAIRED_DEVICE_COUNT
    VolMax,     \* TGT_VOLUME_LEVEL_15
    DefaultVol, \* NVRAM_ENV_STREAM_VOLUME_A2DP_VOL_DEFAULT
    Zero,       \* the address and the key of a slot filled with zeros
    MaxLinks,   \* bound on the connections
    MaxVols,    \* bound on the volume changes
    MaxBoots    \* bound on the restarts

Devices == Mobiles \cup {Bud}
Volumes == 0 .. VolMax
Slots == 0 .. Count - 1
Static == -1    \* the pointer is at stream_volume, not at a slot

ASSUME SizeAssumption == Count \in Nat \ {0} /\ VolMax \in Nat /\ DefaultVol \in Volumes
ASSUME AddressAssumption == Bud \notin Mobiles /\ Zero \notin Devices \cup Keys
ASSUME BoundAssumption == MaxLinks \in Nat /\ MaxVols \in Nat /\ MaxBoots \in Nat

VARIABLES
    info,       \* bt_pair_info: [num, slot]
    saved,      \* the same in flash
    is_update,  \* the record is marked as changed
    vol_p,      \* btdevice_volume_p: a slot, or Static
    stream_vol, \* stream_volume.a2dp_vol
    op,         \* the audio thread's volume change: [at, vol]
    link,       \* link[d]: "down", "keyed" (authenticated), "up" (indicated)
    unheard,    \* history: the list changed and no indication will follow
    links, vols, boots

vars == <<info, saved, is_update, vol_p, stream_vol, op, link, unheard, links, vols, boots>>

Blank == [addr |-> Zero, key |-> Zero, vol |-> 0]
Entry == [addr : Devices \cup {Zero}, key : Keys \cup {Zero}, vol : Volumes]
Idle == [at |-> "idle", vol |-> 0]

TypeOK ==
    /\ info \in [num : 0 .. Count, slot : [Slots -> Entry]]
    /\ saved \in [num : 0 .. Count, slot : [Slots -> Entry]]
    /\ is_update \in BOOLEAN
    /\ vol_p \in Slots \cup {Static}
    /\ stream_vol \in Volumes
    /\ op \in [at : {"idle", "write", "touch"}, vol : Volumes]
    /\ link \in [Devices -> {"down", "keyed", "up"}]
    /\ unheard \in BOOLEAN
    /\ links \in 0 .. MaxLinks /\ vols \in 0 .. MaxVols /\ boots \in 0 .. MaxBoots

Init ==
    /\ info = [num |-> 0, slot |-> [i \in Slots |-> Blank]]
    /\ saved = info
    /\ is_update = FALSE
    /\ vol_p = Static
    /\ stream_vol = DefaultVol
    /\ op = Idle
    /\ link = [d \in Devices |-> "down"]
    /\ unheard = FALSE
    /\ links = 0 /\ vols = 0 /\ boots = 0

-----------------------------------------------------------------------------
(* The array.                                                              *)

\* nv_record_get_bt_pairing_info_index
Index(r, d) ==
    IF \E i \in 0 .. r.num - 1 : r.slot[i].addr = d
    THEN CHOOSE i \in 0 .. r.num - 1 :
             r.slot[i].addr = d /\ \A j \in 0 .. i - 1 : r.slot[j].addr # d
    ELSE -1

\* (variant: the loop starts at the wrong end)
ShiftsForward(s, n) ==
    LET copy[k \in 0 .. n] ==
            IF k = 0 THEN s ELSE [copy[k - 1] EXCEPT ![k] = copy[k - 1][k - 1]]
    IN  copy[n]

\* The loops over memcpy, one copy after the other: slots 0 .. n - 1 to 1 .. n.
ShiftRight(s, n) ==
    LET copy[k \in 0 .. n] ==
            IF k = 0 THEN s ELSE [copy[k - 1] EXCEPT ![n - k + 1] = copy[k - 1][n - k]]
    IN  copy[n]

\* Slots i + 1 .. num - 1 to i .. num - 2, and the last filled with zeros.
ShiftLeft(r, i) ==
    LET copy[k \in 0 .. r.num - i - 1] ==
            IF k = 0 THEN r.slot ELSE [copy[k - 1] EXCEPT ![i + k - 1] = copy[k - 1][i + k]]
    IN  [copy[r.num - i - 1] EXCEPT ![r.num - 1] = Blank]

\* (variant: the count is not lowered when the last one falls out)
CountsFallen(r, d, k) ==
    LET i == Index(r, d)
        last == IF i # -1 THEN i ELSE IF r.num = Count THEN Count - 1 ELSE r.num
        e == IF i # -1 THEN [r.slot[i] EXCEPT !.key = k]
                       ELSE [addr |-> d, key |-> k, vol |-> DefaultVol]
    IN  [num  |-> IF i # -1 THEN r.num ELSE r.num + 1,
         slot |-> [ShiftRight(r.slot, last) EXCEPT ![0] = e]]

\* nv_record_ddbrec_add: a new device gets slot 0 and default values, the
\* last one falls out of a full list; a known one moves to slot 0.
nv_record_ddbrec_add(r, d, k) ==
    LET i == Index(r, d)
        full == i = -1 /\ r.num = Count
        last == IF i # -1 THEN i ELSE IF full THEN Count - 1 ELSE r.num
        e == IF i # -1 THEN [r.slot[i] EXCEPT !.key = k]
                       ELSE [addr |-> d, key |-> k, vol |-> DefaultVol]
    IN  [num  |-> IF i # -1 \/ full THEN r.num ELSE r.num + 1,
         slot |-> [ShiftRight(r.slot, last) EXCEPT ![0] = e]]

\* (variant: a record that only moves is not marked)
MarksKeys(r, d, k) == Index(r, d) = -1 \/ r.slot[Index(r, d)].key # k

\* isFlushNv
NeedsFlush(r, d, k) == Index(r, d) # 0 \/ r.slot[0].key # k

nv_record_ddbrec_delete(r, d) ==
    LET i == Index(r, d)
    IN  IF i = -1 THEN r ELSE [num |-> r.num - 1, slot |-> ShiftLeft(r, i)]

\* app_ibrt_nvrecord_delete_all_mobile_record: from the tail, by index.
DeleteMobiles(r) ==
    LET left[k \in 0 .. r.num] ==
            IF k = 0 THEN r
            ELSE LET t == left[k - 1]
                     d == t.slot[r.num - k].addr
                 IN  IF d \in Mobiles THEN nv_record_ddbrec_delete(t, d) ELSE t
    IN  left[r.num]

\* app_ibrt_nvrecord_get_latest_mobiles_addr: the first two phones from the
\* tail on.
get_latest_mobiles_addr(r) ==
    LET phones == SelectSeq([j \in 1 .. r.num |-> r.slot[r.num - j].addr],
                            LAMBDA d : d \in Mobiles)
    IN  SubSeq(phones, 1, IF Len(phones) > 2 THEN 2 ELSE Len(phones))

-----------------------------------------------------------------------------
(* The volume pointer.                                                     *)

\* app_bt_stream_volume_ptr_update
Aim(r, d) == Index(r, d)

VolumeAt(p) == IF p = Static THEN stream_vol ELSE info.slot[p].vol

SetVolumeAt(r, p, v) == IF p = Static THEN r ELSE [r EXCEPT !.slot[p].vol = v]

\* The phone whose link is up (app_tws_ibrt_mobile_link_connected).
Talking(l) == {m \in Mobiles : l[m] = "up"}

\* app_ibrt_if_volume_ptr_update
Reaim(r, l) ==
    IF Talking(l) = {} THEN vol_p ELSE Aim(r, CHOOSE m \in Talking(l) : TRUE)

\* (variant: the update for the other earbud leaves the pointer alone)
KeepsAim(d, l) ==
    IF Index(info, d) = -1 \/ d = Bud THEN vol_p ELSE Reaim(info, l)

\* app_ibrt_if_config_keeper_mobile_update, app_ibrt_if_config_keeper_tws_update
KeeperUpdate(d, l) == IF Index(info, d) = -1 THEN vol_p ELSE Reaim(info, l)

-----------------------------------------------------------------------------
(* The Bluetooth thread.                                                   *)

\* One phone at a time (BT_ONE_BRING_TWO is off).
MayConnect(d) ==
    link[d] = "down" /\ (d \in Mobiles => \A m \in Mobiles : link[m] = "down")

\* A device is paired, or paired again: the stack links its record.
Authenticate(d, k) ==
    /\ MayConnect(d) /\ links < MaxLinks
    /\ info' = nv_record_ddbrec_add(info, d, k)
    /\ is_update' = (is_update \/ NeedsFlush(info, d, k))
    /\ link' = [link EXCEPT ![d] = "keyed"]
    /\ links' = links + 1
    /\ UNCHANGED <<saved, vol_p, stream_vol, op, unheard, vols, boots>>

\* A known device reconnects with the key it has: the stack only looks it up.
Reconnect(d) ==
    /\ MayConnect(d) /\ links < MaxLinks /\ Index(info, d) # -1
    /\ link' = [link EXCEPT ![d] = "keyed"]
    /\ links' = links + 1
    /\ UNCHANGED <<info, saved, is_update, vol_p, stream_vol, op, unheard, vols, boots>>

\* app_ibrt_customif_mobile_connected_ind, ..._tws_connected_ind
Connected(d) ==
    LET l == [link EXCEPT ![d] = "up"]
    IN  /\ link[d] = "keyed"
        /\ link' = l
        /\ vol_p' = KeeperUpdate(d, l)
        /\ unheard' = (unheard /\ (Talking(l) = {} \/ Index(info, d) = -1))
        /\ UNCHANGED <<info, saved, is_update, stream_vol, op, links, vols, boots>>

\* A link is lost, perhaps before it was indicated.
Disconnect(d) ==
    /\ link[d] # "down"
    /\ link' = [link EXCEPT ![d] = "down"]
    /\ unheard' = (unheard \/ (link[d] = "keyed" /\ d = Bud))
    /\ UNCHANGED <<info, saved, is_update, vol_p, stream_vol, op, links, vols, boots>>

\* A stream of the phone opens (a2dp_callback).
StreamOpens(m) ==
    /\ link[m] = "up"
    /\ vol_p' = Aim(info, m)
    /\ unheard' = FALSE
    /\ UNCHANGED <<info, saved, is_update, stream_vol, op, link, links, vols, boots>>

\* The phone sets the volume (a2dp_volume_local_set): in its own record, and
\* through the pointer if the volume there differs.
a2dp_volume_local_set(m, v) ==
    LET i == Index(info, m)
        r == SetVolumeAt(info, i, v)
        at_p == IF vol_p = Static THEN stream_vol ELSE r.slot[vol_p].vol
    IN  /\ link[m] = "up" /\ vols < MaxVols
        /\ info' = IF at_p # v THEN SetVolumeAt(r, vol_p, v) ELSE r
        /\ stream_vol' = IF vol_p = Static THEN v ELSE stream_vol
        /\ is_update' = (is_update \/ r # info \/ at_p # v)
        /\ vols' = vols + 1
        /\ UNCHANGED <<saved, vol_p, op, link, unheard, links, boots>>

\* The command that clears the pairing information (OP_TOTA_CLEAR_PAIRING_INFO).
ClearPairing ==
    /\ DeleteMobiles(info) # info
    /\ info' = DeleteMobiles(info)
    /\ is_update' = TRUE
    /\ unheard' = TRUE
    /\ UNCHANGED <<saved, vol_p, stream_vol, op, link, links, vols, boots>>

-----------------------------------------------------------------------------
(* The audio thread, saving and restarts.                                  *)

\* app_bt_stream_volumeup, app_bt_stream_volumedown: the new value is
\* computed before the lock is taken.
VolumeRead ==
    /\ op.at = "idle" /\ vols < MaxVols
    /\ \E v \in {VolumeAt(vol_p) + 1, VolumeAt(vol_p) - 1} :
           op' = [at |-> "write", vol |-> IF v > VolMax THEN VolMax ELSE IF v < 0 THEN 0 ELSE v]
    /\ vols' = vols + 1
    /\ UNCHANGED <<info, saved, is_update, vol_p, stream_vol, link, unheard, links, boots>>

VolumeWrite ==
    /\ op.at = "write"
    /\ info' = SetVolumeAt(info, vol_p, op.vol)
    /\ stream_vol' = IF vol_p = Static THEN op.vol ELSE stream_vol
    /\ op' = [op EXCEPT !.at = "touch"]
    /\ UNCHANGED <<saved, is_update, vol_p, link, unheard, links, vols, boots>>

\* nv_record_touch_cause_flush
VolumeTouch ==
    /\ op.at = "touch"
    /\ is_update' = TRUE
    /\ op' = Idle
    /\ UNCHANGED <<info, saved, vol_p, stream_vol, link, unheard, links, vols, boots>>

Flush ==
    /\ is_update
    /\ saved' = info
    /\ is_update' = FALSE
    /\ UNCHANGED <<info, vol_p, stream_vol, op, link, unheard, links, vols, boots>>

\* Power is lost; the record is read back and app_init aims the pointer at
\* the default.
Reboot ==
    /\ boots < MaxBoots
    /\ info' = saved
    /\ is_update' = FALSE
    /\ vol_p' = Static /\ stream_vol' = DefaultVol
    /\ op' = Idle
    /\ link' = [d \in Devices |-> "down"]
    /\ unheard' = FALSE
    /\ boots' = boots + 1
    /\ UNCHANGED <<saved, links, vols>>

Next ==
    \/ \E d \in Devices : \/ \E k \in Keys : Authenticate(d, k)
                          \/ Reconnect(d) \/ Connected(d) \/ Disconnect(d)
    \/ \E m \in Mobiles : \/ StreamOpens(m)
                          \/ \E v \in Volumes : a2dp_volume_local_set(m, v)
    \/ ClearPairing
    \/ VolumeRead \/ VolumeWrite \/ VolumeTouch
    \/ Flush \/ Reboot

Spec == Init /\ [][Next]_vars

-----------------------------------------------------------------------------
(* Properties.                                                             *)

Listed(r) == [i \in 1 .. r.num |-> r.slot[i - 1]]

Recent == INSTANCE RecentDevices WITH
    list <- Listed(info), kept <- Listed(saved),
    Device <- Devices, Key <- Keys, Mobile <- Mobiles,
    Volume <- Volumes, Default <- DefaultVol

\* The slots that nv_record_ddbrec_add and nv_record_ddbrec_delete copy one
\* after the other behave as a list of different devices, the one paired last
\* in front: a device that returns keeps its volume and nobody is forgotten
\* but the last of a full list.
ImplementsRecent == Recent!Spec

\* Whatever differs from flash is marked for saving, or the audio thread is
\* about to mark it (nv_record_update_runtime_userdata).
Marked == info # saved => is_update \/ op.at = "touch"

\* While a phone with a record is connected and nobody is about to be
\* indicated, the volume pointer is at that phone's record, wherever the record
\* has moved to since the phone connected (app_ibrt_if_volume_ptr_update).
VolumeOwner ==
    \A m \in Talking(link) :
        /\ Index(info, m) # -1
        /\ ~unheard
        /\ \A d \in Devices : link[d] # "keyed"
        => vol_p = Index(info, m)

\* app_ibrt_nvrecord_get_latest_mobiles_addr returns the phone that was
\* paired last first, as its name and its description say.
LatestMobileFirst ==
    LET found == get_latest_mobiles_addr(info)
        phones == SelectSeq(Listed(info), LAMBDA e : e.addr \in Mobiles)
    IN  found # <<>> => found[1] = phones[1].addr
==============================================================================
