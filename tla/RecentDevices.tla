---------------------------- MODULE RecentDevices ----------------------------
(***************************************************************************)
(* What the list of paired devices promises: a sequence of at most Count   *)
(* different devices, the one paired last in front, each with its link key *)
(* and its volume, and a copy of it that a restart brings back.            *)
(***************************************************************************)
EXTENDS Integers, Sequences

CONSTANTS
    Device,     \* addresses
    Key,        \* link keys
    Mobile,     \* the devices that are not the other earbud
    Count,      \* longest list
    Volume,     \* volume levels
    Default     \* the volume of a device that has just been paired

VARIABLES list, kept

Entry == [addr : Device, key : Key, vol : Volume]

Init == list = <<>> /\ kept = <<>>

Known(d) == \E i \in DOMAIN list : list[i].addr = d
Place(d) == CHOOSE i \in DOMAIN list : list[i].addr = d
VolumeOf(d) == IF Known(d) THEN list[Place(d)].vol ELSE Default

\* The list without the entry of a device.
Others(d) ==
    IF Known(d)
    THEN [j \in 1 .. Len(list) - 1 |-> list[IF j < Place(d) THEN j ELSE j + 1]]
    ELSE list

\* A device comes to the front with its new key and the volume it had; the
\* others keep their order, and only the last may be forgotten.
Pair(d, k) ==
    LET others == Others(d)
        n == IF Len(others) < Count THEN Len(others) + 1 ELSE Count
    IN  /\ list' = [j \in 1 .. n |-> IF j = 1 THEN [addr |-> d, key |-> k, vol |-> VolumeOf(d)]
                                             ELSE others[j - 1]]
        /\ UNCHANGED kept

\* The entries that stay, and no others, keep their order.
ForgetMobiles ==
    /\ \E f \in [DOMAIN list' -> DOMAIN list] :
          /\ \A j \in DOMAIN f : list'[j] = list[f[j]]
          /\ \A i, j \in DOMAIN f : i < j => f[i] < f[j]
          /\ \A i \in DOMAIN list : list[i].addr \notin Mobile <=> \E j \in DOMAIN f : f[j] = i
    /\ UNCHANGED kept

\* Volumes may change, and nothing else with them.
SetVolumes ==
    /\ Len(list') = Len(list)
    /\ \A i \in DOMAIN list :
           \E v \in Volume : list'[i] = [list[i] EXCEPT !.vol = v]
    /\ UNCHANGED kept

Keep == kept' = list /\ UNCHANGED list
Restart == list' = kept /\ UNCHANGED kept

Next ==
    \/ \E d \in Device, k \in Key : Pair(d, k)
    \/ ForgetMobiles \/ SetVolumes \/ Keep \/ Restart

Spec == Init /\ [][Next]_<<list, kept>>
==============================================================================
