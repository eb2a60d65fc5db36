--------------------------- MODULE DurableRecord ----------------------------
(***************************************************************************)
(* What the firmware promises about its user record, without sectors,      *)
(* queues or flush states: a volatile value, the value a restart would     *)
(* find, and a floor below which that value never falls.                   *)
(*                                                                         *)
(* The promise is that of nv_record_extension_init, nv_record_env_set,     *)
(* nv_record_rebuild and nv_record_extension_flush taken together.  It is  *)
(* weaker than that of a store with atomic commits: between two completed  *)
(* flushes a restart may find any version from the floor to the newest.    *)
(***************************************************************************)
EXTENDS Integers

CONSTANT Default   \* the version a device without a stored record starts from

VARIABLES
    mem,     \* version in RAM, 0 while the power is off
    newest,  \* newest version ever made
    stored,  \* version a restart would load, 0 when it would find none
    floor    \* newest version whose flush has completed

dvars == <<mem, newest, stored, floor>>

DInit == mem = 0 /\ newest = 0 /\ stored = 0 /\ floor = 0

\* A thread changes the record.
Change ==
    /\ mem # 0
    /\ newest' = newest + 1
    /\ mem' = newest'
    /\ UNCHANGED <<stored, floor>>

\* Flash changes under a flush: a restart would find another version, never
\* one older than the floor nor newer than the one in RAM.
Store ==
    /\ mem # 0
    /\ stored' \in floor .. mem
    /\ UNCHANGED <<mem, newest, floor>>

\* A flush completes: what is stored is there to stay.
Complete ==
    /\ mem # 0
    /\ floor' = stored
    /\ UNCHANGED <<mem, newest, stored>>

\* Power is lost, possibly in the middle of a flash operation.
PowerLoss ==
    /\ mem # 0
    /\ mem' = 0
    /\ stored' \in floor .. mem
    /\ UNCHANGED <<newest, floor>>

\* The record is loaded, or built anew when there is none.
PowerUp ==
    /\ mem = 0
    /\ mem' = IF stored = 0 THEN Default ELSE stored
    /\ newest' = IF newest = 0 THEN Default ELSE newest
    /\ UNCHANGED <<stored, floor>>

DNext == Change \/ Store \/ Complete \/ PowerLoss \/ PowerUp

DSpec == DInit /\ [][DNext]_dvars
=============================================================================
