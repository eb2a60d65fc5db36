------------------------------ MODULE NvRecord ------------------------------
(***************************************************************************)
(* The non-volatile user record of the earbud firmware                     *)
(* (services/nv_section/userdata_section/nvrecord_extension.c).            *)
(*                                                                         *)
(* The record lives in a RAM mirror (nvrecord_extension_p).  Threads       *)
(* change the mirror and raise nv_flsh_state.is_update; the record reaches *)
(* flash later, either one step per idle-loop sleep hook ("async") or in   *)
(* one call of nv_record_flash_flush ("sync").  Flash holds two copies, a  *)
(* main sector and a backup sector; the main sector is erased and written  *)
(* first, the backup is then copied page by page from the main one.  At    *)
(* boot the valid copy is loaded.  Power may be lost at any moment.        *)
(*                                                                         *)
(* Erases and writes go through the queue of services/norflash_api, which  *)
(* is represented here by what it does for this one client: a first-in     *)
(* first-out list of erase and write nodes, of which the oldest is locked  *)
(* while the flash works on it.                                            *)
(*                                                                         *)
(* Contents are abstracted to versions: every change of the mirror makes a *)
(* new version, and a page of flash holds the page of one version, or is   *)
(* Erased, or is Torn (a mixture that no CRC accepts).                     *)
(***************************************************************************)
EXTENDS Integers, Sequences, SequencesExt

CONSTANTS
    NPages,      \* NV_EXTENSION_SIZE / NV_EXTENSION_PAGE_SIZE
    MaxVersion,  \* bound on the changes of the mirror that are explored
    Threads,     \* the threads that may run a synchronous flush
    Main,        \* the thread that runs nv_record_init at boot
    Callers,     \* the threads that flush after boot
    None,        \* nobody holds the global interrupt lock
    Erased,      \* content of a page whose bytes are all 0xff
    Torn         \* content of a page that belongs to no version

ASSUME NPagesAssumption == NPages \in Nat \ {0}
ASSUME MaxVersionAssumption == MaxVersion \in Nat \ {0}
ASSUME ThreadsAssumption ==
    /\ Main \in Threads
    /\ Callers \subseteq Threads
    /\ None \notin Threads
ASSUME ContentAssumption == Erased \notin Nat /\ Torn \notin Nat /\ Erased # Torn

VARIABLES
    mirror,         \* version of the record in RAM
    clock,          \* newest version made so far
    nv_flsh_state,  \* the flush state machine: is_update, state, written_size
    pc,             \* where each thread is in nv_record_extension_flush(false)
    intlock,        \* thread that flushes with int_lock_global held, or None
    power,          \* "off", "boot" (inside nv_record_init) or "on"
    expired,        \* nv_record_is_timer_expired_to_check()
    queue,          \* norflash_api nodes of this client, oldest first
    locked,         \* the oldest node is locked: the flash works on it
    progress,       \* pages of the oldest write node already programmed
    others,         \* what other clients leave of the shared node pools
    flash,          \* the two sectors
    snap,           \* history: version handed to the last main write
    durable,        \* history: newest version whose flush ran to its end
    loaded          \* history: version the last boot found in flash

vars == <<mirror, clock, nv_flsh_state, pc, intlock, power, expired, queue,
          locked, progress, others, flash, snap, durable, loaded>>

norflash == <<queue, locked, progress, others, flash>>
history  == <<snap, durable, loaded>>

Pages   == 0 .. NPages - 1
Copies  == {"main", "bak"}
Content == Nat \cup {Erased, Torn}

MainStates == {"IDLE", "MAIN_ERASING", "MAIN_ERASED", "MAIN_WRITTING", "MAIN_WRITTEN"}
BakStates  == {"MAIN_DONE", "BAK_ERASING", "BAK_ERASED", "BAK_WRITTING", "BAK_WRITTEN"}
States     == MainStates \cup BakStates

Node == [op : {"erase", "write"}, copy : Copies, data : [Pages -> Content]]

PCs == {"out", "loop", "merase", "merased", "mwrite", "mwritten", "mdrain", "mdone",
        "berase", "berased", "bstart", "bpage", "bdrain", "bdone"}

TypeOK ==
    /\ mirror \in Nat
    /\ clock \in Nat
    /\ nv_flsh_state \in [is_update : BOOLEAN, state : States, written_size : Nat]
    /\ pc \in [Threads -> PCs]
    /\ intlock \in Threads \cup {None}
    /\ power \in {"off", "boot", "on"}
    /\ expired \in BOOLEAN
    /\ queue \in Seq(Node)
    /\ locked \in BOOLEAN
    /\ progress \in Nat
    /\ others \in {"none", "buffer", "all"}
    /\ flash \in [Copies -> [Pages -> Content]]
    /\ snap \in Nat
    /\ durable \in Nat
    /\ loaded \in Nat

-----------------------------------------------------------------------------
(* What a boot finds in flash.                                             *)

Blank(x) == [p \in Pages |-> x]

\* nv_record_data_is_valid: magic, version, length and CRC agree, which they
\* do only when every page is from one and the same version.
Holds(c, v) == flash[c] = Blank(v)
nv_record_data_is_valid(c) == flash[c][0] \in Nat /\ Holds(c, flash[c][0])
VersionOf(c) == flash[c][0]

\* What nv_record_extension_init would load, 0 when it would rebuild.
Recovered ==
    IF nv_record_data_is_valid("main") THEN VersionOf("main")
    ELSE IF nv_record_data_is_valid("bak") THEN VersionOf("bak") ELSE 0

-----------------------------------------------------------------------------
(* The flash queue as its client sees it (norflash_api.cpp).               *)

\* Programming can only clear bits: a page that is not erased is spoilt by
\* different data, and 0xff leaves a page alone.
Program(old, new) ==
    IF new = Erased \/ new = old THEN old
    ELSE IF old = Erased THEN new ELSE Torn

IsLocked(i) == i = 1 /\ locked

\* _norflash_api_malloc: other clients may hold every node, or the only
\* sector buffer (FLASH_API_NORMAL: NORFLASH_API_WRITE_BUFF_LEN is 1).
NodeFree   == others # "all"
BufferFree == others = "none" /\ \A i \in DOMAIN queue : queue[i].op # "write"

EraseNode(c) == [op |-> "erase", copy |-> c, data |-> Blank(Erased)]
WriteNode(c, d) == [op |-> "write", copy |-> c, data |-> d]

\* _e_opera_add: unlocked nodes of the sector are dropped; a locked erase of
\* the same sector absorbs the new one.
Dropped(c) == {i \in DOMAIN queue : queue[i].copy = c /\ ~IsLocked(i)}
Kept(c) ==
    IF Dropped(c) = {} THEN queue
    ELSE FlattenSeq([i \in DOMAIN queue |->
                        IF i \in Dropped(c) THEN <<>> ELSE <<queue[i]>>])
EraseMerged(c) == locked /\ queue[1].op = "erase" /\ queue[1].copy = c

\* norflash_api_erase(c, async) returns NORFLASH_API_OK / BUFFER_FULL.
EraseOK(c) ==
    /\ EraseMerged(c) \/ NodeFree \/ Dropped(c) # {}
    /\ queue' = IF EraseMerged(c) THEN Kept(c) ELSE Append(Kept(c), EraseNode(c))
    /\ UNCHANGED <<locked, progress, others, flash>>
EraseFull(c) == ~EraseMerged(c) /\ ~NodeFree /\ Dropped(c) = {}

\* _w_opera_add: the newest unlocked write node of the sector takes the data,
\* unless an erase of the sector is newer; otherwise a new node is queued.
Overlay(old, new) == [p \in Pages |-> IF new[p] = Erased THEN old[p] ELSE new[p]]
Mergeable(c, i) ==
    /\ queue[i].op = "write" /\ queue[i].copy = c /\ ~IsLocked(i)
    /\ \A j \in DOMAIN queue : j > i => queue[j].copy # c

WriteOK(c, d) ==
    /\ \/ \E i \in DOMAIN queue :
            /\ Mergeable(c, i)
            /\ queue' = [queue EXCEPT ![i].data = Overlay(@, d)]
       \/ /\ \A i \in DOMAIN queue : ~Mergeable(c, i)
          /\ NodeFree /\ BufferFree
          /\ queue' = Append(queue, WriteNode(c, d))
    /\ UNCHANGED <<locked, progress, others, flash>>
WriteFull(c) ==
    /\ \A i \in DOMAIN queue : ~Mergeable(c, i)
    /\ ~(NodeFree /\ BufferFree)

\* norflash_api_read: the newest pending node of the sector, else the flash.
norflash_api_read(c, p) ==
    LET pending == {i \in DOMAIN queue : queue[i].copy = c}
    IN  IF pending = {} THEN flash[c][p]
        ELSE queue[CHOOSE i \in pending : \A j \in pending : j <= i].data[p]

Dequeue == queue' = Tail(queue) /\ locked' = FALSE /\ progress' = 0

\* _opera_flush on an erase node: the flash may finish it, or suspend it with
\* the sector in an arbitrary state.
FlushErase ==
    LET c == Head(queue).copy IN
    /\ Head(queue).op = "erase"
    /\ \/ flash' = [flash EXCEPT ![c] = Blank(Erased)] /\ Dequeue
       \/ /\ flash' = [flash EXCEPT ![c] = Blank(Torn)]
          /\ locked' = TRUE
          /\ UNCHANGED <<queue, progress>>

\* _opera_flush on a write node: the flash programs page after page and may
\* be suspended after each of them.
ProgramPage(p) ==
    flash' = [flash EXCEPT ![Head(queue).copy][p] = Program(@, Head(queue).data[p])]
FlushWrite ==
    /\ Head(queue).op = "write"
    /\ progress < NPages
    /\ ProgramPage(progress)
    /\ IF progress + 1 = NPages THEN Dequeue
       ELSE progress' = progress + 1 /\ locked' = TRUE /\ UNCHANGED queue

FlushOthers == others' = "none" /\ UNCHANGED <<queue, locked, progress, flash>>

\* norflash_api_flush: one step for this client or for another one, or none
\* because flushing is not allowed at present.
norflash_api_flush ==
    \/ queue # <<>> /\ (FlushErase \/ FlushWrite) /\ UNCHANGED others
    \/ FlushOthers
    \/ UNCHANGED norflash

-----------------------------------------------------------------------------
(* Boot and power loss.                                                    *)

\* The version made by nv_record_set_default on a blank device.
Default == 1

UpdateMark(b) == [nv_flsh_state EXCEPT !.is_update = b]
GoTo(s) == nv_flsh_state' = [nv_flsh_state EXCEPT !.state = s]
Jump(t, l) == pc' = [pc EXCEPT ![t] = l]

MainValid == nv_record_data_is_valid("main")
BakValid  == nv_record_data_is_valid("bak")

\* Which copy is loaded into the mirror: main, else backup, else the default.
LoadedBakFirst == IF BakValid THEN VersionOf("bak") ELSE IF MainValid THEN VersionOf("main") ELSE Default
LoadedVersion  == IF MainValid THEN VersionOf("main") ELSE IF BakValid THEN VersionOf("bak") ELSE Default

\* Which copy the flush at boot repairs: with a valid main copy only the
\* backup is rewritten first, otherwise the main copy is.
RepairNeeded      == ~(MainValid /\ BakValid)
RepairMainAlways  == "IDLE"
RepairBakAlways   == IF RepairNeeded THEN "MAIN_DONE" ELSE "IDLE"
RepairState       == IF MainValid /\ ~BakValid THEN "MAIN_DONE" ELSE "IDLE"

\* nv_record_extension_init, with the synchronous flush that ends it.
nv_record_extension_init ==
    /\ power = "off"
    /\ nv_flsh_state' = [is_update |-> RepairNeeded, state |-> RepairState, written_size |-> 0]
    /\ mirror' = LoadedVersion
    /\ clock' = IF clock = 0 THEN Default ELSE clock
    /\ snap' = IF MainValid THEN VersionOf("main") ELSE snap
    /\ loaded' = Recovered
    /\ IF RepairNeeded THEN power' = "boot" /\ Jump(Main, "loop")
       ELSE power' = "on" /\ UNCHANGED pc
    /\ expired' = FALSE
    /\ UNCHANGED <<intlock, norflash, durable>>

\* Power is lost, the watchdog bites or an ASSERT stops the firmware.  RAM is
\* gone, and the operation the flash was busy with leaves its target torn.
TornFlash ==
    {flash} \cup
    (IF queue = <<>> THEN {}
     ELSE LET n == Head(queue) IN
          IF n.op = "erase" THEN {[flash EXCEPT ![n.copy] = Blank(Torn)]}
          ELSE {[flash EXCEPT ![n.copy][progress] = Torn]})

Crash ==
    /\ power # "off"
    /\ power' = "off"
    /\ flash' \in TornFlash
    /\ queue' = <<>> /\ locked' = FALSE /\ progress' = 0
    /\ others' = "none"
    /\ pc' = [t \in Threads |-> "out"]
    /\ intlock' = None
    /\ mirror' = 0
    /\ nv_flsh_state' = [is_update |-> FALSE, state |-> "IDLE", written_size |-> 0]
    /\ expired' = FALSE
    /\ UNCHANGED <<clock, history>>

-----------------------------------------------------------------------------
(* The threads that change the record.                                     *)

Unlocked(t) == intlock \in {None, t}

\* nv_record_env_set and the other setters: the mirror changes and is_update
\* is raised under the lock, wherever the flushing threads are.
nv_record_env_set ==
    /\ power = "on" /\ intlock = None
    /\ clock < MaxVersion
    /\ clock' = clock + 1
    /\ mirror' = clock + 1
    /\ nv_flsh_state' = UpdateMark(TRUE)
    /\ UNCHANGED <<pc, intlock, power, expired, norflash, history>>

\* nv_record_rebuild: back to the default record, flushed at once with the
\* interrupt lock held from beginning to end.
nv_record_rebuild(t) ==
    /\ power = "on" /\ intlock = None
    /\ pc[t] = "out"
    /\ clock < MaxVersion
    /\ clock' = clock + 1
    /\ mirror' = clock + 1
    /\ nv_flsh_state' = UpdateMark(TRUE)
    /\ intlock' = t
    /\ Jump(t, "loop")
    /\ UNCHANGED <<power, expired, norflash, history>>

\* nv_record_flash_flush is called.
nv_record_flash_flush(t) ==
    /\ power = "on" /\ intlock = None
    /\ pc[t] = "out"
    /\ Jump(t, "loop")
    /\ UNCHANGED <<mirror, clock, nv_flsh_state, intlock, power, expired, norflash, history>>

-----------------------------------------------------------------------------
(* nv_record_extension_flush(false), step by step in thread t.  A step is  *)
(* what happens between two points where the interrupt lock is free.       *)

Step(t, l) == pc[t] = l /\ Unlocked(t)

record == <<mirror, clock>>
shell  == <<intlock, power, expired>>

\* The head of the do-while: return, or go where the state says.
FlushLoop(t) ==
    /\ Step(t, "loop")
    /\ IF nv_flsh_state.state = "IDLE" /\ ~nv_flsh_state.is_update
       THEN /\ Jump(t, "out")
            /\ intlock' = None
            /\ power' = "on"
            /\ expired' = FALSE
       ELSE /\ Jump(t, CASE nv_flsh_state.state \in {"IDLE", "MAIN_ERASING"} -> "merase"
                          [] nv_flsh_state.state \in {"MAIN_ERASED", "MAIN_WRITTING"} -> "mwrite"
                          [] nv_flsh_state.state = "MAIN_WRITTEN" -> "mdrain"
                          [] nv_flsh_state.state \in {"MAIN_DONE", "BAK_ERASING"} -> "berase"
                          [] nv_flsh_state.state \in {"BAK_ERASED", "BAK_WRITTING"} -> "bstart"
                          [] nv_flsh_state.state = "BAK_WRITTEN" -> "bdrain")
            /\ UNCHANGED shell
    /\ UNCHANGED <<record, nv_flsh_state, norflash, history>>

\* (variant: BUFFER_FULL is taken for success)
SyncEraseUnchecked(t, c, here, next) ==
    /\ Step(t, here)
    /\ \/ EraseOK(c)
       \/ EraseFull(c) /\ UNCHANGED norflash
    /\ Jump(t, next)
    /\ UNCHANGED <<record, nv_flsh_state, shell, history>>

\* An erase of copy c is queued; when the pool is exhausted the queue is
\* flushed and the erase tried again.
SyncErase(t, c, here, next) ==
    /\ Step(t, here)
    /\ \/ EraseOK(c) /\ Jump(t, next)
       \/ EraseFull(c) /\ norflash_api_flush /\ UNCHANGED pc
    /\ UNCHANGED <<record, nv_flsh_state, shell, history>>

\* The state is assigned after the lock has been released.
SyncState(t, here, s, next) ==
    /\ Step(t, here)
    /\ GoTo(s)
    /\ Jump(t, next)
    /\ UNCHANGED <<record, shell, norflash, history>>

SyncDrain(t, here, next) ==
    /\ Step(t, here)
    /\ norflash_api_flush
    /\ IF queue' = <<>> THEN Jump(t, next) ELSE UNCHANGED pc
    /\ UNCHANGED <<record, nv_flsh_state, shell, history>>

MainErase(t)  == SyncErase(t, "main", "merase", "merased")
MainErased(t) == SyncState(t, "merased", "MAIN_ERASED", "mwrite")

\* The whole mirror, with its CRC, is handed to the queue under the lock...
MainWrite(t) ==
    /\ Step(t, "mwrite")
    /\ \/ WriteOK("main", Blank(mirror)) /\ snap' = mirror /\ Jump(t, "mwritten")
       \/ WriteFull("main") /\ norflash_api_flush /\ UNCHANGED <<snap, pc>>
    /\ UNCHANGED <<record, nv_flsh_state, shell, durable, loaded>>

\* (variant: is_update stays high)
MainWrittenKeepsMark(t) == SyncState(t, "mwritten", "MAIN_WRITTEN", "mdrain")

\* ...and is_update is lowered after the lock has been released.
MainWritten(t) ==
    /\ Step(t, "mwritten")
    /\ nv_flsh_state' = [nv_flsh_state EXCEPT !.is_update = FALSE, !.state = "MAIN_WRITTEN"]
    /\ Jump(t, "mdrain")
    /\ UNCHANGED <<record, shell, norflash, history>>

MainDrain(t) == SyncDrain(t, "mdrain", "mdone")
MainDone(t)  == SyncState(t, "mdone", "MAIN_DONE", "loop")

BakErase(t)  == SyncErase(t, "bak", "berase", "berased")
BakErased(t) == SyncState(t, "berased", "BAK_ERASED", "bstart")

BakStart(t) ==
    /\ Step(t, "bstart")
    /\ nv_flsh_state' = [nv_flsh_state EXCEPT !.state = "BAK_WRITTING", !.written_size = 0]
    /\ Jump(t, "bpage")
    /\ UNCHANGED <<record, shell, norflash, history>>

\* One page read from the main copy and queued for the backup.
PageData(p) == [q \in Pages |-> IF q = p THEN norflash_api_read("main", p) ELSE Erased]
PageWritten ==
    LET ws == nv_flsh_state.written_size + 1 IN
    nv_flsh_state' = [nv_flsh_state EXCEPT
        !.written_size = ws, !.state = IF ws = NPages THEN "BAK_WRITTEN" ELSE @]

BakPage(t) ==
    /\ Step(t, "bpage")
    /\ nv_flsh_state.written_size \in Pages
    /\ \/ /\ WriteOK("bak", PageData(nv_flsh_state.written_size))
          /\ PageWritten
          /\ IF nv_flsh_state.written_size + 1 = NPages THEN Jump(t, "bdrain")
             ELSE UNCHANGED pc
       \/ /\ WriteFull("bak")
          /\ norflash_api_flush
          /\ UNCHANGED <<nv_flsh_state, pc>>
    /\ UNCHANGED <<record, shell, history>>

BakDrain(t) == SyncDrain(t, "bdrain", "bdone")

\* (variant: the machine stops in BAK_DONE)
BakDoneStays(t) ==
    /\ Step(t, "bdone")
    /\ GoTo("BAK_DONE")
    /\ Jump(t, "loop")
    /\ durable' = snap
    /\ UNCHANGED <<record, shell, norflash, snap, loaded>>

\* BAK_DONE, and at once IDLE: both copies have been written.
BakDone(t) ==
    /\ Step(t, "bdone")
    /\ GoTo("IDLE")
    /\ Jump(t, "loop")
    /\ durable' = snap
    /\ UNCHANGED <<record, shell, norflash, snap, loaded>>

SyncFlush(t) ==
    \/ FlushLoop(t)
    \/ MainErase(t) \/ MainErased(t) \/ MainWrite(t) \/ MainWritten(t)
    \/ MainDrain(t) \/ MainDone(t)
    \/ BakErase(t) \/ BakErased(t) \/ BakStart(t) \/ BakPage(t)
    \/ BakDrain(t) \/ BakDone(t)

-----------------------------------------------------------------------------
(* nv_record_extension_flush(true): one call takes one step of the state   *)
(* machine, with the interrupt lock held.                                  *)

\* Result 0 restarts the 20 minute interval, BUFFER_FULL does not.
AsyncErase(c, from, erasing, erased) ==
    /\ nv_flsh_state.state \in from
    /\ \/ EraseOK(c) /\ GoTo(erased) /\ expired' = FALSE
       \/ EraseFull(c) /\ norflash_api_flush /\ GoTo(erasing) /\ UNCHANGED expired
    /\ UNCHANGED history

AsyncMainErase ==
    /\ nv_flsh_state.state = "IDLE" => nv_flsh_state.is_update
    /\ AsyncErase("main", {"IDLE", "MAIN_ERASING"}, "MAIN_ERASING", "MAIN_ERASED")

AsyncMainWrite ==
    /\ nv_flsh_state.state \in {"MAIN_ERASED", "MAIN_WRITTING"}
    /\ \/ /\ WriteOK("main", Blank(mirror))
          /\ nv_flsh_state' =
                 [nv_flsh_state EXCEPT !.is_update = FALSE, !.state = "MAIN_WRITTEN"]
          /\ snap' = mirror
          /\ expired' = FALSE
       \/ /\ WriteFull("main")
          /\ norflash_api_flush
          /\ GoTo("MAIN_WRITTING")
          /\ UNCHANGED <<snap, expired>>
    /\ UNCHANGED <<durable, loaded>>

\* (variant: is_update is lowered when the write has reached flash)
AsyncMainDrainLowers ==
    /\ nv_flsh_state.state = "MAIN_WRITTEN"
    /\ IF queue = <<>>
       THEN /\ nv_flsh_state' = [nv_flsh_state EXCEPT !.is_update = FALSE, !.state = "MAIN_DONE"]
            /\ UNCHANGED norflash
       ELSE norflash_api_flush /\ UNCHANGED nv_flsh_state
    /\ expired' = FALSE
    /\ UNCHANGED history

AsyncMainDrain ==
    /\ nv_flsh_state.state = "MAIN_WRITTEN"
    /\ IF queue = <<>> THEN GoTo("MAIN_DONE") /\ UNCHANGED norflash
       ELSE norflash_api_flush /\ UNCHANGED nv_flsh_state
    /\ expired' = FALSE
    /\ UNCHANGED history

AsyncBakErase == AsyncErase("bak", {"MAIN_DONE", "BAK_ERASING"}, "BAK_ERASING", "BAK_ERASED")

\* The pages still missing are copied in one go: the first one gets a node or
\* finds the pool exhausted, the others join that node.
PagesAfter(k) == [q \in Pages |-> IF q > k THEN norflash_api_read("main", q) ELSE Erased]
PagesFrom(k) == [q \in Pages |-> IF q >= k THEN norflash_api_read("main", q) ELSE Erased]
AsyncBakWrite ==
    LET k == IF nv_flsh_state.state = "BAK_ERASED" THEN 0 ELSE nv_flsh_state.written_size IN
    /\ nv_flsh_state.state \in {"BAK_ERASED", "BAK_WRITTING"}
    /\ k \in Pages
    /\ \/ /\ WriteOK("bak", PagesFrom(k))
          /\ nv_flsh_state' =
                 [nv_flsh_state EXCEPT !.written_size = NPages, !.state = "BAK_WRITTEN"]
          /\ expired' = FALSE
       \/ /\ WriteFull("bak")
          /\ norflash_api_flush
          /\ nv_flsh_state' =
                 [nv_flsh_state EXCEPT !.written_size = k, !.state = "BAK_WRITTING"]
          /\ UNCHANGED expired
    /\ UNCHANGED history

AsyncBakDrain ==
    /\ nv_flsh_state.state = "BAK_WRITTEN"
    /\ IF queue = <<>>
       THEN GoTo("IDLE") /\ durable' = snap /\ UNCHANGED norflash
       ELSE norflash_api_flush /\ UNCHANGED <<nv_flsh_state, durable>>
    /\ expired' = FALSE
    /\ UNCHANGED <<snap, loaded>>

AsyncNothing ==
    /\ nv_flsh_state.state = "IDLE" /\ ~nv_flsh_state.is_update
    /\ expired' = FALSE
    /\ UNCHANGED <<nv_flsh_state, norflash, history>>

nv_record_execute_async_flush ==
    /\ power = "on" /\ intlock = None
    /\ \/ AsyncNothing
       \/ AsyncMainErase \/ AsyncMainWrite \/ AsyncMainDrain
       \/ AsyncBakErase \/ AsyncBakWrite \/ AsyncBakDrain
    /\ UNCHANGED <<record, pc, intlock, power>>

\* A thread asks for one step (app_sec.cpp after a pairing).
AsyncCall(t) == pc[t] = "out" /\ nv_record_execute_async_flush

\* (variant: the hook only continues a flush, it never starts one)
SleepHookNeverStarts ==
    /\ \A t \in Threads : pc[t] = "out"
    /\ nv_flsh_state.state # "IDLE"
    /\ nv_record_execute_async_flush

\* The sleep hook: no thread has work, and a new flush waits for the timer.
nv_record_flash_flush_in_sleep ==
    /\ \A t \in Threads : pc[t] = "out"
    /\ nv_flsh_state.state = "IDLE" => expired
    /\ nv_record_execute_async_flush

-----------------------------------------------------------------------------
(* The environment.                                                        *)

\* norflash_api_flush from its own sleep hook or from any other thread.
FlashHook ==
    /\ power = "on" /\ intlock = None
    /\ norflash_api_flush
    /\ UNCHANGED <<record, nv_flsh_state, pc, shell, history>>

\* Another client of norflash_api takes the buffer or all the nodes.
OthersTake ==
    /\ power = "on" /\ intlock = None
    /\ others' \in {"buffer", "all"}
    /\ UNCHANGED <<record, nv_flsh_state, pc, shell, queue, locked, progress, flash, history>>

\* NV_RECORD_FLUSH_EXECUTION_INTERVAL_MS has passed.
Tick ==
    /\ power = "on"
    /\ expired' = TRUE
    /\ UNCHANGED <<record, nv_flsh_state, pc, intlock, power, norflash, history>>

-----------------------------------------------------------------------------
Init ==
    /\ mirror = 0 /\ clock = 0
    /\ nv_flsh_state = [is_update |-> FALSE, state |-> "IDLE", written_size |-> 0]
    /\ pc = [t \in Threads |-> "out"]
    /\ intlock = None /\ power = "off" /\ expired = FALSE
    /\ queue = <<>> /\ locked = FALSE /\ progress = 0 /\ others = "none"
    /\ flash = [c \in Copies |-> Blank(Erased)]
    /\ snap = 0 /\ durable = 0 /\ loaded = 0

Next ==
    \/ nv_record_extension_init
    \/ Crash
    \/ nv_record_env_set
    \/ \E t \in Callers : nv_record_rebuild(t) \/ nv_record_flash_flush(t) \/ AsyncCall(t)
    \/ \E t \in Threads : SyncFlush(t)
    \/ nv_record_flash_flush_in_sleep
    \/ FlashHook
    \/ OthersTake
    \/ Tick

Spec == Init /\ [][Next]_vars
-----------------------------------------------------------------------------
(* Properties.                                                             *)

\* A record whose flush ran to its end is never lost, nor replaced by an
\* older one: whatever was being erased, copied or programmed when power was
\* lost, and however many power losses follow each other, the next
\* nv_record_extension_init finds a copy at least that new.
CrashSafe == durable > 0 => Recovered >= durable

\* Once flash holds a valid copy it always holds one: no step of a flush or
\* of a repair at boot, and no power loss, spoils both sectors at a time.
Recoverable == \E c \in Copies : nv_record_data_is_valid(c)
NeverLoseBoth == [][Recoverable => Recoverable']_vars

\* norflash programs a page only when it is erased or already holds the very
\* data: restarting the copy of the backup from page 0 in the middle of an
\* asynchronous one, or resuming after BUFFER_FULL, spoils nothing.
ProgramsErasedPages ==
    queue # <<>> /\ Head(queue).op = "write" =>
        LET n == Head(queue) IN
        \A p \in Pages : p >= progress =>
            flash[n.copy][p] \in {Erased, n.data[p]} \/ n.data[p] = Erased

\* When the flush machine rests, and before the next change, both sectors
\* hold a valid record: the backup the next flush will rely on is there.
RestsOnTwoCopies ==
    power = "on" /\ nv_flsh_state.state = "IDLE" /\ queue = <<>> /\ (\A t \in Threads : pc[t] = "out")
        => \A c \in Copies : nv_record_data_is_valid(c)

\* A change of the mirror is never forgotten: when the machine rests with
\* is_update low, flash holds the mirror.
NoLostUpdate ==
    power = "on" /\ nv_flsh_state.state = "IDLE" /\ ~nv_flsh_state.is_update
        => Recovered = mirror

\* A record that was found in flash at boot is still found at the next one.
SurvivesReboot == Recovered >= loaded

\* Every change of the mirror eventually reaches flash, unless a power loss
\* undoes it or a newer change replaces it first.
UpdateReachesFlash ==
    \A v \in 1 .. MaxVersion : (mirror = v) ~> (Recovered = v \/ mirror # v)

\* A synchronous flush comes to an end, however the pool, the hooks and the
\* threads that keep changing the record get in its way.
FlushReturns == \A t \in Threads : (pc[t] # "out") ~> (pc[t] = "out")

\* The flush machine keeps the promise of DurableRecord.
Durable == INSTANCE DurableRecord
             WITH mem <- mirror, newest <- clock, stored <- Recovered, floor <- durable
ImplementsDurable == Durable!DSpec

\* Boot runs, threads are scheduled, the sleep hooks are called again and
\* again, norflash serves its clients in turn and finishes what it suspends,
\* time passes, and the other clients do not hold the pool for ever.
Fairness ==
    /\ WF_vars(nv_record_extension_init)
    /\ \A t \in Threads :
          /\ WF_vars(SyncFlush(t))
          /\ SF_vars(SyncFlush(t) /\ <<pc, nv_flsh_state>>' # <<pc, nv_flsh_state>>)
    /\ WF_vars(FlashHook /\ <<queue, progress>>' # <<queue, progress>>)
    /\ WF_vars(FlashHook /\ FlushOthers)
    /\ WF_vars(Tick)
    /\ SF_vars(nv_record_flash_flush_in_sleep /\ nv_flsh_state' # nv_flsh_state)

FairSpec == Spec /\ Fairness
=============================================================================
