-------------------------- MODULE NvDurableProofs ---------------------------
(***************************************************************************)
(* More about NvRecord with one flushing thread: what is in flash between  *)
(* two completed flushes, and that the flush machine implements            *)
(* DurableRecord.  IInv says which copy is being changed; the invariant of *)
(* this module adds which versions the two copies can hold.                *)
(***************************************************************************)
EXTENDS NvRecordProofs

-----------------------------------------------------------------------------
(* The inductive invariant.                                                *)

\* A flush has handed its version (snap) to the queue and is not complete.
Late == pc[Main] = "mwritten" \/ nv_flsh_state.state \in {"MAIN_WRITTEN"} \cup BakStates

\* The mirror holds a version exactly while the power is on.
Awake == IF power = "off" THEN mirror = 0 ELSE mirror >= 1

\* A copy that a boot accepts holds a version that was made, and while the
\* power is on none that is newer than the mirror.
Made == \A c \in Copies : nv_record_data_is_valid(c) => flash[c][0] >= 1
NotNewer ==
    power # "off" => \A c \in Copies : nv_record_data_is_valid(c) => flash[c][0] <= mirror

\* The backup is never newer than the main copy, nor than the version that
\* is about to become the main copy.
BakFollows == MainValid /\ BakValid => flash["bak"][0] <= flash["main"][0]
BakBehindSnap ==
    power # "off" /\ Late => snap >= 1 /\ (BakValid => flash["bak"][0] <= snap)

\* When the main copy is the only valid one, nothing queued can spoil it.
OnlyMainIsSafe ==
    power # "off" /\ MainValid /\ ~BakValid =>
        Late /\ (queue = <<>> \/ Head(queue).copy = "bak")

\* The pages of the main copy that are still to be programmed are erased.
MainUnwritten ==
    queue # <<>> /\ Head(queue).op = "write" /\ Head(queue).copy = "main" =>
        \A p \in Pages : p >= progress => flash["main"][p] = Erased

\* The machine rests only on two valid copies; before the repair at boot has
\* begun it is marked to begin.
Rests == nv_flsh_state.state = "IDLE" /\ pc[Main] \in {"out", "loop", "merase"}
RestsValid ==
    power # "off" /\ Rests =>
        \/ power = "boot" /\ nv_flsh_state.is_update = TRUE
        \/ MainValid /\ BakValid

Versions ==
    /\ Awake /\ Made /\ NotNewer /\ BakFollows /\ BakBehindSnap
    /\ OnlyMainIsSafe /\ MainUnwritten /\ RestsValid

JInv == IInv /\ Versions

-----------------------------------------------------------------------------
(* Six kinds of steps.  Every action that leaves the power on is of one of *)
(* these kinds, and the kind is all the rest of the proof needs of it.     *)

SameRecord == UNCHANGED <<mirror, clock>>
SameLate   == Late' <=> Late

\* Queue and flash stay as they are; the mirror may change.
QuietKind ==
    /\ UNCHANGED <<queue, locked, progress, flash, snap, durable>>
    /\ SameLate
    /\ SameRecord \/ (clock' = clock + 1 /\ mirror' = clock + 1)

\* The flash works on the queue.
FlushKind == norflash_api_flush /\ SameRecord /\ UNCHANGED <<snap, durable>> /\ SameLate

\* The erase of a sector is queued: of the main one before snap is chosen,
\* of the backup after that.
EraseKind(c) ==
    /\ Erasing(c)' /\ flash' = flash
    /\ SameRecord /\ UNCHANGED <<snap, durable>> /\ SameLate
    /\ Late <=> c = "bak"

\* The mirror is queued for the main sector and becomes snap.
WriteMainKind ==
    /\ MainUnwritten' /\ flash' = flash
    /\ SameRecord /\ snap' = mirror /\ UNCHANGED durable
    /\ ~Late /\ Late'

\* Pages are queued for the backup.
WriteBakKind ==
    /\ queue' = <<>> \/ Head(queue').copy = "bak"
    /\ flash' = flash
    /\ SameRecord /\ UNCHANGED <<snap, durable>>
    /\ Late /\ Late'

\* Both copies hold snap: the flush is complete.
DoneKind ==
    /\ queue = <<>> /\ UNCHANGED <<queue, locked, progress, flash, snap>>
    /\ SameRecord /\ durable' = snap
    /\ \A c \in Copies : flash[c] = Blank(snap)
    /\ Late /\ ~Late'

\* The machine comes to rest only by completing a flush.
KeepsResting ==
    /\ Rests /\ flash' = flash
    /\ power = "boot" /\ nv_flsh_state.is_update = TRUE =>
           power' = "boot" /\ nv_flsh_state'.is_update = TRUE

StepKind ==
    /\ power # "off" /\ power' # "off"
    /\ Rests' => DoneKind \/ KeepsResting
    /\ \/ QuietKind \/ FlushKind \/ WriteMainKind \/ WriteBakKind \/ DoneKind
       \/ \E c \in Copies : EraseKind(c)

\* The stage tells whether a flush is late.
LEMMA LateStages ==
    ASSUME On
    PROVE  /\ MainStage /\ (Resting \/ ErasingMain) => ~Late
           /\ MainStage /\ WritingMain => Late
           /\ BakStage => Late
BY DEF On, MainStage, BakStage, Resting, ErasingMain, WritingMain, MainIsDone, ErasingBak,
       WritingBak, BakWrittenStage, BakIsDone, At, Late, BakStates

\* The state that a step assigns, and the label it jumps to, tell the same.
LEMMA LateAfter ==
    /\ pc'[Main] = "mwritten" => Late'
    /\ nv_flsh_state'.state \in {"MAIN_WRITTEN", "MAIN_DONE", "BAK_ERASING", "BAK_ERASED",
                                 "BAK_WRITTING", "BAK_WRITTEN"} => Late'
    /\ pc'[Main] # "mwritten" /\ nv_flsh_state'.state \in
           {"IDLE", "MAIN_ERASING", "MAIN_ERASED", "MAIN_WRITTING"} => ~Late'
BY DEF Late, BakStates

\* The erase of a sector is queued, or the pool is exhausted.
LEMMA SyncEraseKind ==
    ASSUME Threads = {Main}, IInv, MainErase(Main) \/ BakErase(Main)
    PROVE  StepKind
<1>1. On /\ PcType /\ StateType /\ QueueOK /\ power' = power /\ UNCHANGED nv_flsh_state
      /\ SameRecord /\ UNCHANGED <<snap, durable>>
  BY Labels DEF IInv, MainErase, BakErase, SyncErase, Step, record, shell, history, SameRecord
<1>2. CASE MainErase(Main)
  <2>1. pc[Main] = "merase" /\ MainStage /\ Resting /\ ~Late /\ queue = <<>>
    BY <1>1, <1>2, Labels, LateStages DEF MainErase, SyncErase, Step, Resting
  <2>2. CASE EraseOK("main") /\ Jump(Main, "merased")
    <3>1. Erasing("main")' /\ flash' = flash
      BY <1>1, <2>1, <2>2, EraseStart, Others
    <3>2. pc'[Main] = "merased"
      BY <1>1, <2>2, Jumps, LabelsAreLabels
    <3>3. ~Late' /\ ~Rests'
      BY <1>1, <2>1, <3>2, LateAfter DEF Rests, Resting, At
    <3>4. EraseKind("main")
      BY <1>1, <2>1, <3>1, <3>3 DEF EraseKind, SameLate
    <3>q. QED BY <1>1, <3>3, <3>4, Others DEF StepKind, On
  <2>3. CASE norflash_api_flush /\ UNCHANGED pc
    <3>1. flash' = flash /\ (Late' <=> Late) /\ (Rests' <=> Rests)
      BY <1>1, <2>1, <2>3, FlushIdle DEF Late, Rests
    <3>q. QED BY <1>1, <2>3, <3>1 DEF StepKind, FlushKind, KeepsResting, SameLate, On
  <2>q. QED BY <1>2, <2>2, <2>3 DEF MainErase, SyncErase
<1>3. CASE BakErase(Main)
  <2>1. pc[Main] = "berase" /\ BakStage /\ MainIsDone /\ Late /\ queue = <<>>
        /\ nv_flsh_state.state \in {"MAIN_DONE", "BAK_ERASING"}
    BY <1>1, <1>3, Labels, LateStages DEF BakErase, SyncErase, Step, MainIsDone, At
  <2>0. Late' /\ ~Rests'
    BY <1>1, <2>1, LateAfter DEF Rests
  <2>2. CASE EraseOK("bak") /\ Jump(Main, "berased")
    <3>1. Erasing("bak")' /\ flash' = flash
      BY <1>1, <2>1, <2>2, EraseStart, Others
    <3>4. EraseKind("bak")
      BY <1>1, <2>0, <2>1, <3>1 DEF EraseKind, SameLate
    <3>q. QED BY <1>1, <2>0, <3>4, Others DEF StepKind, On
  <2>3. CASE norflash_api_flush /\ UNCHANGED pc
    BY <1>1, <2>0, <2>1, <2>3 DEF StepKind, FlushKind, SameLate, On
  <2>q. QED BY <1>3, <2>2, <2>3 DEF BakErase, SyncErase
<1>q. QED BY <1>2, <1>3

\* The assignments made after a lock has been released, and the head of the
\* loop.
LEMMA SyncQuietKind ==
    ASSUME Threads = {Main}, IInv,
           \/ MainErased(Main) \/ MainWritten(Main) \/ MainDone(Main)
           \/ BakErased(Main) \/ BakStart(Main) \/ FlushLoop(Main)
    PROVE  StepKind
<1>1. On /\ PcType /\ StateType /\ SameRecord
      /\ UNCHANGED <<queue, locked, progress, flash, snap, durable>>
  BY Labels DEF IInv, MainErased, MainWritten, MainDone, BakErased, BakStart, FlushLoop,
     SyncState, Step, record, norflash, history, SameRecord
<1>2. ASSUME power' = power, SameLate, ~Rests'
      PROVE  StepKind
  BY <1>1, <1>2 DEF StepKind, QuietKind, On
<1>3. CASE MainErased(Main)
  <2>1. pc[Main] = "merased" /\ ErasingMain /\ MainStage /\ ~Late /\ power' = power
        /\ GoTo("MAIN_ERASED") /\ Jump(Main, "mwrite")
    BY <1>1, <1>3, Labels, LateStages DEF MainErased, SyncState, Step, shell
  <2>2. pc'[Main] = "mwrite" /\ nv_flsh_state'.state = "MAIN_ERASED"
    BY <1>1, <2>1, Jumps, GoesTo, LabelsAreLabels DEF States, MainStates
  <2>q. QED BY <1>2, <2>1, <2>2, LateAfter DEF SameLate, Rests
<1>4. CASE MainWritten(Main)
  <2>1. pc[Main] = "mwritten" /\ WritingMain /\ MainStage /\ Late /\ power' = power
    BY <1>1, <1>4, Labels, LateStages DEF MainWritten, Step, shell
  <2>2. nv_flsh_state'.state = "MAIN_WRITTEN"
    BY <1>1, <1>4 DEF MainWritten, StateType
  <2>q. QED BY <1>2, <2>1, <2>2, LateAfter DEF SameLate, Rests
<1>5. CASE MainDone(Main)
  <2>1. BakStage /\ Late /\ power' = power /\ GoTo("MAIN_DONE")
    BY <1>1, <1>5, Labels, LateStages DEF MainDone, SyncState, Step, shell
  <2>2. nv_flsh_state'.state = "MAIN_DONE"
    BY <1>1, <2>1, GoesTo DEF States, BakStates
  <2>q. QED BY <1>2, <2>1, <2>2, LateAfter DEF SameLate, Rests
<1>6. CASE BakErased(Main)
  <2>1. BakStage /\ Late /\ power' = power /\ GoTo("BAK_ERASED")
    BY <1>1, <1>6, Labels, LateStages DEF BakErased, SyncState, Step, shell
  <2>2. nv_flsh_state'.state = "BAK_ERASED"
    BY <1>1, <2>1, GoesTo DEF States, BakStates
  <2>q. QED BY <1>2, <2>1, <2>2, LateAfter DEF SameLate, Rests
<1>7. CASE BakStart(Main)
  <2>1. BakStage /\ Late /\ power' = power
    BY <1>1, <1>7, Labels, LateStages DEF BakStart, Step, shell
  <2>2. nv_flsh_state'.state = "BAK_WRITTING"
    BY <1>1, <1>7 DEF BakStart, StateType
  <2>q. QED BY <1>2, <2>1, <2>2, LateAfter DEF SameLate, Rests
<1>8. CASE FlushLoop(Main)
  <2>1. pc[Main] = "loop" /\ UNCHANGED nv_flsh_state /\ power' # "off"
    BY <1>1, <1>8 DEF FlushLoop, Step, shell, On
  <2>2. pc'[Main] # "mwritten"
    <3>1. CASE Jump(Main, "out")
      BY <1>1, <3>1, Jumps, LabelsAreLabels
    <3>2. CASE ~Jump(Main, "out")
      <4>1. \E l \in PCs : Jump(Main, l) /\ l # "mwritten"
        BY <1>1, <1>8, <3>2, LabelsAreLabels DEF FlushLoop, StateType, States, MainStates, BakStates
      <4>q. QED BY <1>1, <4>1, Jumps
    <3>q. QED BY <3>1, <3>2
  <2>3. SameLate /\ (Rests' => Rests)
    BY <2>1, <2>2 DEF SameLate, Late, Rests
  <2>4. Rests' => KeepsResting
    BY <1>1, <1>8, <2>1, <2>3 DEF KeepsResting, FlushLoop, shell
  <2>q. QED BY <1>1, <2>1, <2>3, <2>4 DEF StepKind, QuietKind, On
<1>q. QED BY <1>3, <1>4, <1>5, <1>6, <1>7, <1>8

\* A write to the main sector lands behind its erase, or in an empty sector.
LEMMA WriteMainUnwritten ==
    ASSUME FlashType, QueueOK, Erasing("main"), WriteOK("main", Blank(mirror))
    PROVE  MainUnwritten' /\ flash' = flash
<1>1. UNCHANGED <<flash, progress>>
  BY DEF WriteOK
<1>2. CASE queue = <<EraseNode("main")>>
  <2>1. DOMAIN queue = {1} /\ queue[1].op = "erase"
    BY <1>2 DEF EraseNode
  <2>2. \A i \in DOMAIN queue : ~Mergeable("main", i)
    BY <2>1 DEF Mergeable
  <2>3. queue' = Append(queue, WriteNode("main", Blank(mirror)))
    BY <2>2 DEF WriteOK
  <2>4. Head(queue') = EraseNode("main")
    BY <1>2, <2>3
  <2>q. QED BY <1>1, <2>4 DEF MainUnwritten, EraseNode
<1>3. CASE queue = <<>> /\ flash["main"] = Blank(Erased)
  BY <1>1, <1>3 DEF MainUnwritten, Blank
<1>q. QED BY <1>2, <1>3 DEF Erasing

\* The mirror is handed to the queue, or the pool is exhausted.
LEMMA MainWriteKind ==
    ASSUME Threads = {Main}, IInv, MainWrite(Main)
    PROVE  StepKind
<1>1. pc[Main] = "mwrite" /\ power' = power /\ UNCHANGED <<nv_flsh_state, durable>> /\ SameRecord
  BY DEF MainWrite, Step, record, shell, SameRecord
<1>2. On /\ MainStage /\ ErasingMain /\ ~Late /\ PcType
  BY <1>1, Labels, LateStages DEF IInv
<1>3. CASE WriteOK("main", Blank(mirror)) /\ snap' = mirror /\ Jump(Main, "mwritten")
  <2>1. MainUnwritten' /\ flash' = flash
    BY <1>2, <1>3, WriteMainUnwritten DEF IInv, FlashOK, ErasingMain
  <2>2. pc'[Main] = "mwritten"
    BY <1>2, <1>3, Jumps, LabelsAreLabels
  <2>q. QED BY <1>1, <1>2, <1>3, <2>1, <2>2, LateAfter DEF StepKind, WriteMainKind, Rests, On
<1>4. CASE norflash_api_flush /\ UNCHANGED <<snap, pc>>
  BY <1>1, <1>2, <1>4 DEF StepKind, FlushKind, SameLate, Late, Rests, On
<1>q. QED BY <1>3, <1>4 DEF MainWrite

\* While the backup is rewritten the queue holds nothing of the main copy.
LEMMA BakHead ==
    ASSUME BakStage'
    PROVE  queue' = <<>> \/ Head(queue').copy = "bak"
<1>1. CASE queue' = <<EraseNode("bak")>>
  BY <1>1 DEF EraseNode
<1>2. ASSUME NEW d, queue' = <<EraseNode("bak"), WriteNode("bak", d)>>
      PROVE  Head(queue').copy = "bak"
  BY <1>2 DEF EraseNode
<1>3. ASSUME NEW d, queue' = <<WriteNode("bak", d)>>
      PROVE  Head(queue').copy = "bak"
  BY <1>3 DEF WriteNode
<1>5. ASSUME NEW k, Copying("bak", k, snap)'
      PROVE  queue' = <<>> \/ Head(queue').copy = "bak"
  BY <1>1, <1>2, <1>3, <1>5 DEF Copying, CopyingErase, CopyingBoth, CopyingWrite, CopyingDone
<1>6. \/ queue' = <<>> \/ Copying("bak", 0, snap)' \/ Copying("bak", NPages, snap)'
      \/ Copying("bak", nv_flsh_state.written_size, snap)'
  BY DEF BakStage, MainIsDone, ErasingBak, WritingBak, BakWrittenStage, BakIsDone
<1>7. Copying("bak", nv_flsh_state.written_size, snap)' => queue' = <<>> \/ Head(queue').copy = "bak"
  BY <1>1, <1>2, <1>3 DEF Copying, CopyingErase, CopyingBoth, CopyingWrite, CopyingDone
<1>q. QED BY <1>5, <1>6, <1>7

\* One page is handed to the queue, or the pool is exhausted.
LEMMA BakPageKind ==
    ASSUME Threads = {Main}, IInv, BakPage(Main)
    PROVE  StepKind
<1>1. pc[Main] = "bpage" /\ power' = power /\ UNCHANGED <<snap, durable>> /\ SameRecord
  BY DEF BakPage, Step, record, shell, history, SameRecord
<1>2. On /\ BakStage /\ WritingBak /\ Late /\ PcType /\ StateType /\ nv_flsh_state.state = "BAK_WRITTING"
  BY <1>1, Labels, LateStages DEF IInv, WritingBak, At
<1>3. CASE /\ WriteOK("bak", PageData(nv_flsh_state.written_size)) /\ PageWritten
  <2>1. nv_flsh_state'.state \in {"BAK_WRITTING", "BAK_WRITTEN"}
    BY <1>2, <1>3 DEF PageWritten, StateType
  <2>2. IInv'
    BY BakPageInv
  <2>3. On'
    BY <1>1, <1>2, <2>2 DEF IInv, On, Off
  <2>4. Late' /\ ~Rests'
    BY <2>1, LateAfter DEF Rests
  <2>5. BakStage'
    BY <2>1, <2>3 DEF On, MainStage, Resting, ErasingMain, WritingMain, At
  <2>6. queue' = <<>> \/ Head(queue').copy = "bak"
    BY <2>5, BakHead
  <2>7. flash' = flash
    BY <1>3 DEF WriteOK
  <2>q. QED BY <1>1, <1>2, <2>4, <2>6, <2>7 DEF StepKind, WriteBakKind, On
<1>4. CASE norflash_api_flush /\ UNCHANGED <<nv_flsh_state, pc>>
  BY <1>1, <1>2, <1>4 DEF StepKind, FlushKind, SameLate, Late, Rests, On
<1>q. QED BY <1>3, <1>4 DEF BakPage

\* The loops that wait until a copy is in flash.
LEMMA DrainKind ==
    ASSUME Threads = {Main}, IInv, MainDrain(Main) \/ BakDrain(Main)
    PROVE  StepKind
<1>1. /\ norflash_api_flush /\ power' = power /\ SameRecord /\ PcType
      /\ UNCHANGED <<snap, durable, nv_flsh_state>>
      /\ pc[Main] \in {"mdrain", "bdrain"}
  BY DEF IInv, MainDrain, BakDrain, SyncDrain, Step, record, shell, history, SameRecord
<1>2. On /\ nv_flsh_state.state \in {"MAIN_WRITTEN", "BAK_WRITTEN"}
  BY <1>1, Labels DEF WritingMain, BakWrittenStage, At
<1>3. Late /\ Late' /\ ~Rests'
  BY <1>1, <1>2, LateAfter DEF Late, BakStates, Rests
<1>q. QED BY <1>1, <1>2, <1>3 DEF StepKind, FlushKind, SameLate, On

\* BAK_DONE: the flush is complete.
LEMMA BakDoneKind ==
    ASSUME Threads = {Main}, IInv, BakDone(Main)
    PROVE  StepKind
<1>1. /\ pc[Main] = "bdone" /\ UNCHANGED <<power, snap, queue, locked, progress, flash>>
      /\ SameRecord /\ GoTo("IDLE") /\ Jump(Main, "loop") /\ durable' = snap
  BY DEF BakDone, Step, record, shell, norflash, SameRecord
<1>2. On /\ BakStage /\ BakIsDone /\ PcType /\ StateType /\ Late
  BY <1>1, Labels, LateStages DEF IInv
<1>3. pc'[Main] = "loop" /\ nv_flsh_state'.state = "IDLE"
  BY <1>1, <1>2, Jumps, GoesTo, LabelsAreLabels DEF States, MainStates
<1>4. \A c \in Copies : flash[c] = Blank(snap)
  BY <1>2 DEF BakStage, BakIsDone, Copies
<1>5. DoneKind
  BY <1>1, <1>2, <1>3, <1>4, LateAfter DEF DoneKind, BakIsDone
<1>q. QED BY <1>1, <1>2, <1>5 DEF StepKind, On

\* Every step of the synchronous flush.
LEMMA SyncKind ==
    ASSUME Threads = {Main}, IInv, SyncFlush(Main)
    PROVE  StepKind
BY SyncEraseKind, SyncQuietKind, MainWriteKind, BakPageKind, DrainKind, BakDoneKind DEF SyncFlush

\* A step that touches neither the flush state nor the labels leaves a flush
\* as late, and the machine as much at rest, as it was.
LEMMA SameState ==
    ASSUME nv_flsh_state'.state = nv_flsh_state.state, pc'[Main] = pc[Main]
    PROVE  SameLate /\ (Rests' <=> Rests)
BY DEF SameLate, Late, Rests

\* A flush of an empty queue does nothing, so that a machine at rest stays so.
LEMMA FlushAtRest ==
    ASSUME IInv, On, Rests, norflash_api_flush
    PROVE  flash' = flash
<1>1. queue = <<>>
  BY DEF On, Rests, MainStage, BakStage, Resting, ErasingMain, WritingMain, MainIsDone,
         ErasingBak, WritingBak, BakWrittenStage, BakIsDone, At
<1>q. QED BY <1>1, FlushIdle DEF IInv

\* One step of the asynchronous flush.
LEMMA AsyncKind ==
    ASSUME Threads = {Main}, IInv, pc[Main] = "out", nv_record_execute_async_flush
    PROVE  StepKind
<1>1. On /\ SameRecord /\ UNCHANGED <<pc, power>> /\ power # "off" /\ StateType /\ QueueOK /\ FlashType
  BY PoweredOn DEF nv_record_execute_async_flush, record, SameRecord, IInv, FlashOK
<1>2. CASE AsyncNothing
  <2>1. UNCHANGED <<nv_flsh_state, queue, locked, progress, flash, snap, durable>>
    BY <1>2 DEF AsyncNothing, norflash, history
  <2>2. SameLate /\ (Rests' <=> Rests)
    BY <1>1, <2>1, SameState
  <2>q. QED BY <1>1, <2>1, <2>2 DEF StepKind, QuietKind, KeepsResting
<1>3. CASE AsyncMainErase
  <2>1. MainStage /\ Resting /\ ~Late /\ queue = <<>> /\ UNCHANGED <<snap, durable>>
    BY <1>1, <1>3, StatesTell, LateStages DEF AsyncMainErase, AsyncErase, history, Resting
  <2>2. CASE EraseOK("main") /\ GoTo("MAIN_ERASED")
    <3>1. Erasing("main")' /\ flash' = flash
      BY <1>1, <2>1, <2>2, EraseStart, Others
    <3>2. nv_flsh_state'.state = "MAIN_ERASED"
      BY <1>1, <2>2, GoesTo DEF States, MainStates
    <3>3. ~Late' /\ ~Rests'
      BY <1>1, <3>2, LateAfter DEF Rests
    <3>4. EraseKind("main")
      BY <1>1, <2>1, <3>1, <3>3 DEF EraseKind, SameLate
    <3>q. QED BY <1>1, <3>3, <3>4, Others DEF StepKind
  <2>3. CASE norflash_api_flush /\ GoTo("MAIN_ERASING")
    <3>1. nv_flsh_state'.state = "MAIN_ERASING"
      BY <1>1, <2>3, GoesTo DEF States, MainStates
    <3>2. ~Late' /\ ~Rests'
      BY <1>1, <3>1, LateAfter DEF Rests
    <3>q. QED BY <1>1, <2>1, <2>3, <3>2 DEF StepKind, FlushKind, SameLate
  <2>q. QED BY <1>3, <2>2, <2>3 DEF AsyncMainErase, AsyncErase
<1>4. CASE AsyncMainWrite
  <2>1. MainStage /\ ErasingMain /\ ~Late /\ UNCHANGED durable
    BY <1>1, <1>4, StatesTell, LateStages DEF AsyncMainWrite
  <2>2. CASE /\ WriteOK("main", Blank(mirror)) /\ snap' = mirror
             /\ nv_flsh_state' = [nv_flsh_state EXCEPT !.is_update = FALSE, !.state = "MAIN_WRITTEN"]
    <3>1. MainUnwritten' /\ flash' = flash
      BY <1>1, <2>1, <2>2, WriteMainUnwritten DEF ErasingMain
    <3>2. nv_flsh_state'.state = "MAIN_WRITTEN"
      BY <1>1, <2>2 DEF StateType
    <3>q. QED BY <1>1, <2>1, <2>2, <3>1, <3>2, LateAfter DEF StepKind, WriteMainKind, Rests
  <2>3. CASE norflash_api_flush /\ GoTo("MAIN_WRITTING") /\ UNCHANGED snap
    <3>1. nv_flsh_state'.state = "MAIN_WRITTING"
      BY <1>1, <2>3, GoesTo DEF States, MainStates
    <3>2. ~Late' /\ ~Rests'
      BY <1>1, <3>1, LateAfter DEF Rests
    <3>q. QED BY <1>1, <2>1, <2>3, <3>2 DEF StepKind, FlushKind, SameLate
  <2>q. QED BY <1>4, <2>2, <2>3 DEF AsyncMainWrite
<1>5. CASE AsyncMainDrain
  <2>1. MainStage /\ WritingMain /\ Late /\ UNCHANGED <<snap, durable>>
    BY <1>1, <1>5, StatesTell, LateStages DEF AsyncMainDrain, history
  <2>2. CASE GoTo("MAIN_DONE") /\ UNCHANGED norflash
    <3>1. nv_flsh_state'.state = "MAIN_DONE"
      BY <1>1, <2>2, GoesTo DEF States, BakStates
    <3>q. QED BY <1>1, <2>1, <2>2, <3>1, LateAfter DEF StepKind, QuietKind, SameLate, Rests, norflash
  <2>3. CASE norflash_api_flush /\ UNCHANGED nv_flsh_state
    BY <1>1, <2>1, <2>3, SameState, FlushAtRest DEF StepKind, FlushKind, KeepsResting
  <2>q. QED BY <1>5, <2>2, <2>3 DEF AsyncMainDrain
<1>6. CASE AsyncBakErase
  <2>1. BakStage /\ MainIsDone /\ Late /\ queue = <<>> /\ UNCHANGED <<snap, durable>>
    BY <1>1, <1>6, StatesTell, LateStages DEF AsyncBakErase, AsyncErase, history, MainIsDone
  <2>2. CASE EraseOK("bak") /\ GoTo("BAK_ERASED")
    <3>1. Erasing("bak")' /\ flash' = flash
      BY <1>1, <2>1, <2>2, EraseStart, Others
    <3>2. nv_flsh_state'.state = "BAK_ERASED"
      BY <1>1, <2>2, GoesTo DEF States, BakStates
    <3>3. Late' /\ ~Rests'
      BY <1>1, <3>2, LateAfter DEF Rests
    <3>4. EraseKind("bak")
      BY <1>1, <2>1, <3>1, <3>3 DEF EraseKind, SameLate
    <3>q. QED BY <1>1, <3>3, <3>4, Others DEF StepKind
  <2>3. CASE norflash_api_flush /\ GoTo("BAK_ERASING")
    <3>1. nv_flsh_state'.state = "BAK_ERASING"
      BY <1>1, <2>3, GoesTo DEF States, BakStates
    <3>2. Late' /\ ~Rests'
      BY <1>1, <3>1, LateAfter DEF Rests
    <3>q. QED BY <1>1, <2>1, <2>3, <3>2 DEF StepKind, FlushKind, SameLate
  <2>q. QED BY <1>6, <2>2, <2>3 DEF AsyncBakErase, AsyncErase
<1>7. CASE AsyncBakWrite
  <2>1. BakStage /\ Late /\ UNCHANGED <<snap, durable>>
    BY <1>1, <1>7, StatesTell, LateStages DEF AsyncBakWrite, history
  <2>2. nv_flsh_state'.state \in {"BAK_WRITTING", "BAK_WRITTEN"}
    BY <1>1, <1>7 DEF AsyncBakWrite, StateType
  <2>3. Late' /\ ~Rests'
    BY <2>2, LateAfter DEF Rests
  <2>4. norflash_api_flush \/ flash' = flash
    BY <1>7 DEF AsyncBakWrite, WriteOK
  <2>5. queue' = <<>> \/ Head(queue').copy = "bak"
    <3>1. On'
      BY <1>1, AsyncInv DEF IInv, Off
    <3>2. BakStage'
      BY <2>2, <3>1 DEF On, MainStage, Resting, ErasingMain, WritingMain, At
    <3>q. QED BY <3>2, BakHead
  <2>q. QED BY <1>1, <2>1, <2>3, <2>4, <2>5 DEF StepKind, FlushKind, WriteBakKind, SameLate
<1>8. CASE AsyncBakDrain
  <2>1. BakStage /\ BakWrittenStage /\ Late /\ UNCHANGED snap /\ snap \in Nat
    BY <1>1, <1>8, StatesTell, LateStages DEF AsyncBakDrain, IInv, Numbers
  <2>2. CASE queue = <<>> /\ GoTo("IDLE") /\ durable' = snap /\ UNCHANGED norflash
    <3>1. nv_flsh_state'.state = "IDLE"
      BY <1>1, <2>2, GoesTo DEF States, MainStates
    <3>2. flash["bak"] = Blank(snap) /\ flash["main"] = Blank(snap)
      BY <2>1, <2>2, Others, CopyComplete DEF BakWrittenStage, BakStage
    <3>3. DoneKind
      BY <1>1, <2>1, <2>2, <3>1, <3>2, LateAfter DEF DoneKind, norflash, Copies
    <3>q. QED BY <1>1, <3>3 DEF StepKind
  <2>3. CASE norflash_api_flush /\ UNCHANGED <<nv_flsh_state, durable>>
    BY <1>1, <2>1, <2>3, SameState, FlushAtRest DEF StepKind, FlushKind, KeepsResting
  <2>q. QED BY <1>8, <2>2, <2>3 DEF AsyncBakDrain
<1>q. QED BY <1>2, <1>3, <1>4, <1>5, <1>6, <1>7, <1>8 DEF nv_record_execute_async_flush

\* Every step that neither boots nor loses power is of one of the kinds.
LEMMA Kinds ==
    ASSUME Threads = {Main}, IInv, Next
    PROVE  StepKind \/ nv_record_extension_init \/ Crash
<1>1. ASSUME power # "off", power' = power, UNCHANGED <<queue, locked, progress, flash, snap, durable>>,
             nv_flsh_state'.state = nv_flsh_state.state,
             nv_flsh_state'.is_update = TRUE \/ UNCHANGED nv_flsh_state,
             SameRecord \/ (clock' = clock + 1 /\ mirror' = clock + 1),
             \/ pc'[Main] = pc[Main]
             \/ pc[Main] = "out" /\ pc'[Main] = "loop"
      PROVE  StepKind
  <2>1. SameLate /\ (Rests' <=> Rests)
    BY <1>1 DEF SameLate, Late, Rests
  <2>q. QED BY <1>1, <2>1 DEF StepKind, QuietKind, KeepsResting
<1>2. PcType /\ StateType
  BY DEF IInv
<1>3. CASE nv_record_env_set
  BY <1>1, <1>2, <1>3 DEF nv_record_env_set, UpdateMark, StateType, norflash, history
<1>4. ASSUME NEW t \in Callers, nv_record_rebuild(t) \/ nv_record_flash_flush(t) \/ AsyncCall(t)
      PROVE  StepKind
  <2>1. t = Main
    BY ThreadsAssumption
  <2>2. CASE nv_record_rebuild(t)
    <3>1. pc[Main] = "out" /\ pc'[Main] = "loop"
      BY <1>2, <2>1, <2>2, Jumps, LabelsAreLabels DEF nv_record_rebuild
    <3>q. QED BY <1>1, <1>2, <2>2, <3>1 DEF nv_record_rebuild, UpdateMark, StateType, norflash, history
  <2>3. CASE nv_record_flash_flush(t)
    <3>1. pc[Main] = "out" /\ pc'[Main] = "loop"
      BY <1>2, <2>1, <2>3, Jumps, LabelsAreLabels DEF nv_record_flash_flush
    <3>q. QED BY <1>1, <2>3, <3>1 DEF nv_record_flash_flush, norflash, history, SameRecord
  <2>q. QED BY <1>4, <2>1, <2>2, <2>3, AsyncKind DEF AsyncCall
<1>5. CASE FlashHook
  BY <1>5, PoweredOn, SameState, FlushAtRest
  DEF FlashHook, record, shell, history, StepKind, FlushKind, KeepsResting, SameRecord
<1>6. CASE OthersTake \/ Tick
  BY <1>1, <1>6 DEF OthersTake, Tick, record, shell, norflash, history, SameRecord
<1>q. QED BY <1>3, <1>4, <1>5, <1>6, SyncKind, AsyncKind DEF Next, nv_record_flash_flush_in_sleep

-----------------------------------------------------------------------------
(* What a step does to the two copies.                                     *)

\* norflash_api_flush changes the sector at the head of the queue: of the
\* main one while the main copy is written, of the backup after that.  What
\* becomes valid is snap, and it does when the last page is programmed.
LEMMA FlushEffect ==
    ASSUME IInv, On, norflash_api_flush, UNCHANGED snap
    PROVE  /\ MainStage => flash'["bak"] = flash["bak"]
           /\ BakStage => flash'["main"] = flash["main"]
           /\ \A c \in Copies :
                 nv_record_data_is_valid(c)' =>
                     flash'[c] = flash[c] \/ (flash'[c][0] = snap /\ Late)
<1>1. FlashType /\ QueueOK /\ snap \in Nat /\ Numbers
  BY DEF IInv, FlashOK, Numbers
<1>2. ASSUME NEW c \in Copies, flash'[c] \in {Blank(Erased), Blank(Torn)}
      PROVE  ~nv_record_data_is_valid(c)'
  BY <1>2, ContentAssumption, PagesZero DEF nv_record_data_is_valid, Blank
<1>3. ASSUME NEW c \in Copies, Touches(c, snap), Late
      PROVE  /\ flash'[OtherCopy(c)] = flash[OtherCopy(c)]
             /\ \A e \in Copies :
                   nv_record_data_is_valid(e)' =>
                       flash'[e] = flash[e] \/ (flash'[e][0] = snap /\ Late)
  <2>1. \A e \in Copies : e = c \/ e = OtherCopy(c)
    BY DEF Copies, OtherCopy
  <2>2. flash'[c] \in VersionPages(snap) /\ nv_record_data_is_valid(c)' => flash'[c][0] = snap
    BY PagesZero, ContentAssumption DEF VersionPages, nv_record_data_is_valid
  <2>q. QED BY <1>2, <1>3, <2>1, <2>2 DEF Touches
<1>4. CASE queue = <<>>
  BY <1>1, <1>4, FlushIdle
<1>5. ASSUME MainStage, ErasingMain
      PROVE  /\ flash'["bak"] = flash["bak"]
             /\ \A c \in Copies : nv_record_data_is_valid(c)' => flash'[c] = flash[c]
  <2>1. Wipes("main")
    BY <1>1, <1>5, FlushErasing, Others DEF ErasingMain
  <2>q. QED BY <1>2, <2>1, Others DEF Wipes, Copies
<1>6. ASSUME MainStage, WritingMain
      PROVE  Touches("main", snap) /\ Late
  <2>1. ASSUME NEW v \in Nat, v = snap
        PROVE  Touches("main", v)
    BY <1>1, <1>6, <2>1, Others, NPagesAssumption, FlushCopying DEF WritingMain
  <2>q. QED BY <1>1, <1>6, <2>1, LateStages
<1>7. ASSUME BakStage, queue # <<>>
      PROVE  Touches("bak", snap) /\ Late
  <2>1. \E k \in Nat : Copying("bak", k, snap)
    BY <1>7, NPagesAssumption
    DEF BakStage, MainIsDone, ErasingBak, WritingBak, BakWrittenStage, BakIsDone, IInv, StateType
  <2>2. ASSUME NEW v \in Nat, v = snap
        PROVE  Touches("bak", v)
    BY <1>1, <2>1, <2>2, Others, FlushCopying
  <2>q. QED BY <1>1, <1>7, <2>2, LateStages
<1>8. MainStage => (Resting \/ ErasingMain \/ WritingMain)
  BY DEF MainStage
<1>9. ~(MainStage /\ BakStage) /\ (MainStage \/ BakStage)
  BY DEF On, MainStage, BakStage, Resting, ErasingMain, WritingMain, MainIsDone, ErasingBak,
         WritingBak, BakWrittenStage, BakIsDone, At
<1>10. CASE MainStage
  BY <1>3, <1>4, <1>5, <1>6, <1>8, <1>9, <1>10, Others DEF Resting
<1>11. CASE BakStage
  BY <1>3, <1>4, <1>7, <1>9, <1>11, Others
<1>q. QED BY <1>9, <1>10, <1>11

\* The queue works on one sector, and has at most a write behind an erase.
LEMMA QueueShape ==
    ASSUME IInv, On, queue # <<>>
    PROVE  \E c \in Copies :
              \/ Head(queue) = EraseNode(c) /\ (Tail(queue) = <<>> \/ Head(Tail(queue)).copy = c)
              \/ Head(queue).op = "write" /\ Head(queue).copy = c /\ Tail(queue) = <<>>
<1>1. ASSUME NEW c \in Copies, NEW k, Copying(c, k, snap) \/ Erasing(c)
      PROVE  \/ Head(queue) = EraseNode(c) /\ (Tail(queue) = <<>> \/ Head(Tail(queue)).copy = c)
             \/ Head(queue).op = "write" /\ Head(queue).copy = c /\ Tail(queue) = <<>>
  <2>1. CASE queue = <<EraseNode(c)>>
    BY <2>1, One
  <2>2. ASSUME NEW d, queue = <<EraseNode(c), WriteNode(c, d)>>
        PROVE  Head(queue) = EraseNode(c) /\ Head(Tail(queue)).copy = c
    BY <2>2, One, Two DEF WriteNode
  <2>3. ASSUME NEW d, queue = <<WriteNode(c, d)>>
        PROVE  Head(queue).op = "write" /\ Head(queue).copy = c /\ Tail(queue) = <<>>
    BY <2>3, One DEF WriteNode
  <2>q. QED BY <1>1, <2>1, <2>2, <2>3
        DEF Erasing, Copying, CopyingErase, CopyingBoth, CopyingWrite, CopyingDone
<1>q. QED BY <1>1, Others
      DEF On, MainStage, BakStage, Resting, ErasingMain, WritingMain, MainIsDone, ErasingBak,
          WritingBak, BakWrittenStage, BakIsDone

\* One step on the sector at the head of the queue: an erase is finished or
\* leaves the sector torn, a write programs one page and ends with the last.
LEMMA FlushHead ==
    ASSUME IInv, On, norflash_api_flush, flash' # flash
    PROVE  \E c \in Copies :
              /\ \A e \in Copies : e # c => flash'[e] = flash[e]
              /\ \/ /\ flash'[c] \in {Blank(Erased), Blank(Torn)}
                    /\ Head(queue) = EraseNode(c)
                    /\ \/ queue' = queue
                       \/ queue' = <<>>
                       \/ Head(queue').copy = c /\ flash'[c] = Blank(Erased)
                 \/ queue' = <<>>
                 \/ /\ queue' = queue /\ Head(queue).copy = c /\ Head(queue).op = "write"
                    /\ progress' = progress + 1
                    /\ \A p \in Pages : p # progress => flash'[c][p] = flash[c][p]
<1>1. FlashType /\ QueueOK
  BY DEF IInv, FlashOK
<1>2. queue # <<>> /\ (FlushErase \/ FlushWrite)
  BY FlushCases
<1>3. PICK c \in Copies :
          \/ Head(queue) = EraseNode(c) /\ (Tail(queue) = <<>> \/ Head(Tail(queue)).copy = c)
          \/ Head(queue).op = "write" /\ Head(queue).copy = c /\ Tail(queue) = <<>>
  BY <1>2, QueueShape
<1>4. CASE Head(queue) = EraseNode(c) /\ (Tail(queue) = <<>> \/ Head(Tail(queue)).copy = c)
  <2>1. FlushErase
    BY <1>2, <1>4 DEF FlushWrite, EraseNode
  <2>2. /\ \/ queue' = Tail(queue) /\ flash'[c] = Blank(Erased)
           \/ queue' = queue /\ flash'[c] = Blank(Torn)
        /\ Wipes(c)
    BY <1>1, <1>4, <2>1, FlushEraseStep
  <2>3. \A e \in Copies : e # c => flash'[e] = flash[e]
    BY <2>2 DEF Wipes, OtherCopy, Copies
  <2>q. QED BY <1>4, <2>2, <2>3
<1>5. CASE Head(queue).op = "write" /\ Head(queue).copy = c /\ Tail(queue) = <<>>
  <2>1. /\ flash' = [flash EXCEPT ![c][progress] = Program(@, Head(queue).data[progress])]
        /\ \/ queue' = <<>>
           \/ queue' = queue /\ progress' = progress + 1
    BY <1>2, <1>5 DEF FlushErase, FlushWrite, ProgramPage, Dequeue
  <2>2. \A e \in Copies : e # c => flash'[e] = flash[e]
    BY <1>1, <2>1 DEF FlashType
  <2>3. \A p \in Pages : p # progress => flash'[c][p] = flash[c][p]
    BY <1>1, <2>1 DEF FlashType
  <2>q. QED BY <1>5, <2>1, <2>2, <2>3
<1>q. QED BY <1>3, <1>4, <1>5

\* Until its last page is programmed a page of the main copy is erased.
LEMMA FlushUnwritten ==
    ASSUME IInv, On, norflash_api_flush, MainUnwritten
    PROVE  MainUnwritten'
<1>1. CASE UNCHANGED <<queue, locked, progress, flash>>
  BY <1>1 DEF MainUnwritten
<1>2. CASE queue # <<>> /\ (FlushErase \/ FlushWrite)
  <2>1. PICK c \in Copies :
          \/ Head(queue) = EraseNode(c) /\ (Tail(queue) = <<>> \/ Head(Tail(queue)).copy = c)
          \/ Head(queue).op = "write" /\ Head(queue).copy = c /\ Tail(queue) = <<>>
    BY <1>2, QueueShape
  <2>2. FlashType /\ QueueOK /\ progress \in Nat
    BY PagesZero DEF IInv, FlashOK, QueueOK
  <2>3. CASE Head(queue) = EraseNode(c) /\ (Tail(queue) = <<>> \/ Head(Tail(queue)).copy = c)
    <3>1. FlushErase
      BY <1>2, <2>3 DEF FlushWrite, EraseNode
    <3>2. \/ queue' = Tail(queue) /\ flash'[c] = Blank(Erased)
          \/ queue' = queue
      BY <2>2, <2>3, <3>1, FlushEraseStep
    <3>3. CASE queue' = queue
      BY <2>3, <3>3 DEF MainUnwritten, EraseNode
    <3>4. CASE queue' = Tail(queue) /\ flash'[c] = Blank(Erased)
      BY <2>3, <3>4 DEF MainUnwritten, Blank
    <3>q. QED BY <3>2, <3>3, <3>4
  <2>4. CASE Head(queue).op = "write" /\ Head(queue).copy = c /\ Tail(queue) = <<>>
    <3>1. FlushWrite
      BY <1>2, <2>4 DEF FlushErase
    <3>2. /\ flash' = [flash EXCEPT ![c][progress] = Program(@, Head(queue).data[progress])]
          /\ \/ queue' = <<>>
             \/ queue' = queue /\ progress' = progress + 1
      BY <2>4, <3>1 DEF FlushWrite, ProgramPage, Dequeue
    <3>3. CASE queue' = <<>>
      BY <3>3 DEF MainUnwritten
    <3>4. CASE queue' = queue /\ progress' = progress + 1
      <4>1. \A p \in Pages : p >= progress + 1 => p >= progress /\ p # progress
        BY <2>2, PagesZero
      <4>2. c = "main" => \A p \in Pages : p # progress => flash'["main"][p] = flash["main"][p]
        BY <2>2, <3>2 DEF FlashType
      <4>q. QED BY <1>2, <2>4, <3>4, <4>1, <4>2 DEF MainUnwritten
    <3>q. QED BY <3>2, <3>3, <3>4
  <2>q. QED BY <2>1, <2>3, <2>4
<1>q. QED BY <1>1, <1>2, FlushCases

-----------------------------------------------------------------------------
(* Every kind of step keeps the versions in order.                         *)

\* With the flash as it is, validity and versions are as they were.
LEMMA SameFlash ==
    ASSUME flash' = flash
    PROVE  /\ MainValid' <=> MainValid
           /\ BakValid' <=> BakValid
           /\ \A c \in Copies : nv_record_data_is_valid(c)' <=> nv_record_data_is_valid(c)
BY DEF MainValid, BakValid, nv_record_data_is_valid, Holds

\* A sector of snap is a valid copy of snap.
LEMMA BlankIsValid ==
    ASSUME NEW c \in Copies, snap \in Nat, flash[c] = Blank(snap)
    PROVE  nv_record_data_is_valid(c) /\ flash[c][0] = snap
BY PagesZero DEF nv_record_data_is_valid, Holds, Blank

\* snap is not newer than the mirror while a flush is late.
LEMMA LateSnap ==
    ASSUME On, Late
    PROVE  SnapOK
BY LateStages DEF On, MainStage, WritingMain, BakStage

\* The mirror only gets newer.
LEMMA MirrorGrows ==
    ASSUME JInv, On, StepKind
    PROVE  mirror \in Nat /\ mirror' \in Nat /\ mirror' >= mirror /\ Awake' /\ mirror >= 1
<1>1. mirror \in Nat /\ clock \in Nat /\ mirror <= clock /\ power # "off" /\ power' # "off"
  BY DEF JInv, IInv, Numbers, On, StepKind
<1>2. mirror >= 1
  BY <1>1 DEF JInv, Versions, Awake
<1>3. SameRecord \/ (clock' = clock + 1 /\ mirror' = clock + 1)
  BY DEF StepKind, QuietKind, FlushKind, EraseKind, WriteMainKind, WriteBakKind, DoneKind
<1>q. QED BY <1>1, <1>2, <1>3 DEF SameRecord, Awake

\* The machine comes to rest on two valid copies.
LEMMA RestsStep ==
    ASSUME JInv, On, StepKind
    PROVE  RestsValid'
<1>1. snap \in Nat /\ power # "off" /\ RestsValid
  BY DEF JInv, IInv, On, Numbers, Versions
<1>2. CASE DoneKind
  BY <1>1, <1>2, BlankIsValid, SameFlash, Others DEF DoneKind, MainValid, BakValid, RestsValid
<1>3. CASE KeepsResting
  BY <1>1, <1>3, SameFlash DEF KeepsResting, RestsValid
<1>q. QED BY <1>2, <1>3 DEF StepKind, RestsValid

\* The kinds that leave the flash alone.
LEMMA StillStep ==
    ASSUME JInv, On, StepKind, flash' = flash, ~FlushKind
    PROVE  Versions'
<1>0. Numbers /\ Versions /\ power # "off" /\ power' # "off" /\ snap \in Nat
  BY DEF JInv, IInv, On, StepKind, Numbers
<1>1. Awake'
  BY MirrorGrows
<1>2. Made' /\ BakFollows'
  BY <1>0, SameFlash DEF Versions, Made, BakFollows
<1>3. NotNewer'
  <2>1. ASSUME NEW c \in Copies, nv_record_data_is_valid(c)'
        PROVE  flash'[c][0] <= mirror'
    <3>1. nv_record_data_is_valid(c) /\ flash[c][0] \in Nat /\ flash[c][0] <= mirror
      BY <1>0, <2>1, SameFlash DEF Versions, NotNewer, nv_record_data_is_valid
    <3>q. QED BY <3>1, MirrorGrows
  <2>q. QED BY <2>1 DEF NotNewer
<1>4. ASSUME QuietKind
      PROVE  BakBehindSnap' /\ OnlyMainIsSafe' /\ MainUnwritten'
  BY <1>0, <1>4, SameFlash
  DEF Versions, QuietKind, SameLate, BakBehindSnap, OnlyMainIsSafe, MainUnwritten
<1>5. ASSUME NEW c \in Copies, EraseKind(c)
      PROVE  BakBehindSnap' /\ OnlyMainIsSafe' /\ MainUnwritten'
  <2>1. BakBehindSnap'
    BY <1>0, <1>5, SameFlash DEF Versions, EraseKind, SameLate, BakBehindSnap
  <2>2. queue' = <<>> \/ (Head(queue').op = "erase" /\ Head(queue').copy = c)
    BY <1>5, One DEF EraseKind, Erasing, EraseNode
  <2>3. MainUnwritten'
    BY <2>2 DEF MainUnwritten
  <2>4. OnlyMainIsSafe'
    BY <1>0, <1>5, <2>2, SameFlash DEF Versions, EraseKind, SameLate, OnlyMainIsSafe, Copies
  <2>q. QED BY <2>1, <2>3, <2>4
<1>6. ASSUME WriteMainKind
      PROVE  BakBehindSnap' /\ OnlyMainIsSafe' /\ MainUnwritten'
  <2>1. BakBehindSnap'
    <3>1. snap' = mirror /\ mirror >= 1
      BY <1>6, MirrorGrows DEF WriteMainKind
    <3>q. QED BY <1>0, <3>1, SameFlash, Others DEF Versions, NotNewer, BakBehindSnap, BakValid
  <2>q. QED BY <1>0, <1>6, <2>1, SameFlash DEF Versions, WriteMainKind, OnlyMainIsSafe
<1>7. ASSUME WriteBakKind
      PROVE  BakBehindSnap' /\ OnlyMainIsSafe' /\ MainUnwritten'
  BY <1>0, <1>7, SameFlash
  DEF Versions, WriteBakKind, BakBehindSnap, OnlyMainIsSafe, MainUnwritten
<1>8. ASSUME DoneKind
      PROVE  BakBehindSnap' /\ OnlyMainIsSafe' /\ MainUnwritten'
  <2>1. MainValid /\ BakValid
    BY <1>0, <1>8, BlankIsValid, Others DEF DoneKind, MainValid, BakValid
  <2>q. QED BY <1>8, <2>1, SameFlash DEF DoneKind, BakBehindSnap, OnlyMainIsSafe, MainUnwritten
<1>9. BakBehindSnap' /\ OnlyMainIsSafe' /\ MainUnwritten'
  BY <1>4, <1>5, <1>6, <1>7, <1>8 DEF StepKind
<1>10. RestsValid'
  BY RestsStep
<1>q. QED BY <1>1, <1>2, <1>3, <1>9, <1>10 DEF Versions

\* norflash_api_flush.
LEMMA FlushStep ==
    ASSUME JInv, On, On', IInv', StepKind, FlushKind
    PROVE  Versions'
<1>0. Numbers /\ Versions /\ IInv /\ power # "off" /\ power' # "off" /\ snap \in Nat /\ durable \in Nat
  BY DEF JInv, IInv, On, StepKind, Numbers
<1>1. norflash_api_flush /\ UNCHANGED <<mirror, snap, durable>> /\ (Late' <=> Late)
  BY DEF FlushKind, SameRecord, SameLate
<1>2. /\ MainStage => flash'["bak"] = flash["bak"]
      /\ BakStage => flash'["main"] = flash["main"]
      /\ \A c \in Copies :
            nv_record_data_is_valid(c)' =>
                flash'[c] = flash[c] \/ (flash'[c][0] = snap /\ Late)
  BY <1>0, <1>1, FlushEffect
<1>3. Late => snap >= 1 /\ snap <= mirror
  BY <1>0, LateSnap DEF Versions, BakBehindSnap, SnapOK
<1>4. ASSUME NEW c \in Copies, flash'[c] = flash[c]
      PROVE  nv_record_data_is_valid(c)' <=> nv_record_data_is_valid(c)
  BY <1>4 DEF nv_record_data_is_valid, Holds
<1>5. Awake'
  BY MirrorGrows
<1>6. Made'
  BY <1>0, <1>2, <1>3, <1>4 DEF Versions, Made
<1>7. NotNewer'
  BY <1>0, <1>1, <1>2, <1>3, <1>4 DEF Versions, NotNewer
<1>8. MainStage \/ (BakStage /\ flash["main"] = Blank(snap) /\ MainValid /\ flash["main"][0] = snap)
  BY <1>0, BlankIsValid, Others DEF On, BakStage, MainValid
<1>9. BakFollows'
  <2> SUFFICES ASSUME MainValid', BakValid'
               PROVE  flash'["bak"][0] <= flash'["main"][0]
    BY DEF BakFollows
  <2>1. CASE MainStage
    <3>1. BakValid /\ flash'["bak"] = flash["bak"]
      BY <1>2, <1>4, <2>1, Others DEF BakValid
    <3>2. CASE flash'["main"] = flash["main"]
      BY <1>0, <1>4, <3>1, <3>2, Others DEF Versions, BakFollows, MainValid
    <3>3. CASE flash'["main"][0] = snap /\ Late
      BY <1>0, <3>1, <3>3 DEF Versions, BakBehindSnap
    <3>q. QED BY <1>2, <3>2, <3>3, Others DEF MainValid
  <2>2. CASE BakStage
    <3>1. MainValid /\ flash'["main"][0] = snap
      BY <1>0, <1>2, <2>2, BlankIsValid, Others DEF BakStage, MainValid
    <3>2. CASE flash'["bak"] = flash["bak"]
      <4>1. BakValid
        BY <1>4, <3>2, Others DEF BakValid
      <4>2. Late
        BY <2>2, LateStages
      <4>q. QED BY <1>0, <3>1, <3>2, <4>1, <4>2 DEF Versions, BakBehindSnap
    <3>3. CASE flash'["bak"][0] = snap
      BY <1>0, <3>1, <3>3
    <3>q. QED BY <1>2, <3>2, <3>3, Others DEF BakValid
  <2>q. QED BY <2>1, <2>2 DEF On
<1>10. BakBehindSnap'
  <2>1. ASSUME Late', BakValid'
        PROVE  flash'["bak"][0] <= snap'
    <3>1. flash'["bak"] = flash["bak"] \/ flash'["bak"][0] = snap
      BY <1>2, <2>1, Others DEF BakValid
    <3>2. CASE flash'["bak"] = flash["bak"]
      BY <1>0, <1>1, <1>4, <2>1, <3>2, Others DEF Versions, BakBehindSnap, BakValid
    <3>q. QED BY <1>0, <1>1, <3>1, <3>2
  <2>q. QED BY <1>0, <1>1, <1>3, <2>1 DEF BakBehindSnap
<1>11. MainUnwritten'
  BY <1>0, <1>1, FlushUnwritten DEF Versions
<1>12. OnlyMainIsSafe'
  <2> SUFFICES ASSUME MainValid', ~BakValid'
               PROVE  Late' /\ (queue' = <<>> \/ Head(queue').copy = "bak")
    BY DEF OnlyMainIsSafe
  <2>1. CASE flash' = flash
    <3>1. Late /\ (queue = <<>> \/ Head(queue).copy = "bak")
      BY <1>0, <2>1, SameFlash DEF Versions, OnlyMainIsSafe
    <3>2. CASE queue = <<>>
      BY <1>0, <1>1, <3>1, <3>2, FlushIdle DEF IInv
    <3>3. CASE queue # <<>> /\ Head(queue).copy = "bak"
      <4>1. queue' = queue \/ queue' = Tail(queue)
        BY <1>1, FlushCases DEF FlushErase, FlushWrite, Dequeue
      <4>2. Tail(queue) = <<>> \/ Head(Tail(queue)).copy = "bak"
        BY <1>0, <3>3, QueueShape DEF EraseNode
      <4>q. QED BY <1>1, <3>1, <3>3, <4>1, <4>2
    <3>q. QED BY <3>1, <3>2, <3>3
  <2>2. CASE flash' # flash
    <3>0. FlashType /\ FlashType' /\ progress' \in Pages
      BY <1>0 DEF IInv, FlashOK, QueueOK
    <3>1. PICK c \in Copies :
              /\ \A e \in Copies : e # c => flash'[e] = flash[e]
              /\ \/ /\ flash'[c] \in {Blank(Erased), Blank(Torn)}
                    /\ Head(queue) = EraseNode(c)
                    /\ \/ queue' = queue
                       \/ queue' = <<>>
                       \/ Head(queue').copy = c /\ flash'[c] = Blank(Erased)
                 \/ queue' = <<>>
                 \/ /\ queue' = queue /\ Head(queue).copy = c /\ Head(queue).op = "write"
                    /\ progress' = progress + 1
                    /\ \A p \in Pages : p # progress => flash'[c][p] = flash[c][p]
      BY <1>0, <1>1, <2>2, FlushHead
    <3>2. flash'[c] # flash[c]
      BY <2>2, <3>0, <3>1 DEF FlashType
    <3>3. CASE c = "bak"
      <4>1. Late
        BY <1>2, <3>2, <3>3, LateStages DEF On
      <4>2. queue' = <<>> \/ Head(queue').copy = "bak"
        BY <3>1, <3>3 DEF EraseNode
      <4>q. QED BY <1>1, <4>1, <4>2
    <3>4. CASE c = "main"
      <4>1. Late
        BY <1>2, <3>2, <3>4, Others DEF MainValid
      <4>2. flash'["main"] \notin {Blank(Erased), Blank(Torn)}
        BY ContentAssumption, PagesZero DEF MainValid, nv_record_data_is_valid, Blank
      <4>3. ASSUME queue' = queue, Head(queue).copy = "main", Head(queue).op = "write", queue' # <<>>
            PROVE  FALSE
        <5>1. flash'["main"][progress'] = Erased
          BY <1>11, <3>0, <4>3, PagesZero DEF MainUnwritten
        <5>q. QED BY <3>0, <5>1, ContentAssumption DEF MainValid, nv_record_data_is_valid, Holds, Blank
      <4>q. QED BY <1>1, <3>1, <3>4, <4>1, <4>2, <4>3
    <3>q. QED BY <3>1, <3>3, <3>4 DEF Copies
  <2>q. QED BY <2>1, <2>2
<1>13. RestsValid'
  BY RestsStep
<1>q. QED BY <1>5, <1>6, <1>7, <1>9, <1>10, <1>11, <1>12, <1>13 DEF Versions

\* nv_record_extension_init loads the newest valid copy and repairs the other.
LEMMA BootStep ==
    ASSUME Threads = {Main}, JInv, nv_record_extension_init
    PROVE  Versions'
<1>1. /\ Off /\ Versions /\ Numbers /\ PcType /\ flash' = flash /\ queue' = <<>>
      /\ mirror' = LoadedVersion /\ power' # "off"
  BY DEF JInv, IInv, On, Off, nv_record_extension_init, norflash
<1>2. \A c \in Copies : nv_record_data_is_valid(c) => flash[c][0] \in Nat /\ flash[c][0] >= 1
  BY <1>1 DEF Versions, Made, nv_record_data_is_valid
<1>3. Awake' /\ NotNewer'
  <2>1. CASE MainValid
    <3>1. mirror' = flash["main"][0]
      BY <1>1, <2>1 DEF LoadedVersion, VersionOf
    <3>q. QED BY <1>1, <1>2, <2>1, <3>1, SameFlash, Others
          DEF Versions, BakFollows, Awake, NotNewer, MainValid, BakValid, Copies
  <2>2. CASE ~MainValid /\ BakValid
    <3>1. mirror' = flash["bak"][0]
      BY <1>1, <2>2 DEF LoadedVersion, VersionOf
    <3>q. QED BY <1>1, <1>2, <2>2, <3>1, SameFlash, Others
          DEF Awake, NotNewer, MainValid, BakValid, Copies
  <2>3. CASE ~MainValid /\ ~BakValid
    <3>1. mirror' = 1
      BY <1>1, <2>3 DEF LoadedVersion, Default
    <3>q. QED BY <1>1, <2>3, <3>1, SameFlash DEF Awake, NotNewer, MainValid, BakValid, Copies
  <2>q. QED BY <2>1, <2>2, <2>3
<1>4. Made' /\ BakFollows'
  BY <1>1, SameFlash DEF Versions, Made, BakFollows
<1>5. pc'[Main] \in {"out", "loop"}
  <2>1. CASE Jump(Main, "loop")
    BY <1>1, <2>1, Jumps, LabelsAreLabels
  <2>2. CASE UNCHANGED pc
    BY <1>1, <2>2 DEF Off
  <2>q. QED BY <2>1, <2>2 DEF nv_record_extension_init
<1>6. nv_flsh_state'.state = RepairState /\ nv_flsh_state'.is_update = RepairNeeded
  BY DEF nv_record_extension_init
<1>7. CASE MainValid /\ ~BakValid
  <2>1. nv_flsh_state'.state = "MAIN_DONE" /\ snap' = flash["main"][0]
    BY <1>6, <1>7 DEF RepairState, nv_record_extension_init, VersionOf
  <2>2. Late' /\ ~Rests' /\ snap' >= 1
    BY <1>2, <1>7, <2>1, LateAfter, Others DEF Rests, MainValid
  <2>q. QED BY <1>1, <1>3, <1>4, <1>7, <2>2, SameFlash
        DEF Versions, BakBehindSnap, OnlyMainIsSafe, MainUnwritten, RestsValid
<1>8. CASE ~(MainValid /\ ~BakValid)
  <2>1. nv_flsh_state'.state = "IDLE"
    BY <1>6, <1>8 DEF RepairState
  <2>2. ~Late'
    BY <1>5, <2>1, LateAfter
  <2>3. RestsValid'
    <3>1. CASE MainValid /\ BakValid
      BY <1>1, <3>1, SameFlash DEF RestsValid
    <3>2. CASE ~(MainValid /\ BakValid)
      BY <1>6, <3>2 DEF RepairNeeded, RestsValid, nv_record_extension_init
    <3>q. QED BY <3>1, <3>2
  <2>q. QED BY <1>1, <1>3, <1>4, <1>8, <2>2, <2>3, SameFlash
        DEF Versions, BakBehindSnap, OnlyMainIsSafe, MainUnwritten
<1>q. QED BY <1>7, <1>8

\* A copy that is valid after a power loss was so before it.
LEMMA CrashLeaves ==
    ASSUME IInv, Crash, NEW c \in Copies, nv_record_data_is_valid(c)'
    PROVE  flash'[c] = flash[c] /\ nv_record_data_is_valid(c)
<1>1. FlashType /\ progress \in Pages /\ flash' \in TornFlash
  BY DEF IInv, FlashOK, QueueOK, Crash
<1>2. \/ flash'[c] = flash[c] \/ flash'[c] = Blank(Torn)
      \/ flash'[c] = [flash[c] EXCEPT ![progress] = Torn]
  BY <1>1 DEF TornFlash, FlashType
<1>3. flash'[c] # Blank(Torn)
  BY ContentAssumption, PagesZero DEF nv_record_data_is_valid, Blank
<1>4. flash'[c] # [flash[c] EXCEPT ![progress] = Torn]
  <2> SUFFICES ASSUME flash'[c] = [flash[c] EXCEPT ![progress] = Torn] PROVE FALSE
    OBVIOUS
  <2>1. flash'[c][progress] = Torn
    BY <1>1 DEF FlashType
  <2>q. QED BY <1>1, <2>1, ContentAssumption DEF nv_record_data_is_valid, Holds, Blank
<1>5. flash'[c] = flash[c]
  BY <1>2, <1>3, <1>4
<1>q. QED BY <1>5 DEF nv_record_data_is_valid, Holds

\* A power loss.
LEMMA CrashStep ==
    ASSUME JInv, Crash
    PROVE  Versions'
<1>1. power' = "off" /\ mirror' = 0 /\ queue' = <<>> /\ Versions /\ IInv
  BY DEF Crash, JInv
<1>2. Made'
  BY <1>1, CrashLeaves DEF Versions, Made
<1>3. BakFollows'
  BY <1>1, CrashLeaves, Others DEF Versions, BakFollows, MainValid, BakValid
<1>q. QED BY <1>1, <1>2, <1>3
      DEF Versions, Awake, NotNewer, BakBehindSnap, OnlyMainIsSafe, MainUnwritten, RestsValid

\* Every step keeps the invariant.
LEMMA JPreserved ==
    ASSUME Threads = {Main}, JInv, [Next]_vars
    PROVE  JInv'
<1>1. IInv'
  BY Preserved DEF JInv
<1>2. CASE UNCHANGED vars
  <2>1. UNCHANGED <<mirror, nv_flsh_state, pc, power, queue, progress, flash, snap>>
    BY <1>2 DEF vars
  <2>q. QED BY <1>1, <2>1, SameFlash
        DEF JInv, Versions, Awake, Made, NotNewer, BakFollows, BakBehindSnap, OnlyMainIsSafe,
            MainUnwritten, RestsValid, Rests, Late
<1>3. ASSUME StepKind
      PROVE  Versions'
  <2>1. On /\ On'
    BY <1>1, <1>3, PoweredOn DEF JInv, IInv, Off, On, StepKind
  <2>2. CASE FlushKind
    BY <1>1, <1>3, <2>1, <2>2, FlushStep
  <2>3. CASE ~FlushKind
    BY <1>3, <2>1, <2>3, StillStep
    DEF StepKind, QuietKind, EraseKind, WriteMainKind, WriteBakKind, DoneKind
  <2>q. QED BY <2>2, <2>3
<1>q. QED BY <1>1, <1>2, <1>3, BootStep, CrashStep, Kinds DEF JInv

-----------------------------------------------------------------------------
(* What the invariant says of the flush machine.                           *)

\* The record of a factory-fresh device.
LEMMA JInitially ==
    ASSUME Threads = {Main}, Init
    PROVE  JInv
<1>1. IInv
  BY Initially
<1>2. \A c \in Copies : ~nv_record_data_is_valid(c)
  BY PagesZero, ContentAssumption DEF Init, nv_record_data_is_valid, Blank
<1>q. QED BY <1>1, <1>2, Others
      DEF Init, JInv, Versions, Awake, Made, NotNewer, BakFollows, BakBehindSnap, OnlyMainIsSafe,
          MainUnwritten, RestsValid, MainValid, BakValid

\* The versions in flash are always in order.
LEMMA JInvariant ==
    ASSUME Threads = {Main}
    PROVE  Spec => []JInv
<1>1. Init => JInv
  BY JInitially
<1>2. JInv /\ [Next]_vars => JInv'
  BY JPreserved
<1>q. QED BY <1>1, <1>2, PTL DEF Spec

\* When the flush machine rests both sectors hold a valid record, so that
\* the next flush of nv_record_extension_flush may erase the main sector.
THEOREM TwoCopiesAtRest ==
    ASSUME Threads = {Main}
    PROVE  Spec => []RestsOnTwoCopies
<1>1. JInv => RestsOnTwoCopies
  BY ThreadsAssumption
  DEF JInv, Versions, RestsValid, Rests, RestsOnTwoCopies, MainValid, BakValid, Copies
<1>q. QED BY <1>1, JInvariant, PTL

\* The write node at the head of the queue programs erased pages, or pages
\* that hold its data, and no others.
THEOREM NoOverprogramming ==
    ASSUME Threads = {Main}
    PROVE  Spec => []ProgramsErasedPages
<1>1. JInv => ProgramsErasedPages
  <2> SUFFICES ASSUME JInv, queue # <<>>, Head(queue).op = "write", NEW p \in Pages
               PROVE  \/ flash[Head(queue).copy][p] \in {Erased, Head(queue).data[p]}
                      \/ Head(queue).data[p] = Erased
    BY DEF ProgramsErasedPages
  <2>1. ASSUME NEW c \in Copies, NEW k, Copying(c, k, snap) \/ Erasing(c)
        PROVE  \/ flash[Head(queue).copy][p] \in {Erased, Head(queue).data[p]}
               \/ Head(queue).data[p] = Erased
    <3>1. Head(queue) # EraseNode(c)
      BY DEF EraseNode
    <3>2. queue # <<EraseNode(c)>> /\ \A d : queue # <<EraseNode(c), WriteNode(c, d)>>
      BY <3>1, One, Two
    <3>3. PICK d \in VersionPages(snap) : queue = <<WriteNode(c, d)>> /\ flash[c] \in VersionPages(snap)
      BY <2>1, <3>2
      DEF Erasing, Copying, CopyingErase, CopyingBoth, CopyingWrite, CopyingDone
    <3>4. Head(queue).copy = c /\ Head(queue).data = d
      BY <3>3, One DEF WriteNode
    <3>q. QED BY <3>3, <3>4 DEF VersionPages
  <2>q. QED BY <2>1, Others
        DEF JInv, IInv, Off, On, MainStage, BakStage, Resting, ErasingMain, WritingMain, MainIsDone,
            ErasingBak, WritingBak, BakWrittenStage, BakIsDone
<1>q. QED BY <1>1, JInvariant, PTL

\* A step of a kind leaves a valid copy where there was one.
LEMMA KeepsOne ==
    ASSUME Threads = {Main}, JInv, [Next]_vars, Recoverable
    PROVE  Recoverable'
<1>1. IInv /\ Versions /\ Numbers /\ snap \in Nat
  BY DEF JInv, IInv, Numbers
<1>2. CASE flash' = flash
  BY <1>2, SameFlash DEF Recoverable
<1>3. ASSUME flash' # flash
      PROVE  power # "off" /\ (FlushKind \/ Crash)
  BY <1>1, <1>3, Kinds
  DEF vars, StepKind, QuietKind, EraseKind, WriteMainKind, WriteBakKind, DoneKind,
      nv_record_extension_init, norflash, Crash
<1>4. CASE flash' # flash
  <2>1. On /\ queue # <<>>
    BY <1>1, <1>3, <1>4, PoweredOn, FlushIdle DEF FlushKind, IInv, Crash, TornFlash
  <2>2. ASSUME NEW c \in Copies, nv_record_data_is_valid(c), flash'[c] = flash[c]
        PROVE  Recoverable'
    BY <2>2 DEF Recoverable, nv_record_data_is_valid, Holds
  <2>3. CASE MainStage
    <3>1. queue = <<>> \/ Head(queue).copy = "main"
      BY <2>3, HeadCopy DEF MainStage, Resting, ErasingMain, WritingMain
    <3>2. BakValid
      BY <1>1, <2>1, <3>1 DEF Versions, OnlyMainIsSafe, Recoverable, MainValid, BakValid, Copies, On
    <3>3. flash'["bak"] = flash["bak"]
      <4>1. CASE FlushKind
        BY <1>1, <2>1, <2>3, <4>1, FlushEffect DEF FlushKind
      <4>2. CASE Crash
        BY <1>1, <3>1, <4>2, CrashSpoils, Others DEF Crash, IInv, FlashOK, Spoils
      <4>q. QED BY <1>3, <1>4, <4>1, <4>2
    <3>q. QED BY <2>2, <3>2, <3>3, Others DEF BakValid
  <2>4. CASE BakStage
    <3>1. queue = <<>> \/ Head(queue).copy = "bak"
      BY <2>4, HeadCopy DEF BakStage, MainIsDone, ErasingBak, WritingBak, BakWrittenStage, BakIsDone
    <3>2. nv_record_data_is_valid("main")
      BY <1>1, <2>4, BlankIsValid, Others DEF BakStage
    <3>3. flash'["main"] = flash["main"]
      <4>1. CASE FlushKind
        BY <1>1, <2>1, <2>4, <4>1, FlushEffect DEF FlushKind
      <4>2. CASE Crash
        BY <1>1, <3>1, <4>2, CrashSpoils, Others DEF Crash, IInv, FlashOK, Spoils
      <4>q. QED BY <1>3, <1>4, <4>1, <4>2
    <3>q. QED BY <2>2, <3>2, <3>3, Others
  <2>q. QED BY <2>1, <2>3, <2>4 DEF On
<1>q. QED BY <1>2, <1>4

\* Once flash holds a record that a boot accepts, every later state of flash
\* does, power losses in the middle of an erase or of a write included.
THEOREM OneCopySurvives ==
    ASSUME Threads = {Main}
    PROVE  Spec => NeverLoseBoth
<1>1. JInv /\ [Next]_vars => [Recoverable => Recoverable']_vars
  BY KeepsOne
<1>q. QED BY <1>1, JInvariant, PTL DEF Spec, NeverLoseBoth

-----------------------------------------------------------------------------
(* The refinement of DurableRecord.                                        *)

\* What a boot would find lies between the floor and the mirror.
Bounds ==
    /\ Recovered \in Nat /\ durable \in Nat /\ durable <= Recovered
    /\ power # "off" => mirror \in Nat /\ mirror # 0 /\ Recovered <= mirror

\* This follows from the order of the versions.
LEMMA RecoveredBounds ==
    ASSUME JInv
    PROVE  Bounds
<1>0. Numbers /\ (power # "off" => mirror # 0)
  BY DEF JInv, IInv, Versions, Awake, Numbers
<1>1. Numbers /\ Versions /\ FlashOK
  BY DEF JInv, IInv
<1>2. \A c \in Copies : nv_record_data_is_valid(c) => flash[c][0] \in Nat /\ durable <= flash[c][0]
  BY <1>1 DEF FlashOK, NotOld, nv_record_data_is_valid, Numbers
<1>3. durable > 0 => MainValid \/ BakValid
  BY <1>1, BlankIsValid, Others DEF JInv, IInv, Off, On, MainStage, BakStage, MainValid, Numbers
<1>4. CASE MainValid
  BY <1>1, <1>2, <1>4, <1>0, Others DEF Recovered, VersionOf, MainValid, Versions, NotNewer, Numbers, Bounds
<1>5. CASE ~MainValid /\ BakValid
  BY <1>1, <1>2, <1>5, <1>0, Others DEF Recovered, VersionOf, MainValid, BakValid, Versions, NotNewer, Numbers, Bounds
<1>6. CASE ~MainValid /\ ~BakValid
  BY <1>1, <1>3, <1>6, <1>0 DEF Recovered, MainValid, BakValid, Numbers, Bounds
<1>q. QED BY <1>0, <1>4, <1>5, <1>6 DEF Bounds, Numbers

\* What a boot finds depends on the flash alone.
LEMMA SameRecovered ==
    ASSUME flash' = flash
    PROVE  Recovered' = Recovered
BY SameFlash, Others DEF Recovered, VersionOf

\* A step with the power on: the record changes, flash changes between the
\* floor and the mirror, or a flush completes.
LEMMA KindRefines ==
    ASSUME JInv, Bounds, Bounds', StepKind
    PROVE  Durable!Change \/ Durable!Store \/ Durable!Complete
<1>1. power # "off" /\ power' # "off" /\ mirror # 0 /\ mirror \in Nat
  BY DEF StepKind, Bounds
<1>2. CASE DoneKind
  <2>1. Recovered = snap
    BY <1>2, BlankIsValid, Others DEF DoneKind, Recovered, VersionOf, JInv, IInv, Numbers
  <2>2. Recovered' = Recovered
    BY <1>2, SameRecovered DEF DoneKind
  <2>q. QED BY <1>1, <1>2, <2>1, <2>2 DEF DoneKind, SameRecord, Durable!Complete
<1>3. CASE QuietKind /\ ~SameRecord
  <2>1. Recovered' = Recovered
    BY <1>3, SameRecovered DEF QuietKind
  <2>q. QED BY <1>1, <1>3, <2>1 DEF QuietKind, Durable!Change
<1>4. CASE SameRecord /\ durable' = durable
  <2>1. Recovered' \in durable .. mirror
    BY <1>1, <1>4 DEF Bounds, SameRecord
  <2>q. QED BY <1>1, <1>4, <2>1 DEF SameRecord, Durable!Store
<1>q. QED BY <1>2, <1>3, <1>4
      DEF StepKind, QuietKind, FlushKind, EraseKind, WriteMainKind, WriteBakKind

\* A boot loads what is stored, or the default record.
LEMMA BootRefines ==
    ASSUME JInv, nv_record_extension_init
    PROVE  Durable!PowerUp
<1>1. mirror = 0 /\ Versions /\ flash' = flash /\ durable' = durable
  BY DEF nv_record_extension_init, norflash, JInv, Versions, Awake
<1>2. Recovered' = Recovered
  BY <1>1, SameRecovered
<1>3. \A c \in Copies : nv_record_data_is_valid(c) => flash[c][0] # 0
  BY <1>1 DEF Versions, Made
<1>4. LoadedVersion = IF Recovered = 0 THEN Default ELSE Recovered
  BY <1>3, Others DEF LoadedVersion, Recovered, MainValid, BakValid, VersionOf
<1>q. QED BY <1>1, <1>2, <1>4 DEF nv_record_extension_init, Durable!PowerUp

\* A power loss leaves a stored record that is not older than the floor.
LEMMA CrashRefines ==
    ASSUME JInv, Bounds, Bounds', Crash
    PROVE  Durable!PowerLoss
<1>1. power # "off" /\ mirror # 0 /\ mirror' = 0 /\ mirror \in Nat /\ UNCHANGED <<clock, durable>>
  BY DEF Crash, Bounds, history
<1>2. \A c \in Copies : nv_record_data_is_valid(c)' => flash'[c][0] <= mirror
  BY <1>1, CrashLeaves DEF JInv, Versions, NotNewer
<1>3. Recovered' <= mirror
  BY <1>1, <1>2, Others DEF Recovered, VersionOf
<1>4. Recovered' \in durable .. mirror
  BY <1>1, <1>3 DEF Bounds
<1>q. QED BY <1>1, <1>4 DEF Durable!PowerLoss

\* The flush machine implements DurableRecord: seen through the version in
\* RAM, the version a boot of nv_record_extension_init would find, and the
\* last completed flush, every step of the flush, of the flash queue, of a
\* boot and of a power loss is a step of the abstract record or invisible.
THEOREM FlushImplementsDurable ==
    ASSUME Threads = {Main}
    PROVE  Spec => ImplementsDurable
<1>1. Init => Durable!DInit
  <2>1. Init => \A c \in Copies : ~nv_record_data_is_valid(c)
    BY PagesZero, ContentAssumption DEF Init, nv_record_data_is_valid, Blank
  <2>2. Init => Recovered = 0
    BY <2>1, Others DEF Recovered
  <2>q. QED BY <2>2 DEF Init, Durable!DInit
<1>2. JInv => Bounds
  BY RecoveredBounds
<1>3. JInv /\ Bounds /\ Bounds' /\ [Next]_vars => [Durable!DNext]_(Durable!dvars)
  <2> SUFFICES ASSUME JInv, Bounds, Bounds', [Next]_vars
               PROVE  [Durable!DNext]_(Durable!dvars)
    OBVIOUS
  <2>1. CASE UNCHANGED vars
    <3>1. UNCHANGED <<mirror, clock, durable, flash>>
      BY <2>1 DEF vars
    <3>q. QED BY <3>1, SameRecovered DEF Durable!dvars
  <2>2. CASE Next
    BY <2>2, Kinds, KindRefines, BootRefines, CrashRefines DEF Durable!DNext, JInv
  <2>q. QED BY <2>1, <2>2
<1>q. QED BY <1>1, <1>2, <1>3, JInvariant, PTL DEF Spec, ImplementsDurable, Durable!DSpec

-----------------------------------------------------------------------------
(* Updates.  When only the repair at boot and the idle loop flush, a change *)
(* of the mirror is never overlooked.                                      *)

Marked == nv_flsh_state.is_update = TRUE

\* A synchronous flush runs only inside the boot.
FlushesAtBoot == power # "off" /\ pc[Main] # "out" => power = "boot"

\* While is_update is low, the version being flushed is the mirror; so it is
\* between the write of the main copy and the lowering of is_update.
SnapIsMirror ==
    power # "off" /\ Late /\ (pc[Main] = "mwritten" \/ ~Marked) => snap = mirror

\* The machine rests with is_update low only when flash holds the mirror.
RestsUpdated ==
    power # "off" /\ nv_flsh_state.state = "IDLE" /\ ~Marked =>
        Recovered = mirror /\ pc[Main] \in {"out", "loop"}

UInv == JInv /\ FlushesAtBoot /\ SnapIsMirror /\ RestsUpdated

\* What a step does to the mark.
MarkKind ==
    /\ pc'[Main] # "out" => pc[Main] # "out" /\ power' = power
    /\ SameRecord \/ (Marked' /\ pc'[Main] = pc[Main] /\ power = "on")
    /\ ~Marked' => ~Marked \/ pc[Main] = "mwritten" \/ WriteMainKind
    /\ pc'[Main] = "mwritten" => pc[Main] = "mwritten" \/ WriteMainKind
    /\ nv_flsh_state'.state = "IDLE" /\ ~Marked' =>
           \/ DoneKind /\ pc'[Main] \in {"out", "loop"} /\ ~Marked
           \/ /\ nv_flsh_state.state = "IDLE" /\ ~Marked
              /\ pc[Main] \in {"out", "loop"} => pc'[Main] \in {"out", "loop"} /\ Rests /\ KeepsResting


\* The synchronous flush lowers the mark after it has handed over the mirror.
LEMMA SyncMark ==
    ASSUME Threads = {Main}, IInv, SyncFlush(Main)
    PROVE  MarkKind
<1>1. StepKind /\ SameRecord /\ PcType /\ StateType /\ On /\ pc[Main] # "out"
  <2>1. pc[Main] # "out" /\ SameRecord
    BY DEF SyncFlush, FlushLoop, MainErase, MainErased, MainWrite, MainWritten, MainDrain, MainDone,
       BakErase, BakErased, BakStart, BakPage, BakDrain, BakDone, SyncErase, SyncState, SyncDrain,
       Step, record, SameRecord
  <2>q. QED BY <2>1, SyncKind, Labels DEF IInv
<1>2. CASE FlushLoop(Main)
  <2>1. pc[Main] = "loop" /\ UNCHANGED <<nv_flsh_state, flash>>
    BY <1>2 DEF FlushLoop, Step, norflash
  <2>2. CASE nv_flsh_state.state = "IDLE" /\ ~nv_flsh_state.is_update
    <3>1. pc'[Main] = "out"
      BY <1>1, <1>2, <2>2, Jumps, LabelsAreLabels DEF FlushLoop
    <3>q. QED BY <1>1, <2>1, <2>2, <3>1 DEF MarkKind, Marked, Rests, KeepsResting
  <2>3. CASE ~(nv_flsh_state.state = "IDLE" /\ ~nv_flsh_state.is_update)
    <3>1. \E l \in PCs : Jump(Main, l) /\ l # "mwritten"
      BY <1>1, <1>2, <2>3, LabelsAreLabels DEF FlushLoop, StateType, States, MainStates, BakStates
    <3>2. pc'[Main] # "mwritten" /\ power' = power
      BY <1>1, <1>2, <2>3, <3>1, Jumps DEF FlushLoop, shell
    <3>3. nv_flsh_state.is_update \in BOOLEAN
      BY <1>1 DEF StateType
    <3>q. QED BY <1>1, <2>1, <2>3, <3>2, <3>3 DEF MarkKind, Marked
  <2>q. QED BY <2>2, <2>3
<1>3. ASSUME power' = power, UNCHANGED nv_flsh_state,
             pc'[Main] = pc[Main] \/ pc'[Main] \in {"merased", "berased", "mdone", "bdone"},
             pc[Main] # "loop"
      PROVE  MarkKind
  BY <1>1, <1>3 DEF MarkKind, Marked
<1>4. CASE MainErase(Main) \/ BakErase(Main)
  <2>1. power' = power /\ UNCHANGED nv_flsh_state /\ pc[Main] \in {"merase", "berase"}
    BY <1>4 DEF MainErase, BakErase, SyncErase, Step, shell
  <2>2. pc'[Main] = pc[Main] \/ pc'[Main] \in {"merased", "berased"}
    BY <1>1, <1>4, Jumps, LabelsAreLabels DEF MainErase, BakErase, SyncErase
  <2>q. QED BY <1>3, <2>1, <2>2
<1>5. CASE MainDrain(Main) \/ BakDrain(Main)
  <2>1. power' = power /\ UNCHANGED nv_flsh_state /\ pc[Main] \in {"mdrain", "bdrain"}
    BY <1>5 DEF MainDrain, BakDrain, SyncDrain, Step, shell
  <2>2. pc'[Main] = pc[Main] \/ pc'[Main] \in {"mdone", "bdone"}
    BY <1>1, <1>5, Jumps, LabelsAreLabels DEF MainDrain, BakDrain, SyncDrain
  <2>q. QED BY <1>3, <2>1, <2>2
<1>6. ASSUME NEW s \in States \ {"IDLE"}, NEW l \in PCs \ {"mwritten"}, power' = power,
             GoTo(s), Jump(Main, l)
      PROVE  MarkKind
  <2>1. nv_flsh_state'.state = s /\ nv_flsh_state'.is_update = nv_flsh_state.is_update /\ pc'[Main] = l
    BY <1>1, <1>6, Jumps DEF GoTo, StateType
  <2>q. QED BY <1>1, <1>6, <2>1 DEF MarkKind, Marked
<1>7. CASE MainErased(Main) \/ MainDone(Main) \/ BakErased(Main)
  BY <1>6, <1>7, LabelsAreLabels
  DEF MainErased, MainDone, BakErased, SyncState, shell, States, MainStates, BakStates
<1>8. CASE MainWrite(Main)
  <2>1. pc[Main] = "mwrite" /\ power' = power /\ UNCHANGED nv_flsh_state
    BY <1>8 DEF MainWrite, Step, shell
  <2>2. CASE UNCHANGED pc
    BY <1>3, <2>1, <2>2
  <2>3. CASE WriteOK("main", Blank(mirror)) /\ snap' = mirror /\ Jump(Main, "mwritten")
    <3>1. nv_flsh_state.state \in {"MAIN_ERASED", "MAIN_WRITTING"} /\ MainStage /\ ErasingMain
      BY <2>1, Labels DEF ErasingMain, At
    <3>2. pc'[Main] = "mwritten"
      BY <1>1, <2>3, Jumps, LabelsAreLabels
    <3>3. MainUnwritten' /\ flash' = flash
      BY <2>3, <3>1, WriteMainUnwritten DEF IInv, FlashOK, ErasingMain
    <3>4. WriteMainKind
      BY <1>1, <1>8, <2>3, <3>1, <3>2, <3>3, LateAfter, LateStages DEF WriteMainKind, MainWrite
    <3>q. QED BY <1>1, <2>1, <3>1, <3>4 DEF MarkKind, Marked
  <2>q. QED BY <1>8, <2>2, <2>3 DEF MainWrite
<1>9. CASE MainWritten(Main)
  <2>1. pc[Main] = "mwritten" /\ power' = power /\ nv_flsh_state'.state = "MAIN_WRITTEN"
    BY <1>1, <1>9 DEF MainWritten, Step, shell, StateType
  <2>q. QED BY <1>1, <2>1 DEF MarkKind
<1>10. CASE BakStart(Main)
  <2>1. /\ power' = power /\ nv_flsh_state'.state = "BAK_WRITTING"
        /\ nv_flsh_state'.is_update = nv_flsh_state.is_update
    BY <1>1, <1>10 DEF BakStart, shell, StateType
  <2>2. pc'[Main] = "bpage"
    BY <1>1, <1>10, Jumps, LabelsAreLabels DEF BakStart
  <2>q. QED BY <1>1, <2>1, <2>2 DEF MarkKind, Marked
<1>11. CASE BakPage(Main)
  <2>1. pc[Main] = "bpage" /\ power' = power /\ nv_flsh_state.state = "BAK_WRITTING"
    BY <1>11, Labels DEF BakPage, Step, shell, WritingBak, At
  <2>2. nv_flsh_state'.state # "IDLE" /\ nv_flsh_state'.is_update = nv_flsh_state.is_update
    BY <1>1, <1>11, <2>1 DEF BakPage, PageWritten, StateType
  <2>3. pc'[Main] \in {"bpage", "bdrain"}
    BY <1>1, <1>11, <2>1, Jumps, LabelsAreLabels DEF BakPage
  <2>q. QED BY <1>1, <2>1, <2>2, <2>3 DEF MarkKind, Marked
<1>12. CASE BakDone(Main)
  <2>1. power' = power /\ nv_flsh_state'.is_update = nv_flsh_state.is_update
        /\ nv_flsh_state'.state = "IDLE" /\ pc[Main] = "bdone"
    BY <1>1, <1>12 DEF BakDone, Step, shell, GoTo, StateType
  <2>2. pc'[Main] = "loop"
    BY <1>1, <1>12, Jumps, LabelsAreLabels DEF BakDone
  <2>3. Rests' /\ ~Rests
    BY <2>1, <2>2 DEF Rests
  <2>4. DoneKind
    BY <1>1, <2>3 DEF StepKind, KeepsResting
  <2>q. QED BY <1>1, <2>1, <2>2, <2>4 DEF MarkKind, Marked
<1>q. QED BY <1>2, <1>4, <1>5, <1>7, <1>8, <1>9, <1>10, <1>11, <1>12 DEF SyncFlush

\* The asynchronous flush hands over the mirror and lowers the mark at once.
LEMMA AsyncMark ==
    ASSUME Threads = {Main}, IInv, pc[Main] = "out", nv_record_execute_async_flush
    PROVE  MarkKind
<1>1. /\ StepKind /\ SameRecord /\ StateType /\ On /\ UNCHANGED <<pc, power>>
      /\ nv_flsh_state.is_update \in BOOLEAN
  BY AsyncKind, PoweredOn DEF nv_record_execute_async_flush, record, SameRecord, IInv, StateType
<1>2. ASSUME nv_flsh_state'.is_update = nv_flsh_state.is_update, nv_flsh_state'.state # "IDLE"
      PROVE  MarkKind
  BY <1>1, <1>2 DEF MarkKind, Marked
<1>3. CASE AsyncNothing
  <2>1. UNCHANGED <<nv_flsh_state, flash>>
    BY <1>3 DEF AsyncNothing, norflash
  <2>q. QED BY <1>1, <2>1 DEF MarkKind, Marked, Rests, KeepsResting
<1>4. CASE AsyncMainErase \/ AsyncBakErase
  BY <1>1, <1>2, <1>4 DEF AsyncMainErase, AsyncBakErase, AsyncErase, GoTo, StateType
<1>5. CASE AsyncMainWrite
  <2>1. CASE /\ WriteOK("main", Blank(mirror)) /\ snap' = mirror /\ UNCHANGED durable
             /\ nv_flsh_state' = [nv_flsh_state EXCEPT !.is_update = FALSE, !.state = "MAIN_WRITTEN"]
    <3>1. nv_flsh_state'.state = "MAIN_WRITTEN" /\ MainStage /\ ErasingMain
      BY <1>1, <1>5, <2>1, StatesTell DEF StateType, AsyncMainWrite
    <3>2. MainUnwritten' /\ flash' = flash
      BY <2>1, <3>1, WriteMainUnwritten DEF IInv, FlashOK, ErasingMain
    <3>3. WriteMainKind
      BY <1>1, <2>1, <3>1, <3>2, LateAfter, LateStages DEF WriteMainKind
    <3>q. QED BY <1>1, <3>1, <3>3 DEF MarkKind
  <2>2. CASE GoTo("MAIN_WRITTING")
    BY <1>1, <1>2, <2>2 DEF GoTo, StateType
  <2>q. QED BY <1>5, <2>1, <2>2 DEF AsyncMainWrite
<1>6. CASE AsyncMainDrain
  BY <1>1, <1>2, <1>6 DEF AsyncMainDrain, GoTo, StateType
<1>7. CASE AsyncBakWrite
  BY <1>1, <1>2, <1>7 DEF AsyncBakWrite, StateType
<1>8. CASE AsyncBakDrain
  <2>1. CASE GoTo("IDLE")
    <3>1. nv_flsh_state'.is_update = nv_flsh_state.is_update /\ nv_flsh_state'.state = "IDLE"
          /\ nv_flsh_state.state = "BAK_WRITTEN"
      BY <1>1, <1>8, <2>1 DEF GoTo, StateType, AsyncBakDrain
    <3>2. DoneKind
      BY <1>1, <3>1 DEF StepKind, KeepsResting, Rests
    <3>q. QED BY <1>1, <3>1, <3>2 DEF MarkKind, Marked
  <2>2. CASE UNCHANGED nv_flsh_state
    BY <1>1, <1>2, <1>8, <2>2 DEF AsyncBakDrain
  <2>q. QED BY <1>8, <2>1, <2>2 DEF AsyncBakDrain
<1>q. QED BY <1>3, <1>4, <1>5, <1>6, <1>7, <1>8 DEF nv_record_execute_async_flush

\* Every step but a boot or a power loss, when no thread calls a flush.
LEMMA Marks ==
    ASSUME Threads = {Main}, Callers = {}, IInv, Next
    PROVE  (StepKind /\ MarkKind) \/ nv_record_extension_init \/ Crash
<1>1. StateType /\ nv_flsh_state.is_update \in BOOLEAN
  BY DEF IInv, StateType
<1>2. ASSUME FlashHook \/ OthersTake \/ Tick, StepKind
      PROVE  MarkKind
  <2>1. UNCHANGED <<nv_flsh_state, pc, power>> /\ SameRecord
    BY <1>2 DEF FlashHook, OthersTake, Tick, record, shell, SameRecord
  <2>2. ASSUME nv_flsh_state.state = "IDLE", pc[Main] \in {"out", "loop"}
        PROVE  Rests /\ KeepsResting
    <3>1. Rests /\ Rests' /\ ~Late
      BY <2>1, <2>2 DEF Rests, Late, BakStates
    <3>q. QED BY <1>2, <3>1 DEF StepKind, DoneKind
  <2>q. QED BY <2>1, <2>2 DEF MarkKind, Marked
<1>3. ASSUME nv_record_env_set
      PROVE  MarkKind
  BY <1>1, <1>3 DEF nv_record_env_set, UpdateMark, StateType, MarkKind, Marked
<1>4. CASE StepKind
  BY <1>2, <1>3, <1>4, SyncMark, AsyncMark DEF Next, nv_record_flash_flush_in_sleep
<1>q. QED BY <1>4, Kinds

\* Such a step keeps the mark and the flash in agreement.
LEMMA MarksKeep ==
    ASSUME UInv, On, On', StepKind, MarkKind
    PROVE  FlushesAtBoot' /\ SnapIsMirror' /\ RestsUpdated'
<1>0. power # "off" /\ snap \in Nat
  BY DEF On, UInv, JInv, IInv, Numbers
<1>1. FlushesAtBoot'
  BY <1>0 DEF UInv, FlushesAtBoot, MarkKind
<1>2. SnapIsMirror'
  <2> SUFFICES ASSUME Late', pc'[Main] = "mwritten" \/ ~Marked'
               PROVE  snap' = mirror'
    BY DEF SnapIsMirror
  <2>1. CASE WriteMainKind
    BY <2>1 DEF WriteMainKind, SameRecord
  <2>2. CASE ~WriteMainKind
    <3>1. Late /\ snap' = snap
      BY <2>2 DEF StepKind, QuietKind, FlushKind, EraseKind, WriteBakKind, DoneKind, SameLate
    <3>2. SameRecord
      BY <1>0, <2>2 DEF MarkKind, UInv, FlushesAtBoot
    <3>q. QED BY <1>0, <2>2, <3>1, <3>2 DEF MarkKind, UInv, SnapIsMirror, SameRecord
  <2>q. QED BY <2>1, <2>2
<1>3. RestsUpdated'
  <2> SUFFICES ASSUME nv_flsh_state'.state = "IDLE", ~Marked'
               PROVE  Recovered' = mirror' /\ pc'[Main] \in {"out", "loop"}
    BY DEF RestsUpdated
  <2>1. SameRecord
    BY DEF MarkKind
  <2>2. CASE DoneKind /\ pc'[Main] \in {"out", "loop"} /\ ~Marked
    <3>1. Recovered' = Recovered /\ Recovered = snap
      BY <1>0, <2>2, SameRecovered, BlankIsValid, Others DEF DoneKind, Recovered, VersionOf
    <3>q. QED BY <1>0, <2>1, <2>2, <3>1 DEF DoneKind, UInv, SnapIsMirror, SameRecord
  <2>3. CASE /\ nv_flsh_state.state = "IDLE" /\ ~Marked
             /\ pc[Main] \in {"out", "loop"} => pc'[Main] \in {"out", "loop"} /\ Rests /\ KeepsResting
    <3>1. Recovered = mirror /\ pc[Main] \in {"out", "loop"}
      BY <1>0, <2>3 DEF UInv, RestsUpdated
    <3>q. QED BY <2>1, <2>3, <3>1, SameRecovered DEF KeepsResting, SameRecord
  <2>q. QED BY <2>2, <2>3 DEF MarkKind
<1>q. QED BY <1>1, <1>2, <1>3

\* A boot loads what flash holds, or is marked to repair it.
LEMMA MarksBoot ==
    ASSUME Threads = {Main}, UInv, nv_record_extension_init
    PROVE  FlushesAtBoot' /\ SnapIsMirror' /\ RestsUpdated'
<1>1. Off /\ PcType /\ flash' = flash
  BY DEF UInv, JInv, IInv, On, nv_record_extension_init, norflash
<1>2. CASE RepairNeeded
  <2>1. power' = "boot" /\ Marked' /\ pc'[Main] = "loop"
    BY <1>1, <1>2, Jumps, LabelsAreLabels DEF nv_record_extension_init, Marked
  <2>q. QED BY <2>1 DEF FlushesAtBoot, SnapIsMirror, RestsUpdated
<1>3. CASE ~RepairNeeded
  <2>1. pc'[Main] = "out" /\ nv_flsh_state'.state = "IDLE" /\ mirror' = flash["main"][0] /\ MainValid
    BY <1>1, <1>3 DEF nv_record_extension_init, RepairNeeded, RepairState, LoadedVersion, VersionOf, Off
  <2>2. Recovered' = mirror'
    BY <1>1, <2>1, SameRecovered DEF Recovered, MainValid, VersionOf
  <2>3. ~Late'
    BY <2>1, LateAfter
  <2>q. QED BY <2>1, <2>2, <2>3 DEF FlushesAtBoot, SnapIsMirror, RestsUpdated
<1>q. QED BY <1>2, <1>3

\* No update is lost: when nothing but the repair at boot and
\* nv_record_flash_flush_in_sleep flushes, the machine rests with is_update
\* low only when the next boot would load the very record in RAM.
THEOREM NoUpdateLost ==
    ASSUME Threads = {Main}, Callers = {}
    PROVE  Spec => []NoLostUpdate
<1>1. Init => UInv
  BY JInitially DEF Init, UInv, FlushesAtBoot, SnapIsMirror, RestsUpdated
<1>2. UInv /\ [Next]_vars => UInv'
  <2> SUFFICES ASSUME UInv, [Next]_vars
               PROVE  UInv'
    OBVIOUS
  <2>1. JInv'
    BY JPreserved DEF UInv
  <2>2. CASE UNCHANGED vars
    <3>1. UNCHANGED <<mirror, nv_flsh_state, pc, power, flash, snap>>
      BY <2>2 DEF vars
    <3>q. QED BY <2>1, <3>1, SameRecovered
          DEF UInv, FlushesAtBoot, SnapIsMirror, RestsUpdated, Late, Marked
  <2>3. CASE StepKind /\ MarkKind
    <3>1. On /\ On'
      BY <2>1, <2>3, PoweredOn DEF UInv, JInv, IInv, Off, On, StepKind
    <3>q. QED BY <2>1, <2>3, <3>1, MarksKeep DEF UInv
  <2>4. CASE nv_record_extension_init
    BY <2>1, <2>4, MarksBoot DEF UInv
  <2>5. CASE Crash
    BY <2>1, <2>5 DEF Crash, UInv, FlushesAtBoot, SnapIsMirror, RestsUpdated
  <2>q. QED BY <2>2, <2>3, <2>4, <2>5, Marks DEF UInv, JInv
<1>3. UInv => NoLostUpdate
  <2>1. UInv => nv_flsh_state.is_update \in BOOLEAN
    BY DEF UInv, JInv, IInv, StateType
  <2>q. QED BY <2>1 DEF UInv, RestsUpdated, NoLostUpdate, Marked
<1>q. QED BY <1>1, <1>2, <1>3, PTL DEF Spec
=============================================================================
