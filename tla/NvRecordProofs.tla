--------------------------- MODULE NvRecordProofs ---------------------------
(***************************************************************************)
(* Proofs about NvRecord, for every number of pages and versions, when one *)
(* thread at a time flushes (Threads = {Main}).                            *)
(***************************************************************************)
EXTENDS NvRecord, TLAPS

-----------------------------------------------------------------------------
(* The inductive invariant.                                                *)

\* The queue erases copy c, or has done so.
Erasing(c) ==
    \/ queue = <<EraseNode(c)>>
    \/ queue = <<>> /\ flash[c] = Blank(Erased)

\* The queue writes version v to copy c: when it is empty, the first k pages
\* of the copy will hold v and the others hold v or are erased.
VersionPages(v) == [Pages -> {Erased, v}]
CopyingErase(c, k) ==
    /\ queue = <<EraseNode(c)>>
    /\ \A p \in Pages : ~(p < k)
CopyingBoth(c, k, v) ==
    \E d \in VersionPages(v) :
        /\ queue = <<EraseNode(c), WriteNode(c, d)>>
        /\ \A p \in Pages : p < k => d[p] = v
CopyingWrite(c, k, v) ==
    \E d \in VersionPages(v) :
        /\ queue = <<WriteNode(c, d)>>
        /\ flash[c] \in VersionPages(v)
        /\ \A p \in Pages : p < k => flash[c][p] = v \/ (d[p] = v /\ p >= progress)
CopyingDone(c, k, v) ==
    /\ queue = <<>>
    /\ flash[c] \in VersionPages(v)
    /\ \A p \in Pages : p < k => flash[c][p] = v
Copying(c, k, v) ==
    CopyingErase(c, k) \/ CopyingBoth(c, k, v) \/ CopyingWrite(c, k, v) \/ CopyingDone(c, k, v)

QueueOK ==
    /\ progress \in Pages
    /\ queue = <<>> => locked = FALSE
    /\ progress # 0 => queue # <<>> /\ locked = TRUE

\* A valid copy is never older than the last completed flush.
NotOld(c) == nv_record_data_is_valid(c) => flash[c][0] >= durable

\* snap was handed to the queue after the last completed flush.
SnapOK == durable <= snap /\ snap <= mirror

\* Where the thread is, and what nv_flsh_state says.
At(labels, states) == pc[Main] \in labels /\ nv_flsh_state.state \in states

\* The stages of a flush, in their order.
Resting ==
    /\ At({"out", "loop", "merase"}, {"IDLE", "MAIN_ERASING"})
    /\ queue = <<>>
ErasingMain ==
    /\ \/ At({"merased"}, {"IDLE", "MAIN_ERASING"})
       \/ At({"out", "loop", "mwrite"}, {"MAIN_ERASED", "MAIN_WRITTING"})
    /\ Erasing("main")
WritingMain ==
    /\ \/ At({"mwritten"}, {"MAIN_ERASED", "MAIN_WRITTING"})
       \/ At({"out", "loop", "mdrain"}, {"MAIN_WRITTEN"})
    /\ Copying("main", NPages, snap) /\ SnapOK
MainIsDone ==
    /\ \/ At({"mdone"}, {"MAIN_WRITTEN"})
       \/ At({"out", "loop", "berase"}, {"MAIN_DONE", "BAK_ERASING"})
    /\ queue = <<>>
ErasingBak ==
    /\ \/ At({"berased"}, {"MAIN_DONE", "BAK_ERASING"})
       \/ At({"out", "loop", "bstart"}, {"BAK_ERASED"})
    /\ Copying("bak", 0, snap)
WritingBak ==
    /\ At({"out", "loop", "bstart", "bpage"}, {"BAK_WRITTING"})
    /\ Copying("bak", nv_flsh_state.written_size, snap)
BakWrittenStage ==
    /\ At({"out", "loop", "bdrain"}, {"BAK_WRITTEN"})
    /\ Copying("bak", NPages, snap)
BakIsDone ==
    /\ At({"bdone"}, {"BAK_WRITTEN"})
    /\ queue = <<>>
    /\ flash["bak"] = Blank(snap)

\* Until the main copy is complete the backup is valid; afterwards the main
\* copy is, and holds snap.
MainStage == (durable > 0 => BakValid) /\ (Resting \/ ErasingMain \/ WritingMain)
BakStage ==
    /\ flash["main"] = Blank(snap) /\ SnapOK
    /\ MainIsDone \/ ErasingBak \/ WritingBak \/ BakWrittenStage \/ BakIsDone

Off ==
    /\ power = "off"
    /\ pc[Main] = "out" /\ queue = <<>>
    /\ durable > 0 => MainValid \/ BakValid
On ==
    /\ power # "off"
    /\ durable <= mirror /\ mirror <= clock
    /\ MainStage \/ BakStage

Numbers ==
    /\ mirror \in Nat /\ clock \in Nat /\ snap \in Nat /\ durable \in Nat
    /\ durable <= clock /\ snap <= clock
    /\ clock = 0 => power = "off"
FlashType == flash \in [Copies -> [Pages -> Content]]
FlashOK ==
    /\ FlashType
    /\ \A c \in Copies, p \in Pages : flash[c][p] \in Nat => flash[c][p] <= clock
    /\ \A c \in Copies : NotOld(c)
PcType == pc \in [Threads -> PCs]
StateType == nv_flsh_state \in [is_update : BOOLEAN, state : States, written_size : Nat]

IInv == Numbers /\ FlashOK /\ QueueOK /\ PcType /\ StateType /\ (Off \/ On)

-----------------------------------------------------------------------------
(* Facts about the queue.                                                  *)

\* Head and tail of a queue of one node.
LEMMA One == ASSUME NEW a PROVE Tail(<<a>>) = <<>> /\ Head(<<a>>) = a /\ <<a>> # <<>>
OBVIOUS

\* Head and tail of a queue of two nodes.
LEMMA Two == ASSUME NEW a, NEW b
             PROVE Tail(<<a, b>>) = <<b>> /\ Head(<<a, b>>) = a /\ <<a, b>> # <<>>
OBVIOUS

\* A sector has a page 0 (NV_EXTENSION_SIZE is at least one page).
LEMMA PagesZero == 0 \in Pages /\ Pages \subseteq Nat
BY NPagesAssumption DEF Pages

OtherCopy(c) == IF c = "main" THEN "bak" ELSE "main"

\* What a step that works on copy c leaves of the flash: the other copy, and
\* of copy c the old content, an erased or torn sector, or pages of v.
Touches(c, v) ==
    /\ FlashType'
    /\ flash'[OtherCopy(c)] = flash[OtherCopy(c)]
    /\ \/ flash'[c] \in {flash[c], Blank(Erased), Blank(Torn)}
       \/ flash'[c] \in VersionPages(v)

\* What an erase of copy c leaves of the flash.
Wipes(c) ==
    /\ FlashType'
    /\ flash'[OtherCopy(c)] = flash[OtherCopy(c)]
    /\ flash'[c] \in {flash[c], Blank(Erased), Blank(Torn)}

\* norflash_api_flush does not touch the flash for an empty queue.
LEMMA FlushIdle ==
    ASSUME QueueOK, queue = <<>>, norflash_api_flush
    PROVE  queue' = <<>> /\ flash' = flash /\ QueueOK'
BY DEF QueueOK, norflash_api_flush, FlushOthers, norflash

\* Of a step of norflash_api_flush, what concerns this client.
LEMMA FlushCases ==
    ASSUME norflash_api_flush
    PROVE  \/ queue # <<>> /\ (FlushErase \/ FlushWrite)
           \/ UNCHANGED <<queue, locked, progress, flash>>
BY DEF norflash_api_flush, FlushOthers, norflash

\* _opera_flush finishes the erase at the head of the queue, or leaves it
\* there with the sector torn.
LEMMA FlushEraseStep ==
    ASSUME NEW c \in Copies, FlashType, FlushErase, Head(queue) = EraseNode(c), QueueOK
    PROVE  /\ \/ queue' = Tail(queue) /\ flash'[c] = Blank(Erased) /\ progress' = 0 /\ locked' = FALSE
              \/ queue' = queue /\ flash'[c] = Blank(Torn) /\ progress' = progress /\ locked' = TRUE
           /\ Wipes(c)
<1>1. Head(queue).copy = c
  BY DEF EraseNode
<1>2. CASE flash' = [flash EXCEPT ![c] = Blank(Erased)] /\ Dequeue
  BY <1>2 DEF Dequeue, Wipes, FlashType, OtherCopy, Copies, Blank, Content
<1>3. CASE flash' = [flash EXCEPT ![c] = Blank(Torn)] /\ locked' = TRUE /\ UNCHANGED <<queue, progress>>
  BY <1>3 DEF Wipes, FlashType, OtherCopy, Copies, Blank, Content
<1>q. QED BY <1>1, <1>2, <1>3 DEF FlushErase

\* A queued erase of copy c stays queued until the sector is erased.
LEMMA FlushErasing ==
    ASSUME NEW c \in Copies, FlashType, QueueOK, Erasing(c), norflash_api_flush
    PROVE  Erasing(c)' /\ QueueOK' /\ Wipes(c)
<1>1. CASE queue = <<>>
  <2>1. queue' = <<>> /\ flash' = flash /\ QueueOK'
    BY <1>1, FlushIdle
  <2>q. QED BY <2>1, <1>1, One DEF Erasing, Wipes, FlashType
<1>2. CASE queue = <<EraseNode(c)>> /\ UNCHANGED <<queue, locked, progress, flash>>
  BY <1>2 DEF Erasing, QueueOK, Wipes, FlashType
<1>3. CASE queue = <<EraseNode(c)>> /\ FlushErase
  <2>1. Head(queue) = EraseNode(c) /\ Tail(queue) = <<>> /\ queue # <<>>
    BY <1>3, One
  <2>w. Wipes(c)
    BY <1>3, <2>1, FlushEraseStep
  <2>2. CASE queue' = Tail(queue) /\ flash'[c] = Blank(Erased) /\ progress' = 0 /\ locked' = FALSE
    BY <2>2, <2>1, <2>w, PagesZero DEF Erasing, QueueOK
  <2>3. CASE queue' = queue /\ flash'[c] = Blank(Torn) /\ progress' = progress /\ locked' = TRUE
    BY <2>3, <2>1, <2>w, <1>3 DEF Erasing, QueueOK
  <2>q. QED BY <1>3, <2>1, <2>2, <2>3, FlushEraseStep
<1>4. CASE queue = <<EraseNode(c)>> /\ FlushWrite
  BY <1>4, One DEF FlushWrite, EraseNode
<1>q. QED BY <1>1, <1>2, <1>3, <1>4, FlushCases DEF Erasing

\* Programming one page of version v into an erased page or a page of v.
LEMMA ProgramVersion ==
    ASSUME NEW v, NEW old \in {Erased, v}, NEW new \in {Erased, v}
    PROVE  Program(old, new) \in {Erased, v} /\ (old = v \/ new = v => Program(old, new) = v)
BY DEF Program

\* _opera_flush programs the next page of the write node at the head of the
\* queue.
LEMMA FlushWriteStep ==
    ASSUME NEW c \in Copies, NEW v \in Nat, NEW d \in VersionPages(v), FlashType, QueueOK,
           FlushWrite, queue = <<WriteNode(c, d)>>, flash[c] \in VersionPages(v)
    PROVE  /\ flash' = [flash EXCEPT ![c] = [flash[c] EXCEPT ![progress] = Program(flash[c][progress], d[progress])]]
           /\ Program(flash[c][progress], d[progress]) \in {Erased, v}
           /\ flash'[c] \in VersionPages(v)
           /\ \A p \in Pages : flash[c][p] = v => flash'[c][p] = v
           /\ d[progress] = v => flash'[c][progress] = v
           /\ Touches(c, v)
           /\ \/ progress + 1 = NPages /\ queue' = <<>> /\ locked' = FALSE /\ progress' = 0
              \/ progress + 1 # NPages /\ queue' = queue /\ locked' = TRUE /\ progress' = progress + 1
<1>1. Head(queue).copy = c /\ Head(queue).data = d /\ Tail(queue) = <<>>
  BY One DEF WriteNode
<1>2. flash' = [flash EXCEPT ![c] = [flash[c] EXCEPT ![progress] = Program(flash[c][progress], d[progress])]]
  BY <1>1 DEF FlushWrite, ProgramPage
<1>3. progress \in Pages
  BY DEF QueueOK
<1>4. /\ Program(flash[c][progress], d[progress]) \in {Erased, v}
      /\ flash[c][progress] = v \/ d[progress] = v => Program(flash[c][progress], d[progress]) = v
  BY <1>3, ProgramVersion DEF VersionPages
<1>5. flash'[c] = [flash[c] EXCEPT ![progress] = Program(flash[c][progress], d[progress])]
  BY <1>2 DEF FlashType
<1>6. flash'[c] \in VersionPages(v)
  BY <1>5, <1>4 DEF VersionPages
<1>7. /\ \A p \in Pages : flash[c][p] = v => flash'[c][p] = v
      /\ d[progress] = v => flash'[c][progress] = v
  BY <1>5, <1>4, <1>3 DEF VersionPages
<1>8. flash'[OtherCopy(c)] = flash[OtherCopy(c)]
  BY <1>2 DEF FlashType, OtherCopy, Copies
<1>9. FlashType'
  <2>1. VersionPages(v) \subseteq [Pages -> Content]
    BY DEF VersionPages, Content
  <2>q. QED BY <1>2, <1>5, <1>6, <2>1 DEF FlashType
<1>10. \/ progress + 1 = NPages /\ queue' = <<>> /\ locked' = FALSE /\ progress' = 0
       \/ progress + 1 # NPages /\ queue' = queue /\ locked' = TRUE /\ progress' = progress + 1
  BY <1>1 DEF FlushWrite, Dequeue
<1>q. QED BY <1>2, <1>4, <1>6, <1>7, <1>8, <1>9, <1>10 DEF Touches

\* An empty sector or a queued erase is the beginning of any copy.
LEMMA ErasingCopies ==
    ASSUME NEW c \in Copies, NEW v, Erasing(c)
    PROVE  Copying(c, 0, v)
<1>1. \A p \in Pages : ~(p < 0)
  BY PagesZero
<1>q. QED BY <1>1 DEF Erasing, Copying, CopyingErase, CopyingDone, VersionPages, Blank

\* The same in the state a step leads to.
LEMMA ErasingCopiesNext ==
    ASSUME NEW c \in Copies, Erasing(c)'
    PROVE  Copying(c, 0, snap)'
<1>1. \A p \in Pages : ~(p < 0)
  BY PagesZero
<1>q. QED BY <1>1 DEF Erasing, Copying, CopyingErase, CopyingDone, VersionPages, Blank

\* The flush of a copy in progress keeps what the copy will become.
LEMMA FlushCopying ==
    ASSUME NEW c \in Copies, NEW k \in Nat, NEW v \in Nat, FlashType, QueueOK,
           Copying(c, k, v), norflash_api_flush
    PROVE  Copying(c, k, v)' /\ QueueOK' /\ Touches(c, v)
<1>1. CASE UNCHANGED <<queue, locked, progress, flash>>
  BY <1>1 DEF QueueOK, Touches, FlashType,
     Copying, CopyingErase, CopyingBoth, CopyingWrite, CopyingDone
<1>2. CASE queue = <<>>
  BY <1>1, <1>2, FlushCases, FlushIdle DEF QueueOK, Touches, FlashType,
     Copying, CopyingErase, CopyingBoth, CopyingWrite, CopyingDone
<1>3. ASSUME queue # <<>>, FlushErase \/ FlushWrite, CopyingErase(c, k)
      PROVE  Copying(c, k, v)' /\ QueueOK' /\ Touches(c, v)
  <2>1. queue = <<EraseNode(c)>> /\ Head(queue) = EraseNode(c) /\ Tail(queue) = <<>>
    BY <1>3, One DEF CopyingErase
  <2>2. FlushErase
    BY <1>3, <2>1 DEF FlushWrite, EraseNode
  <2>w. Touches(c, v)
    BY <2>1, <2>2, FlushEraseStep DEF Wipes, Touches
  <2>3. CASE queue' = Tail(queue) /\ flash'[c] = Blank(Erased) /\ progress' = 0 /\ locked' = FALSE
    <3>1. CopyingDone(c, k, v)'
      BY <2>3, <2>1, <1>3 DEF CopyingErase, CopyingDone, VersionPages, Blank
    <3>q. QED BY <3>1, <2>3, <2>1, <2>w, PagesZero DEF Copying, QueueOK
  <2>4. CASE queue' = queue /\ flash'[c] = Blank(Torn) /\ progress' = progress /\ locked' = TRUE
    BY <2>4, <2>1, <2>w, <1>3 DEF Copying, CopyingErase, QueueOK
  <2>q. QED BY <2>1, <2>2, <2>3, <2>4, FlushEraseStep
<1>4. ASSUME queue # <<>>, FlushErase \/ FlushWrite, CopyingBoth(c, k, v)
      PROVE  Copying(c, k, v)' /\ QueueOK' /\ Touches(c, v)
  <2>0. PICK d \in VersionPages(v) :
            /\ queue = <<EraseNode(c), WriteNode(c, d)>>
            /\ \A p \in Pages : p < k => d[p] = v
    BY <1>4 DEF CopyingBoth
  <2>1. Head(queue) = EraseNode(c) /\ Tail(queue) = <<WriteNode(c, d)>>
    BY <2>0, Two
  <2>2. FlushErase
    BY <1>4, <2>1 DEF FlushWrite, EraseNode
  <2>w. Touches(c, v)
    BY <2>1, <2>2, FlushEraseStep DEF Wipes, Touches
  <2>3. CASE queue' = Tail(queue) /\ flash'[c] = Blank(Erased) /\ progress' = 0 /\ locked' = FALSE
    <3>1. \A p \in Pages : p >= 0
      BY PagesZero
    <3>2. CopyingWrite(c, k, v)'
      BY <2>3, <2>1, <2>0, <3>1 DEF CopyingWrite, VersionPages, Blank
    <3>q. QED BY <3>2, <2>3, <2>1, <2>w, PagesZero, One DEF Copying, QueueOK
  <2>4. CASE queue' = queue /\ flash'[c] = Blank(Torn) /\ progress' = progress /\ locked' = TRUE
    BY <2>4, <2>w, <1>4 DEF Copying, CopyingBoth, QueueOK
  <2>q. QED BY <2>1, <2>2, <2>3, <2>4, FlushEraseStep
<1>5. ASSUME queue # <<>>, FlushErase \/ FlushWrite, CopyingWrite(c, k, v)
      PROVE  Copying(c, k, v)' /\ QueueOK' /\ Touches(c, v)
  <2>0. PICK d \in VersionPages(v) :
            /\ queue = <<WriteNode(c, d)>>
            /\ flash[c] \in VersionPages(v)
            /\ \A p \in Pages : p < k => flash[c][p] = v \/ (d[p] = v /\ p >= progress)
    BY <1>5 DEF CopyingWrite
  <2>1. Head(queue) = WriteNode(c, d)
    BY <2>0, One
  <2>2. FlushWrite
    BY <1>5, <2>1 DEF FlushErase, WriteNode
  <2>s. /\ flash'[c] \in VersionPages(v)
        /\ \A p \in Pages : flash[c][p] = v => flash'[c][p] = v
        /\ d[progress] = v => flash'[c][progress] = v
        /\ Touches(c, v)
        /\ \/ progress + 1 = NPages /\ queue' = <<>> /\ locked' = FALSE /\ progress' = 0
           \/ progress + 1 # NPages /\ queue' = queue /\ locked' = TRUE /\ progress' = progress + 1
    BY <2>0, <2>2, FlushWriteStep
  <2>p. progress \in Pages
    BY DEF QueueOK
  <2>3. CASE progress + 1 = NPages /\ queue' = <<>> /\ locked' = FALSE /\ progress' = 0
    <3>1. \A p \in Pages : p >= progress => p = progress
      BY <2>3, <2>p, NPagesAssumption DEF Pages
    <3>2. CopyingDone(c, k, v)'
      BY <2>3, <2>0, <2>s, <3>1 DEF CopyingDone
    <3>q. QED BY <3>2, <2>3, <2>s, PagesZero DEF Copying, QueueOK
  <2>4. CASE progress + 1 # NPages /\ queue' = queue /\ locked' = TRUE /\ progress' = progress + 1
    <3>1. progress + 1 \in Pages /\ (\A p \in Pages : p >= progress => p = progress \/ p >= progress + 1)
      BY <2>4, <2>p, NPagesAssumption DEF Pages
    <3>2. CopyingWrite(c, k, v)'
      BY <2>4, <2>0, <2>s, <3>1 DEF CopyingWrite
    <3>q. QED BY <3>2, <3>1, <2>4, <2>s, <1>5 DEF Copying, QueueOK
  <2>q. QED BY <2>s, <2>3, <2>4
<1>q. QED BY <1>1, <1>2, <1>3, <1>4, <1>5, FlushCases DEF Copying, CopyingDone

\* norflash_api_erase on an empty queue queues one erase of the sector.
LEMMA EraseStart ==
    ASSUME NEW c \in Copies, QueueOK, queue = <<>>, EraseOK(c)
    PROVE  Erasing(c)' /\ QueueOK' /\ flash' = flash
<1>1. Dropped(c) = {} /\ Kept(c) = <<>>
  BY DEF Dropped, Kept
<1>2. locked = FALSE
  BY DEF QueueOK
<1>3. ~EraseMerged(c)
  BY <1>2 DEF EraseMerged
<1>4. queue' = Append(<<>>, EraseNode(c))
  BY <1>1, <1>3 DEF EraseOK
<1>5. queue' = <<EraseNode(c)>>
  BY <1>4
<1>q. QED BY <1>5, <1>2, One DEF EraseOK, Erasing, QueueOK

\* Two contents of version v laid over each other.
LEMMA OverlayVersion ==
    ASSUME NEW v, NEW d \in VersionPages(v), NEW e \in VersionPages(v)
    PROVE  /\ Overlay(d, e) \in VersionPages(v)
           /\ \A p \in Pages : d[p] = v \/ e[p] = v => Overlay(d, e)[p] = v
BY DEF Overlay, VersionPages

\* norflash_api_write of pages of v to a copy that is being written with v:
\* the data join the queued write node, or become one.
LEMMA WriteCopying ==
    ASSUME NEW c \in Copies, NEW k \in Nat, NEW j \in Nat, NEW v \in Nat,
           NEW e \in VersionPages(v), QueueOK, Copying(c, k, v), WriteOK(c, e),
           \A p \in Pages : p < j => p < k \/ e[p] = v
    PROVE  Copying(c, j, v)' /\ QueueOK' /\ flash' = flash
<1>0. flash' = flash /\ locked' = locked /\ progress' = progress
  BY DEF WriteOK
<1>w. \/ \E i \in DOMAIN queue : Mergeable(c, i) /\ queue' = [queue EXCEPT ![i].data = Overlay(@, e)]
      \/ /\ \A i \in DOMAIN queue : ~Mergeable(c, i)
         /\ BufferFree
         /\ queue' = Append(queue, WriteNode(c, e))
  BY DEF WriteOK
<1>1. CASE CopyingErase(c, k)
  <2>1. queue = <<EraseNode(c)>>
    BY <1>1 DEF CopyingErase
  <2>2. DOMAIN queue = {1} /\ queue[1].op = "erase"
    BY <2>1 DEF EraseNode
  <2>3. \A i \in DOMAIN queue : ~Mergeable(c, i)
    BY <2>2 DEF Mergeable
  <2>4. queue' = <<EraseNode(c), WriteNode(c, e)>>
    BY <2>1, <2>3, <1>w
  <2>5. \A p \in Pages : p < j => e[p] = v
    BY <1>1 DEF CopyingErase
  <2>6. CopyingBoth(c, j, v)'
    BY <2>4, <2>5 DEF CopyingBoth
  <2>q. QED BY <2>6, <2>4, <2>1, <1>0, One, Two DEF Copying, QueueOK
<1>2. CASE CopyingBoth(c, k, v)
  <2>0. PICK d \in VersionPages(v) :
            /\ queue = <<EraseNode(c), WriteNode(c, d)>>
            /\ \A p \in Pages : p < k => d[p] = v
    BY <1>2 DEF CopyingBoth
  <2>1. DOMAIN queue = {1, 2} /\ queue[1].op = "erase" /\ queue[2] = WriteNode(c, d)
    BY <2>0 DEF EraseNode
  <2>2. Mergeable(c, 2)
    BY <2>1 DEF Mergeable, IsLocked, WriteNode
  <2>3. ~Mergeable(c, 1)
    BY <2>1 DEF Mergeable
  <2>4. queue' = [queue EXCEPT ![2].data = Overlay(@, e)]
    BY <2>1, <2>2, <2>3, <1>w
  <2>5. queue' = <<EraseNode(c), WriteNode(c, Overlay(d, e))>>
    BY <2>4, <2>0 DEF WriteNode
  <2>6. CopyingBoth(c, j, v)'
    BY <2>5, <2>0, OverlayVersion DEF CopyingBoth
  <2>q. QED BY <2>6, <2>5, <2>0, <1>0, Two DEF Copying, QueueOK
<1>3. CASE CopyingWrite(c, k, v)
  <2>0. PICK d \in VersionPages(v) :
            /\ queue = <<WriteNode(c, d)>>
            /\ flash[c] \in VersionPages(v)
            /\ \A p \in Pages : p < k => flash[c][p] = v \/ (d[p] = v /\ p >= progress)
    BY <1>3 DEF CopyingWrite
  <2>1. DOMAIN queue = {1} /\ queue[1] = WriteNode(c, d) /\ queue[1].op = "write"
    BY <2>0 DEF WriteNode
  <2>2. ~BufferFree
    BY <2>1 DEF BufferFree
  <2>3. Mergeable(c, 1) /\ queue' = [queue EXCEPT ![1].data = Overlay(@, e)]
    BY <2>1, <2>2, <1>w
  <2>4. locked # TRUE
    BY <2>3 DEF Mergeable, IsLocked
  <2>5. progress = 0
    BY <2>4 DEF QueueOK
  <2>6. queue' = <<WriteNode(c, Overlay(d, e))>>
    BY <2>3, <2>0 DEF WriteNode
  <2>7. \A p \in Pages : p >= 0
    BY PagesZero
  <2>8. CopyingWrite(c, j, v)'
    <3>1. /\ Overlay(d, e) \in VersionPages(v)
          /\ \A p \in Pages : d[p] = v \/ e[p] = v => Overlay(d, e)[p] = v
      BY OverlayVersion
    <3>q. QED BY <2>6, <2>0, <2>5, <2>7, <1>0, <3>1 DEF CopyingWrite
  <2>q. QED BY <2>8, <2>6, <2>0, <2>5, <1>0, One DEF Copying, QueueOK
<1>4. CASE CopyingDone(c, k, v)
  <2>1. queue = <<>> /\ DOMAIN queue = {}
    BY <1>4 DEF CopyingDone
  <2>2. queue' = <<WriteNode(c, e)>>
    BY <2>1, <1>w
  <2>3. progress = 0 /\ locked = FALSE
    BY <2>1 DEF QueueOK
  <2>4. \A p \in Pages : p >= 0
    BY PagesZero
  <2>5. CopyingWrite(c, j, v)'
    BY <2>2, <2>3, <2>4, <1>0, <1>4 DEF CopyingWrite, CopyingDone
  <2>q. QED BY <2>5, <2>2, <2>3, <1>0, One, PagesZero DEF Copying, QueueOK
<1>q. QED BY <1>1, <1>2, <1>3, <1>4 DEF Copying

\* A copy whose queue has drained is complete.
LEMMA CopyComplete ==
    ASSUME NEW c \in Copies, NEW v, queue = <<>>, Copying(c, NPages, v)
    PROVE  flash[c] = Blank(v)
<1>1. CopyingDone(c, NPages, v)
  BY One, Two DEF Copying, CopyingErase, CopyingBoth, CopyingWrite
<1>2. \A p \in Pages : p < NPages
  BY NPagesAssumption DEF Pages
<1>q. QED BY <1>1, <1>2 DEF CopyingDone, VersionPages, Blank

\* The same in the state a step leads to.
LEMMA CopyCompletes ==
    ASSUME NEW c \in Copies, queue' = <<>>, Copying(c, NPages, snap)'
    PROVE  flash'[c] = Blank(snap')
<1>1. ASSUME NEW v, Copying(c, NPages, v)'
      PROVE  flash'[c] = Blank(v)
  <2>1. CopyingDone(c, NPages, v)'
    BY <1>1, One, Two DEF Copying, CopyingErase, CopyingBoth, CopyingWrite
  <2>2. \A p \in Pages : p < NPages
    BY NPagesAssumption DEF Pages
  <2>q. QED BY <2>1, <2>2 DEF CopyingDone, VersionPages, Blank
<1>q. QED BY <1>1

\* While only the backup is in the queue, norflash_api_read of the main copy
\* returns what flash holds.
LEMMA ReadMain ==
    ASSUME NEW k, NEW v, Copying("bak", k, v), NEW p \in Pages
    PROVE  norflash_api_read("main", p) = flash["main"][p]
<1>1. \A i \in DOMAIN queue : queue[i].copy # "main"
  <2>1. CASE queue = <<>>
    BY <2>1
  <2>2. CASE queue = <<EraseNode("bak")>>
    BY <2>2 DEF EraseNode
  <2>3. ASSUME NEW d, queue = <<EraseNode("bak"), WriteNode("bak", d)>>
        PROVE  \A i \in DOMAIN queue : queue[i].copy # "main"
    BY <2>3 DEF EraseNode, WriteNode
  <2>4. ASSUME NEW d, queue = <<WriteNode("bak", d)>>
        PROVE  \A i \in DOMAIN queue : queue[i].copy # "main"
    BY <2>4 DEF WriteNode
  <2>q. QED BY <2>1, <2>2, <2>3, <2>4
        DEF Copying, CopyingErase, CopyingBoth, CopyingWrite, CopyingDone
<1>2. {i \in DOMAIN queue : queue[i].copy = "main"} = {}
  BY <1>1
<1>q. QED BY <1>2 DEF norflash_api_read

\* Power fails while copy c is erased or written: of copy c the old content
\* is left, or something no boot accepts, and the other copy is as it was.
Spoils(c) ==
    /\ FlashType'
    /\ flash'[OtherCopy(c)] = flash[OtherCopy(c)]
    /\ \/ flash'[c] = flash[c]
       \/ \E p \in Pages : flash'[c] \in {Blank(Torn), [flash[c] EXCEPT ![p] = Torn]}

\* Crash: only the sector at the head of the queue is spoilt.
LEMMA CrashSpoils ==
    ASSUME NEW c \in Copies, FlashType, QueueOK, flash' \in TornFlash,
           queue = <<>> \/ Head(queue).copy = c
    PROVE  Spoils(c)
<1>1. CASE flash' = flash
  BY <1>1 DEF Spoils, FlashType
<1>2. ASSUME queue # <<>>, flash' = [flash EXCEPT ![c] = Blank(Torn)]
      PROVE  Spoils(c)
  BY <1>2, PagesZero DEF Spoils, FlashType, OtherCopy, Copies, Blank, Content
<1>3. ASSUME queue # <<>>, flash' = [flash EXCEPT ![c][progress] = Torn]
      PROVE  Spoils(c)
  BY <1>3 DEF Spoils, FlashType, OtherCopy, Copies, QueueOK, Content
<1>q. QED BY <1>1, <1>2, <1>3 DEF TornFlash

\* While copy c is erased or written, the flash works on copy c only.
LEMMA HeadCopy ==
    ASSUME NEW c, NEW k, NEW v, Copying(c, k, v) \/ Erasing(c)
    PROVE  queue = <<>> \/ Head(queue).copy = c
<1>1. CASE queue = <<EraseNode(c)>>
  BY <1>1 DEF EraseNode
<1>2. ASSUME NEW d, queue = <<EraseNode(c), WriteNode(c, d)>>
      PROVE  Head(queue).copy = c
  BY <1>2 DEF EraseNode
<1>3. ASSUME NEW d, queue = <<WriteNode(c, d)>>
      PROVE  Head(queue).copy = c
  BY <1>3 DEF WriteNode
<1>q. QED BY <1>1, <1>2, <1>3
      DEF Erasing, Copying, CopyingErase, CopyingBoth, CopyingWrite, CopyingDone

-----------------------------------------------------------------------------
(* What steps of the flash do to the two copies.                           *)

\* Flash as it was, while the record may have become newer.
LEMMA FlashSame ==
    ASSUME Numbers, FlashOK, flash' = flash, durable' = durable,
           clock' \in Nat, clock' >= clock
    PROVE  FlashOK'
BY DEF Numbers, FlashOK, FlashType, NotOld, nv_record_data_is_valid, Holds

\* A copy that is erased stops being valid.
LEMMA FlashWiped ==
    ASSUME NEW c \in Copies, Numbers, FlashOK, Wipes(c), UNCHANGED <<durable, clock>>
    PROVE  FlashOK'
<1>1. ASSUME NEW e \in Copies, flash'[e] = flash[e]
      PROVE  NotOld(e)' /\ \A p \in Pages : flash'[e][p] \in Nat => flash'[e][p] <= clock'
  BY <1>1 DEF FlashOK, NotOld, nv_record_data_is_valid, Holds
<1>2. ASSUME flash'[c] \in {Blank(Erased), Blank(Torn)}
      PROVE  NotOld(c)' /\ \A p \in Pages : flash'[c][p] \in Nat => flash'[c][p] <= clock'
  BY <1>2, ContentAssumption, PagesZero DEF NotOld, nv_record_data_is_valid, Blank
<1>3. \A e \in Copies : e = c \/ e = OtherCopy(c)
  BY DEF Copies, OtherCopy
<1>q. QED BY <1>1, <1>2, <1>3 DEF FlashOK, Wipes

\* A copy that is written with snap is not older than a completed flush.
LEMMA FlashTouched ==
    ASSUME NEW c \in Copies, Numbers, FlashOK, Touches(c, snap), durable <= snap,
           UNCHANGED <<durable, clock>>
    PROVE  FlashOK'
<1>1. ASSUME NEW e \in Copies, flash'[e] = flash[e]
      PROVE  NotOld(e)' /\ \A p \in Pages : flash'[e][p] \in Nat => flash'[e][p] <= clock'
  BY <1>1 DEF FlashOK, NotOld, nv_record_data_is_valid, Holds
<1>2. ASSUME flash'[c] \in {Blank(Erased), Blank(Torn)}
      PROVE  NotOld(c)' /\ \A p \in Pages : flash'[c][p] \in Nat => flash'[c][p] <= clock'
  BY <1>2, ContentAssumption, PagesZero DEF NotOld, nv_record_data_is_valid, Blank
<1>3. ASSUME flash'[c] \in VersionPages(snap)
      PROVE  NotOld(c)' /\ \A p \in Pages : flash'[c][p] \in Nat => flash'[c][p] <= clock'
  BY <1>3, ContentAssumption, PagesZero
  DEF NotOld, nv_record_data_is_valid, VersionPages, Numbers
<1>4. \A e \in Copies : e = c \/ e = OtherCopy(c)
  BY DEF Copies, OtherCopy
<1>q. QED BY <1>1, <1>2, <1>3, <1>4 DEF FlashOK, Touches

\* A copy that a power loss spoils stops being valid.
LEMMA FlashSpoilt ==
    ASSUME NEW c \in Copies, Numbers, FlashOK, Spoils(c), UNCHANGED <<durable, clock>>
    PROVE  FlashOK'
<1>1. ASSUME NEW e \in Copies, flash'[e] = flash[e]
      PROVE  NotOld(e)' /\ \A p \in Pages : flash'[e][p] \in Nat => flash'[e][p] <= clock'
  BY <1>1 DEF FlashOK, NotOld, nv_record_data_is_valid, Holds
<1>2. ASSUME flash'[c] = Blank(Torn)
      PROVE  NotOld(c)' /\ \A p \in Pages : flash'[c][p] \in Nat => flash'[c][p] <= clock'
  BY <1>2, ContentAssumption, PagesZero DEF NotOld, nv_record_data_is_valid, Blank
<1>3. ASSUME NEW q \in Pages, flash'[c] = [flash[c] EXCEPT ![q] = Torn]
      PROVE  NotOld(c)' /\ \A p \in Pages : flash'[c][p] \in Nat => flash'[c][p] <= clock'
  <2>1. flash[c] \in [Pages -> Content]
    BY DEF FlashOK, FlashType
  <2>2. flash'[c][q] = Torn
    BY <1>3, <2>1
  <2>3. ~nv_record_data_is_valid(c)'
    BY <2>2, ContentAssumption DEF nv_record_data_is_valid, Holds, Blank
  <2>4. \A p \in Pages : flash'[c][p] \in Nat => flash'[c][p] <= clock'
    BY <1>3, <2>1, ContentAssumption DEF FlashOK
  <2>q. QED BY <2>3, <2>4 DEF NotOld
<1>4. \A e \in Copies : e = c \/ e = OtherCopy(c)
  BY DEF Copies, OtherCopy
<1>q. QED BY <1>1, <1>2, <1>3, <1>4 DEF FlashOK, Spoils

\* norflash_api_flush while the sector of copy c is erased.
LEMMA FlushWhenErasing ==
    ASSUME NEW c \in Copies, Numbers, FlashOK, QueueOK, Erasing(c), norflash_api_flush,
           UNCHANGED <<durable, clock>>
    PROVE  Erasing(c)' /\ QueueOK' /\ FlashOK' /\ flash'[OtherCopy(c)] = flash[OtherCopy(c)]
BY FlushErasing, FlashWiped DEF FlashOK, Wipes

\* norflash_api_flush while copy c is written with snap.
LEMMA FlushWhenCopying ==
    ASSUME NEW c \in Copies, NEW k \in Nat, Numbers, FlashOK, QueueOK, Copying(c, k, snap),
           durable <= snap, norflash_api_flush, UNCHANGED <<durable, clock, snap>>
    PROVE  Copying(c, k, snap)' /\ QueueOK' /\ FlashOK' /\ flash'[OtherCopy(c)] = flash[OtherCopy(c)]
<1>1. snap \in Nat /\ FlashType
  BY DEF Numbers, FlashOK
<1>2. ASSUME NEW v \in Nat, Copying(c, k, v)
      PROVE  Copying(c, k, v)' /\ QueueOK' /\ Touches(c, v)
  BY <1>1, <1>2, FlushCopying
<1>3. QueueOK' /\ Touches(c, snap)
  BY <1>1, <1>2
<1>4. Copying(c, k, snap)'
  BY <1>1, <1>2
<1>q. QED BY <1>3, <1>4, FlashTouched DEF Touches

\* The backup stays valid while its sector is not touched.
LEMMA BakKept ==
    ASSUME flash'["bak"] = flash["bak"], durable' = durable, durable > 0 => BakValid
    PROVE  (durable > 0 => BakValid)'
BY DEF BakValid, nv_record_data_is_valid, Holds

\* The two copies are each other's other copy.
LEMMA Others == OtherCopy("main") = "bak" /\ OtherCopy("bak") = "main" /\ "main" \in Copies /\ "bak" \in Copies
BY DEF OtherCopy, Copies

\* A jump moves the only thread.
LEMMA Jumps ==
    ASSUME Threads = {Main}, PcType, NEW l \in PCs, Jump(Main, l)
    PROVE  pc'[Main] = l /\ PcType'
BY DEF PcType, Jump

-----------------------------------------------------------------------------
(* Every action keeps the invariant.  First the synchronous flush.         *)

\* What a step of a flush leaves alone.
Frame == UNCHANGED <<mirror, clock, durable, power>>

\* What a step of a flush has to establish.
LEMMA Finish ==
    ASSUME Numbers, On, Frame, snap' \in Nat, snap' <= clock,
           FlashOK', QueueOK', PcType', StateType', MainStage' \/ BakStage'
    PROVE  IInv'
BY DEF IInv, Numbers, On, Frame

\* The label of the thread tells the stage.
LEMMA Labels ==
    ASSUME IInv, pc[Main] # "out"
    PROVE  /\ On
           /\ pc[Main] = "merase" => MainStage /\ Resting
           /\ pc[Main] \in {"merased", "mwrite"} => MainStage /\ ErasingMain
           /\ pc[Main] \in {"mwritten", "mdrain"} => MainStage /\ WritingMain
           /\ pc[Main] \in {"mdone", "berase"} => BakStage /\ MainIsDone
           /\ pc[Main] = "berased" => BakStage /\ ErasingBak
           /\ pc[Main] = "bstart" => BakStage /\ (ErasingBak \/ WritingBak)
           /\ pc[Main] = "bpage" => BakStage /\ WritingBak
           /\ pc[Main] = "bdrain" => BakStage /\ BakWrittenStage
           /\ pc[Main] = "bdone" => BakStage /\ BakIsDone
BY DEF IInv, Off, On, MainStage, BakStage, Resting, ErasingMain, WritingMain, MainIsDone,
       ErasingBak, WritingBak, BakWrittenStage, BakIsDone, At

\* A state change is a change of one field.
LEMMA GoesTo ==
    ASSUME StateType, NEW s \in States, GoTo(s)
    PROVE  StateType' /\ nv_flsh_state'.state = s /\ nv_flsh_state'.written_size = nv_flsh_state.written_size
BY DEF StateType, GoTo

\* The labels used are labels.
LEMMA LabelsAreLabels ==
    /\ {"out", "loop", "merase", "merased", "mwrite", "mwritten", "mdrain", "mdone"} \subseteq PCs
    /\ {"berase", "berased", "bstart", "bpage", "bdrain", "bdone"} \subseteq PCs
BY DEF PCs

\* nv_record_extension_flush_main queues the erase of the main sector.
LEMMA MainEraseInv ==
    ASSUME Threads = {Main}, IInv, MainErase(Main)
    PROVE  IInv'
<1>1. pc[Main] = "merase" /\ Frame /\ UNCHANGED <<snap, nv_flsh_state>>
  BY DEF MainErase, SyncErase, Step, record, shell, history, Frame
<1>2. On /\ MainStage /\ Resting
  BY <1>1, Labels
<1>3. Numbers /\ FlashOK /\ QueueOK /\ PcType /\ StateType /\ queue = <<>>
  BY <1>2 DEF IInv, Resting
<1>4. CASE EraseOK("main") /\ Jump(Main, "merased")
  <2>1. Erasing("main")' /\ QueueOK' /\ flash' = flash
    BY <1>4, <1>3, EraseStart, Others
  <2>2. pc'[Main] = "merased" /\ PcType'
    BY <1>4, <1>3, Jumps, LabelsAreLabels
  <2>3. MainStage'
    BY <2>1, <2>2, <1>1, <1>2, BakKept DEF MainStage, Resting, ErasingMain, At, Frame
  <2>4. FlashOK'
    BY <2>1, <1>1, <1>3, FlashSame DEF Frame, Numbers
  <2>q. QED BY <2>1, <2>2, <2>3, <2>4, <1>1, <1>2, <1>3, Finish DEF Numbers, StateType
<1>5. CASE norflash_api_flush /\ UNCHANGED pc
  <2>1. queue' = <<>> /\ flash' = flash /\ QueueOK'
    BY <1>5, <1>3, FlushIdle
  <2>3. MainStage'
    BY <2>1, <1>5, <1>1, <1>2, BakKept DEF MainStage, Resting, At, Frame
  <2>4. FlashOK'
    BY <2>1, <1>1, <1>3, FlashSame DEF Frame, Numbers
  <2>q. QED BY <2>1, <2>3, <2>4, <1>1, <1>2, <1>3, <1>5, Finish DEF Numbers, StateType, PcType
<1>q. QED BY <1>4, <1>5 DEF MainErase, SyncErase

\* The assignment of MAIN_ERASED.
LEMMA MainErasedInv ==
    ASSUME Threads = {Main}, IInv, MainErased(Main)
    PROVE  IInv'
<1>1. /\ pc[Main] = "merased" /\ Frame /\ UNCHANGED <<snap, queue, locked, progress, flash>>
      /\ GoTo("MAIN_ERASED") /\ Jump(Main, "mwrite")
  BY DEF MainErased, SyncState, Step, record, shell, history, norflash, Frame
<1>2. On /\ MainStage /\ ErasingMain
  BY <1>1, Labels
<1>3. Numbers /\ FlashOK /\ QueueOK /\ PcType /\ StateType
  BY DEF IInv
<1>4. StateType' /\ nv_flsh_state'.state = "MAIN_ERASED"
  BY <1>1, <1>3, GoesTo DEF States, MainStates
<1>5. pc'[Main] = "mwrite" /\ PcType'
  BY <1>1, <1>3, Jumps, LabelsAreLabels
<1>6. Erasing("main")' /\ QueueOK'
  BY <1>1, <1>2, <1>3 DEF ErasingMain, Erasing, QueueOK
<1>7. MainStage'
  BY <1>1, <1>2, <1>4, <1>5, <1>6, BakKept DEF MainStage, ErasingMain, At, Frame
<1>8. FlashOK'
  BY <1>1, <1>3, FlashSame DEF Frame, Numbers
<1>q. QED BY <1>1, <1>2, <1>3, <1>4, <1>5, <1>6, <1>7, <1>8, Finish DEF Numbers

\* The mirror is newer than every completed flush when it becomes snap.
LEMMA WriteMainCopy ==
    ASSUME Numbers, QueueOK, On, Erasing("main"), WriteOK("main", Blank(mirror)), snap' = mirror
    PROVE  Copying("main", NPages, snap)' /\ QueueOK' /\ flash' = flash
<1>1. mirror \in Nat /\ NPages \in Nat /\ 0 \in Nat
  BY NPagesAssumption DEF Numbers
<1>2. Copying("main", 0, mirror)
  BY <1>1, Others, ErasingCopies
<1>3. Blank(mirror) \in VersionPages(mirror) /\ \A p \in Pages : Blank(mirror)[p] = mirror
  BY DEF Blank, VersionPages
<1>4. ASSUME NEW v \in Nat, v = mirror
      PROVE  Copying("main", NPages, v)' /\ QueueOK' /\ flash' = flash
  BY <1>1, <1>2, <1>3, <1>4, Others, WriteCopying
<1>5. PICK v \in Nat : v = mirror
  BY <1>1
<1>6. Copying("main", NPages, v)' /\ snap' = v
  BY <1>4, <1>5
<1>7. Copying("main", NPages, snap)'
  BY <1>6
<1>q. QED BY <1>7, <1>4, <1>5

\* The mirror is handed to the queue, or the queue is full.
LEMMA MainWriteInv ==
    ASSUME Threads = {Main}, IInv, MainWrite(Main)
    PROVE  IInv'
<1>1. pc[Main] = "mwrite" /\ Frame /\ UNCHANGED nv_flsh_state
  BY DEF MainWrite, Step, record, shell, Frame
<1>2. On /\ MainStage /\ ErasingMain
  BY <1>1, Labels
<1>3. Numbers /\ FlashOK /\ QueueOK /\ PcType /\ StateType /\ Erasing("main")
  BY <1>2 DEF IInv, ErasingMain
<1>4. CASE WriteOK("main", Blank(mirror)) /\ snap' = mirror /\ Jump(Main, "mwritten")
  <2>1. Copying("main", NPages, snap)' /\ QueueOK' /\ flash' = flash
    BY <1>4, <1>2, <1>3, WriteMainCopy
  <2>2. pc'[Main] = "mwritten" /\ PcType'
    BY <1>4, <1>3, Jumps, LabelsAreLabels
  <2>3. SnapOK'
    BY <1>1, <1>2, <1>3, <1>4 DEF SnapOK, On, Frame, Numbers
  <2>4. MainStage'
    BY <2>1, <2>2, <2>3, <1>1, <1>2, BakKept DEF MainStage, ErasingMain, WritingMain, At, Frame
  <2>5. FlashOK'
    BY <2>1, <1>1, <1>3, FlashSame DEF Frame, Numbers
  <2>q. QED BY <2>1, <2>2, <2>4, <2>5, <1>1, <1>2, <1>3, <1>4, Finish DEF Numbers, StateType, On
<1>5. CASE norflash_api_flush /\ UNCHANGED <<snap, pc>>
  <2>1. Erasing("main")' /\ QueueOK' /\ FlashOK' /\ flash'["bak"] = flash["bak"]
    BY <1>5, <1>1, <1>3, Others, FlushWhenErasing DEF Frame
  <2>2. MainStage'
    BY <2>1, <1>5, <1>1, <1>2, BakKept DEF MainStage, ErasingMain, At, Frame
  <2>q. QED BY <2>1, <2>2, <1>1, <1>2, <1>3, <1>5, Finish DEF Numbers, StateType, PcType
<1>q. QED BY <1>4, <1>5 DEF MainWrite

\* The assignments of is_update and MAIN_WRITTEN.
LEMMA MainWrittenInv ==
    ASSUME Threads = {Main}, IInv, MainWritten(Main)
    PROVE  IInv'
<1>1. /\ pc[Main] = "mwritten" /\ Frame /\ UNCHANGED <<snap, queue, locked, progress, flash>>
      /\ nv_flsh_state' = [nv_flsh_state EXCEPT !.is_update = FALSE, !.state = "MAIN_WRITTEN"]
      /\ Jump(Main, "mdrain")
  BY DEF MainWritten, Step, record, shell, history, norflash, Frame
<1>2. On /\ MainStage /\ WritingMain
  BY <1>1, Labels
<1>3. Numbers /\ FlashOK /\ QueueOK /\ PcType /\ StateType
  BY DEF IInv
<1>4. StateType' /\ nv_flsh_state'.state = "MAIN_WRITTEN"
  BY <1>1, <1>3 DEF StateType, States, MainStates
<1>5. pc'[Main] = "mdrain" /\ PcType'
  BY <1>1, <1>3, Jumps, LabelsAreLabels
<1>6. Copying("main", NPages, snap)' /\ QueueOK' /\ SnapOK'
  BY <1>1, <1>2, <1>3
  DEF WritingMain, Copying, CopyingErase, CopyingBoth, CopyingWrite, CopyingDone, QueueOK, SnapOK, Frame
<1>7. MainStage'
  BY <1>1, <1>2, <1>4, <1>5, <1>6, BakKept DEF MainStage, WritingMain, At, Frame
<1>8. FlashOK'
  BY <1>1, <1>3, FlashSame DEF Frame, Numbers
<1>q. QED BY <1>1, <1>2, <1>3, <1>4, <1>5, <1>6, <1>7, <1>8, Finish DEF Numbers

\* The loop that waits until the main copy is in flash.
LEMMA MainDrainInv ==
    ASSUME Threads = {Main}, IInv, MainDrain(Main)
    PROVE  IInv'
<1>1. /\ pc[Main] = "mdrain" /\ Frame /\ UNCHANGED <<snap, nv_flsh_state>> /\ norflash_api_flush
      /\ IF queue' = <<>> THEN Jump(Main, "mdone") ELSE UNCHANGED pc
  BY DEF MainDrain, SyncDrain, Step, record, shell, history, Frame
<1>2. On /\ MainStage /\ WritingMain
  BY <1>1, Labels
<1>3. Numbers /\ FlashOK /\ QueueOK /\ PcType /\ StateType /\ SnapOK /\ Copying("main", NPages, snap)
  BY <1>2 DEF IInv, WritingMain
<1>4. Copying("main", NPages, snap)' /\ QueueOK' /\ FlashOK' /\ flash'["bak"] = flash["bak"]
  BY <1>1, <1>3, Others, NPagesAssumption, FlushWhenCopying DEF SnapOK, Frame
<1>5. SnapOK'
  BY <1>1, <1>3 DEF SnapOK, Frame
<1>6. CASE queue' = <<>>
  <2>1. pc'[Main] = "mdone" /\ PcType'
    BY <1>1, <1>3, <1>6, Jumps, LabelsAreLabels
  <2>2. flash'["main"] = Blank(snap')
    BY <1>4, <1>6, Others, CopyCompletes
  <2>3. nv_flsh_state.state = "MAIN_WRITTEN"
    BY <1>1, <1>2 DEF WritingMain, At
  <2>4. BakStage'
    BY <1>1, <1>5, <1>6, <2>1, <2>2, <2>3 DEF BakStage, MainIsDone, At
  <2>q. QED BY <2>1, <2>4, <1>1, <1>2, <1>3, <1>4, Finish DEF Numbers, StateType
<1>7. CASE UNCHANGED pc
  <2>1. MainStage'
    BY <1>1, <1>2, <1>4, <1>5, <1>7, BakKept DEF MainStage, WritingMain, At, Frame
  <2>q. QED BY <2>1, <1>1, <1>2, <1>3, <1>4, <1>7, Finish DEF Numbers, StateType, PcType
<1>q. QED BY <1>1, <1>6, <1>7

\* The assignment of MAIN_DONE.
LEMMA MainDoneInv ==
    ASSUME Threads = {Main}, IInv, MainDone(Main)
    PROVE  IInv'
<1>1. /\ pc[Main] = "mdone" /\ Frame /\ UNCHANGED <<snap, queue, locked, progress, flash>>
      /\ GoTo("MAIN_DONE") /\ Jump(Main, "loop")
  BY DEF MainDone, SyncState, Step, record, shell, history, norflash, Frame
<1>2. On /\ BakStage /\ MainIsDone
  BY <1>1, Labels
<1>3. Numbers /\ FlashOK /\ QueueOK /\ PcType /\ StateType
  BY DEF IInv
<1>4. StateType' /\ nv_flsh_state'.state = "MAIN_DONE"
  BY <1>1, <1>3, GoesTo DEF States, BakStates
<1>5. pc'[Main] = "loop" /\ PcType'
  BY <1>1, <1>3, Jumps, LabelsAreLabels
<1>6. QueueOK' /\ FlashOK'
  BY <1>1, <1>3, FlashSame DEF QueueOK, Frame, Numbers
<1>7. BakStage'
  BY <1>1, <1>2, <1>4, <1>5 DEF BakStage, MainIsDone, SnapOK, At, Frame
<1>q. QED BY <1>1, <1>2, <1>3, <1>4, <1>5, <1>6, <1>7, Finish DEF Numbers

\* nv_record_extension_flush_bak queues the erase of the backup sector.
LEMMA BakEraseInv ==
    ASSUME Threads = {Main}, IInv, BakErase(Main)
    PROVE  IInv'
<1>1. pc[Main] = "berase" /\ Frame /\ UNCHANGED <<snap, nv_flsh_state>>
  BY DEF BakErase, SyncErase, Step, record, shell, history, Frame
<1>2. On /\ BakStage /\ MainIsDone
  BY <1>1, Labels
<1>3. Numbers /\ FlashOK /\ QueueOK /\ PcType /\ StateType /\ queue = <<>>
  BY <1>2 DEF IInv, MainIsDone
<1>4. CASE EraseOK("bak") /\ Jump(Main, "berased")
  <2>1. Erasing("bak")' /\ QueueOK' /\ flash' = flash
    BY <1>4, <1>3, EraseStart, Others
  <2>2. pc'[Main] = "berased" /\ PcType'
    BY <1>4, <1>3, Jumps, LabelsAreLabels
  <2>3. Copying("bak", 0, snap)'
    BY <2>1, ErasingCopiesNext, Others
  <2>4. BakStage'
    BY <2>1, <2>2, <2>3, <1>1, <1>2 DEF BakStage, MainIsDone, ErasingBak, SnapOK, At, Frame
  <2>5. FlashOK'
    BY <2>1, <1>1, <1>3, FlashSame DEF Frame, Numbers
  <2>q. QED BY <2>1, <2>2, <2>4, <2>5, <1>1, <1>2, <1>3, Finish DEF Numbers, StateType
<1>5. CASE norflash_api_flush /\ UNCHANGED pc
  <2>1. queue' = <<>> /\ flash' = flash /\ QueueOK'
    BY <1>5, <1>3, FlushIdle
  <2>3. BakStage'
    BY <2>1, <1>5, <1>1, <1>2 DEF BakStage, MainIsDone, SnapOK, At, Frame
  <2>4. FlashOK'
    BY <2>1, <1>1, <1>3, FlashSame DEF Frame, Numbers
  <2>q. QED BY <2>1, <2>3, <2>4, <1>1, <1>2, <1>3, <1>5, Finish DEF Numbers, StateType, PcType
<1>q. QED BY <1>4, <1>5 DEF BakErase, SyncErase

\* A step that leaves queue and flash alone leaves the backup's copy alone.
LEMMA SameCopying ==
    ASSUME NEW k, Copying("bak", k, snap), UNCHANGED <<snap, queue, progress, flash>>
    PROVE  Copying("bak", k, snap)'
BY DEF Copying, CopyingErase, CopyingBoth, CopyingWrite, CopyingDone

\* The assignment of BAK_ERASED.
LEMMA BakErasedInv ==
    ASSUME Threads = {Main}, IInv, BakErased(Main)
    PROVE  IInv'
<1>1. /\ pc[Main] = "berased" /\ Frame /\ UNCHANGED <<snap, queue, locked, progress, flash>>
      /\ GoTo("BAK_ERASED") /\ Jump(Main, "bstart")
  BY DEF BakErased, SyncState, Step, record, shell, history, norflash, Frame
<1>2. On /\ BakStage /\ ErasingBak
  BY <1>1, Labels
<1>3. Numbers /\ FlashOK /\ QueueOK /\ PcType /\ StateType
  BY DEF IInv
<1>4. StateType' /\ nv_flsh_state'.state = "BAK_ERASED"
  BY <1>1, <1>3, GoesTo DEF States, BakStates
<1>5. pc'[Main] = "bstart" /\ PcType'
  BY <1>1, <1>3, Jumps, LabelsAreLabels
<1>6. QueueOK' /\ FlashOK'
  BY <1>1, <1>3, FlashSame DEF QueueOK, Frame, Numbers
<1>7. Copying("bak", 0, snap)'
  BY <1>1, <1>2, SameCopying DEF ErasingBak
<1>8. BakStage'
  BY <1>1, <1>2, <1>4, <1>5, <1>7 DEF BakStage, ErasingBak, SnapOK, At, Frame
<1>q. QED BY <1>1, <1>2, <1>3, <1>4, <1>5, <1>6, <1>8, Finish DEF Numbers

\* A copy may be begun again: its first page is still to come.
LEMMA CopyingFromZero ==
    ASSUME NEW k \in Nat, Copying("bak", k, snap)
    PROVE  Copying("bak", 0, snap)
<1>1. \A p \in Pages : ~(p < 0)
  BY PagesZero
<1>q. QED BY <1>1 DEF Copying, CopyingErase, CopyingBoth, CopyingWrite, CopyingDone

\* The copy of the backup begins, or begins again, at page 0.
LEMMA BakStartInv ==
    ASSUME Threads = {Main}, IInv, BakStart(Main)
    PROVE  IInv'
<1>1. /\ pc[Main] = "bstart" /\ Frame /\ UNCHANGED <<snap, queue, locked, progress, flash>>
      /\ nv_flsh_state' = [nv_flsh_state EXCEPT !.state = "BAK_WRITTING", !.written_size = 0]
      /\ Jump(Main, "bpage")
  BY DEF BakStart, Step, record, shell, history, norflash, Frame
<1>2. On /\ BakStage /\ (ErasingBak \/ WritingBak)
  BY <1>1, Labels
<1>3. Numbers /\ FlashOK /\ QueueOK /\ PcType /\ StateType
  BY DEF IInv
<1>4. StateType' /\ nv_flsh_state'.state = "BAK_WRITTING" /\ nv_flsh_state'.written_size = 0
  BY <1>1, <1>3 DEF StateType, States, BakStates
<1>5. pc'[Main] = "bpage" /\ PcType'
  BY <1>1, <1>3, Jumps, LabelsAreLabels
<1>6. QueueOK' /\ FlashOK'
  BY <1>1, <1>3, FlashSame DEF QueueOK, Frame, Numbers
<1>7. Copying("bak", 0, snap)
  <2>1. nv_flsh_state.written_size \in Nat
    BY <1>3 DEF StateType
  <2>q. QED BY <2>1, <1>2, CopyingFromZero DEF ErasingBak, WritingBak
<1>8. Copying("bak", 0, snap)'
  BY <1>1, <1>7, SameCopying
<1>9. Copying("bak", nv_flsh_state.written_size, snap)'
  BY <1>4, <1>8
<1>10. BakStage'
  BY <1>1, <1>2, <1>4, <1>5, <1>9 DEF BakStage, WritingBak, SnapOK, At, Frame
<1>q. QED BY <1>1, <1>2, <1>3, <1>4, <1>5, <1>6, <1>10, Finish DEF Numbers

\* norflash_api_write of pages read from the main copy while the backup is
\* being written: the pages hold snap, because the main copy does.
LEMMA WriteBakCopy ==
    ASSUME NEW k \in Nat, NEW j \in Nat, NEW e, Numbers, QueueOK,
           Copying("bak", k, snap), flash["main"] = Blank(snap),
           e \in [Pages -> {Erased} \cup {norflash_api_read("main", p) : p \in Pages}],
           \A p \in Pages : p < j => p < k \/ e[p] = norflash_api_read("main", p),
           WriteOK("bak", e), snap' = snap
    PROVE  Copying("bak", j, snap)' /\ QueueOK' /\ flash' = flash
<1>1. \A p \in Pages : norflash_api_read("main", p) = snap
  BY ReadMain DEF Blank
<1>2. e \in VersionPages(snap) /\ \A p \in Pages : p < j => p < k \/ e[p] = snap
  BY <1>1 DEF VersionPages
<1>3. snap \in Nat
  BY DEF Numbers
<1>4. ASSUME NEW v \in Nat, v = snap
      PROVE  Copying("bak", j, v)' /\ QueueOK' /\ flash' = flash
  BY <1>2, <1>4, Others, WriteCopying
<1>5. PICK v \in Nat : v = snap
  BY <1>3
<1>6. Copying("bak", j, v)' /\ snap' = v
  BY <1>4, <1>5
<1>7. Copying("bak", j, snap)'
  BY <1>6
<1>q. QED BY <1>7, <1>4, <1>5

\* One page is copied to the backup, or the queue is full.
LEMMA BakPageInv ==
    ASSUME Threads = {Main}, IInv, BakPage(Main)
    PROVE  IInv'
<1>1. /\ pc[Main] = "bpage" /\ Frame /\ UNCHANGED snap
      /\ nv_flsh_state.written_size \in Pages
  BY DEF BakPage, Step, record, shell, history, Frame
<1>2. On /\ BakStage /\ WritingBak
  BY <1>1, Labels
<1>3. /\ Numbers /\ FlashOK /\ QueueOK /\ PcType /\ StateType /\ SnapOK
      /\ Copying("bak", nv_flsh_state.written_size, snap) /\ flash["main"] = Blank(snap)
      /\ nv_flsh_state.written_size \in Nat /\ nv_flsh_state.state = "BAK_WRITTING"
  BY <1>2 DEF IInv, WritingBak, BakStage, StateType, At
<1>4. SnapOK'
  BY <1>1, <1>3 DEF SnapOK, Frame
<1>5. CASE /\ WriteOK("bak", PageData(nv_flsh_state.written_size)) /\ PageWritten
           /\ IF nv_flsh_state.written_size + 1 = NPages THEN Jump(Main, "bdrain") ELSE UNCHANGED pc
  <2> DEFINE k == nv_flsh_state.written_size
  <2>1. /\ PageData(k) \in [Pages -> {Erased} \cup {norflash_api_read("main", p) : p \in Pages}]
        /\ \A p \in Pages : p < k + 1 => p < k \/ PageData(k)[p] = norflash_api_read("main", p)
    <3>1. \A p \in Pages : p < k + 1 => p < k \/ p = k
      BY <1>3, PagesZero
    <3>q. QED BY <1>1, <3>1 DEF PageData
  <2>2. k \in Nat /\ k + 1 \in Nat
    BY <1>3
  <2>3. PICK j \in Nat : j = k + 1
    BY <2>2
  <2>4. Copying("bak", j, snap)' /\ QueueOK' /\ flash' = flash
    BY <1>1, <1>3, <1>5, <2>1, <2>2, <2>3, WriteBakCopy
  <2>5. /\ StateType' /\ nv_flsh_state'.written_size = j
        /\ nv_flsh_state'.state = IF j = NPages THEN "BAK_WRITTEN" ELSE "BAK_WRITTING"
    BY <1>3, <1>5, <2>3 DEF PageWritten, StateType, States, BakStates
  <2>6. FlashOK' /\ flash'["main"] = Blank(snap')
    BY <1>1, <1>3, <2>4, FlashSame DEF Frame, Numbers
  <2>7. CASE j = NPages
    <3>1. pc'[Main] = "bdrain" /\ PcType'
      BY <1>3, <1>5, <2>3, <2>7, Jumps, LabelsAreLabels
    <3>2. BakStage'
      BY <1>4, <2>4, <2>5, <2>6, <2>7, <3>1 DEF BakStage, BakWrittenStage, At
    <3>q. QED BY <1>1, <1>2, <1>3, <2>4, <2>5, <2>6, <3>1, <3>2, Finish DEF Numbers
  <2>8. CASE j # NPages
    <3>1. UNCHANGED pc
      BY <1>5, <2>3, <2>8
    <3>2. Copying("bak", nv_flsh_state.written_size, snap)'
      BY <2>4, <2>5
    <3>3. BakStage'
      BY <1>1, <1>4, <2>5, <2>6, <2>8, <3>1, <3>2 DEF BakStage, WritingBak, At
    <3>q. QED BY <1>1, <1>2, <1>3, <2>4, <2>5, <2>6, <3>1, <3>3, Finish DEF Numbers, PcType
  <2>q. QED BY <2>7, <2>8
<1>6. CASE norflash_api_flush /\ UNCHANGED <<nv_flsh_state, pc>>
  <2>1. /\ Copying("bak", nv_flsh_state.written_size, snap)' /\ QueueOK' /\ FlashOK'
        /\ flash'["main"] = flash["main"]
    <3>1. ASSUME NEW k \in Nat, k = nv_flsh_state.written_size
          PROVE  Copying("bak", k, snap)' /\ QueueOK' /\ FlashOK' /\ flash'["main"] = flash["main"]
      BY <1>1, <1>3, <1>6, <3>1, Others, FlushWhenCopying DEF SnapOK, Frame
    <3>2. PICK k \in Nat : k = nv_flsh_state.written_size
      BY <1>3
    <3>3. nv_flsh_state'.written_size = k
      BY <1>6, <3>2
    <3>q. QED BY <3>1, <3>2, <3>3
  <2>2. BakStage'
    BY <1>1, <1>2, <1>3, <1>4, <1>6, <2>1 DEF BakStage, WritingBak, At
  <2>q. QED BY <1>1, <1>2, <1>3, <1>6, <2>1, <2>2, Finish DEF Numbers, StateType, PcType
<1>q. QED BY <1>5, <1>6 DEF BakPage

\* The loop that waits until the backup is in flash.
LEMMA BakDrainInv ==
    ASSUME Threads = {Main}, IInv, BakDrain(Main)
    PROVE  IInv'
<1>1. /\ pc[Main] = "bdrain" /\ Frame /\ UNCHANGED <<snap, nv_flsh_state>> /\ norflash_api_flush
      /\ IF queue' = <<>> THEN Jump(Main, "bdone") ELSE UNCHANGED pc
  BY DEF BakDrain, SyncDrain, Step, record, shell, history, Frame
<1>2. On /\ BakStage /\ BakWrittenStage
  BY <1>1, Labels
<1>3. /\ Numbers /\ FlashOK /\ QueueOK /\ PcType /\ StateType /\ SnapOK
      /\ Copying("bak", NPages, snap) /\ flash["main"] = Blank(snap)
      /\ nv_flsh_state.state = "BAK_WRITTEN"
  BY <1>2 DEF IInv, BakStage, BakWrittenStage, At
<1>4. /\ Copying("bak", NPages, snap)' /\ QueueOK' /\ FlashOK'
      /\ flash'["main"] = Blank(snap')
  BY <1>1, <1>3, Others, NPagesAssumption, FlushWhenCopying DEF SnapOK, Frame
<1>5. SnapOK'
  BY <1>1, <1>3 DEF SnapOK, Frame
<1>6. CASE queue' = <<>>
  <2>1. pc'[Main] = "bdone" /\ PcType'
    BY <1>1, <1>3, <1>6, Jumps, LabelsAreLabels
  <2>2. flash'["bak"] = Blank(snap')
    BY <1>4, <1>6, Others, CopyCompletes
  <2>3. BakStage'
    BY <1>1, <1>3, <1>4, <1>5, <1>6, <2>1, <2>2 DEF BakStage, BakIsDone, At
  <2>q. QED BY <2>1, <2>3, <1>1, <1>2, <1>3, <1>4, Finish DEF Numbers, StateType
<1>7. CASE UNCHANGED pc
  <2>1. BakStage'
    BY <1>1, <1>2, <1>4, <1>5, <1>7 DEF BakStage, BakWrittenStage, At
  <2>q. QED BY <2>1, <1>1, <1>2, <1>3, <1>4, <1>7, Finish DEF Numbers, StateType, PcType
<1>q. QED BY <1>1, <1>6, <1>7

\* Both copies hold snap: the flush is complete, and snap becomes durable.
LEMMA Completed ==
    ASSUME Numbers, FlashOK, On, SnapOK, QueueOK, StateType',  PcType',
           \A c \in Copies : flash[c] = Blank(snap),
           queue = <<>>, durable' = snap, Resting',
           UNCHANGED <<mirror, clock, power, snap, locked, progress, flash>>
    PROVE  IInv'
<1>1. snap \in Nat /\ durable' = snap /\ Numbers'
  BY DEF Numbers, On
<1>2. \A c \in Copies : flash'[c] = Blank(snap) /\ flash'[c][0] = snap
  BY PagesZero DEF Blank
<1>3. FlashOK'
  <2>1. \A c \in Copies : NotOld(c)'
    BY <1>1, <1>2 DEF NotOld
  <2>q. QED BY <2>1 DEF FlashOK, FlashType
<1>4. BakValid'
  BY <1>1, <1>2, Others DEF BakValid, nv_record_data_is_valid, Holds
<1>5. MainStage' /\ On'
  BY <1>1, <1>4 DEF MainStage, On, SnapOK
<1>6. QueueOK'
  BY DEF QueueOK, Resting
<1>q. QED BY <1>1, <1>3, <1>5, <1>6 DEF IInv

\* The assignments of BAK_DONE and IDLE.
LEMMA BakDoneInv ==
    ASSUME Threads = {Main}, IInv, BakDone(Main)
    PROVE  IInv'
<1>1. /\ pc[Main] = "bdone" /\ UNCHANGED <<mirror, clock, power, snap, queue, locked, progress, flash>>
      /\ GoTo("IDLE") /\ Jump(Main, "loop") /\ durable' = snap
  BY DEF BakDone, Step, record, shell, norflash
<1>2. On /\ BakStage /\ BakIsDone
  BY <1>1, Labels
<1>3. /\ Numbers /\ FlashOK /\ QueueOK /\ PcType /\ StateType /\ SnapOK
      /\ flash["main"] = Blank(snap) /\ flash["bak"] = Blank(snap) /\ queue = <<>>
  BY <1>2 DEF IInv, BakStage, BakIsDone
<1>4. StateType' /\ nv_flsh_state'.state = "IDLE"
  BY <1>1, <1>3, GoesTo DEF States, MainStates
<1>5. pc'[Main] = "loop" /\ PcType'
  BY <1>1, <1>3, Jumps, LabelsAreLabels
<1>6. Resting'
  BY <1>1, <1>3, <1>4, <1>5 DEF Resting, At
<1>7. \A c \in Copies : flash[c] = Blank(snap)
  BY <1>3 DEF Copies
<1>q. QED BY <1>1, <1>2, <1>3, <1>4, <1>5, <1>6, <1>7, Completed

-----------------------------------------------------------------------------
(* Steps that leave queue and flash alone.                                 *)

\* The labels at which a flush takes up work in state s.
Fits(l, s) ==
    \/ l \in {"out", "loop"}
    \/ l = "merase" /\ s \in {"IDLE", "MAIN_ERASING"}
    \/ l = "mwrite" /\ s \in {"MAIN_ERASED", "MAIN_WRITTING"}
    \/ l = "mdrain" /\ s = "MAIN_WRITTEN"
    \/ l = "berase" /\ s \in {"MAIN_DONE", "BAK_ERASING"}
    \/ l = "bstart" /\ s \in {"BAK_ERASED", "BAK_WRITTING"}
    \/ l = "bdrain" /\ s = "BAK_WRITTEN"

\* A step that leaves queue and flash alone stays in its stage.
LEMMA StageKept ==
    ASSUME Numbers, StateType, MainStage \/ BakStage,
           UNCHANGED <<snap, durable, queue, progress, flash>>,
           nv_flsh_state'.state = nv_flsh_state.state,
           nv_flsh_state'.written_size = nv_flsh_state.written_size,
           mirror' \in Nat, mirror' >= mirror,
           \/ pc'[Main] = pc[Main]
           \/ pc[Main] \in {"out", "loop"} /\ Fits(pc'[Main], nv_flsh_state.state)
    PROVE  MainStage' \/ BakStage'
<1>1. SnapOK => SnapOK'
  BY DEF SnapOK, Numbers
<1>2. (durable > 0 => BakValid) => (durable > 0 => BakValid)'
  BY BakKept
<1>3. Erasing("main") => Erasing("main")'
  BY DEF Erasing
<1>4. Copying("main", NPages, snap) => Copying("main", NPages, snap)'
  BY DEF Copying, CopyingErase, CopyingBoth, CopyingWrite, CopyingDone
<1>5. Copying("bak", 0, snap) => Copying("bak", 0, snap)'
  BY SameCopying
<1>6. Copying("bak", NPages, snap) => Copying("bak", NPages, snap)'
  BY SameCopying
<1>7. Copying("bak", nv_flsh_state.written_size, snap) => Copying("bak", nv_flsh_state.written_size, snap)'
  BY SameCopying
<1>8. ASSUME MainStage
      PROVE  MainStage'
  <2>1. Resting => Resting'
    BY DEF Resting, At, Fits
  <2>2. ErasingMain => ErasingMain'
    BY <1>3 DEF ErasingMain, At, Fits
  <2>3. WritingMain => WritingMain'
    BY <1>1, <1>4 DEF WritingMain, At, Fits
  <2>q. QED BY <1>2, <1>8, <2>1, <2>2, <2>3 DEF MainStage
<1>9. ASSUME BakStage
      PROVE  BakStage'
  <2>1. MainIsDone => MainIsDone'
    BY DEF MainIsDone, At, Fits
  <2>2. ErasingBak => ErasingBak'
    BY <1>5 DEF ErasingBak, At, Fits
  <2>3. WritingBak => WritingBak'
    BY <1>7 DEF WritingBak, At, Fits
  <2>4. BakWrittenStage => BakWrittenStage'
    BY <1>6 DEF BakWrittenStage, At, Fits
  <2>5. BakIsDone => BakIsDone'
    BY DEF BakIsDone, At, Fits
  <2>q. QED BY <1>1, <1>9, <2>1, <2>2, <2>3, <2>4, <2>5 DEF BakStage
<1>q. QED BY <1>8, <1>9

\* Such a step keeps the invariant.
LEMMA QuietStep ==
    ASSUME IInv, On, power' # "off", clock' \in Nat, clock' >= clock,
           mirror' \in Nat, mirror' >= mirror, mirror' <= clock',
           UNCHANGED <<snap, durable, queue, locked, progress, flash>>,
           PcType', StateType',
           nv_flsh_state'.state = nv_flsh_state.state,
           nv_flsh_state'.written_size = nv_flsh_state.written_size,
           \/ pc'[Main] = pc[Main]
           \/ pc[Main] \in {"out", "loop"} /\ Fits(pc'[Main], nv_flsh_state.state)
    PROVE  IInv'
<1>1. MainStage' \/ BakStage'
  BY StageKept DEF IInv, On
<1>2. FlashOK'
  BY FlashSame DEF IInv
<1>3. QueueOK'
  BY DEF IInv, QueueOK
<1>4. Numbers' /\ On'
  BY <1>1 DEF IInv, Numbers, On
<1>q. QED BY <1>2, <1>3, <1>4 DEF IInv

\* The head of the do-while of nv_record_extension_flush.
LEMMA FlushLoopInv ==
    ASSUME Threads = {Main}, IInv, FlushLoop(Main)
    PROVE  IInv'
<1>1. /\ pc[Main] = "loop"
      /\ UNCHANGED <<mirror, clock, nv_flsh_state, queue, locked, progress, flash, snap, durable>>
  BY DEF FlushLoop, Step, record, norflash, history
<1>2. On
  BY <1>1, Labels
<1>3. PcType /\ StateType
  BY DEF IInv
<1>4. \E l \in PCs : Jump(Main, l) /\ Fits(l, nv_flsh_state.state)
  <2>1. CASE Jump(Main, "out")
    BY <2>1, LabelsAreLabels DEF Fits
  <2>2. CASE ~Jump(Main, "out")
    <3> DEFINE s == nv_flsh_state.state
    <3>1. Jump(Main, CASE s \in {"IDLE", "MAIN_ERASING"} -> "merase"
                       [] s \in {"MAIN_ERASED", "MAIN_WRITTING"} -> "mwrite"
                       [] s = "MAIN_WRITTEN" -> "mdrain"
                       [] s \in {"MAIN_DONE", "BAK_ERASING"} -> "berase"
                       [] s \in {"BAK_ERASED", "BAK_WRITTING"} -> "bstart"
                       [] s = "BAK_WRITTEN" -> "bdrain")
      BY <2>2 DEF FlushLoop
    <3>2. s \in {"IDLE", "MAIN_ERASING", "MAIN_ERASED", "MAIN_WRITTING", "MAIN_WRITTEN"}
                \cup {"MAIN_DONE", "BAK_ERASING", "BAK_ERASED", "BAK_WRITTING", "BAK_WRITTEN"}
      BY <1>3 DEF StateType, States, MainStates, BakStates
    <3> HIDE DEF s
    <3>3. \E l \in PCs : Jump(Main, l) /\ Fits(l, s)
      BY <3>1, <3>2, LabelsAreLabels DEF Fits
    <3>q. QED BY <3>3 DEF s
  <2>q. QED BY <2>1, <2>2
<1>5. PICK l \in PCs : Jump(Main, l) /\ Fits(l, nv_flsh_state.state)
  BY <1>4
<1>6. pc'[Main] = l /\ PcType'
  BY <1>3, <1>5, Jumps
<1>7. power' # "off"
  BY <1>2 DEF FlushLoop, shell, On
<1>8. mirror \in Nat /\ clock \in Nat /\ mirror <= clock
  BY <1>2 DEF IInv, Numbers, On
<1>q. QED BY <1>1, <1>2, <1>3, <1>5, <1>6, <1>7, <1>8, QuietStep DEF StateType

\* Every step of the synchronous flush.
LEMMA SyncFlushInv ==
    ASSUME Threads = {Main}, IInv, SyncFlush(Main)
    PROVE  IInv'
BY FlushLoopInv, MainEraseInv, MainErasedInv, MainWriteInv, MainWrittenInv, MainDrainInv,
   MainDoneInv, BakEraseInv, BakErasedInv, BakStartInv, BakPageInv, BakDrainInv, BakDoneInv
DEF SyncFlush

\* The power is on, so that a flush may be under way.
LEMMA PoweredOn ==
    ASSUME IInv, power # "off"
    PROVE  On
BY DEF IInv, Off

\* nv_record_env_set and the calls of a flush.
LEMMA ChangeInv ==
    ASSUME Threads = {Main}, IInv, nv_record_env_set
    PROVE  IInv'
<1>1. On
  BY PoweredOn DEF nv_record_env_set
<1>2. StateType' /\ nv_flsh_state'.state = nv_flsh_state.state
      /\ nv_flsh_state'.written_size = nv_flsh_state.written_size
  BY DEF IInv, StateType, nv_record_env_set, UpdateMark
<1>q. QED BY <1>1, <1>2, QuietStep
      DEF nv_record_env_set, norflash, history, IInv, Numbers, On, PcType

\* nv_record_rebuild.
LEMMA RebuildInv ==
    ASSUME Threads = {Main}, IInv, nv_record_rebuild(Main)
    PROVE  IInv'
<1>1. On
  BY PoweredOn DEF nv_record_rebuild
<1>2. StateType' /\ nv_flsh_state'.state = nv_flsh_state.state
      /\ nv_flsh_state'.written_size = nv_flsh_state.written_size
  BY DEF IInv, StateType, nv_record_rebuild, UpdateMark
<1>3. pc'[Main] = "loop" /\ PcType' /\ pc[Main] = "out"
  BY Jumps, LabelsAreLabels DEF nv_record_rebuild, IInv
<1>q. QED BY <1>1, <1>2, <1>3, QuietStep
      DEF nv_record_rebuild, norflash, history, IInv, Numbers, On, Fits

\* nv_record_flash_flush.
LEMMA FlushCallInv ==
    ASSUME Threads = {Main}, IInv, nv_record_flash_flush(Main)
    PROVE  IInv'
<1>1. On
  BY PoweredOn DEF nv_record_flash_flush
<1>2. pc'[Main] = "loop" /\ PcType' /\ pc[Main] = "out"
  BY Jumps, LabelsAreLabels DEF nv_record_flash_flush, IInv
<1>q. QED BY <1>1, <1>2, QuietStep
      DEF nv_record_flash_flush, norflash, history, IInv, Numbers, On, Fits, StateType

\* Other clients of the queue and the flush timer.
LEMMA EnvironmentInv ==
    ASSUME Threads = {Main}, IInv, OthersTake \/ Tick
    PROVE  IInv'
<1>1. On
  BY PoweredOn DEF OthersTake, Tick
<1>2. UNCHANGED <<mirror, clock, nv_flsh_state, pc, power, queue, locked, progress, flash, snap, durable>>
  BY DEF OthersTake, Tick, record, shell, norflash, history
<1>q. QED BY <1>1, <1>2, QuietStep DEF IInv, Numbers, On, StateType, PcType

-----------------------------------------------------------------------------
(* Steps of the flash, and the asynchronous flush.                         *)

\* norflash_api_flush never leaves the stage of the flush.
LEMMA FlushKeepsStage ==
    ASSUME IInv, On, norflash_api_flush, Frame, UNCHANGED <<snap, pc>>, StateType',
           nv_flsh_state'.written_size = nv_flsh_state.written_size,
           \/ nv_flsh_state'.state = nv_flsh_state.state
           \/ {nv_flsh_state'.state, nv_flsh_state.state} \subseteq {"IDLE", "MAIN_ERASING"} /\ pc[Main] = "out"
           \/ {nv_flsh_state'.state, nv_flsh_state.state} \subseteq {"MAIN_ERASED", "MAIN_WRITTING"} /\ pc[Main] = "out"
           \/ {nv_flsh_state'.state, nv_flsh_state.state} \subseteq {"MAIN_DONE", "BAK_ERASING"} /\ pc[Main] = "out"
    PROVE  IInv'
<1>1. Numbers /\ FlashOK /\ QueueOK /\ PcType /\ StateType
  BY DEF IInv
<1>2. ASSUME MainStage, Resting
      PROVE  IInv'
  <2>1. queue' = <<>> /\ flash' = flash /\ QueueOK'
    BY <1>1, <1>2, FlushIdle DEF Resting
  <2>2. FlashOK'
    BY <2>1, <1>1, FlashSame DEF Frame, Numbers
  <2>3. MainStage'
    BY <2>1, <1>2, BakKept DEF MainStage, Resting, At, Frame
  <2>q. QED BY <1>1, <2>1, <2>2, <2>3, Finish DEF Numbers, PcType
<1>3. ASSUME MainStage, ErasingMain
      PROVE  IInv'
  <2>1. Erasing("main")' /\ QueueOK' /\ FlashOK' /\ flash'["bak"] = flash["bak"]
    BY <1>1, <1>3, Others, FlushWhenErasing DEF ErasingMain, Frame
  <2>2. MainStage'
    BY <2>1, <1>3, BakKept DEF MainStage, ErasingMain, At, Frame
  <2>q. QED BY <1>1, <2>1, <2>2, Finish DEF Numbers, PcType
<1>4. ASSUME MainStage, WritingMain
      PROVE  IInv'
  <2>1. Copying("main", NPages, snap)' /\ QueueOK' /\ FlashOK' /\ flash'["bak"] = flash["bak"]
    BY <1>1, <1>4, Others, NPagesAssumption, FlushWhenCopying DEF WritingMain, SnapOK, Frame
  <2>2. MainStage'
    BY <2>1, <1>4, BakKept DEF MainStage, WritingMain, SnapOK, At, Frame
  <2>q. QED BY <1>1, <2>1, <2>2, Finish DEF Numbers, PcType
<1>5. ASSUME BakStage, MainIsDone \/ BakIsDone
      PROVE  IInv'
  <2>1. queue' = <<>> /\ flash' = flash /\ QueueOK'
    BY <1>1, <1>5, FlushIdle DEF MainIsDone, BakIsDone
  <2>2. FlashOK'
    BY <2>1, <1>1, FlashSame DEF Frame, Numbers
  <2>3. BakStage'
    BY <2>1, <1>5 DEF BakStage, MainIsDone, BakIsDone, SnapOK, At, Frame
  <2>q. QED BY <1>1, <2>1, <2>2, <2>3, Finish DEF Numbers, PcType
<1>6. ASSUME BakStage, NEW k \in Nat, Copying("bak", k, snap)
      PROVE  /\ Copying("bak", k, snap)' /\ QueueOK' /\ FlashOK'
             /\ flash'["main"] = Blank(snap') /\ SnapOK'
  <2>1. Copying("bak", k, snap)' /\ QueueOK' /\ FlashOK' /\ flash'["main"] = flash["main"]
    BY <1>1, <1>6, Others, FlushWhenCopying DEF BakStage, SnapOK, Frame
  <2>q. QED BY <2>1, <1>6 DEF BakStage, SnapOK, Frame
<1>7. ASSUME BakStage, ErasingBak
      PROVE  IInv'
  <2>1. /\ Copying("bak", 0, snap)' /\ QueueOK' /\ FlashOK'
        /\ flash'["main"] = Blank(snap') /\ SnapOK'
    BY <1>6, <1>7 DEF ErasingBak
  <2>2. BakStage'
    BY <2>1, <1>7 DEF BakStage, ErasingBak, At
  <2>q. QED BY <1>1, <2>1, <2>2, Finish DEF Numbers, PcType
<1>8. ASSUME BakStage, WritingBak
      PROVE  IInv'
  <2>1. PICK k \in Nat : k = nv_flsh_state.written_size
    BY <1>1 DEF StateType
  <2>2. /\ Copying("bak", k, snap)' /\ QueueOK' /\ FlashOK'
        /\ flash'["main"] = Blank(snap') /\ SnapOK'
    BY <1>6, <1>8, <2>1 DEF WritingBak
  <2>3. Copying("bak", nv_flsh_state.written_size, snap)'
    BY <2>1, <2>2
  <2>4. BakStage'
    BY <2>2, <2>3, <1>8 DEF BakStage, WritingBak, At
  <2>q. QED BY <1>1, <2>2, <2>4, Finish DEF Numbers, PcType
<1>9. ASSUME BakStage, BakWrittenStage
      PROVE  IInv'
  <2>1. /\ Copying("bak", NPages, snap)' /\ QueueOK' /\ FlashOK'
        /\ flash'["main"] = Blank(snap') /\ SnapOK'
    BY <1>6, <1>9, NPagesAssumption DEF BakWrittenStage
  <2>2. BakStage'
    BY <2>1, <1>9 DEF BakStage, BakWrittenStage, At
  <2>q. QED BY <1>1, <2>1, <2>2, Finish DEF Numbers, PcType
<1>q. QED BY <1>2, <1>3, <1>4, <1>5, <1>7, <1>8, <1>9 DEF On, MainStage, BakStage

\* norflash_api_flush from another thread or its own hook.
LEMMA FlashHookInv ==
    ASSUME Threads = {Main}, IInv, FlashHook
    PROVE  IInv'
<1>1. On
  BY PoweredOn DEF FlashHook
<1>q. QED BY <1>1, FlushKeepsStage
      DEF FlashHook, record, shell, history, Frame, IInv, StateType

\* Outside the synchronous flush the state tells the stage.
LEMMA StatesTell ==
    ASSUME On, pc[Main] = "out"
    PROVE  /\ nv_flsh_state.state \in {"IDLE", "MAIN_ERASING"} => MainStage /\ Resting
           /\ nv_flsh_state.state \in {"MAIN_ERASED", "MAIN_WRITTING"} => MainStage /\ ErasingMain
           /\ nv_flsh_state.state = "MAIN_WRITTEN" => MainStage /\ WritingMain
           /\ nv_flsh_state.state \in {"MAIN_DONE", "BAK_ERASING"} => BakStage /\ MainIsDone
           /\ nv_flsh_state.state = "BAK_ERASED" => BakStage /\ ErasingBak
           /\ nv_flsh_state.state = "BAK_WRITTING" => BakStage /\ WritingBak
           /\ nv_flsh_state.state = "BAK_WRITTEN" => BakStage /\ BakWrittenStage
BY DEF On, MainStage, BakStage, Resting, ErasingMain, WritingMain, MainIsDone,
       ErasingBak, WritingBak, BakWrittenStage, BakIsDone, At

\* The context of every step of the asynchronous flush.
Idle == IInv /\ On /\ pc[Main] = "out" /\ UNCHANGED <<mirror, clock, power, pc>>

\* Asynchronous: the erase of the main sector.
LEMMA AsyncMainEraseInv ==
    ASSUME Idle, AsyncMainErase
    PROVE  IInv'
<1>1. MainStage /\ Resting /\ nv_flsh_state.state \in {"IDLE", "MAIN_ERASING"}
  BY StatesTell DEF Idle, AsyncMainErase, AsyncErase
<1>2. Numbers /\ FlashOK /\ QueueOK /\ PcType /\ StateType /\ queue = <<>> /\ On /\ Frame /\ UNCHANGED snap
  BY <1>1 DEF Idle, IInv, Resting, Frame, AsyncMainErase, AsyncErase, history
<1>3. CASE EraseOK("main") /\ GoTo("MAIN_ERASED")
  <2>1. Erasing("main")' /\ QueueOK' /\ flash' = flash
    BY <1>2, <1>3, EraseStart, Others
  <2>2. StateType' /\ nv_flsh_state'.state = "MAIN_ERASED"
    BY <1>2, <1>3, GoesTo DEF States, MainStates
  <2>3. MainStage'
    BY <1>1, <1>2, <2>1, <2>2, BakKept DEF Idle, MainStage, ErasingMain, At, Frame
  <2>4. FlashOK'
    BY <1>2, <2>1, FlashSame DEF Frame, Numbers
  <2>q. QED BY <1>2, <2>1, <2>2, <2>3, <2>4, Finish DEF Numbers, PcType, Idle
<1>4. CASE norflash_api_flush /\ GoTo("MAIN_ERASING")
  <2>1. /\ StateType' /\ nv_flsh_state'.state = "MAIN_ERASING"
        /\ nv_flsh_state'.written_size = nv_flsh_state.written_size
    BY <1>2, <1>4, GoesTo DEF States, MainStates
  <2>q. QED BY <1>1, <1>2, <1>4, <2>1, FlushKeepsStage DEF Idle
<1>q. QED BY <1>3, <1>4 DEF AsyncMainErase, AsyncErase

\* Asynchronous: the mirror is handed to the queue.
LEMMA AsyncMainWriteInv ==
    ASSUME Idle, AsyncMainWrite
    PROVE  IInv'
<1>1. MainStage /\ ErasingMain /\ nv_flsh_state.state \in {"MAIN_ERASED", "MAIN_WRITTING"}
  BY StatesTell DEF Idle, AsyncMainWrite
<1>2. Numbers /\ FlashOK /\ QueueOK /\ PcType /\ StateType /\ Erasing("main") /\ On /\ Frame
  BY <1>1 DEF Idle, IInv, ErasingMain, Frame, AsyncMainWrite
<1>3. CASE /\ WriteOK("main", Blank(mirror)) /\ snap' = mirror
           /\ nv_flsh_state' = [nv_flsh_state EXCEPT !.is_update = FALSE, !.state = "MAIN_WRITTEN"]
  <2>1. Copying("main", NPages, snap)' /\ QueueOK' /\ flash' = flash
    BY <1>2, <1>3, WriteMainCopy
  <2>2. StateType' /\ nv_flsh_state'.state = "MAIN_WRITTEN"
    BY <1>2, <1>3 DEF StateType, States, MainStates
  <2>3. SnapOK'
    BY <1>2, <1>3 DEF SnapOK, On, Frame, Numbers
  <2>4. MainStage'
    BY <1>1, <1>2, <2>1, <2>2, <2>3, BakKept DEF Idle, MainStage, WritingMain, At, Frame
  <2>5. FlashOK'
    BY <1>2, <2>1, FlashSame DEF Frame, Numbers
  <2>q. QED BY <1>2, <1>3, <2>1, <2>2, <2>4, <2>5, Finish DEF Numbers, PcType, Idle, On
<1>4. CASE norflash_api_flush /\ GoTo("MAIN_WRITTING") /\ UNCHANGED snap
  <2>1. /\ StateType' /\ nv_flsh_state'.state = "MAIN_WRITTING"
        /\ nv_flsh_state'.written_size = nv_flsh_state.written_size
    BY <1>2, <1>4, GoesTo DEF States, MainStates
  <2>q. QED BY <1>1, <1>2, <1>4, <2>1, FlushKeepsStage DEF Idle
<1>q. QED BY <1>3, <1>4 DEF AsyncMainWrite

\* Asynchronous: waiting for the main copy.
LEMMA AsyncMainDrainInv ==
    ASSUME Idle, AsyncMainDrain
    PROVE  IInv'
<1>1. MainStage /\ WritingMain /\ nv_flsh_state.state = "MAIN_WRITTEN"
  BY StatesTell DEF Idle, AsyncMainDrain
<1>2. /\ Numbers /\ FlashOK /\ QueueOK /\ PcType /\ StateType /\ On /\ Frame /\ UNCHANGED snap
      /\ Copying("main", NPages, snap) /\ SnapOK
  BY <1>1 DEF Idle, IInv, WritingMain, Frame, AsyncMainDrain, history
<1>3. CASE queue = <<>> /\ GoTo("MAIN_DONE") /\ UNCHANGED norflash
  <2>1. flash["main"] = Blank(snap)
    BY <1>2, <1>3, Others, CopyComplete
  <2>2. StateType' /\ nv_flsh_state'.state = "MAIN_DONE"
    BY <1>2, <1>3, GoesTo DEF States, BakStates
  <2>3. UNCHANGED <<queue, locked, progress, flash>>
    BY <1>3 DEF norflash
  <2>4. QueueOK' /\ FlashOK' /\ SnapOK'
    BY <1>2, <2>3, FlashSame DEF QueueOK, Frame, Numbers, SnapOK
  <2>5. BakStage'
    BY <1>2, <1>3, <2>1, <2>2, <2>3, <2>4 DEF Idle, BakStage, MainIsDone, At
  <2>q. QED BY <1>2, <2>2, <2>4, <2>5, Finish DEF Numbers, PcType, Idle
<1>4. CASE norflash_api_flush /\ UNCHANGED nv_flsh_state
  BY <1>2, <1>4, FlushKeepsStage DEF Idle, StateType
<1>q. QED BY <1>3, <1>4 DEF AsyncMainDrain

\* Asynchronous: the erase of the backup sector.
LEMMA AsyncBakEraseInv ==
    ASSUME Idle, AsyncBakErase
    PROVE  IInv'
<1>1. BakStage /\ MainIsDone /\ nv_flsh_state.state \in {"MAIN_DONE", "BAK_ERASING"}
  BY StatesTell DEF Idle, AsyncBakErase, AsyncErase
<1>2. Numbers /\ FlashOK /\ QueueOK /\ PcType /\ StateType /\ queue = <<>> /\ On /\ Frame /\ UNCHANGED snap
  BY <1>1 DEF Idle, IInv, MainIsDone, Frame, AsyncBakErase, AsyncErase, history
<1>3. CASE EraseOK("bak") /\ GoTo("BAK_ERASED")
  <2>1. Erasing("bak")' /\ QueueOK' /\ flash' = flash
    BY <1>2, <1>3, EraseStart, Others
  <2>2. StateType' /\ nv_flsh_state'.state = "BAK_ERASED"
    BY <1>2, <1>3, GoesTo DEF States, BakStates
  <2>3. Copying("bak", 0, snap)'
    BY <2>1, ErasingCopiesNext, Others
  <2>4. BakStage'
    BY <1>1, <1>2, <2>1, <2>2, <2>3 DEF Idle, BakStage, ErasingBak, SnapOK, At, Frame
  <2>5. FlashOK'
    BY <1>2, <2>1, FlashSame DEF Frame, Numbers
  <2>q. QED BY <1>2, <2>1, <2>2, <2>4, <2>5, Finish DEF Numbers, PcType, Idle
<1>4. CASE norflash_api_flush /\ GoTo("BAK_ERASING")
  <2>1. /\ StateType' /\ nv_flsh_state'.state = "BAK_ERASING"
        /\ nv_flsh_state'.written_size = nv_flsh_state.written_size
    BY <1>2, <1>4, GoesTo DEF States, BakStates
  <2>q. QED BY <1>1, <1>2, <1>4, <2>1, FlushKeepsStage DEF Idle
<1>q. QED BY <1>3, <1>4 DEF AsyncBakErase, AsyncErase

\* Asynchronous: the missing pages of the backup.
LEMMA AsyncBakWriteInv ==
    ASSUME Idle, AsyncBakWrite
    PROVE  IInv'
<1>1. PICK k \in Nat : k = IF nv_flsh_state.state = "BAK_ERASED" THEN 0 ELSE nv_flsh_state.written_size
  BY DEF Idle, IInv, StateType
<1>2. BakStage /\ Copying("bak", k, snap) /\ nv_flsh_state.state \in {"BAK_ERASED", "BAK_WRITTING"}
  BY <1>1, StatesTell DEF Idle, AsyncBakWrite, ErasingBak, WritingBak
<1>3. /\ Numbers /\ FlashOK /\ QueueOK /\ PcType /\ StateType /\ On /\ Frame /\ UNCHANGED snap
      /\ SnapOK /\ flash["main"] = Blank(snap)
  BY <1>2 DEF Idle, IInv, BakStage, Frame, AsyncBakWrite, history
<1>4. SnapOK'
  BY <1>3 DEF SnapOK, Frame
<1>5. CASE /\ WriteOK("bak", PagesFrom(k))
           /\ nv_flsh_state' = [nv_flsh_state EXCEPT !.written_size = NPages, !.state = "BAK_WRITTEN"]
  <2>1. /\ PagesFrom(k) \in [Pages -> {Erased} \cup {norflash_api_read("main", p) : p \in Pages}]
        /\ \A p \in Pages : p < NPages => p < k \/ PagesFrom(k)[p] = norflash_api_read("main", p)
    <3>1. \A p \in Pages : p < k \/ p >= k
      BY PagesZero
    <3>q. QED BY <3>1 DEF PagesFrom
  <2>2. Copying("bak", NPages, snap)' /\ QueueOK' /\ flash' = flash
    BY <1>1, <1>2, <1>3, <1>5, <2>1, NPagesAssumption, WriteBakCopy
  <2>3. StateType' /\ nv_flsh_state'.state = "BAK_WRITTEN"
    BY <1>3, <1>5, NPagesAssumption DEF StateType, States, BakStates
  <2>4. FlashOK' /\ flash'["main"] = Blank(snap')
    BY <1>3, <2>2, FlashSame DEF Frame, Numbers
  <2>5. BakStage'
    BY <1>4, <2>2, <2>3, <2>4 DEF Idle, BakStage, BakWrittenStage, At
  <2>q. QED BY <1>3, <2>2, <2>3, <2>4, <2>5, Finish DEF Numbers, PcType, Idle
<1>6. CASE /\ norflash_api_flush
           /\ nv_flsh_state' = [nv_flsh_state EXCEPT !.written_size = k, !.state = "BAK_WRITTING"]
  <2>1. Copying("bak", k, snap)' /\ QueueOK' /\ FlashOK' /\ flash'["main"] = flash["main"]
    BY <1>2, <1>3, <1>6, Others, FlushWhenCopying DEF SnapOK, Frame
  <2>2. StateType' /\ nv_flsh_state'.state = "BAK_WRITTING" /\ nv_flsh_state'.written_size = k
    BY <1>3, <1>6 DEF StateType, States, BakStates
  <2>3. Copying("bak", nv_flsh_state.written_size, snap)'
    BY <2>1, <2>2
  <2>4. BakStage'
    BY <1>3, <1>4, <2>1, <2>2, <2>3 DEF Idle, BakStage, WritingBak, At
  <2>q. QED BY <1>3, <2>1, <2>2, <2>4, Finish DEF Numbers, PcType, Idle
<1>q. QED BY <1>1, <1>5, <1>6 DEF AsyncBakWrite

\* Asynchronous: waiting for the backup.
LEMMA AsyncBakDrainInv ==
    ASSUME Idle, AsyncBakDrain
    PROVE  IInv'
<1>1. BakStage /\ BakWrittenStage /\ nv_flsh_state.state = "BAK_WRITTEN"
  BY StatesTell DEF Idle, AsyncBakDrain
<1>2. /\ Numbers /\ FlashOK /\ QueueOK /\ PcType /\ StateType /\ On /\ UNCHANGED snap
      /\ Copying("bak", NPages, snap) /\ SnapOK /\ flash["main"] = Blank(snap)
  BY <1>1 DEF Idle, IInv, BakStage, BakWrittenStage, AsyncBakDrain
<1>3. CASE queue = <<>> /\ GoTo("IDLE") /\ durable' = snap /\ UNCHANGED norflash
  <2>1. flash["bak"] = Blank(snap)
    BY <1>2, <1>3, Others, CopyComplete
  <2>2. StateType' /\ nv_flsh_state'.state = "IDLE"
    BY <1>2, <1>3, GoesTo DEF States, MainStates
  <2>3. UNCHANGED <<queue, locked, progress, flash>>
    BY <1>3 DEF norflash
  <2>4. Resting'
    BY <1>3, <2>2, <2>3 DEF Idle, Resting, At
  <2>5. \A c \in Copies : flash[c] = Blank(snap)
    BY <1>2, <2>1 DEF Copies
  <2>q. QED BY <1>2, <1>3, <2>2, <2>3, <2>4, <2>5, Completed DEF Idle, PcType
<1>4. CASE norflash_api_flush /\ UNCHANGED <<nv_flsh_state, durable>>
  <2>1. Frame
    BY <1>4 DEF Idle, Frame
  <2>q. QED BY <1>2, <1>4, <2>1, FlushKeepsStage DEF Idle, StateType
<1>q. QED BY <1>3, <1>4 DEF AsyncBakDrain

\* Every step of the asynchronous flush.
LEMMA AsyncInv ==
    ASSUME Threads = {Main}, IInv, pc[Main] = "out", nv_record_execute_async_flush
    PROVE  IInv'
<1>1. Idle
  BY PoweredOn DEF Idle, nv_record_execute_async_flush, record
<1>2. CASE AsyncNothing
  <2>1. UNCHANGED <<nv_flsh_state, queue, locked, progress, flash, snap, durable>>
    BY <1>2 DEF AsyncNothing, norflash, history
  <2>q. QED BY <1>1, <2>1, QuietStep DEF Idle, IInv, Numbers, On, StateType, PcType
<1>q. QED BY <1>1, <1>2, AsyncMainEraseInv, AsyncMainWriteInv, AsyncMainDrainInv,
         AsyncBakEraseInv, AsyncBakWriteInv, AsyncBakDrainInv DEF nv_record_execute_async_flush

-----------------------------------------------------------------------------
(* Boot and power loss.                                                    *)

\* nv_record_extension_init: the valid copy is loaded, the other repaired.
LEMMA BootInv ==
    ASSUME Threads = {Main}, IInv, nv_record_extension_init
    PROVE  IInv'
<1>1. Off
  BY DEF IInv, On, nv_record_extension_init
<1>2. /\ Numbers /\ FlashOK /\ QueueOK /\ PcType
      /\ UNCHANGED <<queue, locked, progress, flash, durable>>
  BY DEF IInv, nv_record_extension_init, norflash
<1>3. PcType' /\ pc'[Main] \in {"out", "loop"} /\ power' # "off"
  <2>1. CASE Jump(Main, "loop") /\ power' = "boot"
    BY <1>2, <2>1, Jumps, LabelsAreLabels
  <2>2. CASE UNCHANGED pc /\ power' = "on"
    BY <1>1, <1>2, <2>2 DEF Off, PcType
  <2>q. QED BY <2>1, <2>2 DEF nv_record_extension_init
<1>4. StateType' /\ nv_flsh_state'.state = RepairState
  BY DEF nv_record_extension_init, StateType, RepairState, RepairNeeded, States, MainStates, BakStates
<1>5. clock' \in Nat /\ clock' >= clock /\ clock' >= 1
  BY <1>2 DEF nv_record_extension_init, Numbers, Default
<1>6. ASSUME NEW c \in Copies, nv_record_data_is_valid(c)
      PROVE  /\ flash[c][0] \in Nat /\ flash[c][0] >= durable /\ flash[c][0] <= clock
             /\ flash[c] = Blank(flash[c][0])
  BY <1>2, <1>6, PagesZero DEF nv_record_data_is_valid, Holds, FlashOK, NotOld
<1>7. mirror' \in Nat /\ durable <= mirror' /\ mirror' <= clock'
  <2>1. mirror' = LoadedVersion
    BY DEF nv_record_extension_init
  <2>2. CASE MainValid
    BY <1>5, <1>6, <1>2, <2>1, <2>2, Others DEF LoadedVersion, MainValid, VersionOf, Numbers
  <2>3. CASE ~MainValid /\ BakValid
    BY <1>5, <1>6, <1>2, <2>1, <2>3, Others DEF LoadedVersion, BakValid, VersionOf, Numbers
  <2>4. CASE ~MainValid /\ ~BakValid
    BY <1>1, <1>5, <1>2, <2>1, <2>4 DEF LoadedVersion, Off, Default, Numbers
  <2>q. QED BY <2>2, <2>3, <2>4
<1>8. snap' \in Nat /\ snap' <= clock'
  BY <1>5, <1>6, <1>2, Others DEF nv_record_extension_init, MainValid, VersionOf, Numbers
<1>9. FlashOK' /\ QueueOK'
  BY <1>2, <1>5, FlashSame DEF QueueOK
<1>10. CASE MainValid /\ ~BakValid
  <2>1. nv_flsh_state'.state = "MAIN_DONE" /\ snap' = flash["main"][0] /\ mirror' = snap'
    BY <1>4, <1>10 DEF RepairState, nv_record_extension_init, LoadedVersion, VersionOf
  <2>2. flash'["main"] = Blank(snap') /\ durable <= snap'
    BY <1>2, <1>6, <1>10, <2>1, Others DEF MainValid
  <2>3. BakStage'
    BY <1>1, <1>2, <1>3, <1>7, <2>1, <2>2 DEF BakStage, MainIsDone, SnapOK, At, Off
  <2>q. QED BY <1>2, <1>3, <1>4, <1>5, <1>7, <1>8, <1>9, <2>3 DEF IInv, Numbers, On
<1>11. CASE ~(MainValid /\ ~BakValid)
  <2>1. nv_flsh_state'.state = "IDLE"
    BY <1>4, <1>11 DEF RepairState
  <2>2. Resting'
    BY <1>1, <1>2, <1>3, <2>1 DEF Resting, At, Off
  <2>3. (durable > 0 => BakValid)'
    BY <1>1, <1>2, <1>11, BakKept DEF Off
  <2>q. QED BY <1>2, <1>3, <1>4, <1>5, <1>7, <1>8, <1>9, <2>2, <2>3 DEF IInv, Numbers, On, MainStage
<1>q. QED BY <1>10, <1>11

\* A power loss spoils at most the copy that is being changed.
LEMMA CrashInv ==
    ASSUME Threads = {Main}, IInv, Crash
    PROVE  IInv'
<1>1. On
  BY PoweredOn DEF Crash
<1>2. Numbers /\ FlashOK /\ QueueOK /\ UNCHANGED <<durable, clock, snap>>
  BY DEF IInv, Crash, history
<1>3. QueueOK' /\ PcType' /\ StateType' /\ Numbers' /\ power' = "off" /\ pc'[Main] = "out" /\ queue' = <<>>
  BY <1>2, PagesZero, LabelsAreLabels
  DEF Crash, QueueOK, PcType, StateType, Numbers, States, MainStates
<1>4. ASSUME MainStage
      PROVE  FlashOK' /\ (durable > 0 => BakValid)'
  <2>1. queue = <<>> \/ Head(queue).copy = "main"
    BY <1>4, HeadCopy DEF MainStage, Resting, ErasingMain, WritingMain
  <2>2. Spoils("main")
    BY <1>2, <2>1, Others, CrashSpoils DEF Crash, FlashOK
  <2>3. flash'["bak"] = flash["bak"]
    BY <2>2, Others DEF Spoils
  <2>q. QED BY <1>2, <1>4, <2>2, <2>3, Others, FlashSpoilt, BakKept DEF MainStage
<1>5. ASSUME BakStage
      PROVE  FlashOK' /\ MainValid'
  <2>1. queue = <<>> \/ Head(queue).copy = "bak"
    BY <1>5, HeadCopy DEF BakStage, MainIsDone, ErasingBak, WritingBak, BakWrittenStage, BakIsDone
  <2>2. Spoils("bak")
    BY <1>2, <2>1, Others, CrashSpoils DEF Crash, FlashOK
  <2>3. flash'["main"] = Blank(snap)
    BY <1>5, <2>2, Others DEF Spoils, BakStage
  <2>4. MainValid'
    BY <1>2, <2>3, PagesZero DEF MainValid, nv_record_data_is_valid, Holds, Blank, Numbers
  <2>q. QED BY <1>2, <2>2, <2>4, Others, FlashSpoilt
<1>6. FlashOK' /\ Off'
  BY <1>1, <1>3, <1>4, <1>5 DEF On, Off
<1>q. QED BY <1>3, <1>6 DEF IInv

-----------------------------------------------------------------------------
(* The invariant, and what follows from it.                                *)

\* A factory-fresh device.
LEMMA Initially ==
    ASSUME Threads = {Main}, Init
    PROVE  IInv
<1>1. Numbers /\ QueueOK /\ PcType /\ StateType /\ Off
  BY PagesZero, LabelsAreLabels
  DEF Init, Numbers, QueueOK, PcType, StateType, Off, States, MainStates
<1>2. FlashType
  BY DEF Init, FlashType, Blank, Content
<1>3. \A c \in Copies : flash[c] = Blank(Erased)
  BY DEF Init
<1>4. \A c \in Copies, p \in Pages : flash[c][p] = Erased
  BY <1>3 DEF Blank
<1>5. FlashOK
  BY <1>2, <1>4, PagesZero, ContentAssumption DEF FlashOK, NotOld, nv_record_data_is_valid
<1>q. QED BY <1>1, <1>5 DEF IInv

\* Every step keeps the invariant.
LEMMA Preserved ==
    ASSUME Threads = {Main}, IInv, [Next]_vars
    PROVE  IInv'
<1>1. CASE UNCHANGED vars
  <2>1. UNCHANGED <<mirror, clock, nv_flsh_state, pc, power, queue, locked, progress, flash, snap, durable>>
    BY <1>1 DEF vars
  <2>2. CASE power = "off"
    <3>1. Off
      BY <2>2 DEF IInv, On
    <3>2. Off'
      BY <2>1, <3>1 DEF Off, MainValid, BakValid, nv_record_data_is_valid, Holds
    <3>3. FlashOK' /\ QueueOK'
      BY <2>1, FlashSame DEF IInv, QueueOK, Numbers
    <3>q. QED BY <2>1, <3>2, <3>3 DEF IInv, Numbers, PcType, StateType
  <2>3. CASE power # "off"
    BY <2>1, <2>3, PoweredOn, QuietStep DEF IInv, Numbers, On, StateType, PcType
  <2>q. QED BY <2>2, <2>3
<1>2. ASSUME NEW t \in Callers, nv_record_rebuild(t) \/ nv_record_flash_flush(t) \/ AsyncCall(t)
      PROVE  IInv'
  <2>1. t = Main
    BY ThreadsAssumption
  <2>q. QED BY <1>2, <2>1, RebuildInv, FlushCallInv, AsyncInv DEF AsyncCall
<1>3. ASSUME NEW t \in Threads, SyncFlush(t)
      PROVE  IInv'
  BY <1>3, SyncFlushInv
<1>4. CASE nv_record_flash_flush_in_sleep
  BY <1>4, AsyncInv DEF nv_record_flash_flush_in_sleep
<1>q. QED BY <1>1, <1>2, <1>3, <1>4, BootInv, CrashInv, ChangeInv, FlashHookInv, EnvironmentInv DEF Next

\* A completed flush survives every power loss: with one thread that
\* flushes, for any number of pages, versions and other clients of the flash
\* queue, nv_record_extension_init finds a record that is not older than the
\* last one whose flush reached BAK_DONE.
THEOREM CrashSafety ==
    ASSUME Threads = {Main}
    PROVE  Spec => []CrashSafe
<1>1. Init => IInv
  BY Initially
<1>2. IInv /\ [Next]_vars => IInv'
  BY Preserved
<1>3. IInv => CrashSafe
  <2> SUFFICES ASSUME IInv, durable > 0 PROVE Recovered >= durable
    BY DEF CrashSafe
  <2>1. \A c \in Copies : nv_record_data_is_valid(c) => VersionOf(c) >= durable
    BY DEF IInv, FlashOK, NotOld, VersionOf
  <2>2. MainValid \/ BakValid
    <3>1. CASE BakStage
      BY <3>1, PagesZero DEF BakStage, MainValid, nv_record_data_is_valid, Holds, Blank, IInv, Numbers
    <3>q. QED BY <3>1 DEF IInv, Off, On, MainStage
  <2>q. QED BY <2>1, <2>2, Others DEF Recovered, MainValid, BakValid
<1>q. QED BY <1>1, <1>2, <1>3, PTL DEF Spec

-----------------------------------------------------------------------------
(* Type correctness.                                                       *)

AuxType ==
    /\ intlock \in Threads \cup {None}
    /\ power \in {"off", "boot", "on"}
    /\ expired \in BOOLEAN
    /\ locked \in BOOLEAN
    /\ others \in {"none", "buffer", "all"}
    /\ loaded \in Nat

\* In every stage the queue holds at most an erase and a write.
LEMMA QueueType ==
    ASSUME IInv
    PROVE  queue \in Seq(Node)
<1>1. snap \in Nat /\ VersionPages(snap) \subseteq [Pages -> Content]
  BY DEF IInv, Numbers, VersionPages, Content
<1>2. \A c \in Copies : EraseNode(c) \in Node
  BY DEF EraseNode, Node, Blank, Content
<1>3. \A c \in Copies, d \in VersionPages(snap) : WriteNode(c, d) \in Node
  BY <1>1 DEF WriteNode, Node
<1>4. ASSUME NEW c \in Copies, NEW k, Copying(c, k, snap) \/ Erasing(c)
      PROVE  queue \in Seq(Node)
  <2>1. CASE queue = <<>>
    BY <2>1
  <2>2. CASE queue = <<EraseNode(c)>>
    BY <1>2, <2>2
  <2>3. ASSUME NEW d \in VersionPages(snap), queue = <<WriteNode(c, d)>>
        PROVE  queue \in Seq(Node)
    BY <1>3, <2>3
  <2>4. ASSUME NEW d \in VersionPages(snap), queue = <<EraseNode(c), WriteNode(c, d)>>
        PROVE  queue \in Seq(Node)
    <3>1. EraseNode(c) \in Node /\ WriteNode(c, d) \in Node
      BY <1>2, <1>3
    <3>q. QED BY <2>4, <3>1
  <2>q. QED BY <1>4, <2>1, <2>2, <2>3, <2>4
        DEF Erasing, Copying, CopyingErase, CopyingBoth, CopyingWrite, CopyingDone
<1>5. CASE queue = <<>>
  BY <1>5
<1>6. \/ queue = <<>> \/ Erasing("main") \/ Copying("main", NPages, snap)
      \/ Copying("bak", 0, snap) \/ Copying("bak", NPages, snap)
      \/ Copying("bak", nv_flsh_state.written_size, snap)
  BY DEF IInv, Off, On, MainStage, BakStage, Resting, ErasingMain, WritingMain, MainIsDone,
         ErasingBak, WritingBak, BakWrittenStage, BakIsDone
<1>q. QED BY <1>4, <1>5, <1>6, Others

\* norflash_api_flush keeps the types of its variables.
LEMMA FlushAux ==
    ASSUME AuxType, norflash_api_flush
    PROVE  locked' \in BOOLEAN /\ others' \in {"none", "buffer", "all"}
BY DEF AuxType, norflash_api_flush, FlushErase, FlushWrite, FlushOthers, Dequeue, norflash

\* The synchronous flush keeps them.
LEMMA SyncAux ==
    ASSUME AuxType, NEW t \in Threads, SyncFlush(t)
    PROVE  AuxType'
<1>1. ASSUME NEW c, EraseOK(c) PROVE UNCHANGED <<locked, others>>
  BY <1>1 DEF EraseOK
<1>2. ASSUME NEW c, NEW d, WriteOK(c, d) PROVE UNCHANGED <<locked, others>>
  BY <1>2 DEF WriteOK
<1>3. CASE FlushLoop(t)
  BY <1>3 DEF AuxType, FlushLoop, shell, norflash, history
<1>4. CASE MainErase(t) \/ BakErase(t)
  BY <1>1, <1>4, FlushAux DEF AuxType, MainErase, BakErase, SyncErase, shell, history
<1>5. CASE MainErased(t) \/ MainDone(t) \/ BakErased(t)
  BY <1>5 DEF AuxType, MainErased, MainDone, BakErased, SyncState, shell, norflash, history
<1>6. CASE MainWrite(t) \/ BakPage(t)
  BY <1>2, <1>6, FlushAux DEF AuxType, MainWrite, BakPage, shell, history
<1>7. CASE MainWritten(t) \/ BakStart(t) \/ BakDone(t)
  BY <1>7 DEF AuxType, MainWritten, BakStart, BakDone, shell, norflash, history
<1>8. CASE MainDrain(t) \/ BakDrain(t)
  BY <1>8, FlushAux DEF AuxType, MainDrain, BakDrain, SyncDrain, shell, history
<1>q. QED BY <1>3, <1>4, <1>5, <1>6, <1>7, <1>8 DEF SyncFlush

\* The asynchronous flush keeps them.
LEMMA AsyncAux ==
    ASSUME AuxType, nv_record_execute_async_flush
    PROVE  AuxType'
<1>1. ASSUME NEW c, EraseOK(c) PROVE UNCHANGED <<locked, others>>
  BY <1>1 DEF EraseOK
<1>2. ASSUME NEW c, NEW d, WriteOK(c, d) PROVE UNCHANGED <<locked, others>>
  BY <1>2 DEF WriteOK
<1>3. UNCHANGED <<intlock, power>>
  BY DEF nv_record_execute_async_flush
<1>4. CASE AsyncNothing
  BY <1>3, <1>4 DEF AuxType, AsyncNothing, norflash, history
<1>5. CASE AsyncMainErase \/ AsyncBakErase
  BY <1>1, <1>3, <1>5, FlushAux DEF AuxType, AsyncMainErase, AsyncBakErase, AsyncErase, history
<1>6. CASE AsyncMainWrite \/ AsyncBakWrite
  BY <1>2, <1>3, <1>6, FlushAux DEF AuxType, AsyncMainWrite, AsyncBakWrite, history
<1>7. CASE AsyncMainDrain \/ AsyncBakDrain
  BY <1>3, <1>7, FlushAux DEF AuxType, AsyncMainDrain, AsyncBakDrain, norflash, history
<1>q. QED BY <1>4, <1>5, <1>6, <1>7 DEF nv_record_execute_async_flush

\* Every step keeps them.
LEMMA AuxPreserved ==
    ASSUME AuxType, [Next]_vars
    PROVE  AuxType'
<1>1. CASE UNCHANGED vars
  BY <1>1 DEF vars, AuxType
<1>2. CASE nv_record_extension_init
  <2>1. Recovered \in Nat
    BY DEF Recovered, nv_record_data_is_valid, VersionOf
  <2>q. QED BY <1>2, <2>1 DEF AuxType, nv_record_extension_init, norflash
<1>3. CASE Crash
  BY <1>3 DEF AuxType, Crash, history
<1>4. CASE nv_record_env_set
  BY <1>4 DEF AuxType, nv_record_env_set, norflash, history
<1>5. ASSUME NEW t \in Callers, nv_record_rebuild(t) \/ nv_record_flash_flush(t)
      PROVE  AuxType'
  BY <1>5, ThreadsAssumption DEF AuxType, nv_record_rebuild, nv_record_flash_flush, norflash, history
<1>6. CASE FlashHook
  BY <1>6, FlushAux DEF AuxType, FlashHook, shell, history
<1>7. CASE OthersTake \/ Tick
  BY <1>7 DEF AuxType, OthersTake, Tick, shell, norflash, history
<1>q. QED BY <1>1, <1>2, <1>3, <1>4, <1>5, <1>6, <1>7, SyncAux, AsyncAux
      DEF Next, AsyncCall, nv_record_flash_flush_in_sleep

\* Type correctness: no step drives nv_flsh_state, the flash queue or the
\* two sectors out of their ranges; nv_record_extension_flush never meets a
\* state its switch does not know.
THEOREM TypeCorrectness ==
    ASSUME Threads = {Main}
    PROVE  Spec => []TypeOK
<1>1. Init => IInv /\ AuxType
  <2>1. Init => IInv
    BY Initially
  <2>2. Init => AuxType
    <3>1. Init => intlock \in Threads \cup {None} /\ expired \in BOOLEAN /\ locked \in BOOLEAN
      BY Zenon DEF Init
    <3>2. Init => power \in {"off", "boot", "on"} /\ others \in {"none", "buffer", "all"} /\ loaded \in Nat
      BY DEF Init
    <3>q. QED BY <3>1, <3>2 DEF AuxType
  <2>q. QED BY <2>1, <2>2
<1>2. IInv /\ AuxType /\ [Next]_vars => (IInv /\ AuxType)'
  BY Preserved, AuxPreserved
<1>3. IInv /\ AuxType => TypeOK
  BY QueueType, PagesZero
  DEF TypeOK, IInv, AuxType, Numbers, FlashOK, FlashType, QueueOK, PcType, StateType
<1>q. QED BY <1>1, <1>2, <1>3, PTL DEF Spec
=============================================================================
