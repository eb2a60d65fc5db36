----------------------------- MODULE NorflashApi -----------------------------
(***************************************************************************)
(* The flash operation queue of the firmware                               *)
(* (services/norflash_api/norflash_api.cpp).                               *)
(*                                                                         *)
(* Modules (user data, OTA, log dump, ...) erase sectors and write pages.  *)
(* An asynchronous request becomes a node of the module's list, newest     *)
(* first; nodes and sector buffers come from two small pools shared by all *)
(* modules.  The sleep hook calls norflash_api_flush, which works on the   *)
(* oldest node of one module until the flash has finished it or an         *)
(* interrupt suspends it.  A synchronous request first empties the list of *)
(* its module and then goes to the flash directly.  Flushing is held back  *)
(* while a user's "allowed" callback says no.                              *)
(*                                                                         *)
(* Every entry point runs with the interrupt lock held, so one call is one *)
(* step; app_flash_page_erase and app_flash_page_program, which retry, are *)
(* several.                                                                *)
(***************************************************************************)
EXTENDS Integers, Sequences, SequencesExt, FiniteSetsExt

CONSTANTS
    NMods,     \* registered modules, numbered from 0
    Sectors,   \* the sectors <<m, i>> of each module m
    NPages,    \* pages of a sector
    Values,    \* contents that clients write
    NOpra,     \* NORFLASH_API_OPRA_LIST_LEN
    NBuff,     \* NORFLASH_API_WRITE_BUFF_LEN
    MaxOps,    \* bound on the requests that are explored
    OtaMods,   \* modules that erase with app_flash_page_erase
    SyncMods,  \* modules that make synchronous requests
    ReErase,   \* modules that may erase a sector with queued operations
    CpUses,    \* whether the user NORFLASH_API_USER_CP holds flushing back
    Null, Erased, Torn

Mods  == 0 .. NMods - 1
Pages == 0 .. NPages - 1
Slots == 1 .. NOpra
Buffs == 1 .. NBuff
Content == Values \cup {Erased, Torn}

ASSUME SizeAssumption ==
    /\ NMods \in Nat \ {0} /\ NPages \in Nat \ {0} /\ NOpra \in Nat \ {0} /\ NBuff \in Nat
    /\ MaxOps \in Nat
ASSUME SectorAssumption == \A s \in Sectors : s[1] \in Mods
ASSUME NullAssumption == 
    Null \notin Slots /\ Null \notin Mods /\ Null \notin Sectors /\ Null \notin [Pages -> Content]
ASSUME UserAssumption == OtaMods \cup SyncMods \cup ReErase \subseteq Mods /\ CpUses \in BOOLEAN

VARIABLES
    node,       \* opera_info_list
    buff,       \* data_list: a buffer's content, Null when it is free
    head,       \* mod_info[m].opera_info
    cur,        \* mod_info[m].cur_opera_info
    state,      \* mod_info[m].state
    next_page,  \* the page a suspended write goes on with
    cur_mod,    \* norflash_api_info.cur_mod
    cur_mod_id, \* norflash_api_info.cur_mod_id
    allowed_cb, \* a callback that may forbid flushing is installed
    job,        \* the call of app_flash_page_* a module is waiting in
    ops,        \* requests accepted so far
    flash,      \* the sectors
    wanted      \* history: the sectors as the requests, in order, leave them

vars == <<node, buff, head, cur, state, next_page, cur_mod, cur_mod_id, allowed_cb, job,
          ops, flash, wanted>>
lists    == <<node, buff, head>>
progress == <<cur, state, next_page>>
turn     == <<cur_mod, cur_mod_id>>

FreeNode == [used |-> FALSE, type |-> "erase", addr |-> Null, lo |-> 0, hi |-> 0,
             buff |-> Null, lock |-> FALSE, next |-> Null]
NodeSet == [used : BOOLEAN, type : {"erase", "write"}, addr : Sectors \cup {Null},
            lo : 0 .. NPages, hi : 0 .. NPages, buff : Buffs \cup {Null},
            lock : BOOLEAN, next : Slots \cup {Null}]

\* A request: an erase of a sector, or pages lo .. hi-1 written with v.
EraseRequest(s) == [type |-> "erase", addr |-> s, lo |-> 0, hi |-> NPages, v |-> Erased]
Requests ==
    {EraseRequest(s) : s \in Sectors} \cup
    {r \in [type : {"write"}, addr : Sectors, lo : Pages, hi : 1 .. NPages, v : Values] :
        r.lo < r.hi}

TypeOK ==
    /\ node \in [Slots -> NodeSet]
    /\ buff \in [Buffs -> [Pages -> Content] \cup {Null}]
    /\ head \in [Mods -> Slots \cup {Null}]
    /\ cur \in [Mods -> Slots \cup {Null}]
    /\ state \in [Mods -> {"IDLE", "WRITTING_SUSPEND", "ERASE_SUSPEND"}]
    /\ next_page \in [Mods -> 0 .. NPages]
    /\ cur_mod \in Mods \cup {Null}
    /\ cur_mod_id \in 0 .. NMods
    /\ allowed_cb \in BOOLEAN
    /\ job \in [Mods -> [req : Requests, phase : {"flush", "retry"}] \cup {Null}]
    /\ ops \in 0 .. MaxOps
    /\ flash \in [Sectors -> [Pages -> Content]]
    /\ wanted \in [Sectors -> [Pages -> Content]]

Blank(x) == [p \in Pages |-> x]

\* Data d laid over old content from page lo to page hi - 1.
Overlay(old, lo, hi, d) == [p \in Pages |-> IF lo <= p /\ p < hi THEN d[p] ELSE old[p]]

\* Programming a page can only clear bits.
Program(old, new) ==
    IF new = Erased \/ new = old THEN old
    ELSE IF old = Erased THEN new ELSE Torn
ProgramRange(old, lo, hi, d) ==
    [p \in Pages |-> IF lo <= p /\ p < hi THEN Program(old[p], d[p]) ELSE old[p]]

-----------------------------------------------------------------------------
(* Lists and pools.                                                        *)

\* The nodes nd linked from h, newest first; cut off where the links run in
\* a circle.
Chain(nd, h) ==
    LET at[k \in 0 .. NOpra] ==
            IF k = 0 THEN h
            ELSE LET i == at[k - 1] IN IF i = Null THEN Null ELSE nd[i].next
    IN  [k \in {j \in 1 .. NOpra : at[j - 1] # Null} |-> at[k - 1]]
List(m) == Chain(node, head[m])

FreeSlots == {i \in Slots : ~node[i].used}
FreeBuffs == {b \in Buffs : buff[b] = Null}

\* _get_ew_count, _get_w_count, _get_e_count.
Count(m, types) == Cardinality({i \in 1 .. Len(List(m)) : node[List(m)[i]].type \in types})

\* The newest node of the list that is in S.
Newest(m, S) ==
    LET hits == {k \in 1 .. Len(List(m)) : List(m)[k] \in S}
    IN  IF hits = {} THEN Null ELSE List(m)[Min(hits)]

NodesOf(s) == {i \in Slots : node[i].addr = s}

\* _opera_read: the newest node of the sector answers, else the flash.
Read(s, p) ==
    LET n == Newest(s[1], NodesOf(s))
    IN  IF n = Null THEN flash[s][p]
        ELSE IF node[n].type = "write" THEN buff[node[n].buff][p] ELSE Erased

\* (variant: a read asks the flash first)
ReadFlash(s, p) == flash[s][p]

\* norflash_api_read.
norflash_api_read(s, p) == Read(s, p)

-----------------------------------------------------------------------------
(* Asynchronous requests.                                                  *)

\* One turn of the loop of _e_opera_add over the nodes of the list: unlocked
\* nodes of sector s are unlinked and freed, a locked erase ends the search.
\* pre follows the loop even onto a node that has just been freed.
ScanNode(s, acc, i) ==
    LET next == acc.next[i]
        same == node[i].addr = s
        moved == [acc EXCEPT !.pre = IF next # Null THEN i ELSE @]
    IN  IF acc.merged THEN acc
        ELSE IF same /\ ~node[i].lock THEN
            [moved EXCEPT !.freed = @ \cup {i},
                          !.head = IF i = acc.head THEN next ELSE @,
                          !.next = IF i = acc.head THEN @ ELSE [@ EXCEPT ![acc.pre] = next]]
        ELSE IF same /\ node[i].type = "erase" THEN [acc EXCEPT !.merged = TRUE]
        ELSE moved

Scan(s) ==
    LET m == s[1]
        L == List(m)
        loop[k \in 0 .. Len(L)] ==
            IF k = 0
            THEN [head |-> head[m], next |-> [i \in Slots |-> node[i].next], pre |-> head[m],
                  freed |-> {}, merged |-> FALSE]
            ELSE ScanNode(s, loop[k - 1], L[k])
    IN  loop[Len(L)]

\* _norflash_api_free of the nodes F and their buffers; links as next says.
FreeNodes(F, next) ==
    [i \in Slots |-> IF i \in F THEN FreeNode ELSE [node[i] EXCEPT !.next = next[i]]]
FreeBuffersLeaks(F) == buff
FreeBuffers(F) ==
    [b \in Buffs |-> IF \E i \in F : node[i].buff = b THEN Null ELSE buff[b]]

\* _e_opera_add, which returns 0 or, when the pool is empty, 1.
EraseAdded(s) ==
    LET r == Scan(s)
        room == {i \in Slots : i \in r.freed \/ ~node[i].used}
    IN  /\ r.merged \/ room # {}
        /\ buff' = FreeBuffers(r.freed)
        /\ IF r.merged
           THEN /\ node' = FreeNodes(r.freed, r.next)
                /\ head' = [head EXCEPT ![s[1]] = r.head]
           ELSE /\ node' = [FreeNodes(r.freed, r.next) EXCEPT
                                ![Min(room)] = [used |-> TRUE, type |-> "erase", addr |-> s,
                                                lo |-> 0, hi |-> NPages, buff |-> Null,
                                                lock |-> FALSE, next |-> r.head]]
                /\ head' = [head EXCEPT ![s[1]] = Min(room)]
EraseFull(s) == ~Scan(s).merged /\ Scan(s).freed = {} /\ FreeSlots = {}

\* _w_opera_add looks for the newest node of the sector that is an erase or
\* an unlocked write.  A write takes the data; the written range grows to
\* hold both.
Target(s) == Newest(s[1], {i \in NodesOf(s) : node[i].type = "erase" \/ ~node[i].lock})
WriteMerges(s) == Target(s) # Null /\ node[Target(s)].type = "write"

\* (variant: the range grows by the length of the data)
WriteMergedAdds(r) ==
    LET w == Target(r.addr) IN
    /\ WriteMerges(r.addr)
    /\ buff' = [buff EXCEPT ![node[w].buff] = Overlay(@, r.lo, r.hi, Blank(r.v))]
    /\ node' = [node EXCEPT ![w].lo = IF r.lo < @ THEN r.lo ELSE @, ![w].hi = @ + r.hi - r.lo]
    /\ UNCHANGED head

WriteMerged(r) ==
    LET w == Target(r.addr) IN
    /\ WriteMerges(r.addr)
    /\ buff' = [buff EXCEPT ![node[w].buff] = Overlay(@, r.lo, r.hi, Blank(r.v))]
    /\ node' = [node EXCEPT ![w].lo = IF r.lo < @ THEN r.lo ELSE @,
                            ![w].hi = IF r.hi > @ THEN r.hi ELSE @]
    /\ UNCHANGED head

\* Otherwise a new node is made; its buffer starts from 0xff after a queued
\* erase, else from the flash.
WriteLinked(r) ==
    LET i == Min(FreeSlots)
        b == Min(FreeBuffs)
        base == IF Target(r.addr) # Null THEN Blank(Erased) ELSE flash[r.addr]
    IN  /\ ~WriteMerges(r.addr)
        /\ FreeSlots # {} /\ FreeBuffs # {}
        /\ buff' = [buff EXCEPT ![b] = Overlay(base, r.lo, r.hi, Blank(r.v))]
        /\ node' = [node EXCEPT ![i] =
                       [used |-> TRUE, type |-> "write", addr |-> r.addr, lo |-> r.lo,
                        hi |-> r.hi, buff |-> b, lock |-> FALSE, next |-> head[r.addr[1]]]]
        /\ head' = [head EXCEPT ![r.addr[1]] = i]
WriteFull(s) == ~WriteMerges(s) /\ (FreeSlots = {} \/ FreeBuffs = {})

\* What the request makes of a sector.
Applied(old, r) ==
    IF r.type = "erase" THEN Blank(Erased) ELSE ProgramRange(old, r.lo, r.hi, Blank(r.v))

Granted(r) == wanted' = [wanted EXCEPT ![r.addr] = Applied(@, r)]

\* norflash_api_erase and norflash_api_write with async = true.
Accepted(r) ==
    /\ IF r.type = "erase" THEN EraseAdded(r.addr) ELSE WriteMerged(r) \/ WriteLinked(r)
    /\ Granted(r)
BufferFull(r) == IF r.type = "erase" THEN EraseFull(r.addr) ELSE WriteFull(r.addr)

-----------------------------------------------------------------------------
(* Working on the oldest node.                                             *)

\* _get_tail locks the node it returns; _opera_del unlinks it and frees it.
Tail_(m) == Last(List(m))
Unlinked(m, i) ==
    LET L == List(m) IN
    /\ head' = [head EXCEPT ![m] = IF @ = i THEN Null ELSE @]
    /\ node' = [j \in Slots |->
                   IF j = i THEN FreeNode
                   ELSE IF head[m] # i /\ j = L[Len(L) - 1] THEN [node[j] EXCEPT !.next = Null]
                   ELSE node[j]]
    /\ buff' = FreeBuffers({i})

\* The page from which the write node i still has to be programmed.
StartPage(m, i) == IF cur[m] = i /\ state[m] # "IDLE" THEN next_page[m] ELSE node[i].lo
Programmed(m, i, old, end) == ProgramRange(old, StartPage(m, i), end, buff[node[i].buff])
Worked(m, i, old) ==
    IF node[i].type = "erase" THEN Blank(Erased) ELSE Programmed(m, i, old, node[i].hi)

\* _opera_flush on the oldest node i of module m: the flash finishes it...
Finished(m, i) ==
    /\ flash' = [flash EXCEPT ![node[i].addr] = Worked(m, i, @)]
    /\ Unlinked(m, i)
    /\ cur' = [cur EXCEPT ![m] = Null]
    /\ state' = [state EXCEPT ![m] = "IDLE"]
    /\ next_page' = [next_page EXCEPT ![m] = 0]

\* (variant: a suspended write goes on after the page it was stopped at)
SuspendedSkips(m, i) ==
    LET n == node[i] IN
    /\ node' = [node EXCEPT ![i].lock = TRUE]
    /\ cur' = [cur EXCEPT ![m] = i]
    /\ IF n.type = "erase"
       THEN /\ flash' = [flash EXCEPT ![n.addr] = Blank(Torn)]
            /\ state' = [state EXCEPT ![m] = "ERASE_SUSPEND"]
            /\ UNCHANGED next_page
       ELSE \E k \in n.lo .. n.hi - 1 :
            /\ k >= StartPage(m, i)
            /\ next_page' = [next_page EXCEPT ![m] = k + 1]
            /\ flash' = [flash EXCEPT ![n.addr] = Programmed(m, i, @, k)]
            /\ state' = [state EXCEPT ![m] = "WRITTING_SUSPEND"]
    /\ UNCHANGED <<buff, head>>

\* ...or an interrupt suspends it: an erase with the sector in any state, a
\* write before some page.
Suspended(m, i) ==
    LET n == node[i] IN
    /\ node' = [node EXCEPT ![i].lock = TRUE]
    /\ cur' = [cur EXCEPT ![m] = i]
    /\ IF n.type = "erase"
       THEN /\ flash' = [flash EXCEPT ![n.addr] = Blank(Torn)]
            /\ state' = [state EXCEPT ![m] = "ERASE_SUSPEND"]
            /\ UNCHANGED next_page
       ELSE \E k \in n.lo .. n.hi - 1 :
            /\ k >= StartPage(m, i)
            /\ next_page' = [next_page EXCEPT ![m] = k]
            /\ flash' = [flash EXCEPT ![n.addr] = Programmed(m, i, @, k)]
            /\ state' = [state EXCEPT ![m] = "WRITTING_SUSPEND"]
    /\ UNCHANGED <<buff, head>>

\* _get_cur_mod: the module at work, else the next one in turn with nodes.
Busy(m) == head[m] # Null
NextMod ==
    LET after(m) == IF m > cur_mod_id THEN m - cur_mod_id ELSE m - cur_mod_id + NMods + 1
        busy == {m \in Mods : Busy(m)}
    IN  CHOOSE m \in busy : \A k \in busy : after(m) <= after(k)

\* (variant: a module keeps its turn even when it has nothing left)
KeepsTurn == UNCHANGED turn

\* norflash_api_info.cur_mod is given up when the module has no node left.
TurnOver == cur_mod' = Null /\ UNCHANGED cur_mod_id

FlushWork(m) ==
    \/ /\ ~Busy(m)
       /\ TurnOver
       /\ UNCHANGED <<lists, progress, flash>>
    \/ /\ Busy(m)
       /\ cur_mod' = m /\ cur_mod_id' = m
       /\ LET i == IF cur[m] # Null THEN cur[m] ELSE Tail_(m) IN Finished(m, i) \/ Suspended(m, i)

\* _flush_is_allowed asks the callback, and drops it once it says yes.
FlushAllowed == allowed_cb' = FALSE
FlushForbidden == allowed_cb /\ UNCHANGED allowed_cb

Idle == cur_mod = Null /\ \A m \in Mods : ~Busy(m)

Flush ==
    \/ /\ FlushForbidden
       /\ UNCHANGED <<lists, progress, turn, flash>>
    \/ /\ FlushAllowed
       /\ IF Idle THEN UNCHANGED <<lists, progress, turn, flash>>
          ELSE FlushWork(IF cur_mod # Null THEN cur_mod ELSE NextMod)

norflash_api_flush == Flush /\ UNCHANGED <<job, ops, wanted>>

-----------------------------------------------------------------------------
(* Synchronous requests.                                                   *)

\* What the list of m, worked off from its oldest node, makes of the flash.
WorkedOff(m, sectors, i) == [sectors EXCEPT ![node[i].addr] = Worked(m, i, @)]
Drained(m) ==
    LET L == List(m)
        loop[k \in 0 .. Len(L)] ==
            IF k = 0 THEN flash ELSE WorkedOff(m, loop[k - 1], L[Len(L) - k + 1])
    IN  loop[Len(L)]

\* The suspended operation of another module is finished first.
SuspendedOther(m) == cur_mod \notin {Null, m} /\ state[cur_mod] # "IDLE"
FirstFinished(m) ==
    IF SuspendedOther(m)
    THEN LET n == node[cur[cur_mod]] IN
         [addr |-> n.addr, data |-> Worked(cur_mod, cur[cur_mod], flash[n.addr])]
    ELSE [addr |-> Null, data |-> Null]

\* The modules' lists after that: the other module loses its oldest node,
\* module m all of its nodes.
Emptied(m, drain) ==
    LET gone == (IF SuspendedOther(m) THEN {cur[cur_mod]} ELSE {})
                \cup (IF drain THEN ToSet(List(m)) ELSE {})
        idle == (IF SuspendedOther(m) THEN {cur_mod} ELSE {}) \cup (IF drain THEN {m} ELSE {})
    IN  /\ node' = [i \in Slots |->
                       IF i \in gone THEN FreeNode
                       ELSE [node[i] EXCEPT !.next = IF @ \in gone THEN Null ELSE @]]
        /\ buff' = FreeBuffers(gone)
        /\ head' = [k \in Mods |-> IF head[k] \in gone THEN Null ELSE head[k]]
        /\ cur' = [k \in Mods |-> IF k \in idle THEN Null ELSE cur[k]]
        /\ state' = [k \in Mods |-> IF k \in idle THEN "IDLE" ELSE state[k]]
        /\ next_page' = [k \in Mods |-> IF k \in idle THEN 0 ELSE next_page[k]]

\* (variant: the suspended operation of another module is left alone)
SyncIgnoresOther(r, drain) ==
    LET m == r.addr[1] IN
    /\ node' = [i \in Slots |-> IF i \in ToSet(List(m)) THEN FreeNode ELSE node[i]]
    /\ buff' = FreeBuffers(ToSet(List(m)))
    /\ head' = [head EXCEPT ![m] = Null]
    /\ cur' = [cur EXCEPT ![m] = Null]
    /\ state' = [state EXCEPT ![m] = "IDLE"]
    /\ next_page' = [next_page EXCEPT ![m] = 0]
    /\ flash' = [Drained(m) EXCEPT ![r.addr] = Applied(@, r)]

\* (variant: the request overtakes the queued operations)
SyncOvertakes(r, drain) ==
    /\ flash' = [flash EXCEPT ![r.addr] = Applied(@, r)]
    /\ UNCHANGED <<lists, progress>>

\* The queued operations of m reach the flash before the request, if drained.
SyncDone(r, drain) ==
    LET m == r.addr[1]
        other == FirstFinished(m)
        before == IF drain THEN Drained(m) ELSE flash
        after == [before EXCEPT ![r.addr] = Applied(@, r)]
    IN  /\ flash' = IF other.addr = Null THEN after ELSE [after EXCEPT ![other.addr] = other.data]
        /\ Emptied(m, drain)

\* Clients program erased pages only.
OnErasedPages(r) == \A p \in r.lo .. r.hi - 1 : wanted[r.addr][p] \in {Erased, r.v}

\* norflash_api_erase and norflash_api_write with async = false.  When a
\* suspended operation had to be finished, the loop waits until flushing is
\* allowed; otherwise a callback that says no skips the loop that empties
\* the list.
SyncRequest(r) ==
    LET m == r.addr[1] IN
    /\ m \in SyncMods /\ job[m] = Null /\ ops < MaxOps
    /\ r.type = "erase" \/ OnErasedPages(r)
    /\ \/ FlushAllowed /\ SyncDone(r, TRUE)
       \/ ~SuspendedOther(m) /\ FlushForbidden /\ SyncDone(r, FALSE)
    /\ Granted(r)
    /\ ops' = ops + 1
    /\ UNCHANGED <<turn, job>>

-----------------------------------------------------------------------------
(* The clients.                                                            *)

\* Most clients never erase a sector that still has queued operations.
Proper(r) ==
    IF r.type = "write" THEN OnErasedPages(r)
    ELSE r.addr[1] \in ReErase \/ Newest(r.addr[1], NodesOf(r.addr)) = Null

\* app_flash_page_erase looks at the flash, and not at the queue, to see
\* whether there is anything to erase.
AlreadyErased(r) ==
    r.type = "erase" /\ r.addr[1] \in OtaMods /\ flash[r.addr] = Blank(Erased)

\* app_flash_page_erase and app_flash_page_program: the first attempt.
Request(r) ==
    LET m == r.addr[1] IN
    /\ job[m] = Null /\ ops < MaxOps /\ Proper(r)
    /\ ops' = ops + 1
    /\ \/ AlreadyErased(r) /\ Granted(r) /\ UNCHANGED <<lists, job>>
       \/ ~AlreadyErased(r) /\ Accepted(r) /\ UNCHANGED job
       \/ /\ ~AlreadyErased(r) /\ BufferFull(r)
          /\ job' = [job EXCEPT ![m] = [req |-> r, phase |-> "flush"]]
          /\ UNCHANGED <<lists, wanted>>
    /\ UNCHANGED <<progress, turn, allowed_cb, flash>>

\* app_flush_pending_flash_op: flush until the module has no node of the
\* kind, whoever it is that fills the pool.
app_flush_pending_flash_op(m) ==
    /\ job[m] # Null /\ job[m].phase = "flush"
    /\ Flush
    /\ \E type \in {"erase", "write"} :
          /\ type = job[m].req.type
          /\ job' = IF Count(m, {type})' = 0 THEN [job EXCEPT ![m].phase = "retry"] ELSE job
    /\ UNCHANGED <<ops, wanted>>

\* The next attempt.
Retry(m) ==
    /\ job[m] # Null /\ job[m].phase = "retry"
    /\ \/ Accepted(job[m].req) /\ job' = [job EXCEPT ![m] = Null]
       \/ /\ BufferFull(job[m].req)
          /\ job' = [job EXCEPT ![m].phase = "flush"]
          /\ UNCHANGED <<lists, wanted>>
    /\ UNCHANGED <<progress, turn, allowed_cb, ops, flash>>

\* The audio coprocessor starts: norflash_api_flush_disable.
norflash_api_flush_disable ==
    /\ CpUses /\ ~allowed_cb
    /\ allowed_cb' = TRUE
    /\ UNCHANGED <<lists, progress, turn, job, ops, flash, wanted>>

\* norflash_api_flush_enable, also the first act of norflash_api_flush_all.
norflash_api_flush_enable ==
    /\ allowed_cb
    /\ allowed_cb' = FALSE
    /\ UNCHANGED <<lists, progress, turn, job, ops, flash, wanted>>

Init ==
    /\ node = [i \in Slots |-> FreeNode]
    /\ buff = [b \in Buffs |-> Null]
    /\ head = [m \in Mods |-> Null]
    /\ cur = [m \in Mods |-> Null]
    /\ state = [m \in Mods |-> "IDLE"]
    /\ next_page = [m \in Mods |-> 0]
    /\ cur_mod = Null /\ cur_mod_id = NMods
    /\ allowed_cb = FALSE
    /\ job = [m \in Mods |-> Null]
    /\ ops = 0
    /\ flash \in {[s \in Sectors |-> Blank(x)] : x \in Values}
    /\ wanted = flash

Next ==
    \/ \E r \in Requests : Request(r) \/ SyncRequest(r)
    \/ \E m \in Mods : app_flush_pending_flash_op(m) \/ Retry(m)
    \/ norflash_api_flush
    \/ norflash_api_flush_disable
    \/ norflash_api_flush_enable

Spec == Init /\ [][Next]_vars
-----------------------------------------------------------------------------
(* Properties.                                                             *)

\* The pools are neither leaked nor freed twice: the nodes in use are exactly
\* those on the lists, no list runs in a circle or crosses another, and the
\* buffers in use are exactly those of the write nodes.
Linked ==
    /\ \A m \in Mods : IsInjective(List(m))
    /\ \A m \in Mods : \A i \in ToSet(List(m)) : node[i].used /\ node[i].addr[1] = m
    /\ \A i \in Slots : node[i].used => i \in ToSet(List(node[i].addr[1]))
    /\ \A b \in Buffs :
          buff[b] # Null <=> \E i \in Slots : node[i].used /\ node[i].type = "write" /\ node[i].buff = b

\* A read returns what the latest accepted requests made of the page, whether
\* they are queued, half done or finished.
ReadsLatest == \A s \in Sectors, p \in Pages : norflash_api_read(s, p) = wanted[s][p]

\* Worked off in their order, the queued operations leave every sector as the
\* accepted requests, in the order they were made, would have left it.
InOrder == \A s \in Sectors : Drained(s[1])[s] = wanted[s]

\* While an operation is suspended, nothing else touches the flash.
DeviceBusy ==
    [][\A m \in Mods : state[m] # "IDLE" /\ state'[m] # "IDLE" =>
          \A s \in Sectors : flash'[s] # flash[s] => s = node[cur[m]].addr]_vars

\* What a module has queued reaches the flash once the modules stop making
\* requests, in whatever order they queued and however often the flash was
\* suspended: norflash_api_flush hands the turn to every module.
QueueDrains == \A m \in Mods : Busy(m) ~> ~Busy(m)

\* A call of app_flash_page_erase or app_flash_page_program that found the
\* pools exhausted comes back, although it may be the nodes of another
\* module that fill them, once the other modules stop making requests.
JobReturns == \A m \in Mods : (job[m] # Null) ~> (job[m] = Null)

\* The sleep hook is called again and again; sooner or later the callback
\* allows flushing and the flash is left alone until it has finished; waiting
\* threads are scheduled.
Finishes == norflash_api_flush /\ Cardinality(FreeSlots') > Cardinality(FreeSlots)
Fairness ==
    /\ SF_vars(Finishes)
    /\ SF_vars(norflash_api_flush /\ turn' # turn)
    /\ \A m \in Mods : WF_vars(Retry(m)) /\ SF_vars(app_flush_pending_flash_op(m) /\ job' # job)

FairSpec == Spec /\ Fairness
=============================================================================
