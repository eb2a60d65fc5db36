-------------------------- MODULE NorflashApiProofs --------------------------
(***************************************************************************)
(* Proofs about NorflashApi, for any number of modules, sectors, pages and *)
(* nodes, with the one sector buffer of the product, clients that do not   *)
(* erase a sector with queued operations, and synchronous requests that    *)
(* are not made while flushing is forbidden.                               *)
(***************************************************************************)
EXTENDS NorflashApi, SetInduction, SequenceTheorems, FiniteSetTheorems

\* The clients and the pool the proofs are about.
Product == NBuff = 1 /\ ReErase = {} /\ (SyncMods = {} \/ ~CpUses)

-----------------------------------------------------------------------------
(* The inductive invariant, about the lists q of the modules.              *)

EraseNode(i) == node[i].used /\ node[i].type = "erase"
WriteNode(i) == node[i].used /\ node[i].type = "write"

\* L is what the links from h make up.
Links(nd, h, L) ==
    /\ L \in Seq(Slots)
    /\ h = IF L = <<>> THEN Null ELSE L[1]
    /\ \A k \in 1 .. Len(L) : nd[L[k]].next = IF k < Len(L) THEN L[k + 1] ELSE Null

\* The nodes in use are those on the lists, each once, of the module's
\* sectors, and in a sector the write is newer than the erase.
Lists(q) ==
    /\ \A m \in Mods : Links(node, head[m], q[m])
    /\ \A m \in Mods : \A k \in 1 .. Len(q[m]) :
          node[q[m][k]].used /\ node[q[m][k]].addr \in Sectors /\ node[q[m][k]].addr[1] = m
    /\ \A m \in Mods : \A j, k \in 1 .. Len(q[m]) : q[m][j] = q[m][k] => j = k
    /\ \A i \in Slots : node[i].used =>
          /\ node[i].addr \in Sectors
          /\ \E k \in 1 .. Len(q[node[i].addr[1]]) : q[node[i].addr[1]][k] = i
    /\ \A m \in Mods : \A j, k \in 1 .. Len(q[m]) :
          WriteNode(q[m][j]) /\ EraseNode(q[m][k]) /\ node[q[m][j]].addr = node[q[m][k]].addr => j < k

\* Free nodes are blank; the buffer belongs to the one write node there is;
\* no sector has two erases queued.
Pools ==
    /\ \A i \in Slots : ~node[i].used => node[i] = FreeNode
    /\ \A i \in Slots : EraseNode(i) => node[i].buff = Null
    /\ \A i \in Slots : WriteNode(i) =>
          node[i].buff \in Buffs /\ buff[node[i].buff] # Null /\ node[i].lo < node[i].hi
    /\ \A b \in Buffs : buff[b] # Null => \E i \in Slots : WriteNode(i)
    /\ \A i, j \in Slots : WriteNode(i) /\ WriteNode(j) => i = j
    /\ \A i, j \in Slots : EraseNode(i) /\ EraseNode(j) /\ node[i].addr = node[j].addr => i = j

\* The suspended operation is the oldest of the module at work, and the only
\* locked node.
Current(q) ==
    /\ \A m \in Mods : cur[m] = Null <=> state[m] = "IDLE"
    /\ \A m \in Mods : cur[m] # Null =>
          /\ cur_mod = m /\ q[m] # <<>> /\ cur[m] = q[m][Len(q[m])]
          /\ node[cur[m]].lock = TRUE
          /\ WriteNode(cur[m]) => next_page[m] \in node[cur[m]].lo .. node[cur[m]].hi - 1
    /\ \A i \in Slots : node[i].lock = TRUE => cur[node[i].addr[1]] = i

HasErase(s) == \E i \in Slots : EraseNode(i) /\ node[i].addr = s
HasWrite(s) == \E i \in Slots : WriteNode(i) /\ node[i].addr = s

\* What the sector will hold when the queued write comes to it.
Base(s) == IF HasErase(s) THEN Blank(Erased) ELSE flash[s]
Start(i) == StartPage(node[i].addr[1], i)

\* The buffer of a write holds the whole sector as it is wanted; where it is
\* still to be programmed the pages are erased or programmed already, and
\* elsewhere they are as wanted.
Contents ==
    /\ \A s \in Sectors : ~HasWrite(s) => Base(s) = wanted[s]
    /\ \A i \in Slots : WriteNode(i) => buff[node[i].buff] = wanted[node[i].addr]
    /\ \A i \in Slots : WriteNode(i) => \A p \in Pages :
          LET b == Base(node[i].addr)[p]
              w == wanted[node[i].addr][p]
          IN  IF Start(i) <= p /\ p < node[i].hi THEN b \in {Erased, w} ELSE b = w

\* A request that waits for room is still a proper one.
Waiting ==
    \A m \in Mods : job[m] # Null =>
        LET r == job[m].req
        IN  /\ r.addr[1] = m
            /\ IF r.type = "write" THEN OnErasedPages(r) ELSE ~HasErase(r.addr) /\ ~HasWrite(r.addr)

Inv(q) ==
    /\ TypeOK /\ Lists(q) /\ Pools /\ Current(q) /\ Contents /\ Waiting
    /\ allowed_cb => CpUses

IInv == \E q \in [Mods -> Seq(Slots)] : Inv(q)
-----------------------------------------------------------------------------
(* Lists.                                                                  *)

\* A list without repetition is no longer than the pool.
LEMMA ListFits ==
    ASSUME NEW L \in Seq(Slots), \A j, k \in 1 .. Len(L) : L[j] = L[k] => j = k
    PROVE  Len(L) <= NOpra
<1>1. NOpra \in Nat /\ Len(L) \in Nat
  BY SizeAssumption
<1>2. L \in Injection(1 .. Len(L), Slots)
  BY LenProperties DEF Injection, IsInjective
<1>3. IsFiniteSet(1 .. NOpra) /\ Cardinality(1 .. NOpra) = NOpra
  BY <1>1, FS_Interval
<1>4. Cardinality(1 .. Len(L)) = Len(L)
  <2>1. 1 \in Int /\ Len(L) \in Int
    BY <1>1
  <2>2. Cardinality(1 .. Len(L)) = IF 1 > Len(L) THEN 0 ELSE Len(L) - 1 + 1
    BY <2>1, FS_Interval
  <2>q. QED BY <1>1, <2>2
<1>5. Cardinality(1 .. Len(L)) <= Cardinality(Slots)
  BY <1>2, <1>3, FS_Injection DEF Slots
<1>q. QED BY <1>3, <1>4, <1>5 DEF Slots

\* Following the links gives the list that they make up.
LEMMA ChainIs ==
    ASSUME NEW nd, NEW h, NEW L, Links(nd, h, L), Len(L) <= NOpra
    PROVE  Chain(nd, h) = L
<1> DEFINE g == [k \in 0 .. NOpra |-> IF k < Len(L) THEN L[k + 1] ELSE Null]
           Loop(f) == f = [k \in 0 .. NOpra |->
                              IF k = 0 THEN h
                              ELSE LET i == f[k - 1] IN IF i = Null THEN Null ELSE nd[i].next]
           at == CHOOSE f : Loop(f)
<1>0. /\ NOpra \in Nat /\ Len(L) \in Nat /\ L \in Seq(Slots) /\ Null \notin Slots
      /\ h = IF L = <<>> THEN Null ELSE L[1]
      /\ L = <<>> <=> Len(L) = 0
      /\ \A k \in 1 .. Len(L) : L[k] \in Slots
      /\ \A k \in 1 .. Len(L) : nd[L[k]].next = IF k < Len(L) THEN L[k + 1] ELSE Null
  BY SizeAssumption, NullAssumption DEF Links
<1>1. Chain(nd, h) = [k \in {j \in 1 .. NOpra : at[j - 1] # Null} |-> at[k - 1]]
  BY DEF Chain
<1>2. Loop(g)
  <2>1. g[0] = h
    BY <1>0
  <2>2. ASSUME NEW k \in 0 .. NOpra, k # 0
        PROVE  g[k] = IF g[k - 1] = Null THEN Null ELSE nd[g[k - 1]].next
    <3>1. k - 1 \in 0 .. NOpra /\ k \in Nat /\ k \in 1 .. NOpra
      BY <1>0, <2>2
    <3>2. CASE k <= Len(L)
      <4>1. g[k - 1] = L[k] /\ k \in 1 .. Len(L)
        BY <1>0, <3>1, <3>2
      <4>2. g[k] = IF k < Len(L) THEN L[k + 1] ELSE Null
        BY <2>2
      <4>q. QED BY <1>0, <4>1, <4>2
    <3>3. CASE ~(k <= Len(L))
      <4>1. g[k - 1] = Null /\ g[k] = Null
        BY <1>0, <3>1, <3>3
      <4>q. QED BY <4>1
    <3>q. QED BY <3>2, <3>3
  <2>q. QED BY <2>1, <2>2
<1>3. Loop(at)
  BY <1>2
<1> HIDE DEF at
<1>4. at[0] = g[0]
  BY <1>0, <1>2, <1>3
<1>5. ASSUME NEW k \in 0 .. NOpra - 1, at[k] = g[k]
      PROVE  at[k + 1] = g[k + 1]
  <2>1. k + 1 \in 0 .. NOpra /\ k + 1 # 0 /\ (k + 1) - 1 = k
    BY <1>0
  <2> HIDE DEF g
  <2>2. at[k + 1] = IF at[k] = Null THEN Null ELSE nd[at[k]].next
    BY <1>3, <2>1
  <2>3. g[k + 1] = IF g[k] = Null THEN Null ELSE nd[g[k]].next
    BY <1>2, <2>1
  <2>q. QED BY <1>5, <2>2, <2>3
<1>6. \A k \in 0 .. NOpra : at[k] = g[k]
  <2> HIDE DEF g, Loop
  <2>1. NOpra \in Nat
    BY <1>0
  <2>q. QED BY <1>4, <1>5, <2>1, SameUpTo
<1>7. \A j \in 1 .. NOpra : at[j - 1] = IF j <= Len(L) THEN L[j] ELSE Null
  <2>1. ASSUME NEW j \in 1 .. NOpra PROVE at[j - 1] = IF j <= Len(L) THEN L[j] ELSE Null
    <3>1. j - 1 \in 0 .. NOpra /\ j \in Nat /\ (j - 1) + 1 = j
      BY <1>0
    <3>2. at[j - 1] = IF j - 1 < Len(L) THEN L[j] ELSE Null
      BY <1>6, <3>1
    <3>q. QED BY <1>0, <3>1, <3>2
  <2>q. QED BY <2>1
<1>8. {j \in 1 .. NOpra : at[j - 1] # Null} = 1 .. Len(L)
  BY <1>0, <1>7
<1>9. Chain(nd, h) = [k \in 1 .. Len(L) |-> L[k]]
  BY <1>0, <1>1, <1>7, <1>8
<1>q. QED BY <1>0, <1>9, LenProperties

\* The lists of the invariant are the lists of the modules.
LEMMA ListIs ==
    ASSUME NEW q, Lists(q), NEW m \in Mods
    PROVE  List(m) = q[m]
<1>1. Links(node, head[m], q[m]) /\ q[m] \in Seq(Slots)
  BY DEF Lists, Links
<1>2. Len(q[m]) <= NOpra
  BY <1>1, ListFits DEF Lists
<1>q. QED BY <1>1, <1>2, ChainIs DEF List

\* A set of naturals that is not empty has its minimum.
LEMMA MinIs ==
    ASSUME NEW S \in SUBSET Nat, S # {}
    PROVE  Min(S) \in S /\ \A k \in S : Min(S) <= k
BY LeastElement DEF Min

\* The newest node of a list in S: none is newer.
LEMMA NewestIs ==
    ASSUME NEW q, Lists(q), NEW m \in Mods, NEW S
    PROVE  \/ Newest(m, S) = Null /\ \A k \in 1 .. Len(q[m]) : q[m][k] \notin S
           \/ \E k \in 1 .. Len(q[m]) :
                 /\ Newest(m, S) = q[m][k] /\ q[m][k] \in S
                 /\ \A j \in 1 .. k - 1 : q[m][j] \notin S
<1> DEFINE hits == {k \in 1 .. Len(q[m]) : q[m][k] \in S}
<1>1. Newest(m, S) = IF hits = {} THEN Null ELSE q[m][Min(hits)]
  BY ListIs DEF Newest
<1>2. CASE hits = {}
  BY <1>1, <1>2
<1>3. CASE hits # {}
  <2>0. Len(q[m]) \in Nat
    BY DEF Lists, Links
  <2>1. hits \in SUBSET Nat
    BY <2>0
  <2>2. Min(hits) \in hits /\ \A k \in hits : Min(hits) <= k
    BY <1>3, <2>1, MinIs
  <2>3. PICK k : k = Min(hits)
    OBVIOUS
  <2>4. k \in 1 .. Len(q[m]) /\ q[m][k] \in S /\ Newest(m, S) = q[m][k]
    BY <1>1, <1>3, <2>2, <2>3
  <2>5. ASSUME NEW j \in 1 .. k - 1 PROVE q[m][j] \notin S
    <3>1. j \notin hits
      BY <2>0, <2>2, <2>3, <2>4
    <3>2. j \in 1 .. Len(q[m])
      BY <2>0, <2>4
    <3>q. QED BY <3>1, <3>2
  <2>q. QED BY <2>4, <2>5
<1>q. QED BY <1>2, <1>3

\* What a set of nodes in use has on the list of its module.
LEMMA OnList ==
    ASSUME NEW q, TypeOK, Lists(q), NEW i \in Slots, node[i].used
    PROVE  /\ node[i].addr \in Sectors /\ node[i].addr[1] \in Mods
           /\ \E k \in 1 .. Len(q[node[i].addr[1]]) : q[node[i].addr[1]][k] = i
BY SectorAssumption DEF Lists
-----------------------------------------------------------------------------
(* What the operations do to the lists.                                    *)

\* A node is put in front of the list of m.
LEMMA Pushed ==
    ASSUME TypeOK, NEW q \in [Mods -> Seq(Slots)], Lists(q),
           NEW m \in Mods, NEW i \in Slots, ~node[i].used, NEW n \in NodeSet,
           n.used, n.addr \in Sectors, n.addr[1] = m, n.next = head[m],
           node' = [node EXCEPT ![i] = n], head' = [head EXCEPT ![m] = i],
           n.type = "erase" => \A j \in Slots : ~(WriteNode(j) /\ node[j].addr = n.addr),
           NEW r \in [Mods -> Seq(Slots)], r = [q EXCEPT ![m] = <<i>> \o q[m]]
    PROVE  Lists(r)'
<1>0. /\ node \in [Slots -> NodeSet] /\ head \in [Mods -> Slots \cup {Null}]
      /\ \A k \in Mods : q[k] \in Seq(Slots) /\ Len(q[k]) \in Nat
  BY DEF TypeOK
<1>1. /\ r[m] \in Seq(Slots) /\ Len(r[m]) = Len(q[m]) + 1 /\ r[m][1] = i
      /\ \A j \in 1 .. Len(q[m]) : r[m][j + 1] = q[m][j]
      /\ \A j \in 2 .. Len(r[m]) : r[m][j] = q[m][j - 1] /\ j - 1 \in 1 .. Len(q[m])
      /\ r[m] # <<>>
  <2>1. <<i>> \in Seq(Slots) /\ Len(<<i>>) = 1
    OBVIOUS
  <2>2. r[m] = <<i>> \o q[m]
    BY <1>0
  <2>3. /\ r[m] \in Seq(Slots) /\ Len(r[m]) = Len(q[m]) + 1
        /\ \A j \in 1 .. Len(q[m]) + 1 : r[m][j] = IF j <= 1 THEN <<i>>[j] ELSE q[m][j - 1]
    BY <1>0, <2>1, <2>2, ConcatProperties
  <2>q. QED BY <1>0, <2>3
<1>2. \A k \in Mods : k # m => r[k] = q[k] /\ head'[k] = head[k]
  BY <1>0
<1>3. /\ \A j \in Slots : j # i => node'[j] = node[j]
      /\ node'[i] = n /\ head'[m] = i
  BY <1>0
<1>4. \A k \in Mods : \A j \in 1 .. Len(q[k]) :
         q[k][j] \in Slots /\ q[k][j] # i /\ node'[q[k][j]] = node[q[k][j]]
  BY <1>0, <1>3 DEF Lists
<1>5. ASSUME NEW k \in Mods PROVE Links(node', head'[k], r[k])
  <2>1. CASE k = m
    <3>1. ASSUME NEW j \in 1 .. Len(r[m])
          PROVE  node'[r[m][j]].next = IF j < Len(r[m]) THEN r[m][j + 1] ELSE Null
      <4>1. CASE j = 1
        <5>1. node'[r[m][1]].next = head[m]
          BY <1>1, <1>3
        <5>2. head[m] = IF q[m] = <<>> THEN Null ELSE q[m][1]
          BY DEF Lists, Links
        <5>3. (1 < Len(r[m])) <=> q[m] # <<>>
          BY <1>0, <1>1, EmptySeq
        <5>4. q[m] # <<>> => r[m][1 + 1] = q[m][1]
          BY <1>0, <1>1, EmptySeq
        <5>q. QED BY <4>1, <5>1, <5>2, <5>3, <5>4
      <4>2. CASE j # 1
        <5>1. j - 1 \in 1 .. Len(q[m]) /\ r[m][j] = q[m][j - 1] /\ (j - 1) + 1 = j
          BY <1>0, <1>1, <4>2
        <5>2. node[q[m][j - 1]].next = IF j - 1 < Len(q[m]) THEN q[m][(j - 1) + 1] ELSE Null
          <6>1. Links(node, head[m], q[m])
            BY DEF Lists
          <6>2. PICK a \in 1 .. Len(q[m]) : a = j - 1
            BY <5>1
          <6>3. node[q[m][a]].next = IF a < Len(q[m]) THEN q[m][a + 1] ELSE Null
            BY <6>1 DEF Links
          <6>q. QED BY <6>2, <6>3
        <5>3. j < Len(r[m]) => r[m][j + 1] = q[m][j] /\ j - 1 < Len(q[m])
          BY <1>0, <1>1, <4>2
        <5>4. ~(j < Len(r[m])) => ~(j - 1 < Len(q[m]))
          BY <1>0, <1>1
        <5>q. QED BY <1>4, <5>1, <5>2, <5>3, <5>4
      <4>q. QED BY <4>1, <4>2
    <3>q. QED BY <1>1, <1>3, <2>1, <3>1 DEF Links
  <2>2. CASE k # m
    <3>1. Links(node, head[k], q[k])
      BY DEF Lists
    <3>q. QED BY <1>2, <1>4, <2>2, <3>1 DEF Links
  <2>q. QED BY <2>1, <2>2
<1>6. ASSUME NEW k \in Mods, NEW j \in 1 .. Len(r[k])
      PROVE  node'[r[k][j]].used /\ node'[r[k][j]].addr \in Sectors /\ node'[r[k][j]].addr[1] = k
  <2>1. CASE k = m /\ j = 1
    BY <1>1, <1>3, <2>1
  <2>2. CASE k = m /\ j # 1
    <3>1. j - 1 \in 1 .. Len(q[m]) /\ r[m][j] = q[m][j - 1]
      BY <1>0, <1>1, <2>2
    <3>q. QED BY <1>4, <2>2, <3>1 DEF Lists
  <2>3. CASE k # m
    BY <1>2, <1>4, <2>3 DEF Lists
  <2>q. QED BY <2>1, <2>2, <2>3
<1>7. ASSUME NEW k \in Mods, NEW a \in 1 .. Len(r[k]), NEW b \in 1 .. Len(r[k]), r[k][a] = r[k][b]
      PROVE  a = b
  <2>1. CASE k = m
    <3>1. a # 1 => a - 1 \in 1 .. Len(q[m]) /\ r[m][a] = q[m][a - 1] /\ r[m][a] # i
      BY <1>0, <1>1, <1>4, <2>1
    <3>2. b # 1 => b - 1 \in 1 .. Len(q[m]) /\ r[m][b] = q[m][b - 1] /\ r[m][b] # i
      BY <1>0, <1>1, <1>4, <2>1
    <3>3. a # 1 /\ b # 1 => a - 1 = b - 1
      BY <1>7, <2>1, <3>1, <3>2 DEF Lists
    <3>q. QED BY <1>0, <1>1, <1>7, <2>1, <3>1, <3>2, <3>3
  <2>2. CASE k # m
    BY <1>2, <1>7, <2>2 DEF Lists
  <2>q. QED BY <2>1, <2>2
<1>8. ASSUME NEW j \in Slots, node'[j].used
      PROVE  /\ node'[j].addr \in Sectors
             /\ \E k \in 1 .. Len(r[node'[j].addr[1]]) : r[node'[j].addr[1]][k] = j
  <2>1. CASE j = i
    <3>1. 1 \in 1 .. Len(r[m])
      BY <1>0, <1>1
    <3>q. QED BY <1>1, <1>3, <2>1, <3>1
  <2>2. CASE j # i
    <3>1. node'[j] = node[j] /\ node[j].used
      BY <1>3, <1>8, <2>2
    <3>2. node[j].addr \in Sectors /\ node[j].addr[1] \in Mods
      BY <3>1, OnList
    <3>3. PICK k \in 1 .. Len(q[node[j].addr[1]]) : q[node[j].addr[1]][k] = j
      BY <3>1, OnList
    <3>4. CASE node[j].addr[1] = m
      <4>1. k + 1 \in 1 .. Len(r[m]) /\ r[m][k + 1] = j
        BY <1>0, <1>1, <3>3, <3>4
      <4>q. QED BY <3>1, <3>2, <3>4, <4>1
    <3>5. CASE node[j].addr[1] # m
      BY <1>2, <3>1, <3>2, <3>3, <3>5
    <3>q. QED BY <3>4, <3>5
  <2>q. QED BY <2>1, <2>2
<1>9. ASSUME NEW k \in Mods, NEW a \in 1 .. Len(r[k]), NEW b \in 1 .. Len(r[k]),
             WriteNode(r[k][a])', EraseNode(r[k][b])', node'[r[k][a]].addr = node'[r[k][b]].addr
      PROVE  a < b
  <2>1. CASE k = m
    <3>1. a # 1 => a - 1 \in 1 .. Len(q[m]) /\ r[m][a] = q[m][a - 1]
      BY <1>0, <1>1, <2>1
    <3>2. b # 1 => b - 1 \in 1 .. Len(q[m]) /\ r[m][b] = q[m][b - 1]
      BY <1>0, <1>1, <2>1
    <3>3. CASE a = 1
      <4>1. b # 1
        BY <1>9, <3>3, <2>1 DEF WriteNode, EraseNode
      <4>q. QED BY <1>0, <1>1, <2>1, <3>3, <4>1
    <3>4. CASE a # 1 /\ b = 1
      <4>0. node'[r[m][b]] = n
        BY <1>1, <1>3, <3>4
      <4>1. node'[r[m][b]] = n /\ node'[r[m][a]] = node[q[m][a - 1]] /\ q[m][a - 1] \in Slots
        <5>1. PICK c \in 1 .. Len(q[m]) : c = a - 1
          BY <3>1, <3>4
        <5>2. node'[q[m][c]] = node[q[m][c]] /\ q[m][c] \in Slots
          BY <1>4
        <5>q. QED BY <3>1, <3>4, <4>0, <5>1, <5>2
      <4>q. QED BY <1>9, <2>1, <4>1 DEF WriteNode, EraseNode
    <3>5. CASE a # 1 /\ b # 1
      <4>1. /\ node'[r[m][a]] = node[q[m][a - 1]] /\ node'[r[m][b]] = node[q[m][b - 1]]
        BY <1>4, <3>1, <3>2, <3>5
      <4>2. WriteNode(q[m][a - 1]) /\ EraseNode(q[m][b - 1])
            /\ node[q[m][a - 1]].addr = node[q[m][b - 1]].addr
        BY <1>9, <2>1, <4>1 DEF WriteNode, EraseNode
      <4>3. a - 1 < b - 1
        BY <3>1, <3>2, <3>5, <4>2 DEF Lists
      <4>q. QED BY <1>0, <1>1, <2>1, <4>3
    <3>q. QED BY <3>3, <3>4, <3>5
  <2>2. CASE k # m
    <3>1. /\ r[k] = q[k] /\ node'[q[k][a]] = node[q[k][a]] /\ node'[q[k][b]] = node[q[k][b]]
          /\ a \in 1 .. Len(q[k]) /\ b \in 1 .. Len(q[k])
      BY <1>2, <1>4, <2>2
    <3>2. WriteNode(q[k][a]) /\ EraseNode(q[k][b]) /\ node[q[k][a]].addr = node[q[k][b]].addr
      BY <1>9, <3>1 DEF WriteNode, EraseNode
    <3>q. QED BY <3>1, <3>2 DEF Lists
  <2>q. QED BY <2>1, <2>2
<1>q. QED BY <1>5, <1>6, <1>7, <1>8, <1>9 DEF Lists

\* Nodes G are the oldest of their lists and are taken off.
CutTo(q, r, G) ==
    /\ \A m \in Mods : Len(r[m]) <= Len(q[m]) /\ \A j \in 1 .. Len(r[m]) : r[m][j] = q[m][j]
    /\ \A m \in Mods : \A j \in 1 .. Len(q[m]) : q[m][j] \in G <=> j > Len(r[m])
    /\ node' = [i \in Slots |->
                   IF i \in G THEN FreeNode
                   ELSE [node[i] EXCEPT !.next = IF @ \in G THEN Null ELSE @]]
    /\ head' = [k \in Mods |-> IF head[k] \in G THEN Null ELSE head[k]]

\* A new link leaves the rest of a node alone.
LEMMA Relinked ==
    ASSUME NEW n \in NodeSet, NEW x
    PROVE  LET c == [n EXCEPT !.next = x]
           IN  /\ c.used = n.used /\ c.type = n.type /\ c.addr = n.addr /\ c.lo = n.lo
               /\ c.hi = n.hi /\ c.buff = n.buff /\ c.lock = n.lock /\ c.next = x
BY DEF NodeSet

\* Freeing the oldest nodes G of the lists leaves lists, and the other nodes.
LEMMA Cut ==
    ASSUME TypeOK, NEW q \in [Mods -> Seq(Slots)], Lists(q),
           NEW r \in [Mods -> Seq(Slots)], NEW G \in SUBSET Slots, CutTo(q, r, G)
    PROVE  /\ Lists(r)'
           /\ \A i \in Slots \ G : /\ node'[i].used = node[i].used /\ node'[i].type = node[i].type
                                   /\ node'[i].addr = node[i].addr /\ node'[i].lo = node[i].lo
                                   /\ node'[i].hi = node[i].hi /\ node'[i].buff = node[i].buff
                                   /\ node'[i].lock = node[i].lock
           /\ \A i \in G : node'[i] = FreeNode
<1>0. /\ node \in [Slots -> NodeSet] /\ head \in [Mods -> Slots \cup {Null}] /\ Null \notin Slots
      /\ \A k \in Mods : q[k] \in Seq(Slots) /\ Len(q[k]) \in Nat
      /\ \A k \in Mods : r[k] \in Seq(Slots) /\ Len(r[k]) \in Nat
  BY NullAssumption DEF TypeOK
<1>1. /\ \A m \in Mods : Len(r[m]) <= Len(q[m]) /\ \A j \in 1 .. Len(r[m]) : r[m][j] = q[m][j]
      /\ \A m \in Mods : \A j \in 1 .. Len(q[m]) : q[m][j] \in G <=> j > Len(r[m])
  BY DEF CutTo
<1>2. \A i \in Slots \ G :
         /\ node'[i].used = node[i].used /\ node'[i].type = node[i].type
         /\ node'[i].addr = node[i].addr /\ node'[i].lo = node[i].lo
         /\ node'[i].hi = node[i].hi /\ node'[i].buff = node[i].buff
         /\ node'[i].lock = node[i].lock
         /\ node'[i].next = IF node[i].next \in G THEN Null ELSE node[i].next
  <2>1. ASSUME NEW i \in Slots \ G
        PROVE  node'[i] = [node[i] EXCEPT !.next = IF node[i].next \in G THEN Null ELSE node[i].next]
               /\ node[i] \in NodeSet
    BY <1>0, <2>1 DEF CutTo
  <2>2. ASSUME NEW i \in Slots \ G
        PROVE  /\ node'[i].used = node[i].used /\ node'[i].type = node[i].type
               /\ node'[i].addr = node[i].addr /\ node'[i].lo = node[i].lo
               /\ node'[i].hi = node[i].hi /\ node'[i].buff = node[i].buff
               /\ node'[i].lock = node[i].lock
               /\ node'[i].next = IF node[i].next \in G THEN Null ELSE node[i].next
    <3>1. PICK x : x = IF node[i].next \in G THEN Null ELSE node[i].next
      OBVIOUS
    <3>2. node'[i] = [node[i] EXCEPT !.next = x] /\ node[i] \in NodeSet
      BY <2>1, <3>1
    <3>q. QED BY <3>1, <3>2, Relinked
  <2>q. QED BY <2>2
<1>3. \A i \in G : node'[i] = FreeNode
  BY DEF CutTo
<1>4. \A k \in Mods : head'[k] = IF head[k] \in G THEN Null ELSE head[k]
  BY DEF CutTo
<1>5. \A k \in Mods : \A j \in 1 .. Len(r[k]) :
         j \in 1 .. Len(q[k]) /\ r[k][j] = q[k][j] /\ r[k][j] \in Slots \ G
  BY <1>0, <1>1
<1> HIDE DEF CutTo
<1>6. ASSUME NEW k \in Mods PROVE Links(node', head'[k], r[k])
  <2>1. Links(node, head[k], q[k])
    BY DEF Lists
  <2>2. head'[k] = IF r[k] = <<>> THEN Null ELSE r[k][1]
    <3>1. head[k] = IF q[k] = <<>> THEN Null ELSE q[k][1]
      BY <2>1 DEF Links
    <3>2. CASE r[k] = <<>>
      <4>1. q[k] # <<>> => 1 \in 1 .. Len(q[k]) /\ q[k][1] \in G
        BY <1>0, <1>1, <3>2, EmptySeq
      <4>q. QED BY <1>4, <3>1, <3>2, <4>1
    <3>3. CASE r[k] # <<>>
      <4>1. 1 \in 1 .. Len(r[k])
        BY <1>0, <3>3, EmptySeq
      <4>2. q[k] # <<>> /\ r[k][1] = q[k][1] /\ q[k][1] \notin G
        BY <1>0, <1>5, <4>1
      <4>q. QED BY <1>4, <3>1, <3>3, <4>2
    <3>q. QED BY <3>2, <3>3
  <2>3. ASSUME NEW j \in 1 .. Len(r[k])
        PROVE  node'[r[k][j]].next = IF j < Len(r[k]) THEN r[k][j + 1] ELSE Null
    <3>1. j \in 1 .. Len(q[k]) /\ r[k][j] = q[k][j] /\ r[k][j] \in Slots \ G
      BY <1>5
    <3>2. node[q[k][j]].next = IF j < Len(q[k]) THEN q[k][j + 1] ELSE Null
      BY <2>1, <3>1 DEF Links
    <3>3. node'[r[k][j]].next = IF node[q[k][j]].next \in G THEN Null ELSE node[q[k][j]].next
      BY <1>2, <3>1
    <3>4. CASE j < Len(r[k])
      <4>1. j + 1 \in 1 .. Len(r[k]) /\ j < Len(q[k])
        BY <1>0, <1>1, <3>4
      <4>2. r[k][j + 1] = q[k][j + 1] /\ q[k][j + 1] \notin G
        BY <1>5, <4>1
      <4>q. QED BY <3>2, <3>3, <3>4, <4>1, <4>2
    <3>5. CASE ~(j < Len(r[k]))
      <4>1. j < Len(q[k]) => j + 1 \in 1 .. Len(q[k]) /\ j + 1 > Len(r[k])
        BY <1>0, <1>1, <3>5
      <4>2. j < Len(q[k]) => q[k][j + 1] \in G
        BY <1>1, <4>1
      <4>q. QED BY <3>2, <3>3, <3>5, <4>2
    <3>q. QED BY <3>4, <3>5
  <2>q. QED BY <1>0, <2>2, <2>3 DEF Links
<1>7. ASSUME NEW k \in Mods, NEW j \in 1 .. Len(r[k])
      PROVE  node'[r[k][j]].used /\ node'[r[k][j]].addr \in Sectors /\ node'[r[k][j]].addr[1] = k
  <2>1. j \in 1 .. Len(q[k]) /\ r[k][j] = q[k][j] /\ r[k][j] \in Slots \ G
    BY <1>5
  <2>2. node[q[k][j]].used /\ node[q[k][j]].addr \in Sectors /\ node[q[k][j]].addr[1] = k
    BY <2>1 DEF Lists
  <2>q. QED BY <1>2, <2>1, <2>2
<1>8. ASSUME NEW k \in Mods, NEW a \in 1 .. Len(r[k]), NEW b \in 1 .. Len(r[k]), r[k][a] = r[k][b]
      PROVE  a = b
  BY <1>5, <1>8 DEF Lists
<1>9. ASSUME NEW j \in Slots, node'[j].used
      PROVE  /\ node'[j].addr \in Sectors
             /\ \E k \in 1 .. Len(r[node'[j].addr[1]]) : r[node'[j].addr[1]][k] = j
  <2>1. j \notin G
    BY <1>3, <1>9 DEF FreeNode
  <2>2. node[j].used /\ node'[j].addr = node[j].addr
    BY <1>2, <1>9, <2>1
  <2>3. node[j].addr \in Sectors /\ node[j].addr[1] \in Mods
    BY <2>2, OnList
  <2>4. PICK k \in 1 .. Len(q[node[j].addr[1]]) : q[node[j].addr[1]][k] = j
    BY <2>2, OnList
  <2>5. k \in 1 .. Len(r[node[j].addr[1]]) /\ r[node[j].addr[1]][k] = j
    BY <1>0, <1>1, <2>1, <2>3, <2>4
  <2>q. QED BY <2>2, <2>3, <2>5
<1>10. ASSUME NEW k \in Mods, NEW a \in 1 .. Len(r[k]), NEW b \in 1 .. Len(r[k]),
              WriteNode(r[k][a])', EraseNode(r[k][b])', node'[r[k][a]].addr = node'[r[k][b]].addr
       PROVE  a < b
  <2>1. /\ a \in 1 .. Len(q[k]) /\ r[k][a] = q[k][a] /\ r[k][a] \in Slots \ G
        /\ b \in 1 .. Len(q[k]) /\ r[k][b] = q[k][b] /\ r[k][b] \in Slots \ G
    BY <1>5
  <2>2. WriteNode(q[k][a]) /\ EraseNode(q[k][b]) /\ node[q[k][a]].addr = node[q[k][b]].addr
    BY <1>2, <1>10, <2>1 DEF WriteNode, EraseNode
  <2>q. QED BY <2>1, <2>2 DEF Lists
<1>11. Lists(r)'
  BY <1>6, <1>7, <1>8, <1>9, <1>10 DEF Lists
<1>q. QED BY <1>2, <1>3, <1>11

\* Ranges, locks and buffers of nodes change; the lists stay.
LEMMA ListsStay ==
    ASSUME NEW q \in [Mods -> Seq(Slots)], Lists(q), head' = head,
           \A i \in Slots : /\ node'[i].used = node[i].used /\ node'[i].type = node[i].type
                            /\ node'[i].addr = node[i].addr /\ node'[i].next = node[i].next
    PROVE  Lists(q)'
<1>1. \A m \in Mods : q[m] \in Seq(Slots) /\ \A k \in 1 .. Len(q[m]) : q[m][k] \in Slots
  OBVIOUS
<1>2. \A m \in Mods : Links(node', head'[m], q[m])
  BY <1>1 DEF Lists, Links
<1>3. \A m \in Mods : \A k \in 1 .. Len(q[m]) :
          node'[q[m][k]].used /\ node'[q[m][k]].addr \in Sectors /\ node'[q[m][k]].addr[1] = m
  BY <1>1 DEF Lists
<1>4. \A i \in Slots : node'[i].used =>
          /\ node'[i].addr \in Sectors
          /\ \E k \in 1 .. Len(q[node'[i].addr[1]]) : q[node'[i].addr[1]][k] = i
  BY DEF Lists
<1>5. ASSUME NEW m \in Mods, NEW j \in 1 .. Len(q[m]), NEW k \in 1 .. Len(q[m]),
             WriteNode(q[m][j])', EraseNode(q[m][k])', node'[q[m][j]].addr = node'[q[m][k]].addr
      PROVE  j < k
  <2>1. WriteNode(q[m][j]) /\ EraseNode(q[m][k]) /\ node[q[m][j]].addr = node[q[m][k]].addr
    BY <1>1, <1>5 DEF WriteNode, EraseNode
  <2>q. QED BY <2>1 DEF Lists
<1>q. QED BY <1>2, <1>3, <1>4, <1>5 DEF Lists
-----------------------------------------------------------------------------
(* Sectors and requests.                                                   *)

\* Parts of the invariant, and what the types say.
LEMMA Parts ==
    ASSUME NEW q \in [Mods -> Seq(Slots)], Inv(q)
    PROVE  /\ TypeOK /\ Lists(q) /\ Pools /\ Current(q) /\ Contents /\ Waiting
           /\ allowed_cb => CpUses
           /\ node \in [Slots -> NodeSet] /\ head \in [Mods -> Slots \cup {Null}]
           /\ buff \in [Buffs -> [Pages -> Content] \cup {Null}]
           /\ cur \in [Mods -> Slots \cup {Null}]
           /\ flash \in [Sectors -> [Pages -> Content]] /\ wanted \in [Sectors -> [Pages -> Content]]
           /\ job \in [Mods -> [req : Requests, phase : {"flush", "retry"}] \cup {Null}]
           /\ Null \notin Slots /\ Null \notin Mods /\ Null \notin Sectors
           /\ \A i \in Slots : /\ node[i] \in NodeSet /\ node[i].used \in BOOLEAN
                               /\ node[i].lo \in 0 .. NPages /\ node[i].hi \in 0 .. NPages
                               /\ node[i].type \in {"erase", "write"}
           /\ NPages \in Nat
           /\ \A m \in Mods : q[m] \in Seq(Slots) /\ Len(q[m]) \in Nat
           /\ \A m \in Mods : \A k \in 1 .. Len(q[m]) : q[m][k] \in Slots
BY NullAssumption, SizeAssumption DEF Inv, TypeOK, NodeSet

\* What a request asks for.
LEMMA RequestIs ==
    ASSUME NEW r \in Requests
    PROVE  /\ r.addr \in Sectors /\ r.addr[1] \in Mods /\ r.type \in {"erase", "write"}
           /\ r.type = "write" => r.v \in Values /\ r.lo \in Pages /\ r.hi \in 1 .. NPages /\ r.lo < r.hi
           /\ r.v \in Content /\ r.lo \in 0 .. NPages /\ r.hi \in 0 .. NPages
<1>0. NPages \in Nat \ {0}
  BY SizeAssumption
<1>1. ASSUME NEW s \in Sectors, r = EraseRequest(s)
      PROVE  /\ r.addr \in Sectors /\ r.type = "erase" /\ r.v \in Content
             /\ r.lo \in 0 .. NPages /\ r.hi \in 0 .. NPages
  BY <1>0, <1>1 DEF EraseRequest, Content
<1>2. ASSUME r \in [type : {"write"}, addr : Sectors, lo : Pages, hi : 1 .. NPages, v : Values], r.lo < r.hi
      PROVE  /\ r.addr \in Sectors /\ r.type = "write" /\ r.v \in Values /\ r.lo \in Pages
             /\ r.hi \in 1 .. NPages /\ r.lo < r.hi
  BY <1>2
<1>3. r.addr \in Sectors => r.addr[1] \in Mods
  BY SectorAssumption
<1>q. QED BY <1>0, <1>1, <1>2, <1>3 DEF Requests, Content, Pages

\* A write on erased pages makes the sector what laying the data over it does.
LEMMA AppliedIs ==
    ASSUME NEW r \in Requests, r.type = "write", NEW old \in [Pages -> Content],
           \A p \in r.lo .. r.hi - 1 : old[p] \in {Erased, r.v}
    PROVE  /\ Applied(old, r) = Overlay(old, r.lo, r.hi, Blank(r.v))
           /\ Applied(old, r) \in [Pages -> Content]
           /\ \A p \in Pages : Applied(old, r)[p] = IF r.lo <= p /\ p < r.hi THEN r.v ELSE old[p]
<1>0. r.lo \in Nat /\ r.hi \in Nat /\ r.v \in Content /\ Pages \subseteq Int
  BY RequestIs, SizeAssumption DEF Pages
<1>1. ASSUME NEW p \in Pages, r.lo <= p, p < r.hi
      PROVE  Program(old[p], Blank(r.v)[p]) = r.v /\ Blank(r.v)[p] = r.v
  <2>1. p \in r.lo .. r.hi - 1
    BY <1>0, <1>1
  <2>2. old[p] \in {Erased, r.v}
    BY <2>1
  <2>q. QED BY <2>2 DEF Program, Blank
<1>2. Applied(old, r) = ProgramRange(old, r.lo, r.hi, Blank(r.v))
  BY DEF Applied
<1>3. \A p \in Pages : ProgramRange(old, r.lo, r.hi, Blank(r.v))[p] = IF r.lo <= p /\ p < r.hi THEN r.v ELSE old[p]
  BY <1>1 DEF ProgramRange
<1>4. ProgramRange(old, r.lo, r.hi, Blank(r.v)) = Overlay(old, r.lo, r.hi, Blank(r.v))
  BY <1>1 DEF ProgramRange, Overlay
<1>5. ProgramRange(old, r.lo, r.hi, Blank(r.v)) \in [Pages -> Content]
  <2>1. \A p \in Pages : (IF r.lo <= p /\ p < r.hi THEN Program(old[p], Blank(r.v)[p]) ELSE old[p]) \in Content
    BY <1>0, <1>1
  <2>q. QED BY <2>1 DEF ProgramRange
<1>q. QED BY <1>2, <1>3, <1>4, <1>5

\* Pages that are erased or as wanted become as wanted.
LEMMA ProgramsTo ==
    ASSUME NEW old \in [Pages -> Content], NEW w \in [Pages -> Content], NEW lo \in Nat, NEW hi \in Nat,
           \A p \in Pages : lo <= p /\ p < hi => old[p] \in {Erased, w[p]}
    PROVE  /\ ProgramRange(old, lo, hi, w) \in [Pages -> Content]
           /\ \A p \in Pages : ProgramRange(old, lo, hi, w)[p] = IF lo <= p /\ p < hi THEN w[p] ELSE old[p]
<1>1. ASSUME NEW p \in Pages, lo <= p, p < hi PROVE Program(old[p], w[p]) = w[p]
  BY <1>1 DEF Program
<1>2. \A p \in Pages : (IF lo <= p /\ p < hi THEN Program(old[p], w[p]) ELSE old[p])
                          = IF lo <= p /\ p < hi THEN w[p] ELSE old[p]
  BY <1>1
<1>3. \A p \in Pages : (IF lo <= p /\ p < hi THEN Program(old[p], w[p]) ELSE old[p]) \in Content
  BY <1>2
<1>q. QED BY <1>2, <1>3 DEF ProgramRange

\* Erased, torn and written sectors are contents.
LEMMA BlankIs ==
    ASSUME NEW x \in Content
    PROVE  Blank(x) \in [Pages -> Content] /\ \A p \in Pages : Blank(x)[p] = x
BY DEF Blank

\* A sector without nodes: none of the list is of it.
LEMMA NoNodes ==
    ASSUME NEW q \in [Mods -> Seq(Slots)], Inv(q), NEW s \in Sectors,
           Newest(s[1], NodesOf(s)) = Null
    PROVE  \A i \in Slots : ~(node[i].used /\ node[i].addr = s)
<1>0. TypeOK /\ Lists(q) /\ s[1] \in Mods /\ Null \notin Slots
      /\ \A k \in 1 .. Len(q[s[1]]) : q[s[1]][k] \in Slots
  BY Parts, SectorAssumption
<1>1. \A k \in 1 .. Len(q[s[1]]) : q[s[1]][k] \notin NodesOf(s)
  BY <1>0, NewestIs
<1>2. ASSUME NEW i \in Slots, node[i].used, node[i].addr = s PROVE FALSE
  <2>1. PICK k \in 1 .. Len(q[s[1]]) : q[s[1]][k] = i
    BY <1>0, <1>2, OnList
  <2>q. QED BY <1>1, <1>2, <2>1 DEF NodesOf
<1>q. QED BY <1>2
-----------------------------------------------------------------------------
(* The loops over a list.                                                  *)

\* An erase of a sector without nodes finds nothing to free or to merge with.
LEMMA ScanIs ==
    ASSUME NEW q \in [Mods -> Seq(Slots)], Inv(q), NEW s \in Sectors,
           \A i \in Slots : ~(node[i].used /\ node[i].addr = s)
    PROVE  /\ Scan(s).head = head[s[1]] /\ Scan(s).next = [i \in Slots |-> node[i].next]
           /\ Scan(s).freed = {} /\ Scan(s).merged = FALSE
<1> DEFINE m == s[1]
           L == q[m]
           N == [i \in Slots |-> node[i].next]
           pr == [k \in 0 .. Len(L) |->
                     IF k = 0 THEN head[m]
                     ELSE IF k < Len(L) THEN L[k] ELSE IF Len(L) > 1 THEN L[Len(L) - 1] ELSE head[m]]
           g == [k \in 0 .. Len(L) |->
                    [head |-> head[m], next |-> N, pre |-> pr[k], freed |-> {}, merged |-> FALSE]]
           start == [head |-> head[m], next |-> N, pre |-> head[m], freed |-> {}, merged |-> FALSE]
           Loop(f) == f = [k \in 0 .. Len(L) |->
                              IF k = 0 THEN start ELSE ScanNode(s, f[k - 1], L[k])]
           loop == CHOOSE f : Loop(f)
<1>0. /\ m \in Mods /\ Lists(q) /\ TypeOK /\ L \in Seq(Slots) /\ Len(L) \in Nat /\ Null \notin Slots
      /\ \A k \in 1 .. Len(L) : L[k] \in Slots
      /\ Links(node, head[m], L)
  BY Parts, SectorAssumption DEF Lists
<1>1. Scan(s) = loop[Len(L)]
  BY <1>0, ListIs DEF Scan
<1>2. ASSUME NEW k \in 1 .. Len(L)
      PROVE  pr[k] = IF node[L[k]].next # Null THEN L[k] ELSE pr[k - 1]
  <2>1. node[L[k]].next = IF k < Len(L) THEN L[k + 1] ELSE Null
    BY <1>0 DEF Links
  <2>2. k < Len(L) => L[k + 1] # Null
    BY <1>0
  <2>3. k \in 0 .. Len(L) /\ k - 1 \in 0 .. Len(L) /\ k # 0
    BY <1>0
  <2>4. CASE k < Len(L)
    BY <2>1, <2>2, <2>3, <2>4
  <2>5. CASE k = Len(L)
    <3>1. pr[k] = IF Len(L) > 1 THEN L[Len(L) - 1] ELSE head[m]
      BY <1>0, <2>3, <2>5
    <3>2. pr[k - 1] = IF Len(L) > 1 THEN L[Len(L) - 1] ELSE head[m]
      <4>1. pr[k - 1] = IF k - 1 = 0 THEN head[m]
                        ELSE IF k - 1 < Len(L) THEN L[k - 1] ELSE IF Len(L) > 1 THEN L[Len(L) - 1] ELSE head[m]
        BY <2>3
      <4>2. (k - 1 = 0 <=> ~(Len(L) > 1)) /\ k - 1 < Len(L) /\ k - 1 = Len(L) - 1
        <5>1. k \in Nat /\ k >= 1 /\ Len(L) = k
          BY <1>0, <2>5
        <5> HIDE DEF L
        <5>q. QED BY <5>1
      <4>q. QED BY <4>1, <4>2
    <3>q. QED BY <1>0, <2>1, <2>5, <3>1, <3>2
  <2>q. QED BY <1>0, <2>4, <2>5
<1>3. ASSUME NEW k \in 1 .. Len(L), NEW acc, NEW p,
             acc = [head |-> head[m], next |-> N, pre |-> p, freed |-> {}, merged |-> FALSE]
      PROVE  ScanNode(s, acc, L[k]) =
                [head |-> head[m], next |-> N, pre |-> IF node[L[k]].next # Null THEN L[k] ELSE p,
                 freed |-> {}, merged |-> FALSE]
  <2>1. N[L[k]] = node[L[k]].next /\ node[L[k]].addr # s
    BY <1>0 DEF Lists
  <2>2. acc.merged = FALSE /\ acc.next = N /\ acc.pre = p
    BY <1>3
  <2>3. ScanNode(s, acc, L[k]) = [acc EXCEPT !.pre = IF node[L[k]].next # Null THEN L[k] ELSE @]
    BY <2>1, <2>2 DEF ScanNode
  <2> HIDE DEF N
  <2>q. QED BY <1>3, <2>2, <2>3
<1>4. Loop(g)
  <2> HIDE DEF pr, N
  <2>0. 0 \in 0 .. Len(L) /\ pr[0] = head[m]
    BY <1>0 DEF pr
  <2>1. g[0] = start
    BY <2>0
  <2>2. ASSUME NEW k \in 0 .. Len(L), k # 0 PROVE g[k] = ScanNode(s, g[k - 1], L[k])
    <3>1. k \in 1 .. Len(L) /\ k - 1 \in 0 .. Len(L)
      BY <1>0, <2>2
    <3>2. g[k - 1] = [head |-> head[m], next |-> N, pre |-> pr[k - 1], freed |-> {}, merged |-> FALSE]
      BY <3>1
    <3>3. g[k] = [head |-> head[m], next |-> N, pre |-> pr[k], freed |-> {}, merged |-> FALSE]
      OBVIOUS
    <3> HIDE DEF g
    <3>q. QED BY <1>2, <1>3, <3>1, <3>2, <3>3
  <2> HIDE DEF start
  <2>3. g = [k \in 0 .. Len(L) |-> g[k]]
    OBVIOUS
  <2> HIDE DEF g
  <2>q. QED BY <2>1, <2>2, <2>3
<1>5. Loop(loop)
  <2> HIDE DEF g, start
  <2>q. QED BY <1>4
<1> HIDE DEF loop, start, pr, N
<1>6. loop[0] = g[0]
  <2> HIDE DEF g
  <2>1. 0 \in 0 .. Len(L)
    BY <1>0
  <2>2. loop[0] = start
    BY <1>5, <2>1
  <2>3. g[0] = start
    BY <1>4, <2>1
  <2>q. QED BY <2>2, <2>3
<1>7. ASSUME NEW k \in 0 .. Len(L) - 1, loop[k] = g[k] PROVE loop[k + 1] = g[k + 1]
  <2> HIDE DEF g
  <2>1. k + 1 \in 0 .. Len(L) /\ k + 1 # 0 /\ (k + 1) - 1 = k
    BY <1>0
  <2>2. loop[k + 1] = ScanNode(s, loop[k], L[k + 1]) /\ g[k + 1] = ScanNode(s, g[k], L[k + 1])
    BY <1>4, <1>5, <2>1
  <2>q. QED BY <1>7, <2>2
<1>8. loop[Len(L)] = g[Len(L)]
  <2> HIDE DEF g, Loop
  <2>1. Len(L) \in Nat
    BY <1>0
  <2>2. \A k \in 0 .. Len(L) : loop[k] = g[k]
    BY <1>6, <1>7, <2>1, SameUpTo
  <2>q. QED BY <2>1, <2>2
<1>9. g[Len(L)] = [head |-> head[m], next |-> N, pre |-> pr[Len(L)], freed |-> {}, merged |-> FALSE]
  BY <1>0
<1>q. QED BY <1>1, <1>8, <1>9 DEF N

\* Where the work on a sector with a write ends.
LEMMA WriteWorks ==
    ASSUME NEW q \in [Mods -> Seq(Slots)], Inv(q), NEW i \in Slots, WriteNode(i)
    PROVE  /\ node[i].addr \in Sectors /\ node[i].addr[1] \in Mods
           /\ Worked(node[i].addr[1], i, Base(node[i].addr)) = wanted[node[i].addr]
           /\ Start(i) \in Nat /\ node[i].lo <= Start(i)
           /\ Base(node[i].addr) \in [Pages -> Content]
<1> DEFINE s == node[i].addr
           b == Base(s)
           w == wanted[s]
<1>0. s \in Sectors /\ s[1] \in Mods
  BY Parts, OnList DEF WriteNode
<1>1. b \in [Pages -> Content] /\ w \in [Pages -> Content]
  BY <1>0, Parts, BlankIs DEF Base, Content
<1>2. Start(i) \in Nat /\ node[i].hi \in Nat /\ node[i].lo <= Start(i)
  <2>1. node[i].lo \in Nat /\ node[i].hi \in Nat
    BY Parts
  <2>2. CASE cur[s[1]] = i /\ state[s[1]] # "IDLE"
    <3>1. Start(i) = next_page[s[1]]
      BY <2>2 DEF Start, StartPage
    <3>2. next_page[s[1]] \in node[i].lo .. node[i].hi - 1
      <4>1. cur[s[1]] # Null /\ Current(q)
        BY <2>2, Parts
      <4>q. QED BY <1>0, <2>2, <4>1 DEF Current
    <3>q. QED BY <2>1, <3>1, <3>2
  <2>3. CASE ~(cur[s[1]] = i /\ state[s[1]] # "IDLE")
    BY <2>1, <2>3 DEF Start, StartPage
  <2>q. QED BY <2>2, <2>3
<1>3. \A p \in Pages : IF Start(i) <= p /\ p < node[i].hi THEN b[p] \in {Erased, w[p]} ELSE b[p] = w[p]
  BY Parts DEF Contents
<1>4. buff[node[i].buff] = w
  BY Parts DEF Contents
<1>5. Worked(s[1], i, b) = ProgramRange(b, Start(i), node[i].hi, w)
  BY <1>4 DEF Worked, Programmed, WriteNode, Start
<1> HIDE DEF b, w
<1>6. /\ ProgramRange(b, Start(i), node[i].hi, w) \in [Pages -> Content]
      /\ \A p \in Pages : ProgramRange(b, Start(i), node[i].hi, w)[p]
                             = IF Start(i) <= p /\ p < node[i].hi THEN w[p] ELSE b[p]
  BY <1>1, <1>2, <1>3, ProgramsTo
<1>7. ProgramRange(b, Start(i), node[i].hi, w) = w
  BY <1>1, <1>3, <1>6
<1>q. QED BY <1>0, <1>1, <1>2, <1>5, <1>7 DEF b, w

\* Worked off in order, the list of a module leaves its sectors as wanted and
\* the sectors of other modules alone.
LEMMA DrainedIs ==
    ASSUME NEW q \in [Mods -> Seq(Slots)], Inv(q), NEW m \in Mods
    PROVE  /\ Drained(m) \in [Sectors -> [Pages -> Content]]
           /\ \A s \in Sectors : Drained(m)[s] = IF s[1] = m THEN wanted[s] ELSE flash[s]
<1> DEFINE L == q[m]
           E(s, k) == \E j \in Len(L) - k + 1 .. Len(L) : EraseNode(L[j]) /\ node[L[j]].addr = s
           W(s, k) == \E j \in Len(L) - k + 1 .. Len(L) : WriteNode(L[j]) /\ node[L[j]].addr = s
           val(s, k) == IF W(s, k) THEN wanted[s] ELSE IF E(s, k) THEN Blank(Erased) ELSE flash[s]
           g == [k \in 0 .. Len(L) |-> [s \in Sectors |-> val(s, k)]]
           Loop(f) == f = [k \in 0 .. Len(L) |->
                              IF k = 0 THEN flash ELSE WorkedOff(m, f[k - 1], L[Len(L) - k + 1])]
           loop == CHOOSE f : Loop(f)
<1>0. /\ Lists(q) /\ TypeOK /\ L \in Seq(Slots) /\ Len(L) \in Nat /\ Pools /\ Contents
      /\ \A k \in 1 .. Len(L) : L[k] \in Slots
      /\ \A k \in 1 .. Len(L) : /\ node[L[k]].used /\ node[L[k]].addr \in Sectors
                                /\ node[L[k]].addr[1] = m
                                /\ node[L[k]].type \in {"erase", "write"}
      /\ flash \in [Sectors -> [Pages -> Content]] /\ wanted \in [Sectors -> [Pages -> Content]]
  <2>1. /\ Lists(q) /\ TypeOK /\ L \in Seq(Slots) /\ Len(L) \in Nat /\ Pools /\ Contents
        /\ \A k \in 1 .. Len(L) : L[k] \in Slots
        /\ flash \in [Sectors -> [Pages -> Content]] /\ wanted \in [Sectors -> [Pages -> Content]]
    BY Parts
  <2>2. \A i \in Slots : node[i].type \in {"erase", "write"}
    BY Parts
  <2>q. QED BY <2>1, <2>2 DEF Lists
<1>1. Drained(m) = loop[Len(L)]
  <2>1. List(m) = L
    BY <1>0, ListIs
  <2> HIDE DEF L
  <2>q. QED BY <2>1 DEF Drained
<1>2. ASSUME NEW k \in 1 .. Len(L), NEW s \in Sectors
      PROVE  val(s, k) = IF node[L[Len(L) - k + 1]].addr = s
                         THEN Worked(m, L[Len(L) - k + 1], val(s, k - 1)) ELSE val(s, k - 1)
  <2> DEFINE a == Len(L) - k + 1
             i == L[a]
  <2>1. a \in 1 .. Len(L) /\ Len(L) - (k - 1) + 1 = a + 1 /\ k \in Int
    BY <1>0
  <2>2. \A j : j \in a .. Len(L) <=> j = a \/ j \in a + 1 .. Len(L)
    BY <1>0, <2>1
  <2>3. /\ W(s, k) <=> (WriteNode(i) /\ node[i].addr = s) \/ W(s, k - 1)
        /\ E(s, k) <=> (EraseNode(i) /\ node[i].addr = s) \/ E(s, k - 1)
    BY <2>1, <2>2
  <2>4. i \in Slots /\ node[i].used /\ node[i].addr \in Sectors /\ node[i].addr[1] = m
        /\ node[i].type \in {"erase", "write"}
    BY <1>0, <2>1
  <2>5. ASSUME NEW j \in a + 1 .. Len(L) PROVE j \in 1 .. Len(L) /\ a < j /\ L[j] # i /\ L[j] \in Slots
    <3>1. j \in 1 .. Len(L) /\ a < j /\ a # j
      BY <1>0, <2>1
    <3>q. QED BY <1>0, <2>1, <3>1 DEF Lists
  <2> HIDE DEF a, i
  <2>6. CASE node[i].addr # s
    BY <2>3, <2>6 DEF i, a
  <2>7. CASE node[i].addr = s /\ node[i].type = "erase"
    <3>1. ~W(s, k - 1)
      <4>1. ASSUME NEW j \in a + 1 .. Len(L), WriteNode(L[j]), node[L[j]].addr = s PROVE FALSE
        <5>1. EraseNode(L[a]) /\ node[L[a]].addr = node[L[j]].addr
          BY <2>4, <2>7, <4>1 DEF EraseNode, i
        <5>2. j < a
          BY <1>0, <2>1, <2>5, <4>1, <5>1 DEF Lists
        <5>q. QED BY <1>0, <2>1, <5>2, <2>5
      <4>q. QED BY <2>1, <4>1
    <3>2. ~W(s, k) /\ E(s, k)
      BY <2>3, <2>4, <2>7, <3>1 DEF WriteNode, EraseNode
    <3>3. val(s, k) = Blank(Erased)
      BY <3>2
    <3>4. Worked(m, i, val(s, k - 1)) = Blank(Erased)
      BY <2>7 DEF Worked
    <3>q. QED BY <2>7, <3>3, <3>4 DEF i, a
  <2>8. CASE node[i].addr = s /\ node[i].type = "write"
    <3>0. WriteNode(i)
      BY <2>4, <2>8 DEF WriteNode
    <3>1. ~W(s, k - 1)
      <4>1. ASSUME NEW j \in a + 1 .. Len(L), WriteNode(L[j]), node[L[j]].addr = s PROVE FALSE
        BY <1>0, <2>4, <2>5, <3>0, <4>1 DEF Pools
      <4>q. QED BY <2>1, <4>1
    <3>2. E(s, k - 1) <=> HasErase(s)
      <4>1. ASSUME NEW j \in a + 1 .. Len(L), EraseNode(L[j]), node[L[j]].addr = s PROVE HasErase(s)
        BY <2>5, <4>1 DEF HasErase
      <4>2. ASSUME NEW e \in Slots, EraseNode(e), node[e].addr = s PROVE E(s, k - 1)
        <5>1. PICK j \in 1 .. Len(L) : L[j] = e
          BY <1>0, <2>4, <2>8, <4>2, OnList DEF EraseNode
        <5>2. a < j
          BY <1>0, <2>1, <2>8, <3>0, <4>2, <5>1 DEF Lists, i
        <5>3. j \in a + 1 .. Len(L)
          BY <1>0, <2>1, <5>1, <5>2
        <5>q. QED BY <2>1, <4>2, <5>1, <5>3
      <4>q. QED BY <2>1, <4>1, <4>2 DEF HasErase
    <3>3. val(s, k - 1) = Base(s)
      BY <3>1, <3>2 DEF Base
    <3>4. W(s, k)
      BY <2>3, <2>8, <3>0
    <3>5. Worked(m, i, Base(s)) = wanted[s]
      BY <2>4, <2>8, <3>0, WriteWorks
    <3>6. val(s, k) = wanted[s]
      BY <3>4
    <3>q. QED BY <2>8, <3>3, <3>5, <3>6 DEF i, a
  <2>q. QED BY <2>4, <2>6, <2>7, <2>8 DEF i, a
<1>3. \A s \in Sectors : val(s, 0) = flash[s]
  BY <1>0
<1>4. ASSUME NEW s \in Sectors, NEW k \in 0 .. Len(L) PROVE val(s, k) \in [Pages -> Content]
  BY <1>0, BlankIs DEF Content
<1>5. ASSUME NEW s \in Sectors PROVE val(s, Len(L)) = IF s[1] = m THEN wanted[s] ELSE flash[s]
  <2>1. Len(L) - Len(L) + 1 = 1
    BY <1>0
  <2>2. CASE s[1] # m
    <3>1. ~W(s, Len(L)) /\ ~E(s, Len(L))
      BY <1>0, <2>1, <2>2
    <3>q. QED BY <2>2, <3>1
  <2>3. CASE s[1] = m
    <3>1. W(s, Len(L)) <=> HasWrite(s)
      <4>1. ASSUME NEW e \in Slots, WriteNode(e), node[e].addr = s PROVE W(s, Len(L))
        <5>1. PICK j \in 1 .. Len(L) : L[j] = e
          BY <1>0, <2>3, <4>1, OnList DEF WriteNode
        <5>q. QED BY <2>1, <4>1, <5>1
      <4>q. QED BY <1>0, <2>1, <4>1 DEF HasWrite
    <3>2. E(s, Len(L)) <=> HasErase(s)
      <4>1. ASSUME NEW e \in Slots, EraseNode(e), node[e].addr = s PROVE E(s, Len(L))
        <5>1. PICK j \in 1 .. Len(L) : L[j] = e
          BY <1>0, <2>3, <4>1, OnList DEF EraseNode
        <5>q. QED BY <2>1, <4>1, <5>1
      <4>q. QED BY <1>0, <2>1, <4>1 DEF HasErase
    <3>3. ~HasWrite(s) => Base(s) = wanted[s]
      BY <1>0 DEF Contents
    <3>q. QED BY <2>3, <3>1, <3>2, <3>3 DEF Base
  <2>q. QED BY <2>2, <2>3
<1> HIDE DEF val
<1>6. Loop(g)
  <2>1. g[0] = flash
    BY <1>0, <1>3
  <2>2. ASSUME NEW k \in 0 .. Len(L), k # 0 PROVE g[k] = WorkedOff(m, g[k - 1], L[Len(L) - k + 1])
    <3>1. k \in 1 .. Len(L) /\ k - 1 \in 0 .. Len(L)
      BY <1>0, <2>2
    <3>2. g[k] = [s \in Sectors |-> val(s, k)] /\ g[k - 1] = [s \in Sectors |-> val(s, k - 1)]
      BY <3>1
    <3> DEFINE i == L[Len(L) - k + 1]
    <3>3. WorkedOff(m, g[k - 1], L[Len(L) - k + 1]) = [s \in Sectors |-> IF s = node[i].addr
                                 THEN Worked(m, i, g[k - 1][s]) ELSE g[k - 1][s]]
      <4> HIDE DEF g
      <4>q. QED BY <3>2 DEF WorkedOff
    <3>4. \A s \in Sectors : (IF s = node[i].addr THEN Worked(m, i, g[k - 1][s]) ELSE g[k - 1][s]) = val(s, k)
      <4> HIDE DEF g
      <4>q. QED BY <1>2, <3>1, <3>2
    <3> HIDE DEF g, i
    <3>q. QED BY <3>2, <3>3, <3>4
  <2>3. g = [k \in 0 .. Len(L) |-> g[k]]
    OBVIOUS
  <2> HIDE DEF g
  <2>q. QED BY <2>1, <2>2, <2>3
<1>7. Loop(loop)
  <2> HIDE DEF g
  <2>q. QED BY <1>6
<1> HIDE DEF loop
<1>8. loop[0] = g[0]
  <2> HIDE DEF g
  <2>1. 0 \in 0 .. Len(L)
    BY <1>0
  <2>2. loop[0] = flash
    BY <1>7, <2>1
  <2>3. g[0] = flash
    BY <1>6, <2>1
  <2>q. QED BY <2>2, <2>3
<1>9. ASSUME NEW k \in 0 .. Len(L) - 1, loop[k] = g[k] PROVE loop[k + 1] = g[k + 1]
  <2> HIDE DEF g
  <2>1. k + 1 \in 0 .. Len(L) /\ k + 1 # 0 /\ (k + 1) - 1 = k
    BY <1>0
  <2>2. /\ loop[k + 1] = WorkedOff(m, loop[k], L[Len(L) - (k + 1) + 1])
        /\ g[k + 1] = WorkedOff(m, g[k], L[Len(L) - (k + 1) + 1])
    BY <1>6, <1>7, <2>1
  <2>q. QED BY <1>9, <2>2
<1>10. loop[Len(L)] = g[Len(L)]
  <2> HIDE DEF g, Loop
  <2>1. Len(L) \in Nat
    BY <1>0
  <2>2. \A k \in 0 .. Len(L) : loop[k] = g[k]
    BY <1>8, <1>9, <2>1, SameUpTo
  <2>q. QED BY <2>1, <2>2
<1>11. g[Len(L)] = [s \in Sectors |-> val(s, Len(L))] /\ Len(L) \in 0 .. Len(L)
  BY <1>0
<1>q. QED BY <1>1, <1>4, <1>5, <1>10, <1>11
-----------------------------------------------------------------------------
(* Initial states, and steps that leave the queue alone.                   *)

\* Nothing is queued and the flash is as wanted when the modules register.
LEMMA InitHolds ==
    ASSUME Init
    PROVE  IInv
<1> DEFINE q == [m \in Mods |-> <<>>]
<1>0. /\ q \in [Mods -> Seq(Slots)] /\ \A m \in Mods : q[m] = <<>> /\ Len(q[m]) = 0
      /\ NPages \in Nat \ {0} /\ NMods \in Nat \ {0} /\ MaxOps \in Nat
  BY SizeAssumption
<1> HIDE DEF q
<1>1. /\ \A i \in Slots : node[i] = FreeNode /\ ~node[i].used /\ node[i].lock = FALSE
      /\ \A m \in Mods : head[m] = Null /\ cur[m] = Null /\ state[m] = "IDLE" /\ job[m] = Null
      /\ \A b \in Buffs : buff[b] = Null
      /\ allowed_cb = FALSE /\ wanted = flash
  BY DEF Init, FreeNode
<1>2. TypeOK
  <2>1. FreeNode \in NodeSet
    BY <1>0 DEF FreeNode, NodeSet
  <2>2. flash \in [Sectors -> [Pages -> Content]]
    <3>1. PICK x \in Values : flash = [s \in Sectors |-> Blank(x)]
      BY DEF Init
    <3>2. Blank(x) \in [Pages -> Content]
      BY <3>1, BlankIs DEF Content
    <3>q. QED BY <3>1, <3>2
  <2>3. node \in [Slots -> NodeSet] /\ buff \in [Buffs -> [Pages -> Content] \cup {Null}]
    BY <2>1 DEF Init
  <2>4. /\ head \in [Mods -> Slots \cup {Null}] /\ cur \in [Mods -> Slots \cup {Null}]
        /\ state \in [Mods -> {"IDLE", "WRITTING_SUSPEND", "ERASE_SUSPEND"}]
        /\ next_page \in [Mods -> 0 .. NPages]
        /\ job \in [Mods -> [req : Requests, phase : {"flush", "retry"}] \cup {Null}]
    BY <1>0 DEF Init
  <2>5. cur_mod \in Mods \cup {Null} /\ cur_mod_id \in 0 .. NMods /\ ops \in 0 .. MaxOps
    BY <1>0 DEF Init
  <2>q. QED BY <1>1, <2>2, <2>3, <2>4, <2>5 DEF TypeOK
<1>3. Lists(q)
  <2>1. \A m \in Mods : Links(node, head[m], q[m])
    BY <1>0, <1>1 DEF Links
  <2>q. QED BY <1>0, <1>1, <2>1 DEF Lists
<1>4. \A i \in Slots : ~EraseNode(i) /\ ~WriteNode(i)
  BY <1>1 DEF EraseNode, WriteNode
<1>5. Pools
  BY <1>1, <1>4 DEF Pools
<1>6. Current(q)
  BY <1>1 DEF Current
<1>7. Contents
  BY <1>1, <1>4 DEF Contents, Base, HasErase, HasWrite
<1>8. Waiting
  BY <1>1 DEF Waiting
<1>q. QED BY <1>0, <1>1, <1>2, <1>3, <1>5, <1>6, <1>7, <1>8 DEF Inv, IInv

\* A step that leaves the nodes, the buffer and the flash alone.
LEMMA Unmoved ==
    ASSUME NEW q \in [Mods -> Seq(Slots)], Inv(q),
           UNCHANGED <<lists, progress, flash, wanted>>
    PROVE  /\ Lists(q)' /\ Pools' /\ Contents'
           /\ cur_mod' = cur_mod => Current(q)'
           /\ \A s : (HasErase(s)' <=> HasErase(s)) /\ (HasWrite(s)' <=> HasWrite(s))
<1>0. /\ node' = node /\ buff' = buff /\ head' = head /\ cur' = cur /\ state' = state
      /\ next_page' = next_page /\ flash' = flash /\ wanted' = wanted
  BY DEF lists, progress
<1>1. Lists(q)'
  BY <1>0, Parts, ListsStay
<1>2. \A i : (EraseNode(i)' <=> EraseNode(i)) /\ (WriteNode(i)' <=> WriteNode(i))
  BY <1>0 DEF EraseNode, WriteNode
<1>3. \A s : (HasErase(s)' <=> HasErase(s)) /\ (HasWrite(s)' <=> HasWrite(s))
  BY <1>0, <1>2 DEF HasErase, HasWrite
<1>4. \A s : Base(s)' = Base(s)
  BY <1>0, <1>3 DEF Base
<1>5. \A i : Start(i)' = Start(i)
  BY <1>0 DEF Start, StartPage
<1>6. Pools'
  BY <1>0, <1>2, Parts DEF Pools
<1>7. Contents'
  BY <1>0, <1>2, <1>3, <1>4, <1>5, Parts DEF Contents
<1>8. cur_mod' = cur_mod => Current(q)'
  BY <1>0, <1>2, Parts DEF Current
<1>q. QED BY <1>1, <1>3, <1>6, <1>7, <1>8

\* A waiting request stays proper while others do the queueing.
LEMMA WaitingStays ==
    ASSUME Waiting, job \in [Mods -> [req : Requests, phase : {"flush", "retry"}] \cup {Null}],
           \A k \in Mods : job'[k] # Null =>
              /\ job[k] # Null /\ job'[k].req = job[k].req
              /\ \A s \in Sectors : s[1] = k =>
                    /\ wanted'[s] = wanted[s]
                    /\ HasErase(s)' => HasErase(s)
                    /\ HasWrite(s)' => HasWrite(s)
    PROVE  Waiting'
<1>1. ASSUME NEW k \in Mods, job'[k] # Null, NEW r, r = job'[k].req
      PROVE  /\ r.addr[1] = k
             /\ IF r.type = "write" THEN OnErasedPages(r)' ELSE ~HasErase(r.addr)' /\ ~HasWrite(r.addr)'
  <2>1. job[k] # Null /\ job[k].req = r /\ r \in Requests
    BY <1>1
  <2>2. r.addr \in Sectors
    BY <2>1, RequestIs
  <2>3. r.addr[1] = k /\ IF r.type = "write" THEN OnErasedPages(r) ELSE ~HasErase(r.addr) /\ ~HasWrite(r.addr)
    BY <2>1 DEF Waiting
  <2>4. /\ wanted'[r.addr] = wanted[r.addr]
        /\ HasErase(r.addr)' => HasErase(r.addr)
        /\ HasWrite(r.addr)' => HasWrite(r.addr)
    BY <1>1, <2>2, <2>3
  <2>q. QED BY <2>3, <2>4 DEF OnErasedPages
<1>q. QED BY <1>1 DEF Waiting, OnErasedPages, HasErase, HasWrite
-----------------------------------------------------------------------------
(* Asynchronous requests.                                                  *)

\* A new, unlocked node in front of a list leaves the work on others alone.
LEMMA Queued ==
    ASSUME NEW q \in [Mods -> Seq(Slots)], Inv(q),
           NEW m \in Mods, NEW i \in Slots, ~node[i].used, NEW n \in NodeSet,
           n.used, n.addr \in Sectors, n.addr[1] = m, n.next = head[m], n.lock = FALSE,
           node' = [node EXCEPT ![i] = n], head' = [head EXCEPT ![m] = i],
           n.type = "erase" => \A j \in Slots : ~(WriteNode(j) /\ node[j].addr = n.addr),
           UNCHANGED <<progress, cur_mod>>
    PROVE  /\ \E r \in [Mods -> Seq(Slots)] : Lists(r)' /\ Current(r)'
           /\ node' \in [Slots -> NodeSet] /\ head' \in [Mods -> Slots \cup {Null}]
           /\ node'[i] = n /\ \A j \in Slots : j # i => node'[j] = node[j]
           /\ Start(i)' = n.lo /\ \A j \in Slots : j # i => Start(j)' = Start(j)
<1>0. /\ TypeOK /\ Lists(q) /\ Current(q) /\ node \in [Slots -> NodeSet]
      /\ head \in [Mods -> Slots \cup {Null}] /\ cur \in [Mods -> Slots \cup {Null}]
      /\ \A k \in Mods : q[k] \in Seq(Slots) /\ Len(q[k]) \in Nat
      /\ \A k \in Mods : \A a \in 1 .. Len(q[k]) : q[k][a] \in Slots
      /\ Null \notin Slots
      /\ cur' = cur /\ state' = state /\ next_page' = next_page /\ cur_mod' = cur_mod
  BY Parts DEF progress
<1>1. PICK r : r = [q EXCEPT ![m] = <<i>> \o q[m]]
  OBVIOUS
<1>2. r \in [Mods -> Seq(Slots)]
  <2>1. <<i>> \o q[m] \in Seq(Slots)
    BY <1>0, ConcatProperties
  <2>q. QED BY <1>1, <2>1
<1>3. Lists(r)'
  BY <1>0, <1>1, <1>2, Pushed
<1>4. node'[i] = n /\ \A j \in Slots : j # i => node'[j] = node[j]
  BY <1>0
<1>5. ASSUME NEW k \in Mods, cur[k] # Null
      PROVE  /\ cur_mod' = k /\ r[k] # <<>> /\ cur[k] = r[k][Len(r[k])]
             /\ cur[k] \in Slots /\ cur[k] # i
  <2>1. cur_mod = k /\ q[k] # <<>> /\ cur[k] = q[k][Len(q[k])]
    BY <1>0, <1>5 DEF Current
  <2>2. Len(q[k]) \in 1 .. Len(q[k])
    BY <1>0, <2>1, EmptySeq
  <2>3. cur[k] \in Slots /\ node[cur[k]].used
    BY <1>0, <2>1, <2>2 DEF Lists
  <2>4. r[k] # <<>> /\ r[k][Len(r[k])] = q[k][Len(q[k])]
    <3>1. CASE k = m
      <4>1. r[k] = <<i>> \o q[k]
        BY <1>1, <3>1
      <4>2. <<i>> \in Seq(Slots) /\ Len(<<i>>) = 1 /\ q[k] \in Seq(Slots)
        BY <1>0
      <4>3. /\ Len(r[k]) = 1 + Len(q[k]) /\ r[k] \in Seq(Slots)
            /\ \A j \in 1 .. 1 + Len(q[k]) : r[k][j] = IF j <= 1 THEN <<i>>[j] ELSE q[k][j - 1]
        BY <4>1, <4>2, ConcatProperties
      <4>4. (1 + Len(q[k])) - 1 = Len(q[k]) /\ 1 + Len(q[k]) \in 1 .. 1 + Len(q[k]) /\ ~(1 + Len(q[k]) <= 1)
        BY <1>0, <2>2
      <4>5. r[k][1 + Len(q[k])] = q[k][Len(q[k])]
        BY <4>3, <4>4
      <4>6. r[k] # <<>>
        BY <1>0, <4>3, EmptySeq
      <4>q. QED BY <4>3, <4>5, <4>6
    <3>2. CASE k # m
      BY <1>1, <2>1, <3>2
    <3>q. QED BY <3>1, <3>2
  <2>q. QED BY <1>0, <2>1, <2>3, <2>4
<1>6. Current(r)'
  <2>1. ASSUME NEW k \in Mods, cur'[k] # Null
        PROVE  /\ cur_mod' = k /\ r[k] # <<>> /\ cur'[k] = r[k][Len(r[k])]
               /\ node'[cur'[k]].lock = TRUE
               /\ (node'[cur'[k]].used /\ node'[cur'[k]].type = "write") =>
                     next_page'[k] \in node'[cur'[k]].lo .. node'[cur'[k]].hi - 1
    <3>1. cur[k] # Null /\ node'[cur[k]] = node[cur[k]]
      BY <1>0, <1>4, <1>5, <2>1
    <3>2. /\ node[cur[k]].lock = TRUE
          /\ WriteNode(cur[k]) => next_page[k] \in node[cur[k]].lo .. node[cur[k]].hi - 1
      BY <1>0, <3>1 DEF Current
    <3>q. QED BY <1>0, <1>5, <3>1, <3>2 DEF WriteNode
  <2>2. \A j \in Slots : node'[j].lock = TRUE => cur'[node'[j].addr[1]] = j
    BY <1>0, <1>4 DEF Current
  <2>3. \A k \in Mods : cur'[k] = Null <=> state'[k] = "IDLE"
    BY <1>0 DEF Current
  <2>q. QED BY <2>1, <2>2, <2>3 DEF Current, WriteNode
<1>7. Start(i)' = n.lo
  <2>1. node'[i].addr[1] = m /\ cur'[m] # i
    BY <1>0, <1>4, <1>5
  <2>q. QED BY <1>4, <2>1 DEF Start, StartPage
<1>8. \A j \in Slots : j # i => Start(j)' = Start(j)
  BY <1>0, <1>4 DEF Start, StartPage
<1>q. QED BY <1>0, <1>2, <1>3, <1>4, <1>6, <1>7, <1>8

\* The other modules, when module m has made a request.
OthersWait(m) ==
    /\ job' \in [Mods -> [req : Requests, phase : {"flush", "retry"}] \cup {Null}]
    /\ job'[m] = Null /\ \A k \in Mods : k # m => job'[k] = job[k]
    /\ ops' \in 0 .. MaxOps
    /\ UNCHANGED <<progress, turn, allowed_cb, flash>>

\* Setting a link to what it is changes nothing.
LEMMA SameLink ==
    ASSUME NEW n \in NodeSet
    PROVE  [n EXCEPT !.next = n.next] = n
BY DEF NodeSet

\* Freeing nothing leaves the pools as they are.
LEMMA NothingFreed ==
    ASSUME TypeOK
    PROVE  /\ FreeNodes({}, [i \in Slots |-> node[i].next]) = node
           /\ FreeBuffers({}) = buff
<1>0. node \in [Slots -> NodeSet] /\ buff \in [Buffs -> [Pages -> Content] \cup {Null}]
  BY DEF TypeOK
<1>2. ASSUME NEW i \in Slots PROVE [node[i] EXCEPT !.next = [j \in Slots |-> node[j].next][i]] = node[i]
  <2>1. [j \in Slots |-> node[j].next][i] = node[i].next /\ node[i] \in NodeSet
    BY <1>0
  <2>q. QED BY <2>1, SameLink
<1>3. FreeNodes({}, [i \in Slots |-> node[i].next]) = [i \in Slots |-> node[i]]
  BY <1>2 DEF FreeNodes
<1>q. QED BY <1>0, <1>3 DEF FreeBuffers

\* The free node with the smallest number.
LEMMA FreeSlotIs ==
    ASSUME FreeSlots # {}
    PROVE  Min(FreeSlots) \in Slots /\ ~node[Min(FreeSlots)].used
<1>1. FreeSlots \in SUBSET Nat
  BY SizeAssumption DEF FreeSlots, Slots
<1>2. Min(FreeSlots) \in FreeSlots
  BY <1>1, MinIs
<1>q. QED BY <1>2 DEF FreeSlots

\* An erase is queued on a sector without nodes.
LEMMA EraseQueued ==
    ASSUME NEW q \in [Mods -> Seq(Slots)], Inv(q), NEW s \in Sectors,
           \A i \in Slots : ~(node[i].used /\ node[i].addr = s),
           EraseAdded(s), wanted' = [wanted EXCEPT ![s] = Blank(Erased)], OthersWait(s[1])
    PROVE  IInv'
<1> DEFINE m == s[1]
           n == [used |-> TRUE, type |-> "erase", addr |-> s, lo |-> 0, hi |-> NPages,
                 buff |-> Null, lock |-> FALSE, next |-> head[m]]
<1>a. PICK i : i = Min(FreeSlots)
  OBVIOUS
<1>0. /\ TypeOK /\ Lists(q) /\ Pools /\ Contents /\ Waiting /\ (allowed_cb => CpUses)
      /\ node \in [Slots -> NodeSet] /\ head \in [Mods -> Slots \cup {Null}]
      /\ wanted \in [Sectors -> [Pages -> Content]]
      /\ m \in Mods /\ NPages \in Nat
  BY Parts, SectorAssumption
<1>1. /\ Scan(s).head = head[m] /\ Scan(s).next = [j \in Slots |-> node[j].next]
      /\ Scan(s).freed = {} /\ Scan(s).merged = FALSE
  BY ScanIs
<1>2. /\ FreeSlots # {} /\ buff' = buff /\ node' = [node EXCEPT ![i] = n]
      /\ head' = [head EXCEPT ![m] = i]
  <2>1. {j \in Slots : j \in Scan(s).freed \/ ~node[j].used} = FreeSlots
    BY <1>1 DEF FreeSlots
  <2>2. FreeNodes(Scan(s).freed, Scan(s).next) = node /\ FreeBuffers(Scan(s).freed) = buff
    BY <1>0, <1>1, NothingFreed
  <2>q. QED BY <1>a, <1>1, <2>1, <2>2 DEF EraseAdded
<1>3. i \in Slots /\ ~node[i].used
  BY <1>a, <1>2, FreeSlotIs
<1>4. /\ n \in NodeSet /\ n.used /\ n.addr = s /\ n.next = head[m] /\ n.lock = FALSE
      /\ n.type = "erase" /\ n.buff = Null
  <2>1. PICK h \in Slots \cup {Null} : h = head[m]
    BY <1>0
  <2>2. n = [used |-> TRUE, type |-> "erase", addr |-> s, lo |-> 0, hi |-> NPages,
             buff |-> Null, lock |-> FALSE, next |-> h]
    BY <2>1
  <2> HIDE DEF n
  <2>3. n \in NodeSet
    BY <1>0, <2>2 DEF NodeSet
  <2>q. QED BY <2>1, <2>2, <2>3
<1>5. \A j \in Slots : ~(WriteNode(j) /\ node[j].addr = s)
  BY DEF WriteNode
<1> HIDE DEF n
<1>6. UNCHANGED <<progress, turn, allowed_cb, flash>> /\ UNCHANGED <<progress, cur_mod>> /\ flash' = flash
  BY DEF OthersWait, turn
<1>7. /\ \E r \in [Mods -> Seq(Slots)] : Lists(r)' /\ Current(r)'
      /\ node' \in [Slots -> NodeSet] /\ head' \in [Mods -> Slots \cup {Null}]
      /\ node'[i] = n /\ \A j \in Slots : j # i => node'[j] = node[j]
      /\ \A j \in Slots : j # i => Start(j)' = Start(j)
  BY <1>0, <1>2, <1>3, <1>4, <1>5, <1>6, Queued
<1>8. /\ \A j \in Slots : WriteNode(j)' <=> WriteNode(j)
      /\ \A j \in Slots : EraseNode(j)' <=> (EraseNode(j) \/ j = i)
      /\ \A j \in Slots : WriteNode(j) => j # i
  BY <1>3, <1>4, <1>7 DEF WriteNode, EraseNode
<1>9. /\ \A t : HasWrite(t)' <=> HasWrite(t)
      /\ \A t : t # s => (HasErase(t)' <=> HasErase(t))
      /\ HasErase(s)' /\ ~HasWrite(s)
  <2>1. EraseNode(i)' /\ node'[i].addr = s
    BY <1>3, <1>4, <1>7, <1>8
  <2>2. HasErase(s)' /\ ~HasWrite(s)
    BY <1>3, <1>5, <2>1 DEF HasWrite, HasErase
  <2>3. \A t : HasWrite(t)' <=> HasWrite(t)
    BY <1>7, <1>8 DEF HasWrite
  <2>4. ~EraseNode(i)
    BY <1>3 DEF EraseNode
  <2>5. \A t : t # s => (HasErase(t)' <=> HasErase(t))
    BY <1>7, <1>8, <2>1, <2>4 DEF HasErase
  <2>q. QED BY <2>2, <2>3, <2>5
<1>10. TypeOK'
  <2>1. wanted' \in [Sectors -> [Pages -> Content]]
    BY <1>0, BlankIs DEF Content
  <2>q. QED BY <1>0, <1>2, <1>7, <2>1 DEF TypeOK, OthersWait, progress, turn
<1>11. Pools'
  <2>1. ASSUME NEW j \in Slots, NEW k \in Slots, EraseNode(j)', EraseNode(k)', node'[j].addr = node'[k].addr
        PROVE  j = k
    BY <1>0, <1>4, <1>7, <1>8, <2>1 DEF Pools, EraseNode
  <2>2. ASSUME NEW j \in Slots PROVE /\ ~node'[j].used => node'[j] = FreeNode
                                     /\ EraseNode(j)' => node'[j].buff = Null
    <3>1. CASE j = i
      BY <1>4, <1>7, <3>1
    <3>2. CASE j # i
      BY <1>0, <1>7, <1>8, <3>2 DEF Pools
    <3>q. QED BY <3>1, <3>2
  <2>3. ASSUME NEW j \in Slots, WriteNode(j)'
        PROVE  node'[j].buff \in Buffs /\ buff'[node'[j].buff] # Null /\ node'[j].lo < node'[j].hi
    BY <1>0, <1>2, <1>7, <1>8, <2>3 DEF Pools
  <2>4. \A j, k \in Slots : WriteNode(j)' /\ WriteNode(k)' => j = k
    BY <1>0, <1>8 DEF Pools
  <2>5. \A b \in Buffs : buff'[b] # Null => \E j \in Slots : WriteNode(j)'
    BY <1>0, <1>2, <1>8 DEF Pools
  <2>q. QED BY <2>1, <2>2, <2>3, <2>4, <2>5 DEF Pools
<1>12. Contents'
  <2>1. /\ \A t : t # s => Base(t)' = Base(t)
        /\ Base(s)' = Blank(Erased)
    BY <1>6, <1>9 DEF Base
  <2>2. wanted'[s] = Blank(Erased) /\ \A t \in Sectors : t # s => wanted'[t] = wanted[t]
    BY <1>0
  <2>3. \A t \in Sectors : ~HasWrite(t)' => Base(t)' = wanted'[t]
    BY <1>0, <1>9, <2>1, <2>2 DEF Contents
  <2>4. ASSUME NEW j \in Slots, WriteNode(j)'
        PROVE  /\ WriteNode(j) /\ node'[j] = node[j] /\ node[j].addr \in Sectors /\ node[j].addr # s
               /\ Start(j)' = Start(j) /\ wanted'[node[j].addr] = wanted[node[j].addr]
               /\ Base(node[j].addr)' = Base(node[j].addr)
    <3>1. WriteNode(j) /\ node'[j] = node[j] /\ Start(j)' = Start(j) /\ node[j].addr # s
      BY <1>5, <1>7, <1>8, <2>4
    <3>2. node[j].addr \in Sectors
      BY <1>0, <3>1 DEF Lists, WriteNode
    <3>3. PICK t : t = node[j].addr
      OBVIOUS
    <3>q. QED BY <2>1, <2>2, <3>1, <3>2, <3>3
  <2>q. QED BY <1>0, <1>2, <2>3, <2>4 DEF Contents
<1>13. Waiting'
  <2>1. \A t \in Sectors : t[1] # m => wanted'[t] = wanted[t]
    BY <1>0
  <2>2. \A k \in Mods : job'[k] # Null => k # m /\ job[k] = job'[k]
    BY DEF OthersWait
  <2>q. QED BY <1>0, <1>9, <2>1, <2>2, Parts, WaitingStays
<1>14. (allowed_cb => CpUses)'
  BY <1>0, <1>6
<1>q. QED BY <1>7, <1>10, <1>11, <1>12, <1>13, <1>14 DEF IInv, Inv

\* What _w_opera_add finds on the list.
LEMMA TargetIs ==
    ASSUME NEW q \in [Mods -> Seq(Slots)], Inv(q), NEW s \in Sectors
    PROVE  /\ Target(s) = Null => ~HasErase(s)
           /\ Target(s) # Null =>
                 /\ Target(s) \in Slots /\ node[Target(s)].used /\ node[Target(s)].addr = s
                 /\ node[Target(s)].type = "erase" \/ ~node[Target(s)].lock
<1> DEFINE S == {i \in NodesOf(s) : node[i].type = "erase" \/ ~node[i].lock}
           m == s[1]
<1>0. /\ TypeOK /\ Lists(q) /\ m \in Mods /\ Null \notin Slots
      /\ \A k \in 1 .. Len(q[m]) : q[m][k] \in Slots /\ node[q[m][k]].used
  BY Parts, SectorAssumption DEF Lists
<1>1. Target(s) = Newest(m, S)
  BY DEF Target
<1>2. CASE Newest(m, S) = Null /\ \A k \in 1 .. Len(q[m]) : q[m][k] \notin S
  <2>1. ASSUME NEW e \in Slots, EraseNode(e), node[e].addr = s PROVE FALSE
    <3>1. PICK k \in 1 .. Len(q[m]) : q[m][k] = e
      BY <1>0, <2>1, OnList DEF EraseNode
    <3>q. QED BY <1>2, <2>1, <3>1 DEF EraseNode, NodesOf
  <2>q. QED BY <1>1, <1>2, <2>1 DEF HasErase
<1>3. ASSUME NEW k \in 1 .. Len(q[m]), Newest(m, S) = q[m][k], q[m][k] \in S
      PROVE  /\ Target(s) \in Slots /\ node[Target(s)].used /\ node[Target(s)].addr = s
             /\ node[Target(s)].type = "erase" \/ ~node[Target(s)].lock
  BY <1>0, <1>1, <1>3 DEF NodesOf
<1> HIDE DEF S
<1>q. QED BY <1>0, <1>2, <1>3, NewestIs

\* A write is merged into the queued write of its sector.
LEMMA WriteMerging ==
    ASSUME NEW q \in [Mods -> Seq(Slots)], Inv(q), NEW r \in Requests, r.type = "write",
           OnErasedPages(r), WriteMerged(r), Granted(r), OthersWait(r.addr[1])
    PROVE  IInv'
<1> DEFINE s == r.addr
           m == s[1]
<1>0. /\ TypeOK /\ Lists(q) /\ Pools /\ Contents /\ Waiting /\ Current(q) /\ (allowed_cb => CpUses)
      /\ node \in [Slots -> NodeSet] /\ buff \in [Buffs -> [Pages -> Content] \cup {Null}]
      /\ wanted \in [Sectors -> [Pages -> Content]]
      /\ s \in Sectors /\ m \in Mods /\ NPages \in Nat
      /\ r.lo \in 0 .. NPages /\ r.hi \in 0 .. NPages /\ r.lo < r.hi
  BY Parts, RequestIs
<1>1. PICK w : w = Target(s)
  OBVIOUS
<1>2. w \in Slots /\ WriteNode(w) /\ node[w].addr = s /\ ~node[w].lock
  BY <1>0, <1>1, TargetIs DEF WriteMerged, WriteMerges, WriteNode
<1>3. PICK b : b = node[w].buff
  OBVIOUS
<1>4. PICK lo \in 0 .. NPages : lo = IF r.lo < node[w].lo THEN r.lo ELSE node[w].lo
  BY <1>0, <1>2, Parts
<1>5. PICK hi \in 0 .. NPages : hi = IF r.hi > node[w].hi THEN r.hi ELSE node[w].hi
  BY <1>0, <1>2, Parts
<1>6. PICK n : n = [node[w] EXCEPT !.lo = lo, !.hi = hi]
  OBVIOUS
<1>7. /\ n \in NodeSet /\ n.used = node[w].used /\ n.type = node[w].type /\ n.addr = node[w].addr
      /\ n.lo = lo /\ n.hi = hi /\ n.buff = b /\ n.lock = node[w].lock /\ n.next = node[w].next
  <2>1. ASSUME NEW o \in NodeSet, n = [o EXCEPT !.lo = lo, !.hi = hi]
        PROVE  /\ n \in NodeSet /\ n.used = o.used /\ n.type = o.type /\ n.addr = o.addr
               /\ n.lo = lo /\ n.hi = hi /\ n.buff = o.buff /\ n.lock = o.lock /\ n.next = o.next
    BY <2>1 DEF NodeSet
  <2>2. node[w] \in NodeSet
    BY <1>0, <1>2
  <2>q. QED BY <1>3, <1>6, <2>1, <2>2
<1>8. node' = [node EXCEPT ![w] = n]
  <2>1. node' = [node EXCEPT ![w].lo = IF r.lo < @ THEN r.lo ELSE @,
                             ![w].hi = IF r.hi > @ THEN r.hi ELSE @]
    BY <1>1 DEF WriteMerged
  <2>q. QED BY <1>0, <1>2, <1>4, <1>5, <1>6, <2>1
<1>9. /\ node'[w] = n /\ \A j \in Slots : j # w => node'[j] = node[j]
      /\ node' \in [Slots -> NodeSet]
  BY <1>0, <1>2, <1>7, <1>8
<1>10. /\ head' = head
       /\ buff' = [buff EXCEPT ![b] = Overlay(buff[b], r.lo, r.hi, Blank(r.v))]
  BY <1>1, <1>3 DEF WriteMerged
<1>11. UNCHANGED <<progress, turn, allowed_cb, flash>>
  BY DEF OthersWait
<1>12. wanted' = [wanted EXCEPT ![s] = Applied(wanted[s], r)]
  BY DEF Granted
<1>13. /\ Applied(wanted[s], r) = Overlay(wanted[s], r.lo, r.hi, Blank(r.v))
       /\ Applied(wanted[s], r) \in [Pages -> Content]
       /\ \A p \in Pages : Applied(wanted[s], r)[p] = IF r.lo <= p /\ p < r.hi THEN r.v ELSE wanted[s][p]
  BY <1>0, AppliedIs DEF OnErasedPages
<1>14. b \in Buffs /\ buff[b] = wanted[s] /\ \A j \in Slots : WriteNode(j) => j = w
  BY <1>0, <1>2, <1>3 DEF Pools, Contents
<1>15. /\ buff'[b] = wanted'[s] /\ wanted'[s] = Applied(wanted[s], r)
       /\ \A t \in Sectors : t # s => wanted'[t] = wanted[t]
       /\ wanted' \in [Sectors -> [Pages -> Content]]
       /\ buff' \in [Buffs -> [Pages -> Content] \cup {Null}]
       /\ buff'[b] # Null
  BY <1>0, <1>10, <1>12, <1>13, <1>14, NullAssumption
<1>16. /\ \A j \in Slots : EraseNode(j)' <=> EraseNode(j)
       /\ \A j \in Slots : WriteNode(j)' <=> WriteNode(j)
       /\ \A j \in Slots : /\ node'[j].used = node[j].used /\ node'[j].type = node[j].type
                           /\ node'[j].addr = node[j].addr /\ node'[j].next = node[j].next
                           /\ node'[j].lock = node[j].lock /\ node'[j].buff = node[j].buff
  BY <1>3, <1>7, <1>9 DEF EraseNode, WriteNode
<1>17. \A t : (HasErase(t)' <=> HasErase(t)) /\ (HasWrite(t)' <=> HasWrite(t))
  BY <1>16 DEF HasErase, HasWrite
<1>18. \A t : Base(t)' = Base(t)
  BY <1>11, <1>17 DEF Base
<1>19. TypeOK'
  BY <1>0, <1>9, <1>10, <1>15 DEF TypeOK, OthersWait, progress, turn
<1>20. Lists(q)'
  BY <1>0, <1>10, <1>16, ListsStay
<1>21. cur[m] # w
  <2>1. w # Null
    BY <1>2, Parts
  <2>2. cur[m] # Null => node[cur[m]].lock = TRUE
    BY <1>0 DEF Current
  <2>q. QED BY <1>2, <2>1, <2>2
<1>22. Pools'
  <2>1. /\ \A j \in Slots : ~node'[j].used => node'[j] = FreeNode
        /\ \A j \in Slots : EraseNode(j)' => node'[j].buff = Null
    <3>1. node[w].used
      BY <1>2 DEF WriteNode
    <3>q. QED BY <1>0, <1>9, <1>16, <3>1 DEF Pools
  <2>2. ASSUME NEW j \in Slots, WriteNode(j)'
        PROVE  node'[j].buff \in Buffs /\ buff'[node'[j].buff] # Null /\ node'[j].lo < node'[j].hi
    <3>1. j = w /\ node'[j] = n
      BY <1>9, <1>14, <1>16, <2>2
    <3>2. node[w].lo < node[w].hi /\ node[w].lo \in Nat /\ node[w].hi \in Nat
      BY <1>0, <1>2, Parts DEF Pools
    <3>3. lo < hi
      BY <1>0, <1>4, <1>5, <3>2
    <3>q. QED BY <1>7, <1>14, <1>15, <3>1, <3>3
  <2>3. \A c \in Buffs : buff'[c] # Null => \E j \in Slots : WriteNode(j)'
    BY <1>2, <1>16
  <2>4. /\ \A j, k \in Slots : WriteNode(j)' /\ WriteNode(k)' => j = k
        /\ \A j, k \in Slots : EraseNode(j)' /\ EraseNode(k)' /\ node'[j].addr = node'[k].addr => j = k
    BY <1>0, <1>16 DEF Pools
  <2>q. QED BY <2>1, <2>2, <2>3, <2>4 DEF Pools
<1>23. Current(q)'
  <2>1. cur' = cur /\ state' = state /\ next_page' = next_page /\ cur_mod' = cur_mod
    BY <1>11 DEF progress, turn
  <2>2. ASSUME NEW k \in Mods, cur[k] # Null
        PROVE  /\ cur_mod = k /\ q[k] # <<>> /\ cur[k] = q[k][Len(q[k])]
               /\ node'[cur[k]].lock = TRUE
               /\ (node'[cur[k]].used /\ node'[cur[k]].type = "write") =>
                     next_page[k] \in node'[cur[k]].lo .. node'[cur[k]].hi - 1
    <3>1. /\ cur_mod = k /\ q[k] # <<>> /\ cur[k] = q[k][Len(q[k])] /\ node[cur[k]].lock = TRUE
          /\ WriteNode(cur[k]) => next_page[k] \in node[cur[k]].lo .. node[cur[k]].hi - 1
      BY <1>0, <2>2 DEF Current
    <3>2. cur[k] \in Slots /\ cur[k] # w
      BY <1>0, <1>2, <2>2, <3>1, Parts
    <3>q. QED BY <1>9, <3>1, <3>2 DEF WriteNode
  <2>3. \A j \in Slots : node'[j].lock = TRUE => cur[node'[j].addr[1]] = j
    BY <1>0, <1>16 DEF Current
  <2>4. \A k \in Mods : cur[k] = Null <=> state[k] = "IDLE"
    BY <1>0 DEF Current
  <2>q. QED BY <2>1, <2>2, <2>3, <2>4 DEF Current, WriteNode
<1>24. Contents'
  <2>1. \A t \in Sectors : ~HasWrite(t)' => Base(t)' = wanted'[t]
    <3>1. HasWrite(s)
      BY <1>2 DEF HasWrite
    <3>2. ASSUME NEW t \in Sectors, ~HasWrite(t) PROVE Base(t)' = wanted'[t]
      <4>1. t # s /\ Base(t) = wanted[t]
        BY <1>0, <3>1, <3>2 DEF Contents
      <4>q. QED BY <1>15, <1>18, <4>1
    <3>q. QED BY <1>17, <3>2
  <2>2. Start(w) = node[w].lo /\ Start(w)' = lo
    BY <1>2, <1>7, <1>9, <1>11, <1>21 DEF Start, StartPage, progress
  <2>3. ASSUME NEW p \in Pages
        PROVE  IF lo <= p /\ p < hi THEN Base(s)[p] \in {Erased, wanted'[s][p]} ELSE Base(s)[p] = wanted'[s][p]
    <3>1. IF node[w].lo <= p /\ p < node[w].hi THEN Base(s)[p] \in {Erased, wanted[s][p]}
          ELSE Base(s)[p] = wanted[s][p]
      BY <1>0, <1>2, <2>2 DEF Contents
    <3>2. wanted'[s][p] = IF r.lo <= p /\ p < r.hi THEN r.v ELSE wanted[s][p]
      BY <1>13, <1>15
    <3>3. node[w].lo \in Nat /\ node[w].hi \in Nat /\ r.lo \in Nat /\ r.hi \in Nat /\ p \in Nat
      BY <1>0, <1>2, Parts DEF Pages
    <3>4. r.lo <= p /\ p < r.hi => wanted[s][p] \in {Erased, r.v}
      <4>1. r.lo <= p /\ p < r.hi => p \in r.lo .. r.hi - 1
        BY <3>3
      <4>q. QED BY <4>1 DEF OnErasedPages
    <3>q. QED BY <1>4, <1>5, <3>1, <3>2, <3>3, <3>4
  <2>4. ASSUME NEW j \in Slots, WriteNode(j)' PROVE j = w
    BY <1>14, <1>16, <2>4
  <2>5. node'[w] = n /\ n.addr = s /\ n.hi = hi /\ n.buff = b /\ Base(s)' = Base(s)
    BY <1>2, <1>7, <1>9, <1>18
  <2>q. QED BY <1>15, <2>1, <2>2, <2>3, <2>4, <2>5 DEF Contents, Base, HasErase
<1>25. Waiting'
  <2>1. \A t \in Sectors : t[1] # m => wanted'[t] = wanted[t]
    BY <1>15
  <2>2. \A k \in Mods : job'[k] # Null => k # m /\ job[k] = job'[k]
    BY DEF OthersWait
  <2>q. QED BY <1>0, <1>17, <2>1, <2>2, Parts, WaitingStays
<1>26. (allowed_cb => CpUses)'
  BY <1>0, <1>11
<1>q. QED BY <1>19, <1>20, <1>22, <1>23, <1>24, <1>25, <1>26 DEF IInv, Inv

\* A write takes the free buffer.
LEMMA WriteQueued ==
    ASSUME Product, NEW q \in [Mods -> Seq(Slots)], Inv(q), NEW r \in Requests, r.type = "write",
           OnErasedPages(r), WriteLinked(r), Granted(r), OthersWait(r.addr[1])
    PROVE  IInv'
<1> DEFINE s == r.addr
           m == s[1]
           base == IF Target(s) # Null THEN Blank(Erased) ELSE flash[s]
           n == [used |-> TRUE, type |-> "write", addr |-> s, lo |-> r.lo,
                 hi |-> r.hi, buff |-> 1, lock |-> FALSE, next |-> head[m]]
<1>0. /\ TypeOK /\ Lists(q) /\ Pools /\ Contents /\ Waiting /\ Current(q) /\ (allowed_cb => CpUses)
      /\ node \in [Slots -> NodeSet] /\ buff \in [Buffs -> [Pages -> Content] \cup {Null}]
      /\ head \in [Mods -> Slots \cup {Null}]
      /\ wanted \in [Sectors -> [Pages -> Content]]
      /\ s \in Sectors /\ m \in Mods /\ NPages \in Nat
      /\ r.lo \in 0 .. NPages /\ r.hi \in 0 .. NPages /\ r.lo < r.hi
  BY Parts, RequestIs
<1>1. PICK i : i = Min(FreeSlots)
  OBVIOUS
<1>2. i \in Slots /\ ~node[i].used
  BY <1>1, FreeSlotIs DEF WriteLinked
<1>3. Buffs = {1} /\ Min(FreeBuffs) = 1 /\ buff[1] = Null
  <2>1. Buffs = {1}
    BY DEF Product, Buffs
  <2>2. FreeBuffs = {1}
    BY <2>1 DEF WriteLinked, FreeBuffs
  <2>3. Min(FreeBuffs) \in FreeBuffs
    BY <2>2, MinIs
  <2>q. QED BY <2>1, <2>2, <2>3 DEF FreeBuffs
<1>4. \A j \in Slots : ~WriteNode(j)
  BY <1>0, <1>3 DEF Pools
<1>5. /\ buff' = [buff EXCEPT ![1] = Overlay(base, r.lo, r.hi, Blank(r.v))]
      /\ node' = [node EXCEPT ![i] = n] /\ head' = [head EXCEPT ![m] = i]
  BY <1>1, <1>3 DEF WriteLinked
<1>6. ~HasWrite(s) /\ base = Base(s) /\ Base(s) = wanted[s]
  <2>1. ~HasWrite(s)
    BY <1>4 DEF HasWrite
  <2>2. Base(s) = wanted[s]
    BY <1>0, <2>1 DEF Contents
  <2>3. Target(s) = Null => ~HasErase(s)
    BY <1>0, TargetIs
  <2>4. Target(s) # Null => HasErase(s)
    <3>1. ASSUME Target(s) # Null PROVE HasErase(s)
      <4>1. Target(s) \in Slots /\ node[Target(s)].used /\ node[Target(s)].addr = s
        BY <1>0, <3>1, TargetIs
      <4>2. ~(node[Target(s)].type = "write")
        BY <3>1 DEF WriteLinked, WriteMerges
      <4>3. node[Target(s)].type \in {"erase", "write"}
        BY <4>1, Parts
      <4>4. EraseNode(Target(s))
        BY <4>1, <4>2, <4>3 DEF EraseNode
      <4>q. QED BY <4>1, <4>4 DEF HasErase
    <3>q. QED BY <3>1
  <2>q. QED BY <2>1, <2>2, <2>3, <2>4 DEF Base
<1>7. /\ n \in NodeSet /\ n.used /\ n.addr = s /\ n.next = head[m] /\ n.lock = FALSE
      /\ n.type = "write" /\ n.buff = 1 /\ n.lo = r.lo /\ n.hi = r.hi
  <2>1. PICK h \in Slots \cup {Null} : h = head[m]
    BY <1>0
  <2>2. n = [used |-> TRUE, type |-> "write", addr |-> s, lo |-> r.lo,
             hi |-> r.hi, buff |-> 1, lock |-> FALSE, next |-> h]
    BY <2>1
  <2>3. n \in NodeSet
    <3> HIDE DEF n
    <3>q. QED BY <1>0, <1>3, <2>2 DEF NodeSet
  <2>q. QED BY <2>3
<1> HIDE DEF n, base
<1>8. UNCHANGED <<progress, turn, allowed_cb, flash>> /\ UNCHANGED <<progress, cur_mod>> /\ flash' = flash
  BY DEF OthersWait, turn
<1>9. /\ \E x \in [Mods -> Seq(Slots)] : Lists(x)' /\ Current(x)'
      /\ node' \in [Slots -> NodeSet] /\ head' \in [Mods -> Slots \cup {Null}]
      /\ node'[i] = n /\ \A j \in Slots : j # i => node'[j] = node[j]
      /\ Start(i)' = r.lo
  <2>1. n.addr \in Sectors /\ n.addr[1] = m /\ n.type # "erase" /\ n.lo = r.lo
    BY <1>0, <1>7
  <2>2. /\ \E x \in [Mods -> Seq(Slots)] : Lists(x)' /\ Current(x)'
        /\ node' \in [Slots -> NodeSet] /\ head' \in [Mods -> Slots \cup {Null}]
        /\ node'[i] = n /\ \A j \in Slots : j # i => node'[j] = node[j]
        /\ Start(i)' = n.lo
    <3>1. PICK x : x = n
      OBVIOUS
    <3>2. /\ x \in NodeSet /\ x.used /\ x.addr \in Sectors /\ x.addr[1] = m /\ x.next = head[m]
          /\ x.lock = FALSE /\ node' = [node EXCEPT ![i] = x]
      BY <1>5, <1>7, <2>1, <3>1
    <3>3. x.type = "erase" => \A j \in Slots : ~(WriteNode(j) /\ node[j].addr = x.addr)
      BY <2>1, <3>1
    <3>4. m \in Mods /\ head' = [head EXCEPT ![m] = i] /\ UNCHANGED <<progress, cur_mod>>
      BY <1>0, <1>5, <1>8
    <3> HIDE DEF m
    <3>5. /\ \E z \in [Mods -> Seq(Slots)] : Lists(z)' /\ Current(z)'
          /\ node' \in [Slots -> NodeSet] /\ head' \in [Mods -> Slots \cup {Null}]
          /\ node'[i] = x /\ \A j \in Slots : j # i => node'[j] = node[j]
          /\ Start(i)' = x.lo
      BY <1>2, <3>2, <3>3, <3>4, Queued
    <3>q. QED BY <3>1, <3>5
  <2>q. QED BY <2>1, <2>2
<1>10. /\ \A j \in Slots : WriteNode(j)' <=> j = i
       /\ \A j \in Slots : EraseNode(j)' <=> EraseNode(j)
       /\ ~EraseNode(i)
  BY <1>2, <1>4, <1>7, <1>9 DEF WriteNode, EraseNode
<1>11. /\ \A t : HasErase(t)' <=> HasErase(t)
       /\ \A t : HasWrite(t)' <=> t = s
       /\ \A t : ~HasWrite(t)
  <2>1. \A j \in Slots : EraseNode(j) => node'[j] = node[j]
    BY <1>9, <1>10
  <2>2. \A t : HasErase(t)' <=> HasErase(t)
    BY <1>10, <2>1 DEF HasErase
  <2>3. \A t : HasWrite(t)' <=> t = s
    BY <1>2, <1>7, <1>9, <1>10 DEF HasWrite
  <2>q. QED BY <1>4, <2>2, <2>3 DEF HasWrite
<1>12. \A t : Base(t)' = Base(t)
  BY <1>8, <1>11 DEF Base
<1>13. /\ Applied(wanted[s], r) = Overlay(wanted[s], r.lo, r.hi, Blank(r.v))
       /\ Applied(wanted[s], r) \in [Pages -> Content]
       /\ \A p \in Pages : Applied(wanted[s], r)[p] = IF r.lo <= p /\ p < r.hi THEN r.v ELSE wanted[s][p]
  BY <1>0, AppliedIs DEF OnErasedPages
<1>14. /\ wanted'[s] = Applied(wanted[s], r) /\ \A t \in Sectors : t # s => wanted'[t] = wanted[t]
       /\ wanted' \in [Sectors -> [Pages -> Content]]
  BY <1>0, <1>13 DEF Granted
<1>15. /\ buff'[1] = wanted'[s] /\ buff'[1] # Null
       /\ buff' \in [Buffs -> [Pages -> Content] \cup {Null}]
  BY <1>0, <1>3, <1>5, <1>6, <1>13, <1>14, NullAssumption
<1>16. TypeOK'
  BY <1>0, <1>9, <1>14, <1>15 DEF TypeOK, OthersWait, progress, turn
<1>17. Pools'
  <2>1. ASSUME NEW j \in Slots PROVE /\ ~node'[j].used => node'[j] = FreeNode
                                     /\ EraseNode(j)' => node'[j].buff = Null
    <3>1. CASE j = i
      BY <1>7, <1>9, <1>10, <3>1
    <3>2. CASE j # i
      BY <1>0, <1>9, <1>10, <3>2 DEF Pools
    <3>q. QED BY <3>1, <3>2
  <2>2. ASSUME NEW j \in Slots, WriteNode(j)'
        PROVE  node'[j].buff \in Buffs /\ buff'[node'[j].buff] # Null /\ node'[j].lo < node'[j].hi
    BY <1>0, <1>3, <1>7, <1>9, <1>10, <1>15, <2>2
  <2>3. \A b \in Buffs : buff'[b] # Null => \E j \in Slots : WriteNode(j)'
    BY <1>2, <1>10
  <2>4. \A j, k \in Slots : WriteNode(j)' /\ WriteNode(k)' => j = k
    BY <1>10
  <2>5. ASSUME NEW j \in Slots, NEW k \in Slots, EraseNode(j)', EraseNode(k)', node'[j].addr = node'[k].addr
        PROVE  j = k
    <3>1. EraseNode(j) /\ EraseNode(k) /\ node'[j] = node[j] /\ node'[k] = node[k]
      BY <1>9, <1>10, <2>5
    <3>q. QED BY <1>0, <2>5, <3>1 DEF Pools
  <2>q. QED BY <2>1, <2>2, <2>3, <2>4, <2>5 DEF Pools
<1>18. Contents'
  <2>1. ASSUME NEW t \in Sectors, ~HasWrite(t)' PROVE Base(t)' = wanted'[t]
    BY <1>0, <1>11, <1>12, <1>14, <2>1 DEF Contents
  <2>2. ASSUME NEW p \in Pages
        PROVE  IF r.lo <= p /\ p < r.hi THEN wanted[s][p] \in {Erased, wanted'[s][p]}
               ELSE wanted[s][p] = wanted'[s][p]
    <3>1. wanted'[s][p] = IF r.lo <= p /\ p < r.hi THEN r.v ELSE wanted[s][p]
      BY <1>13, <1>14
    <3>2. r.lo <= p /\ p < r.hi => p \in r.lo .. r.hi - 1
      BY <1>0 DEF Pages
    <3>q. QED BY <3>1, <3>2 DEF OnErasedPages
  <2>3. /\ node'[i] = n /\ n.addr = s /\ n.hi = r.hi /\ n.buff = 1 /\ Base(s)' = wanted[s]
        /\ Start(i)' = r.lo /\ \A j \in Slots : WriteNode(j)' => j = i
    BY <1>6, <1>7, <1>9, <1>10, <1>12
  <2>q. QED BY <1>15, <2>1, <2>2, <2>3 DEF Contents, Base, HasErase
<1>19. Waiting'
  <2>1. \A t \in Sectors : t[1] # m => wanted'[t] = wanted[t] /\ ~HasWrite(t)'
    BY <1>11, <1>14
  <2>2. \A k \in Mods : job'[k] # Null => k # m /\ job[k] = job'[k]
    BY DEF OthersWait
  <2>q. QED BY <1>0, <1>11, <2>1, <2>2, Parts, WaitingStays
<1>20. (allowed_cb => CpUses)'
  BY <1>0, <1>8
<1>q. QED BY <1>9, <1>16, <1>17, <1>18, <1>19, <1>20 DEF IInv, Inv

\* A request that is accepted.
LEMMA AcceptedKeeps ==
    ASSUME Product, NEW q \in [Mods -> Seq(Slots)], Inv(q), NEW r \in Requests, Accepted(r),
           OthersWait(r.addr[1]),
           IF r.type = "write" THEN OnErasedPages(r) ELSE ~HasErase(r.addr) /\ ~HasWrite(r.addr)
    PROVE  IInv'
<1>0. r.addr \in Sectors /\ r.type \in {"erase", "write"}
  BY RequestIs
<1>1. CASE r.type = "write"
  BY <1>1, WriteMerging, WriteQueued DEF Accepted
<1>2. CASE r.type = "erase"
  <2>1. EraseAdded(r.addr) /\ wanted' = [wanted EXCEPT ![r.addr] = Blank(Erased)]
    BY <1>2 DEF Accepted, Granted, Applied
  <2>2. \A i \in Slots : ~(node[i].used /\ node[i].addr = r.addr)
    <3>1. \A i \in Slots : node[i].type \in {"erase", "write"}
      BY Parts
    <3>q. QED BY <1>2, <3>1 DEF HasErase, HasWrite, EraseNode, WriteNode
  <2>q. QED BY <1>0, <2>1, <2>2, EraseQueued
<1>q. QED BY <1>0, <1>1, <1>2

\* app_flash_page_erase and app_flash_page_program: the first attempt.
LEMMA RequestKeeps ==
    ASSUME Product, NEW q \in [Mods -> Seq(Slots)], Inv(q), NEW r \in Requests, Request(r)
    PROVE  IInv'
<1> DEFINE m == r.addr[1]
<1>0. /\ TypeOK /\ Contents /\ Waiting /\ (allowed_cb => CpUses) /\ Current(q)
      /\ job \in [Mods -> [req : Requests, phase : {"flush", "retry"}] \cup {Null}]
      /\ wanted \in [Sectors -> [Pages -> Content]]
      /\ r.addr \in Sectors /\ m \in Mods /\ r.type \in {"erase", "write"}
      /\ ops \in 0 .. MaxOps /\ ops < MaxOps /\ MaxOps \in Nat /\ ops' = ops + 1 /\ job[m] = Null
      /\ UNCHANGED <<progress, turn, allowed_cb, flash>>
  <2>1. ops \in 0 .. MaxOps
    BY Parts DEF TypeOK
  <2>q. QED BY <2>1, Parts, RequestIs, SizeAssumption DEF Request
<1>1. ops' \in 0 .. MaxOps
  BY <1>0
<1>2. IF r.type = "write" THEN OnErasedPages(r) ELSE ~HasErase(r.addr) /\ ~HasWrite(r.addr)
  <2>1. CASE r.type = "write"
    BY <2>1 DEF Request, Proper
  <2>2. CASE r.type = "erase"
    <3>1. Newest(r.addr[1], NodesOf(r.addr)) = Null
      BY <2>2 DEF Request, Proper, Product
    <3>2. \A i \in Slots : ~(node[i].used /\ node[i].addr = r.addr)
      BY <1>0, <3>1, NoNodes
    <3>q. QED BY <2>2, <3>2 DEF HasErase, HasWrite, EraseNode, WriteNode
  <2>q. QED BY <1>0, <2>1, <2>2
<1>3. CASE AlreadyErased(r) /\ Granted(r) /\ UNCHANGED <<lists, job>>
  <2>1. r.type = "erase" /\ flash[r.addr] = Blank(Erased)
    BY <1>3 DEF AlreadyErased
  <2>2. wanted[r.addr] = Blank(Erased)
    BY <1>0, <1>2, <2>1 DEF Contents, Base
  <2>3. wanted' = wanted
    BY <1>0, <1>3, <2>1, <2>2 DEF Granted, Applied
  <2>4. UNCHANGED <<lists, progress, flash, wanted>> /\ cur_mod' = cur_mod
    BY <1>0, <1>3, <2>3 DEF turn
  <2>5. /\ Lists(q)' /\ Pools' /\ Contents' /\ Current(q)'
        /\ \A s : (HasErase(s)' <=> HasErase(s)) /\ (HasWrite(s)' <=> HasWrite(s))
    BY <2>4, Unmoved
  <2>6. TypeOK'
    BY <1>0, <1>1, <1>3, <2>4 DEF TypeOK, lists, progress, turn
  <2>7. Waiting'
    BY <1>0, <1>3, <2>3, <2>5, WaitingStays
  <2>q. QED BY <1>0, <2>5, <2>6, <2>7 DEF IInv, Inv
<1>4. CASE Accepted(r) /\ UNCHANGED job
  <2>1. OthersWait(m)
    BY <1>0, <1>1, <1>4 DEF OthersWait
  <2>q. QED BY <1>2, <1>4, <2>1, AcceptedKeeps
<1>5. CASE /\ job' = [job EXCEPT ![m] = [req |-> r, phase |-> "flush"]]
           /\ UNCHANGED <<lists, wanted>>
  <2>1. UNCHANGED <<lists, progress, flash, wanted>> /\ cur_mod' = cur_mod
    BY <1>0, <1>5 DEF turn
  <2>2. /\ Lists(q)' /\ Pools' /\ Contents' /\ Current(q)'
        /\ \A s : (HasErase(s)' <=> HasErase(s)) /\ (HasWrite(s)' <=> HasWrite(s))
    BY <2>1, Unmoved
  <2>3. /\ job'[m].req = r /\ \A k \in Mods : k # m => job'[k] = job[k]
        /\ job' \in [Mods -> [req : Requests, phase : {"flush", "retry"}] \cup {Null}]
    BY <1>0, <1>5
  <2>4. TypeOK'
    BY <1>0, <1>1, <2>1, <2>3 DEF TypeOK, lists, progress, turn
  <2>5. Waiting'
    <3>1. ASSUME NEW k \in Mods, job'[k] # Null, NEW x, x = job'[k].req
          PROVE  /\ x.addr[1] = k
                 /\ IF x.type = "write" THEN OnErasedPages(x)
                    ELSE ~HasErase(x.addr) /\ ~HasWrite(x.addr)
      BY <1>0, <1>2, <2>3, <3>1 DEF Waiting
    <3>2. ASSUME NEW k \in Mods, job'[k] # Null, NEW x, x = job'[k].req
          PROVE  /\ x.addr[1] = k
                 /\ IF x.type = "write" THEN OnErasedPages(x)'
                    ELSE ~HasErase(x.addr)' /\ ~HasWrite(x.addr)'
      <4>1. wanted' = wanted
        BY <2>1
      <4>q. QED BY <2>2, <3>1, <3>2, <4>1 DEF OnErasedPages
    <3>q. QED BY <3>2 DEF Waiting, OnErasedPages, HasErase, HasWrite
  <2>q. QED BY <1>0, <2>2, <2>4, <2>5 DEF IInv, Inv
<1>q. QED BY <1>3, <1>4, <1>5 DEF Request

\* The next attempt.
LEMMA RetryKeeps ==
    ASSUME Product, NEW q \in [Mods -> Seq(Slots)], Inv(q), NEW m \in Mods, Retry(m)
    PROVE  IInv'
<1> DEFINE r == job[m].req
<1>0. /\ TypeOK /\ Waiting /\ (allowed_cb => CpUses)
      /\ job \in [Mods -> [req : Requests, phase : {"flush", "retry"}] \cup {Null}]
      /\ job[m] # Null /\ r \in Requests /\ ops' = ops
      /\ UNCHANGED <<progress, turn, allowed_cb, flash>>
  <2>1. job[m] # Null /\ ops' = ops /\ UNCHANGED <<progress, turn, allowed_cb, flash>>
    BY DEF Retry
  <2>q. QED BY <2>1, Parts
<1>1. r.addr[1] = m /\ IF r.type = "write" THEN OnErasedPages(r) ELSE ~HasErase(r.addr) /\ ~HasWrite(r.addr)
  BY <1>0 DEF Waiting
<1>2. CASE Accepted(r) /\ job' = [job EXCEPT ![m] = Null]
  <2>1. OthersWait(m)
    BY <1>0, <1>2 DEF OthersWait, TypeOK
  <2>2. PICK x \in Requests : x = r
    BY <1>0
  <2>q. QED BY <1>1, <1>2, <2>1, <2>2, AcceptedKeeps
<1>3. CASE /\ job' = [job EXCEPT ![m].phase = "flush"]
           /\ UNCHANGED <<lists, wanted>>
  <2>1. UNCHANGED <<lists, progress, flash, wanted>> /\ cur_mod' = cur_mod
    BY <1>0, <1>3 DEF turn
  <2>2. /\ Lists(q)' /\ Pools' /\ Contents' /\ Current(q)'
        /\ \A s : (HasErase(s)' <=> HasErase(s)) /\ (HasWrite(s)' <=> HasWrite(s))
    BY <2>1, Unmoved
  <2>3. /\ job'[m].req = job[m].req /\ \A k \in Mods : k # m => job'[k] = job[k]
        /\ job' \in [Mods -> [req : Requests, phase : {"flush", "retry"}] \cup {Null}]
    BY <1>0, <1>3
  <2>4. TypeOK'
    BY <1>0, <2>1, <2>3 DEF TypeOK, lists, progress, turn
  <2>5. Waiting'
    BY <1>0, <2>1, <2>2, <2>3, WaitingStays
  <2>q. QED BY <1>0, <2>2, <2>4, <2>5 DEF IInv, Inv
<1>q. QED BY <1>2, <1>3 DEF Retry
-----------------------------------------------------------------------------
(* Work that is finished.                                                  *)

\* Nodes G have been worked off: a sector has become what is wanted of it, or
\* only its erase is done.
Settled(s, G) ==
    /\ \A i \in Slots : node[i].used /\ node[i].addr = s => i \in G
    /\ flash'[s] = wanted'[s]
StillQueued(s, G) ==
    /\ wanted'[s] = wanted[s]
    /\ \A i \in G : ~(WriteNode(i) /\ node[i].addr = s)
    /\ flash'[s] = IF \E i \in G : EraseNode(i) /\ node[i].addr = s THEN Blank(Erased) ELSE flash[s]

DoneWith(G) ==
    /\ \A i \in G : node[i].used
    /\ buff' = FreeBuffers(G)
    /\ \A k \in Mods :
          \/ /\ cur'[k] = cur[k] /\ state'[k] = state[k] /\ next_page'[k] = next_page[k]
             /\ cur[k] \notin G
          \/ cur'[k] = Null /\ state'[k] = "IDLE" /\ cur[k] \in G \cup {Null}
    /\ \A k \in Mods : cur'[k] # Null => cur_mod' = k
    /\ \A s \in Sectors : Settled(s, G) \/ StillQueued(s, G)

\* Freeing nodes whose operations are in the flash keeps queue, pools and
\* contents in agreement.
LEMMA WorkDone ==
    ASSUME Product, NEW q \in [Mods -> Seq(Slots)], Inv(q), NEW r \in [Mods -> Seq(Slots)],
           NEW G \in SUBSET Slots, CutTo(q, r, G), DoneWith(G)
    PROVE  /\ Lists(r)' /\ Pools' /\ Current(r)' /\ Contents'
           /\ node' \in [Slots -> NodeSet] /\ head' \in [Mods -> Slots \cup {Null}]
           /\ buff' \in [Buffs -> [Pages -> Content] \cup {Null}]
           /\ \A s : (HasErase(s)' => HasErase(s)) /\ (HasWrite(s)' => HasWrite(s))
<1>0. /\ TypeOK /\ Lists(q) /\ Pools /\ Contents /\ Current(q)
      /\ node \in [Slots -> NodeSet] /\ head \in [Mods -> Slots \cup {Null}]
      /\ buff \in [Buffs -> [Pages -> Content] \cup {Null}]
      /\ Null \notin Slots /\ NPages \in Nat
      /\ \A k \in Mods : q[k] \in Seq(Slots) /\ Len(q[k]) \in Nat
      /\ \A i \in Slots : node[i].type \in {"erase", "write"}
  BY Parts
<1>1. /\ Lists(r)'
      /\ \A i \in Slots \ G : /\ node'[i].used = node[i].used /\ node'[i].type = node[i].type
                              /\ node'[i].addr = node[i].addr /\ node'[i].lo = node[i].lo
                              /\ node'[i].hi = node[i].hi /\ node'[i].buff = node[i].buff
                              /\ node'[i].lock = node[i].lock
      /\ \A i \in G : node'[i] = FreeNode
  BY <1>0, Cut
<1>2. node' \in [Slots -> NodeSet] /\ head' \in [Mods -> Slots \cup {Null}]
  <2>1. FreeNode \in NodeSet
    BY <1>0 DEF FreeNode, NodeSet
  <2>2. ASSUME NEW n \in NodeSet PROVE [n EXCEPT !.next = IF @ \in G THEN Null ELSE @] \in NodeSet
    BY DEF NodeSet
  <2>q. QED BY <1>0, <2>1, <2>2 DEF CutTo
<1>3. FreeNode.used = FALSE /\ FreeNode.lock = FALSE
  BY DEF FreeNode
<1>4. \A j \in Slots : /\ WriteNode(j)' <=> (WriteNode(j) /\ j \notin G)
                       /\ EraseNode(j)' <=> (EraseNode(j) /\ j \notin G)
  BY <1>1, <1>3 DEF WriteNode, EraseNode
<1>5. \A s : (HasErase(s)' => HasErase(s)) /\ (HasWrite(s)' => HasWrite(s))
  BY <1>1, <1>4 DEF HasErase, HasWrite
<1>6. Buffs = {1} /\ Null \notin Buffs
  <2>1. 1 \in Slots
    BY SizeAssumption DEF Slots
  <2>q. QED BY <1>0, <2>1 DEF Product, Buffs
<1>7. \A b \in Buffs : buff'[b] = IF \E i \in G : node[i].buff = b THEN Null ELSE buff[b]
  BY DEF DoneWith, FreeBuffers
<1>8. ASSUME NEW j \in Slots, WriteNode(j)'
      PROVE  /\ WriteNode(j) /\ j \notin G /\ node[j].buff \in Buffs /\ node'[j].buff = node[j].buff
             /\ buff'[node[j].buff] = buff[node[j].buff] /\ buff[node[j].buff] # Null
             /\ node'[j].lo = node[j].lo /\ node'[j].hi = node[j].hi /\ node'[j].addr = node[j].addr
             /\ node[j].lo < node[j].hi
  <2>1. WriteNode(j) /\ j \notin G
    BY <1>4, <1>8
  <2>2. ASSUME NEW i \in G, node[i].buff = node[j].buff PROVE FALSE
    <3>1. node[i].used /\ i \in Slots /\ i # j
      BY <2>1 DEF DoneWith
    <3>2. ~WriteNode(i)
      BY <1>0, <2>1, <3>1 DEF Pools
    <3>3. EraseNode(i)
      BY <1>0, <3>1, <3>2 DEF WriteNode, EraseNode
    <3>q. QED BY <1>0, <1>6, <2>1, <2>2, <3>1, <3>3 DEF Pools
  <2>3. node[j].buff \in Buffs /\ buff[node[j].buff] # Null /\ node[j].lo < node[j].hi
    BY <1>0, <2>1 DEF Pools
  <2>q. QED BY <1>1, <1>7, <2>1, <2>2, <2>3
<1>9. Pools'
  <2>1. ASSUME NEW j \in Slots, ~node'[j].used PROVE node'[j] = FreeNode
    <3>1. CASE j \in G
      BY <1>1, <3>1
    <3>2. CASE j \notin G
      <4>1. node[j] = FreeNode
        BY <1>0, <1>1, <2>1, <3>2 DEF Pools
      <4>2. node'[j] = [node[j] EXCEPT !.next = IF node[j].next \in G THEN Null ELSE node[j].next]
        BY <3>2 DEF CutTo
      <4>3. Null \notin G /\ node[j].next = Null /\ node[j] \in NodeSet
        <5>1. FreeNode.next = Null
          BY DEF FreeNode
        <5>q. QED BY <1>0, <4>1, <5>1
      <4>4. [node[j] EXCEPT !.next = node[j].next] = node[j]
        BY <4>3, SameLink
      <4>q. QED BY <4>1, <4>2, <4>3, <4>4
    <3>q. QED BY <3>1, <3>2
  <2>2. \A j \in Slots : EraseNode(j)' => node'[j].buff = Null
    BY <1>0, <1>1, <1>4 DEF Pools
  <2>3. ASSUME NEW j \in Slots, WriteNode(j)'
        PROVE  node'[j].buff \in Buffs /\ buff'[node'[j].buff] # Null /\ node'[j].lo < node'[j].hi
    BY <1>8, <2>3
  <2>4. ASSUME NEW b \in Buffs, buff'[b] # Null PROVE \E j \in Slots : WriteNode(j)'
    <3>1. buff[b] # Null /\ ~\E i \in G : node[i].buff = b
      BY <1>7, <2>4
    <3>2. PICK j \in Slots : WriteNode(j)
      BY <1>0, <3>1 DEF Pools
    <3>3. node[j].buff = b
      BY <1>0, <1>6, <3>2 DEF Pools
    <3>q. QED BY <1>4, <3>1, <3>2, <3>3
  <2>5. \A j, k \in Slots : WriteNode(j)' /\ WriteNode(k)' => j = k
    BY <1>0, <1>4 DEF Pools
  <2>6. \A j, k \in Slots : EraseNode(j)' /\ EraseNode(k)' /\ node'[j].addr = node'[k].addr => j = k
    BY <1>0, <1>1, <1>4 DEF Pools
  <2>q. QED BY <2>1, <2>2, <2>3, <2>4, <2>5, <2>6 DEF Pools
<1>10. buff' \in [Buffs -> [Pages -> Content] \cup {Null}]
  BY <1>0 DEF DoneWith, FreeBuffers
<1>11. \A k \in Mods :
          \/ /\ cur'[k] = cur[k] /\ state'[k] = state[k] /\ next_page'[k] = next_page[k]
             /\ cur[k] \notin G
          \/ cur'[k] = Null /\ state'[k] = "IDLE" /\ cur[k] \in G \cup {Null}
  BY DEF DoneWith
<1>12. Current(r)'
  <2>1. \A k \in Mods : cur'[k] = Null <=> state'[k] = "IDLE"
    BY <1>0, <1>11 DEF Current
  <2>2. ASSUME NEW k \in Mods, cur'[k] # Null
        PROVE  /\ cur_mod' = k /\ r[k] # <<>> /\ cur'[k] = r[k][Len(r[k])]
               /\ node'[cur'[k]].lock = TRUE
               /\ (node'[cur'[k]].used /\ node'[cur'[k]].type = "write") =>
                     next_page'[k] \in node'[cur'[k]].lo .. node'[cur'[k]].hi - 1
    <3>1. /\ cur'[k] = cur[k] /\ next_page'[k] = next_page[k] /\ cur[k] \notin G
          /\ cur_mod' = k
      BY <1>11, <2>2 DEF DoneWith
    <3>2. /\ q[k] # <<>> /\ cur[k] = q[k][Len(q[k])] /\ node[cur[k]].lock = TRUE
          /\ WriteNode(cur[k]) => next_page[k] \in node[cur[k]].lo .. node[cur[k]].hi - 1
      BY <1>0, <2>2, <3>1 DEF Current
    <3>3. Len(q[k]) \in 1 .. Len(q[k]) /\ r[k] \in Seq(Slots) /\ Len(r[k]) \in Nat
      BY <1>0, <3>2, EmptySeq
    <3>4. /\ Len(r[k]) <= Len(q[k]) /\ (q[k][Len(q[k])] \in G <=> Len(q[k]) > Len(r[k]))
          /\ \A j \in 1 .. Len(r[k]) : r[k][j] = q[k][j]
      BY <3>3 DEF CutTo
    <3>5. Len(r[k]) = Len(q[k])
      BY <1>0, <3>1, <3>2, <3>3, <3>4
    <3>6. r[k] # <<>> /\ r[k][Len(r[k])] = q[k][Len(q[k])]
      BY <3>3, <3>4, <3>5, EmptySeq
    <3>7. cur[k] \in Slots \ G
      BY <1>0, <3>1, <3>2, <3>3, Parts
    <3>q. QED BY <1>1, <3>1, <3>2, <3>6, <3>7 DEF WriteNode
  <2>3. ASSUME NEW j \in Slots, node'[j].lock = TRUE PROVE cur'[node'[j].addr[1]] = j
    <3>1. j \notin G
      BY <1>1, <1>3, <2>3
    <3>2. node[j].lock = TRUE /\ node'[j].addr = node[j].addr
      BY <1>1, <2>3, <3>1
    <3>3. node[j].used
      BY <1>0, <1>3, <3>2 DEF Pools
    <3>4. node[j].addr[1] \in Mods
      BY <1>0, <3>3, OnList
    <3>5. cur[node[j].addr[1]] = j
      BY <1>0, <3>2 DEF Current
    <3>q. QED BY <1>0, <1>11, <3>1, <3>2, <3>4, <3>5
  <2>q. QED BY <2>1, <2>2, <2>3 DEF Current, WriteNode
<1>13. ASSUME NEW j \in Slots, WriteNode(j)' PROVE Start(j)' = Start(j)
  <2>1. WriteNode(j) /\ j \notin G /\ node'[j].addr = node[j].addr /\ node'[j].lo = node[j].lo
    BY <1>8, <1>13
  <2>2. node[j].addr[1] \in Mods
    BY <1>0, <2>1, OnList DEF WriteNode
  <2>3. PICK a \in Mods : a = node[j].addr[1]
    BY <2>2
  <2>4. j # Null
    BY <1>0
  <2>5. /\ Start(j) = IF cur[a] = j /\ state[a] # "IDLE" THEN next_page[a] ELSE node[j].lo
        /\ Start(j)' = IF cur'[a] = j /\ state'[a] # "IDLE" THEN next_page'[a] ELSE node[j].lo
    BY <2>1, <2>3 DEF Start, StartPage
  <2>q. QED BY <1>11, <2>1, <2>3, <2>4, <2>5
<1>14. ASSUME NEW s \in Sectors, StillQueued(s, G) PROVE Base(s)' = Base(s) /\ (HasWrite(s)' <=> HasWrite(s))
  <2>1. HasWrite(s)' <=> HasWrite(s)
    BY <1>1, <1>4, <1>14 DEF HasWrite, StillQueued
  <2>2. CASE \E i \in G : EraseNode(i) /\ node[i].addr = s
    <3>1. PICK i \in G : EraseNode(i) /\ node[i].addr = s
      BY <2>2
    <3>2. HasErase(s)
      BY <3>1 DEF HasErase
    <3>3. ASSUME NEW j \in Slots, EraseNode(j)', node'[j].addr = s PROVE FALSE
      <4>1. EraseNode(j) /\ j \notin G /\ node[j].addr = s
        BY <1>1, <1>4, <3>3
      <4>q. QED BY <1>0, <3>1, <4>1 DEF Pools
    <3>4. ~HasErase(s)'
      BY <3>3 DEF HasErase
    <3>5. flash'[s] = Blank(Erased)
      BY <1>14, <2>2 DEF StillQueued
    <3>q. QED BY <2>1, <3>2, <3>4, <3>5 DEF Base
  <2>3. CASE ~\E i \in G : EraseNode(i) /\ node[i].addr = s
    <3>1. HasErase(s)' <=> HasErase(s)
      BY <1>1, <1>4, <2>3 DEF HasErase
    <3>2. flash'[s] = flash[s]
      BY <1>14, <2>3 DEF StillQueued
    <3>q. QED BY <2>1, <3>1, <3>2 DEF Base
  <2>q. QED BY <2>1, <2>2, <2>3
<1>15. ASSUME NEW s \in Sectors, Settled(s, G) PROVE ~HasWrite(s)' /\ Base(s)' = wanted'[s]
  <2>1. ~HasWrite(s)' /\ ~HasErase(s)'
    BY <1>1, <1>4, <1>15 DEF HasWrite, HasErase, Settled, WriteNode, EraseNode
  <2>q. QED BY <1>15, <2>1 DEF Base, Settled
<1>16. \A s \in Sectors : Settled(s, G) \/ StillQueued(s, G)
  BY DEF DoneWith
<1>17. Contents'
  <2>1. ASSUME NEW s \in Sectors, ~HasWrite(s)' PROVE Base(s)' = wanted'[s]
    <3>1. CASE StillQueued(s, G)
      BY <1>0, <1>14, <2>1, <3>1 DEF Contents, StillQueued
    <3>q. QED BY <1>15, <1>16, <3>1
  <2>2. ASSUME NEW j \in Slots, WriteNode(j)', NEW s, s = node'[j].addr
        PROVE  /\ buff'[node'[j].buff] = wanted'[s]
               /\ \A p \in Pages : IF Start(j)' <= p /\ p < node'[j].hi
                                   THEN Base(s)'[p] \in {Erased, wanted'[s][p]} ELSE Base(s)'[p] = wanted'[s][p]
    <3>1. WriteNode(j) /\ node[j].addr = s
      BY <1>8, <2>2
    <3>2. s \in Sectors
      BY <1>0, <3>1, OnList DEF WriteNode
    <3>3. HasWrite(s)'
      BY <2>2 DEF HasWrite
    <3>4. StillQueued(s, G)
      BY <1>15, <1>16, <3>2, <3>3
    <3>5. Base(s)' = Base(s) /\ wanted'[s] = wanted[s] /\ Start(j)' = Start(j)
      BY <1>13, <1>14, <2>2, <3>2, <3>4 DEF StillQueued
    <3>6. /\ buff[node[j].buff] = wanted[s]
          /\ \A p \in Pages : IF Start(j) <= p /\ p < node[j].hi
                              THEN Base(s)[p] \in {Erased, wanted[s][p]} ELSE Base(s)[p] = wanted[s][p]
      BY <1>0, <3>1 DEF Contents
    <3>q. QED BY <1>8, <2>2, <3>5, <3>6
  <2>q. QED BY <2>1, <2>2 DEF Contents, Base, HasErase
<1>q. QED BY <1>1, <1>2, <1>5, <1>9, <1>10, <1>12, <1>17

\* The oldest node of a list.
LEMMA Oldest ==
    ASSUME NEW q \in [Mods -> Seq(Slots)], Inv(q), NEW m \in Mods, q[m] # <<>>,
           NEW i, i = q[m][Len(q[m])]
    PROVE  /\ Len(q[m]) \in 1 .. Len(q[m]) /\ i \in Slots /\ node[i].used
           /\ node[i].addr \in Sectors /\ node[i].addr[1] = m
           /\ \A j \in 1 .. Len(q[m]) : q[m][j] = i => j = Len(q[m])
           /\ \A k \in Mods : \A j \in 1 .. Len(q[k]) : q[k][j] = i => k = m
           /\ WriteNode(i) =>
                 /\ ~HasErase(node[i].addr)
                 /\ Worked(m, i, flash[node[i].addr]) = wanted[node[i].addr]
                 /\ \A j \in Slots : node[j].used /\ node[j].addr = node[i].addr => j = i
<1>0. /\ TypeOK /\ Lists(q) /\ Pools
      /\ \A k \in Mods : q[k] \in Seq(Slots) /\ Len(q[k]) \in Nat
      /\ \A k \in Mods : \A j \in 1 .. Len(q[k]) : q[k][j] \in Slots
      /\ \A j \in Slots : node[j].type \in {"erase", "write"}
  BY Parts
<1>1. Len(q[m]) \in 1 .. Len(q[m])
  BY <1>0, EmptySeq
<1>2. i \in Slots /\ node[i].used /\ node[i].addr \in Sectors /\ node[i].addr[1] = m
  BY <1>0, <1>1 DEF Lists
<1>3. \A j \in 1 .. Len(q[m]) : q[m][j] = i => j = Len(q[m])
  BY <1>0, <1>1 DEF Lists
<1>4. \A k \in Mods : \A j \in 1 .. Len(q[k]) : q[k][j] = i => k = m
  BY <1>0, <1>2 DEF Lists
<1>5. ASSUME WriteNode(i)
      PROVE  /\ ~HasErase(node[i].addr)
             /\ Worked(m, i, flash[node[i].addr]) = wanted[node[i].addr]
             /\ \A j \in Slots : node[j].used /\ node[j].addr = node[i].addr => j = i
  <2>1. ASSUME NEW e \in Slots, EraseNode(e), node[e].addr = node[i].addr PROVE FALSE
    <3>1. PICK k \in 1 .. Len(q[m]) : q[m][k] = e
      BY <1>0, <1>2, <2>1, OnList DEF EraseNode
    <3>2. Len(q[m]) < k
      BY <1>0, <1>1, <1>5, <2>1, <3>1 DEF Lists
    <3>q. QED BY <1>0, <3>1, <3>2
  <2>2. ~HasErase(node[i].addr)
    BY <2>1 DEF HasErase
  <2>3. Base(node[i].addr) = flash[node[i].addr]
    BY <2>2 DEF Base
  <2>4. Worked(m, i, flash[node[i].addr]) = wanted[node[i].addr]
    BY <1>2, <1>5, <2>3, WriteWorks
  <2>5. ASSUME NEW j \in Slots, node[j].used, node[j].addr = node[i].addr PROVE j = i
    BY <1>0, <1>2, <1>5, <2>1, <2>5 DEF Pools, EraseNode, WriteNode
  <2>q. QED BY <2>2, <2>4, <2>5
<1>q. QED BY <1>1, <1>2, <1>3, <1>4, <1>5

\* _opera_del takes the oldest node off its list.
LEMMA OldestOff ==
    ASSUME NEW q \in [Mods -> Seq(Slots)], Inv(q), NEW m \in Mods, q[m] # <<>>,
           NEW i, i = q[m][Len(q[m])], Unlinked(m, i),
           NEW r, r = [q EXCEPT ![m] = SubSeq(q[m], 1, Len(q[m]) - 1)]
    PROVE  r \in [Mods -> Seq(Slots)] /\ CutTo(q, r, {i})
<1> DEFINE L == q[m]
<1>0. /\ Lists(q) /\ Pools /\ Null \notin Slots
      /\ node \in [Slots -> NodeSet] /\ head \in [Mods -> Slots \cup {Null}]
      /\ \A k \in Mods : q[k] \in Seq(Slots) /\ Len(q[k]) \in Nat
      /\ \A k \in Mods : \A j \in 1 .. Len(q[k]) : q[k][j] \in Slots
      /\ TypeOK
  BY Parts
<1>1. /\ Len(L) \in 1 .. Len(L) /\ i \in Slots /\ node[i].used
      /\ \A j \in 1 .. Len(L) : L[j] = i => j = Len(L)
      /\ \A k \in Mods : \A j \in 1 .. Len(q[k]) : q[k][j] = i => k = m
  BY Oldest
<1>2. /\ r[m] \in Seq(Slots) /\ Len(r[m]) = Len(L) - 1
      /\ \A j \in 1 .. Len(L) - 1 : r[m][j] = L[j]
  <2>1. r[m] = SubSeq(L, 1, Len(L) - 1)
    BY <1>0
  <2>2. PICK n \in Nat : n = Len(L) - 1
    BY <1>0, <1>1
  <2>3. /\ SubSeq(L, 1, n) \in Seq(Slots) /\ Len(SubSeq(L, 1, n)) = IF 1 <= n THEN n - 1 + 1 ELSE 0
        /\ \A j \in 1 .. n - 1 + 1 : SubSeq(L, 1, n)[j] = L[1 + j - 1]
    <3>1. \A j \in 1 .. n : L[j] \in Slots
      BY <1>0, <2>2
    <3>2. 1 \in Int /\ n \in Int
      BY <2>2
    <3> HIDE DEF L
    <3>q. QED BY <3>1, <3>2, SubSeqProperties
  <2>4. n - 1 + 1 = n /\ (~(1 <= n) => n = 0) /\ \A j \in 1 .. n : 1 + j - 1 = j
    BY <2>2
  <2>q. QED BY <2>1, <2>2, <2>3, <2>4
<1>3. r \in [Mods -> Seq(Slots)] /\ \A k \in Mods : k # m => r[k] = q[k]
  BY <1>0, <1>2
<1>4. \A k \in Mods : Len(r[k]) <= Len(q[k]) /\ \A j \in 1 .. Len(r[k]) : r[k][j] = q[k][j]
  BY <1>0, <1>1, <1>2, <1>3
<1>5. \A k \in Mods : \A j \in 1 .. Len(q[k]) : q[k][j] \in {i} <=> j > Len(r[k])
  <2>1. ASSUME NEW j \in 1 .. Len(L) PROVE L[j] = i <=> j > Len(L) - 1
    BY <1>0, <1>1
  <2>2. ASSUME NEW k \in Mods, k # m, NEW j \in 1 .. Len(q[k]) PROVE q[k][j] # i /\ ~(j > Len(q[k]))
    BY <1>0, <1>1, <2>2
  <2>q. QED BY <1>2, <1>3, <2>1, <2>2
<1>6. head' = [k \in Mods |-> IF head[k] \in {i} THEN Null ELSE head[k]]
  <2>1. \A k \in Mods : head[k] = IF q[k] = <<>> THEN Null ELSE q[k][1]
    BY <1>0 DEF Lists, Links
  <2>2. ASSUME NEW k \in Mods, head[k] = i PROVE k = m
    <3>1. q[k] # <<>> /\ q[k][1] = i
      BY <1>0, <1>1, <2>1, <2>2
    <3>2. 1 \in 1 .. Len(q[k])
      BY <1>0, <3>1, EmptySeq
    <3>q. QED BY <1>1, <3>1, <3>2
  <2>3. head' = [head EXCEPT ![m] = IF head[m] = i THEN Null ELSE head[m]]
    BY DEF Unlinked
  <2>q. QED BY <1>0, <2>2, <2>3
<1>7. ASSUME NEW j \in Slots, j # i
      PROVE  (head[m] # i /\ j = L[Len(L) - 1]) <=> node[j].next = i
  <2>1. Links(node, head[m], L)
    BY <1>0 DEF Lists
  <2>2. head[m] = L[1]
    BY <2>1 DEF Links
  <2>3. ASSUME head[m] # i, j = L[Len(L) - 1] PROVE node[j].next = i
    <3>1. Len(L) # 1
      BY <2>2, <2>3
    <3>2. PICK a \in 1 .. Len(L) : a = Len(L) - 1
      <4>1. PICK n \in Nat : n = Len(L)
        BY <1>0
      <4>2. n # 1 /\ n \in 1 .. n
        BY <1>1, <3>1, <4>1
      <4>3. n - 1 \in 1 .. n
        BY <4>2
      <4>q. QED BY <4>1, <4>3
    <3>3. a < Len(L) /\ a + 1 = Len(L)
      BY <1>0, <3>2
    <3>4. node[L[a]].next = L[a + 1]
      BY <2>1, <3>3 DEF Links
    <3>q. QED BY <2>3, <3>2, <3>3, <3>4
  <2>4. ASSUME node[j].next = i PROVE head[m] # i /\ j = L[Len(L) - 1]
    <3>1. node[j].used
      <4>1. FreeNode.next = Null
        BY DEF FreeNode
      <4>q. QED BY <1>0, <1>1, <2>4, <4>1 DEF Pools
    <3>2. PICK k \in Mods : k = node[j].addr[1]
      BY <1>0, <3>1, OnList
    <3>3. PICK a \in 1 .. Len(q[k]) : q[k][a] = j
      BY <1>0, <3>1, <3>2, OnList
    <3>4. node[j].next = IF a < Len(q[k]) THEN q[k][a + 1] ELSE Null
      BY <1>0, <3>3 DEF Lists, Links
    <3>5. a < Len(q[k]) /\ q[k][a + 1] = i /\ a + 1 \in 1 .. Len(q[k])
      BY <1>0, <1>1, <2>4, <3>3, <3>4
    <3>6. k = m /\ a + 1 = Len(L)
      BY <1>1, <3>5
    <3>7. Len(L) - 1 = a /\ Len(L) # 1
      BY <1>0, <3>3, <3>6
    <3>8. head[m] # i
      <4>1. 1 \in 1 .. Len(L)
        BY <1>0, <1>1
      <4>q. QED BY <1>1, <2>2, <3>7, <4>1
    <3>q. QED BY <3>3, <3>6, <3>7, <3>8
  <2>q. QED BY <2>3, <2>4
<1>8. node' = [j \in Slots |->
                  IF j \in {i} THEN FreeNode
                  ELSE [node[j] EXCEPT !.next = IF @ \in {i} THEN Null ELSE @]]
  <2>1. List(m) = L
    BY <1>0, ListIs
  <2>2. node' = [j \in Slots |->
                    IF j = i THEN FreeNode
                    ELSE IF head[m] # i /\ j = L[Len(L) - 1] THEN [node[j] EXCEPT !.next = Null]
                    ELSE node[j]]
    <3> HIDE DEF L
    <3>q. QED BY <2>1 DEF Unlinked
  <2>3. ASSUME NEW j \in Slots, j # i
        PROVE  (IF head[m] # i /\ j = L[Len(L) - 1] THEN [node[j] EXCEPT !.next = Null] ELSE node[j])
                  = [node[j] EXCEPT !.next = IF node[j].next \in {i} THEN Null ELSE node[j].next]
    <3>1. node[j] \in NodeSet /\ [node[j] EXCEPT !.next = node[j].next] = node[j]
      BY <1>0, SameLink
    <3>2. CASE node[j].next = i
      BY <1>7, <2>3, <3>2
    <3>3. CASE node[j].next # i
      BY <1>7, <2>3, <3>1, <3>3
    <3>q. QED BY <3>2, <3>3
  <2>q. QED BY <2>2, <2>3
<1>q. QED BY <1>3, <1>4, <1>5, <1>6, <1>8 DEF CutTo
-----------------------------------------------------------------------------
(* norflash_api_flush.                                                     *)

\* What a flush keeps, and the types of what it changes.
Kept ==
    /\ \E r \in [Mods -> Seq(Slots)] : Lists(r)' /\ Current(r)'
    /\ Pools' /\ Contents'
    /\ \A s : (HasErase(s)' => HasErase(s)) /\ (HasWrite(s)' => HasWrite(s))
    /\ node' \in [Slots -> NodeSet] /\ buff' \in [Buffs -> [Pages -> Content] \cup {Null}]
    /\ head' \in [Mods -> Slots \cup {Null}] /\ cur' \in [Mods -> Slots \cup {Null}]
    /\ state' \in [Mods -> {"IDLE", "WRITTING_SUSPEND", "ERASE_SUSPEND"}]
    /\ next_page' \in [Mods -> 0 .. NPages]
    /\ cur_mod' \in Mods \cup {Null} /\ cur_mod_id' \in 0 .. NMods
    /\ flash' \in [Sectors -> [Pages -> Content]]

\* The oldest node of the module at work is finished.
LEMMA FinishKeeps ==
    ASSUME Product, NEW q \in [Mods -> Seq(Slots)], Inv(q), NEW m \in Mods, q[m] # <<>>,
           NEW i, i = q[m][Len(q[m])], \A k \in Mods : cur[k] # Null => k = m,
           Finished(m, i), cur_mod' = m, cur_mod_id' = m, wanted' = wanted
    PROVE  Kept
<1>0. /\ TypeOK /\ Current(q) /\ cur \in [Mods -> Slots \cup {Null}] /\ Null \notin Slots
      /\ flash \in [Sectors -> [Pages -> Content]] /\ wanted \in [Sectors -> [Pages -> Content]]
      /\ state \in [Mods -> {"IDLE", "WRITTING_SUSPEND", "ERASE_SUSPEND"}]
      /\ next_page \in [Mods -> 0 .. NPages] /\ NPages \in Nat /\ NMods \in Nat
      /\ \A j \in Slots : node[j].type \in {"erase", "write"}
  BY Parts, SizeAssumption DEF TypeOK
<1>1. /\ i \in Slots /\ node[i].used /\ node[i].addr \in Sectors
      /\ WriteNode(i) =>
            /\ Worked(m, i, flash[node[i].addr]) = wanted[node[i].addr]
            /\ \A j \in Slots : node[j].used /\ node[j].addr = node[i].addr => j = i
  BY Oldest
<1>2. PICK s \in Sectors : s = node[i].addr
  BY <1>1
<1>3. PICK r : r = [q EXCEPT ![m] = SubSeq(q[m], 1, Len(q[m]) - 1)]
  OBVIOUS
<1>4. Unlinked(m, i) /\ flash' = [flash EXCEPT ![s] = Worked(m, i, flash[s])]
      /\ cur' = [cur EXCEPT ![m] = Null] /\ state' = [state EXCEPT ![m] = "IDLE"]
      /\ next_page' = [next_page EXCEPT ![m] = 0]
  BY <1>2 DEF Finished
<1>5. r \in [Mods -> Seq(Slots)] /\ CutTo(q, r, {i})
  BY <1>3, <1>4, OldestOff
<1>6. \A t \in Sectors : flash'[t] = IF t = s THEN Worked(m, i, flash[s]) ELSE flash[t]
  BY <1>0, <1>4
<1>7. EraseNode(i) \/ WriteNode(i)
  BY <1>0, <1>1 DEF EraseNode, WriteNode
<1>8. EraseNode(i) => Worked(m, i, flash[s]) = Blank(Erased) /\ ~WriteNode(i)
  BY DEF EraseNode, WriteNode, Worked
<1>9. ASSUME NEW t \in Sectors PROVE Settled(t, {i}) \/ StillQueued(t, {i})
  <2>1. CASE t # s
    BY <1>2, <1>6, <2>1 DEF StillQueued
  <2>2. CASE t = s /\ EraseNode(i)
    BY <1>2, <1>6, <1>8, <2>2 DEF StillQueued
  <2>3. CASE t = s /\ WriteNode(i)
    BY <1>1, <1>2, <1>6, <2>3 DEF Settled
  <2>q. QED BY <1>7, <2>1, <2>2, <2>3
<1>10. cur[m] \in {i} \cup {Null}
  BY <1>0 DEF Current
<1>11. DoneWith({i})
  <2>1. buff' = FreeBuffers({i})
    BY <1>4 DEF Unlinked
  <2>2. ASSUME NEW k \in Mods
        PROVE  /\ \/ /\ cur'[k] = cur[k] /\ state'[k] = state[k] /\ next_page'[k] = next_page[k]
                     /\ cur[k] \notin {i}
                  \/ cur'[k] = Null /\ state'[k] = "IDLE" /\ cur[k] \in {i} \cup {Null}
               /\ cur'[k] = Null
    <3>1. CASE k = m
      BY <1>0, <1>4, <1>10, <3>1
    <3>2. CASE k # m
      BY <1>0, <1>1, <1>4, <3>2
    <3>q. QED BY <3>1, <3>2
  <2>q. QED BY <1>1, <1>9, <2>1, <2>2 DEF DoneWith
<1>12. /\ Lists(r)' /\ Pools' /\ Current(r)' /\ Contents'
       /\ node' \in [Slots -> NodeSet] /\ head' \in [Mods -> Slots \cup {Null}]
       /\ buff' \in [Buffs -> [Pages -> Content] \cup {Null}]
       /\ \A t : (HasErase(t)' => HasErase(t)) /\ (HasWrite(t)' => HasWrite(t))
  <2>1. {i} \in SUBSET Slots
    BY <1>1
  <2>q. QED BY <1>5, <1>11, <2>1, WorkDone
<1>13. flash' \in [Sectors -> [Pages -> Content]]
  <2>1. Worked(m, i, flash[s]) \in [Pages -> Content]
    BY <1>0, <1>1, <1>2, <1>7, <1>8, BlankIs DEF Content
  <2>q. QED BY <1>0, <1>4, <2>1
<1>14. m \in 0 .. NMods
  BY <1>0 DEF Mods
<1>15. /\ cur' \in [Mods -> Slots \cup {Null}] /\ next_page' \in [Mods -> 0 .. NPages]
       /\ state' \in [Mods -> {"IDLE", "WRITTING_SUSPEND", "ERASE_SUSPEND"}]
  BY <1>0, <1>4
<1>q. QED BY <1>5, <1>12, <1>13, <1>14, <1>15 DEF Kept

\* The oldest node of the module at work is suspended.
LEMMA SuspendKeeps ==
    ASSUME NEW q \in [Mods -> Seq(Slots)], Inv(q), NEW m \in Mods, q[m] # <<>>,
           NEW i, i = q[m][Len(q[m])], \A k \in Mods : cur[k] # Null => k = m,
           Suspended(m, i), cur_mod' = m, cur_mod_id' = m, wanted' = wanted
    PROVE  Kept
<1>0. /\ TypeOK /\ Lists(q) /\ Pools /\ Current(q) /\ Contents
      /\ node \in [Slots -> NodeSet] /\ cur \in [Mods -> Slots \cup {Null}] /\ Null \notin Slots
      /\ buff \in [Buffs -> [Pages -> Content] \cup {Null}] /\ head \in [Mods -> Slots \cup {Null}]
      /\ flash \in [Sectors -> [Pages -> Content]] /\ wanted \in [Sectors -> [Pages -> Content]]
      /\ state \in [Mods -> {"IDLE", "WRITTING_SUSPEND", "ERASE_SUSPEND"}]
      /\ next_page \in [Mods -> 0 .. NPages] /\ NPages \in Nat /\ NMods \in Nat
      /\ \A j \in Slots : node[j].type \in {"erase", "write"}
      /\ \A j \in Slots : node[j].lo \in 0 .. NPages /\ node[j].hi \in 0 .. NPages
  BY Parts, SizeAssumption DEF TypeOK
<1>1. /\ i \in Slots /\ node[i].used /\ node[i].addr \in Sectors /\ node[i].addr[1] = m
      /\ WriteNode(i) => ~HasErase(node[i].addr)
  BY Oldest
<1>2. PICK s \in Sectors : s = node[i].addr
  BY <1>1
<1>3. /\ node' = [node EXCEPT ![i].lock = TRUE] /\ cur' = [cur EXCEPT ![m] = i]
      /\ buff' = buff /\ head' = head
  BY DEF Suspended
<1>4. /\ \A j \in Slots : /\ node'[j].used = node[j].used /\ node'[j].type = node[j].type
                          /\ node'[j].addr = node[j].addr /\ node'[j].next = node[j].next
                          /\ node'[j].lo = node[j].lo /\ node'[j].hi = node[j].hi
                          /\ node'[j].buff = node[j].buff
      /\ node'[i].lock = TRUE /\ \A j \in Slots : j # i => node'[j] = node[j]
      /\ node' \in [Slots -> NodeSet]
  <2>1. ASSUME NEW n \in NodeSet
        PROVE  LET c == [n EXCEPT !.lock = TRUE]
               IN  /\ c \in NodeSet /\ c.used = n.used /\ c.type = n.type /\ c.addr = n.addr
                   /\ c.next = n.next /\ c.lo = n.lo /\ c.hi = n.hi /\ c.buff = n.buff /\ c.lock = TRUE
    BY DEF NodeSet
  <2>2. /\ node'[i] = [node[i] EXCEPT !.lock = TRUE] /\ node[i] \in NodeSet
        /\ \A j \in Slots : j # i => node'[j] = node[j]
    BY <1>0, <1>1, <1>3
  <2>3. PICK c : c = [node[i] EXCEPT !.lock = TRUE]
    OBVIOUS
  <2>4. /\ c \in NodeSet /\ c.used = node[i].used /\ c.type = node[i].type /\ c.addr = node[i].addr
        /\ c.next = node[i].next /\ c.lo = node[i].lo /\ c.hi = node[i].hi /\ c.buff = node[i].buff
        /\ c.lock = TRUE /\ node'[i] = c /\ node' = [node EXCEPT ![i] = c]
    BY <1>3, <2>1, <2>2, <2>3
  <2>q. QED BY <1>0, <1>1, <2>2, <2>4
<1>5. /\ \A j \in Slots : (WriteNode(j)' <=> WriteNode(j)) /\ (EraseNode(j)' <=> EraseNode(j))
      /\ \A t : (HasErase(t)' <=> HasErase(t)) /\ (HasWrite(t)' <=> HasWrite(t))
  <2>1. \A j \in Slots : (WriteNode(j)' <=> WriteNode(j)) /\ (EraseNode(j)' <=> EraseNode(j))
    BY <1>4 DEF WriteNode, EraseNode
  <2>q. QED BY <1>4, <2>1 DEF HasErase, HasWrite
<1>6. Lists(q)'
  BY <1>0, <1>3, <1>4, ListsStay
<1>7. Pools'
  <2>1. \A j \in Slots : ~node'[j].used => node'[j] = FreeNode
    BY <1>0, <1>1, <1>4 DEF Pools
  <2>q. QED BY <1>0, <1>3, <1>4, <1>5, <2>1 DEF Pools
<1>8. /\ cur'[m] = i /\ cur[m] \in {Null, i} /\ i # Null
      /\ \A k \in Mods : k # m => cur[k] = Null /\ cur'[k] = Null
  BY <1>0, <1>1, <1>3 DEF Current
<1>9. ASSUME NEW j \in Slots, j # i, node[j].used PROVE Start(j)' = Start(j)
  <2>1. PICK k \in Mods : k = node[j].addr[1]
    BY <1>0, <1>9, OnList
  <2>2. cur[k] # j /\ cur'[k] # j
    BY <1>0, <1>8, <1>9, <2>1
  <2>q. QED BY <1>4, <2>1, <2>2 DEF Start, StartPage
<1>10. ASSUME NEW x \in {"WRITTING_SUSPEND", "ERASE_SUSPEND"}, state' = [state EXCEPT ![m] = x],
              WriteNode(i) => next_page'[m] \in node[i].lo .. node[i].hi - 1
       PROVE  Current(q)' /\ state' \in [Mods -> {"IDLE", "WRITTING_SUSPEND", "ERASE_SUSPEND"}]
  <2>1. \A k \in Mods : cur'[k] = Null <=> state'[k] = "IDLE"
    <3>1. \A k \in Mods : state'[k] = IF k = m THEN x ELSE state[k]
      BY <1>0, <1>10
    <3>2. \A k \in Mods : cur[k] = Null <=> state[k] = "IDLE"
      BY <1>0 DEF Current
    <3>3. x # "IDLE"
      OBVIOUS
    <3>q. QED BY <1>8, <3>1, <3>2, <3>3
  <2>2. ASSUME NEW k \in Mods, cur'[k] # Null
        PROVE  /\ cur_mod' = k /\ q[k] # <<>> /\ cur'[k] = q[k][Len(q[k])]
               /\ node'[cur'[k]].lock = TRUE
               /\ (node'[cur'[k]].used /\ node'[cur'[k]].type = "write") =>
                     next_page'[k] \in node'[cur'[k]].lo .. node'[cur'[k]].hi - 1
    <3>1. k = m /\ cur'[k] = i
      BY <1>8, <2>2
    <3>q. QED BY <1>1, <1>4, <1>10, <3>1 DEF WriteNode
  <2>3. ASSUME NEW j \in Slots, node'[j].lock = TRUE PROVE cur'[node'[j].addr[1]] = j
    <3>1. CASE j = i
      BY <1>1, <1>4, <1>8, <3>1
    <3>2. CASE j # i
      <4>1. node[j].lock = TRUE
        BY <1>4, <2>3, <3>2
      <4>2. node[j].used
        <5>1. FreeNode.lock = FALSE
          BY DEF FreeNode
        <5>q. QED BY <1>0, <4>1, <5>1 DEF Pools
      <4>3. node[j].addr[1] \in Mods /\ cur[node[j].addr[1]] = j
        BY <1>0, <4>1, <4>2, OnList DEF Current
      <4>q. QED BY <1>0, <1>8, <3>2, <4>3
    <3>q. QED BY <3>1, <3>2
  <2>4. state' \in [Mods -> {"IDLE", "WRITTING_SUSPEND", "ERASE_SUSPEND"}]
    BY <1>0, <1>10
  <2>q. QED BY <2>1, <2>2, <2>3, <2>4 DEF Current, WriteNode
<1>11. ASSUME NEW t \in Sectors, t # s, flash'[t] = flash[t] PROVE Base(t)' = Base(t)
  BY <1>5, <1>11 DEF Base
<1>12. /\ cur' \in [Mods -> Slots \cup {Null}] /\ buff' \in [Buffs -> [Pages -> Content] \cup {Null}]
       /\ head' \in [Mods -> Slots \cup {Null}]
       /\ cur_mod' \in Mods \cup {Null} /\ cur_mod_id' \in 0 .. NMods
  BY <1>0, <1>1, <1>3 DEF Mods
<1>13. ASSUME NEW j \in Slots, WriteNode(j)', j # i,
              \A t \in Sectors : t = node[j].addr => Base(t)' = Base(t)
       PROVE  /\ buff'[node'[j].buff] = wanted'[node'[j].addr]
              /\ \A t \in Sectors : t = node'[j].addr =>
                   \A p \in Pages : IF Start(j)' <= p /\ p < node'[j].hi
                                     THEN Base(t)'[p] \in {Erased, wanted'[t][p]}
                                     ELSE Base(t)'[p] = wanted'[t][p]
  <2>1. WriteNode(j) /\ node'[j] = node[j] /\ node[j].used
    BY <1>4, <1>5, <1>13 DEF WriteNode
  <2>2. Start(j)' = Start(j)
    BY <1>9, <1>13, <2>1
  <2>q. QED BY <1>0, <1>3, <1>13, <2>1, <2>2 DEF Contents
<1>14. CASE node[i].type = "erase"
  <2>1. /\ flash' = [flash EXCEPT ![s] = Blank(Torn)] /\ state' = [state EXCEPT ![m] = "ERASE_SUSPEND"]
        /\ next_page' = next_page
    BY <1>2, <1>14 DEF Suspended
  <2>2. ~WriteNode(i) /\ HasErase(s)
    BY <1>1, <1>2, <1>14 DEF WriteNode, EraseNode, HasErase
  <2>3. Current(q)' /\ state' \in [Mods -> {"IDLE", "WRITTING_SUSPEND", "ERASE_SUSPEND"}]
    BY <1>10, <2>1, <2>2
  <2>4. \A t \in Sectors : Base(t)' = Base(t)
    <3>1. ASSUME NEW t \in Sectors, t # s PROVE Base(t)' = Base(t)
      BY <1>0, <1>11, <2>1, <3>1
    <3>2. Base(s)' = Base(s)
      BY <1>5, <2>2 DEF Base
    <3>q. QED BY <3>1, <3>2
  <2>5. Contents'
    <3>1. \A t \in Sectors : ~HasWrite(t)' => Base(t)' = wanted'[t]
      BY <1>0, <1>5, <2>4 DEF Contents
    <3>2. ASSUME NEW j \in Slots, WriteNode(j)'
          PROVE  /\ buff'[node'[j].buff] = wanted'[node'[j].addr]
                 /\ \A t \in Sectors : t = node'[j].addr =>
                      \A p \in Pages : IF Start(j)' <= p /\ p < node'[j].hi
                                        THEN Base(t)'[p] \in {Erased, wanted'[t][p]}
                                        ELSE Base(t)'[p] = wanted'[t][p]
      <4>1. j # i
        BY <1>5, <2>2, <3>2
      <4>q. QED BY <1>13, <2>4, <3>2, <4>1
    <3>3. \A j \in Slots : WriteNode(j)' => node'[j].addr \in Sectors
      BY <1>0, <1>4, <1>5 DEF Lists, WriteNode
    <3>q. QED BY <3>1, <3>2, <3>3 DEF Contents, Base, HasErase
  <2>6. flash' \in [Sectors -> [Pages -> Content]]
    BY <1>0, <2>1, BlankIs DEF Content
  <2>q. QED BY <1>0, <1>4, <1>5, <1>6, <1>7, <1>12, <2>1, <2>3, <2>5, <2>6 DEF Kept
<1>15. CASE node[i].type = "write"
  <2>0. WriteNode(i)
    BY <1>1, <1>15 DEF WriteNode
  <2>1. PICK k \in node[i].lo .. node[i].hi - 1 :
           /\ k >= StartPage(m, i)
           /\ next_page' = [next_page EXCEPT ![m] = k]
           /\ flash' = [flash EXCEPT ![s] = Programmed(m, i, flash[s], k)]
           /\ state' = [state EXCEPT ![m] = "WRITTING_SUSPEND"]
    BY <1>2, <1>15 DEF Suspended
  <2>2. k \in 0 .. NPages /\ k \in Nat /\ node[i].hi \in Nat /\ k < node[i].hi
    BY <1>0, <1>1, <2>1
  <2>3. next_page' \in [Mods -> 0 .. NPages] /\ next_page'[m] = k
    BY <1>0, <2>1, <2>2
  <2>4. Current(q)' /\ state' \in [Mods -> {"IDLE", "WRITTING_SUSPEND", "ERASE_SUSPEND"}]
    BY <1>10, <2>1, <2>3
  <2>5. /\ Start(i) \in Nat /\ Start(i) = StartPage(m, i) /\ buff[node[i].buff] = wanted[s]
        /\ ~HasErase(s) /\ Base(s) = flash[s]
        /\ \A p \in Pages : IF Start(i) <= p /\ p < node[i].hi THEN flash[s][p] \in {Erased, wanted[s][p]}
                             ELSE flash[s][p] = wanted[s][p]
    <3>1. Start(i) \in Nat
      BY <1>1, <2>0, WriteWorks
    <3>2. Start(i) = StartPage(m, i)
      BY <1>1 DEF Start
    <3>3. ~HasErase(s)
      BY <1>1, <1>2, <2>0
    <3>4. Base(s) = flash[s]
      BY <3>3 DEF Base
    <3>q. QED BY <1>0, <1>1, <1>2, <2>0, <3>1, <3>2, <3>3, <3>4 DEF Contents
  <2>6. PICK f : f = ProgramRange(flash[s], Start(i), k, wanted[s])
    OBVIOUS
  <2>7. /\ f \in [Pages -> Content]
        /\ \A p \in Pages : f[p] = IF Start(i) <= p /\ p < k THEN wanted[s][p] ELSE flash[s][p]
    <3>1. \A p \in Pages : Start(i) <= p /\ p < k => flash[s][p] \in {Erased, wanted[s][p]}
      BY <2>2, <2>5 DEF Pages
    <3>2. flash[s] \in [Pages -> Content] /\ wanted[s] \in [Pages -> Content]
      BY <1>0
    <3>3. PICK a \in Nat : a = Start(i)
      BY <2>5
    <3>4. PICK o \in [Pages -> Content] : o = flash[s]
      BY <3>2
    <3>5. PICK w \in [Pages -> Content] : w = wanted[s]
      BY <3>2
    <3>6. \A p \in Pages : a <= p /\ p < k => o[p] \in {Erased, w[p]}
      BY <3>1, <3>3, <3>4, <3>5
    <3>7. /\ ProgramRange(o, a, k, w) \in [Pages -> Content]
          /\ \A p \in Pages : ProgramRange(o, a, k, w)[p] = IF a <= p /\ p < k THEN w[p] ELSE o[p]
      <4>1. k \in Nat
        BY <2>2
      <4>q. QED BY <3>6, <4>1, ProgramsTo
    <3>q. QED BY <2>6, <3>3, <3>4, <3>5, <3>7
  <2>8. flash' = [flash EXCEPT ![s] = f]
    BY <2>1, <2>5, <2>6 DEF Programmed
  <2>9. Base(s)' = f /\ \A t \in Sectors : t # s => Base(t)' = Base(t)
    <3>1. Base(s)' = f
      BY <1>0, <1>5, <2>5, <2>8 DEF Base
    <3>2. ASSUME NEW t \in Sectors, t # s PROVE Base(t)' = Base(t)
      BY <1>0, <1>11, <2>8, <3>2
    <3>q. QED BY <3>1, <3>2
  <2>10. Start(i)' = k
    <3>1. node'[i].addr[1] = m /\ cur'[m] = i /\ state'[m] = "WRITTING_SUSPEND"
      BY <1>0, <1>1, <1>4, <1>8, <2>1
    <3>q. QED BY <2>3, <3>1 DEF Start, StartPage
  <2>11. ASSUME NEW p \in Pages
         PROVE  IF k <= p /\ p < node[i].hi THEN f[p] \in {Erased, wanted[s][p]} ELSE f[p] = wanted[s][p]
    <3>1. p \in Nat /\ k >= Start(i)
      BY <1>0, <2>1, <2>5 DEF Pages
    <3>q. QED BY <2>2, <2>5, <2>7, <3>1
  <2>12. Contents'
    <3>1. ASSUME NEW t \in Sectors, ~HasWrite(t)' PROVE Base(t)' = wanted'[t]
      <4>1. HasWrite(s)'
        BY <1>1, <1>2, <1>4, <1>5, <2>0 DEF HasWrite
      <4>2. t # s
        BY <3>1, <4>1
      <4>q. QED BY <1>0, <1>5, <2>9, <3>1, <4>2 DEF Contents
    <3>2. ASSUME NEW j \in Slots, WriteNode(j)' PROVE j = i
      BY <1>0, <1>1, <1>5, <2>0, <3>2 DEF Pools
    <3>3. /\ node'[i].addr = s /\ node'[i].hi = node[i].hi /\ buff'[node'[i].buff] = wanted'[s]
      BY <1>1, <1>2, <1>3, <1>4, <2>5
    <3>q. QED BY <2>9, <2>10, <2>11, <3>1, <3>2, <3>3 DEF Contents, Base, HasErase
  <2>13. flash' \in [Sectors -> [Pages -> Content]]
    BY <1>0, <2>7, <2>8
  <2>q. QED BY <1>0, <1>4, <1>5, <1>6, <1>7, <1>12, <2>3, <2>4, <2>12, <2>13 DEF Kept
<1>q. QED BY <1>0, <1>1, <1>14, <1>15

\* The next module in turn has nodes.
LEMMA NextIs ==
    ASSUME TypeOK, NEW m \in Mods, Busy(m)
    PROVE  NextMod \in Mods /\ Busy(NextMod)
<1> DEFINE after(k) == IF k > cur_mod_id THEN k - cur_mod_id ELSE k - cur_mod_id + NMods + 1
           busy == {k \in Mods : Busy(k)}
           S == {after(k) : k \in busy}
<1>0. NMods \in Nat /\ cur_mod_id \in 0 .. NMods
  BY SizeAssumption DEF TypeOK
<1>1. \A k \in Mods : after(k) \in Nat
  BY <1>0 DEF Mods
<1>2. S \in SUBSET Nat /\ S # {}
  BY <1>1
<1>3. PICK x \in S : \A y \in S : x <= y
  BY <1>2, LeastElement
<1>4. PICK n \in busy : after(n) = x
  BY <1>3
<1>5. n \in busy /\ \A k \in busy : after(n) <= after(k)
  BY <1>3, <1>4
<1>6. NextMod = CHOOSE k \in busy : \A j \in busy : after(k) <= after(j)
  BY DEF NextMod
<1> HIDE DEF after
<1>7. NextMod \in busy
  BY <1>5, <1>6
<1>q. QED BY <1>7

\* One call of norflash_api_flush, by the sleep hook or by a waiting module.
LEMMA FlushKeeps ==
    ASSUME Product, NEW q \in [Mods -> Seq(Slots)], Inv(q), Flush, wanted' = wanted, ops' = ops,
           job' \in [Mods -> [req : Requests, phase : {"flush", "retry"}] \cup {Null}],
           \A k \in Mods : job'[k] # Null => job[k] # Null /\ job'[k].req = job[k].req
    PROVE  IInv'
<1>0. /\ TypeOK /\ Lists(q) /\ Pools /\ Current(q) /\ Contents /\ Waiting /\ (allowed_cb => CpUses)
      /\ \A k \in Mods : q[k] \in Seq(Slots) /\ Len(q[k]) \in Nat
      /\ job \in [Mods -> [req : Requests, phase : {"flush", "retry"}] \cup {Null}]
      /\ Null \notin Slots /\ Null \notin Mods
      /\ \A k \in Mods : \A j \in 1 .. Len(q[k]) : q[k][j] \in Slots
  BY Parts
<1>1. allowed_cb' \in BOOLEAN /\ (allowed_cb' => allowed_cb)
  BY <1>0 DEF Flush, FlushForbidden, FlushAllowed, TypeOK
<1>2. \A k \in Mods : Busy(k) <=> q[k] # <<>>
  <2>1. \A k \in Mods : head[k] = IF q[k] = <<>> THEN Null ELSE q[k][1]
    BY <1>0 DEF Lists, Links
  <2>2. \A k \in Mods : q[k] # <<>> => q[k][1] \in Slots
    BY <1>0, EmptySeq
  <2>q. QED BY <1>0, <2>1, <2>2 DEF Busy
<1>3. ASSUME UNCHANGED <<lists, progress, flash>>,
             cur_mod' \in Mods \cup {Null}, cur_mod_id' \in 0 .. NMods,
             cur_mod' = cur_mod \/ \A k \in Mods : cur[k] = Null
      PROVE  Kept
  <2>1. UNCHANGED <<lists, progress, flash, wanted>>
    BY <1>3
  <2>2. /\ Lists(q)' /\ Pools' /\ Contents' /\ (cur_mod' = cur_mod => Current(q)')
        /\ \A s : (HasErase(s)' <=> HasErase(s)) /\ (HasWrite(s)' <=> HasWrite(s))
    BY <2>1, Unmoved
  <2>3. node' = node /\ cur' = cur /\ state' = state
    BY <1>3 DEF lists, progress
  <2>4. (\A k \in Mods : cur[k] = Null) => Current(q)'
    BY <1>0, <2>3 DEF Current
  <2>q. QED BY <1>0, <1>3, <2>2, <2>4 DEF Kept, TypeOK, lists, progress
<1>4. ASSUME UNCHANGED <<lists, progress, turn, flash>> PROVE Kept
  <2>1. cur_mod' = cur_mod /\ cur_mod' \in Mods \cup {Null} /\ cur_mod_id' \in 0 .. NMods
    BY <1>0, <1>4 DEF turn, TypeOK
  <2>q. QED BY <1>3, <1>4, <2>1
<1>5. ASSUME NEW m, m = IF cur_mod # Null THEN cur_mod ELSE NextMod, ~Idle, FlushWork(m) PROVE Kept
  <2>1. m \in Mods
    <3>1. cur_mod = Null => NextMod \in Mods
      BY <1>0, <1>5, NextIs DEF Idle
    <3>q. QED BY <1>0, <1>5, <3>1 DEF TypeOK
  <2>2. \A k \in Mods : cur[k] # Null => k = m
    BY <1>0, <1>5 DEF Current
  <2>3. CASE ~Busy(m)
    <3>1. q[m] = <<>>
      BY <1>2, <2>1, <2>3
    <3>2. \A k \in Mods : cur[k] = Null
      BY <1>0, <2>1, <2>2, <3>1 DEF Current
    <3>3. UNCHANGED <<lists, progress, flash>> /\ cur_mod' = Null /\ cur_mod_id' = cur_mod_id
      BY <1>5, <2>3 DEF FlushWork, TurnOver
    <3>4. cur_mod_id' \in 0 .. NMods
      BY <1>0, <3>3 DEF TypeOK
    <3>q. QED BY <1>3, <3>2, <3>3, <3>4
  <2>4. CASE Busy(m)
    <3>1. q[m] # <<>>
      BY <1>2, <2>1, <2>4
    <3>2. PICK i : i = IF cur[m] # Null THEN cur[m] ELSE Tail_(m)
      OBVIOUS
    <3>3. i = q[m][Len(q[m])]
      <4>1. Tail_(m) = q[m][Len(q[m])]
        BY <1>0, <2>1, ListIs DEF Tail_, Last
      <4>2. cur[m] # Null => cur[m] = q[m][Len(q[m])]
        BY <1>0, <2>1 DEF Current
      <4>q. QED BY <3>2, <4>1, <4>2
    <3>4. cur_mod' = m /\ cur_mod_id' = m /\ (Finished(m, i) \/ Suspended(m, i))
      BY <1>5, <2>4, <3>2 DEF FlushWork
    <3>q. QED BY <2>1, <2>2, <3>1, <3>3, <3>4, FinishKeeps, SuspendKeeps
  <2>q. QED BY <2>3, <2>4
<1>6. Kept
  BY <1>4, <1>5 DEF Flush
<1>7. Waiting'
  BY <1>0, <1>6, WaitingStays DEF Kept
<1>8. TypeOK'
  BY <1>0, <1>1, <1>6 DEF TypeOK, Kept
<1>q. QED BY <1>0, <1>1, <1>6, <1>7, <1>8 DEF Kept, IInv, Inv
-----------------------------------------------------------------------------
(* Synchronous requests.                                                   *)

\* The nodes a synchronous request of m works off.
Gone(m) == (IF SuspendedOther(m) THEN {cur[cur_mod]} ELSE {}) \cup ToSet(List(m))

\* A suspended operation of another module is the oldest of its list.
LEMMA OtherIs ==
    ASSUME NEW q \in [Mods -> Seq(Slots)], Inv(q), NEW m \in Mods
    PROVE  /\ SuspendedOther(m) =>
                 /\ cur_mod \in Mods /\ cur_mod # m /\ q[cur_mod] # <<>>
                 /\ cur[cur_mod] = q[cur_mod][Len(q[cur_mod])]
           /\ \A k \in Mods : cur[k] # Null => k = m \/ (SuspendedOther(m) /\ k = cur_mod)
           /\ \A i : i \in Gone(m) <=> \/ SuspendedOther(m) /\ i = cur[cur_mod]
                                       \/ \E j \in 1 .. Len(q[m]) : i = q[m][j]
<1>0. /\ TypeOK /\ Lists(q) /\ Current(q) /\ Null \notin Mods
      /\ q[m] \in Seq(Slots) /\ Len(q[m]) \in Nat
  BY Parts
<1>1. SuspendedOther(m) =>
         /\ cur_mod \in Mods /\ cur_mod # m /\ q[cur_mod] # <<>>
         /\ cur[cur_mod] = q[cur_mod][Len(q[cur_mod])]
  BY <1>0 DEF SuspendedOther, Current, TypeOK
<1>2. \A k \in Mods : cur[k] # Null => k = m \/ (SuspendedOther(m) /\ k = cur_mod)
  BY <1>0 DEF SuspendedOther, Current
<1>3. ToSet(List(m)) = {q[m][j] : j \in 1 .. Len(q[m])}
  <2>1. List(m) = q[m]
    BY <1>0, ListIs
  <2>2. DOMAIN q[m] = 1 .. Len(q[m])
    BY <1>0, LenProperties
  <2>q. QED BY <2>1, <2>2 DEF ToSet
<1>q. QED BY <1>1, <1>2, <1>3 DEF Gone

\* What is left to do of it.
LEMMA OtherNode ==
    ASSUME NEW q \in [Mods -> Seq(Slots)], Inv(q), NEW m \in Mods, SuspendedOther(m),
           NEW c, c = cur[cur_mod]
    PROVE  /\ c \in Slots /\ node[c].used /\ node[c].addr \in Sectors /\ node[c].addr[1] = cur_mod
           /\ WriteNode(c) =>
                 /\ Worked(cur_mod, c, flash[node[c].addr]) = wanted[node[c].addr]
                 /\ \A j \in Slots : node[j].used /\ node[j].addr = node[c].addr => j = c
<1>1. PICK o : o = cur_mod
  OBVIOUS
<1>2. o \in Mods /\ q[o] # <<>> /\ c = q[o][Len(q[o])]
  BY <1>1, OtherIs
<1>3. /\ c \in Slots /\ node[c].used /\ node[c].addr \in Sectors /\ node[c].addr[1] = o
      /\ WriteNode(c) =>
            /\ Worked(o, c, flash[node[c].addr]) = wanted[node[c].addr]
            /\ \A j \in Slots : node[j].used /\ node[j].addr = node[c].addr => j = c
  BY <1>2, Oldest
<1>q. QED BY <1>1, <1>3

\* The nodes worked off are the oldest of their lists.
LEMMA SyncCuts ==
    ASSUME NEW q \in [Mods -> Seq(Slots)], Inv(q), NEW m \in Mods, Emptied(m, TRUE)
    PROVE  Gone(m) \in SUBSET Slots /\ \E x \in [Mods -> Seq(Slots)] : CutTo(q, x, Gone(m))
<1>0. /\ Lists(q) /\ \A k \in Mods : q[k] \in Seq(Slots) /\ Len(q[k]) \in Nat
      /\ \A k \in Mods : \A j \in 1 .. Len(q[k]) : q[k][j] \in Slots
      /\ \A k \in Mods : \A j \in 1 .. Len(q[k]) : node[q[k][j]].addr[1] = k
  <2>1. Lists(q)
    BY Parts
  <2>2. \A k \in Mods : \A j \in 1 .. Len(q[k]) : node[q[k][j]].addr[1] = k
    BY <2>1 DEF Lists
  <2>q. QED BY <2>1, <2>2, Parts
<1>1. PICK o : o = cur_mod
  OBVIOUS
<1>2. PICK c : c = cur[cur_mod]
  OBVIOUS
<1>3. /\ SuspendedOther(m) => o \in Mods /\ o # m /\ q[o] # <<>> /\ c = q[o][Len(q[o])]
      /\ \A i : i \in Gone(m) <=> \/ SuspendedOther(m) /\ i = c
                                  \/ \E j \in 1 .. Len(q[m]) : i = q[m][j]
  BY <1>1, <1>2, OtherIs
<1>4. SuspendedOther(m) =>
         /\ Len(q[o]) \in 1 .. Len(q[o]) /\ c \in Slots /\ node[c].addr[1] = o
         /\ \A j \in 1 .. Len(q[o]) : q[o][j] = c => j = Len(q[o])
         /\ \A k \in Mods : \A j \in 1 .. Len(q[k]) : q[k][j] = c => k = o
  BY <1>3, Oldest
<1>5. Gone(m) \in SUBSET Slots
  BY <1>0, <1>3, <1>4
<1>6. SuspendedOther(m) => \E z \in Seq(Slots) :
         /\ Len(z) = Len(q[o]) - 1 /\ \A j \in 1 .. Len(z) : z[j] = q[o][j]
  <2>1. ASSUME SuspendedOther(m)
        PROVE  \E z \in Seq(Slots) : /\ Len(z) = Len(q[o]) - 1
                                     /\ \A j \in 1 .. Len(z) : z[j] = q[o][j]
    <3>0. PICK l \in Nat : l = Len(q[o])
      BY <1>0, <1>3, <2>1
    <3>1. PICK n \in Nat : n = Len(q[o]) - 1
      <4>1. l \in 1 .. l
        BY <1>4, <2>1, <3>0
      <4>2. l - 1 \in Nat
        BY <4>1
      <4>q. QED BY <3>0, <4>2
    <3>2. \A j \in 1 .. n : q[o][j] \in Slots
      BY <1>0, <1>3, <2>1, <3>1
    <3>3. 1 \in Int /\ n \in Int
      BY <3>1
    <3>4. /\ SubSeq(q[o], 1, n) \in Seq(Slots)
          /\ Len(SubSeq(q[o], 1, n)) = IF 1 <= n THEN n - 1 + 1 ELSE 0
          /\ \A j \in 1 .. n - 1 + 1 : SubSeq(q[o], 1, n)[j] = q[o][1 + j - 1]
      BY <3>2, <3>3, SubSeqProperties
    <3>5. n - 1 + 1 = n /\ (~(1 <= n) => n = 0) /\ \A j \in 1 .. n : 1 + j - 1 = j
      <4>1. n \in Nat
        BY <3>1
      <4>q. QED BY <4>1
    <3>q. QED BY <3>1, <3>4, <3>5
  <2>q. QED BY <2>1
<1>7. PICK z \in Seq(Slots) : SuspendedOther(m) =>
         /\ Len(z) = Len(q[o]) - 1 /\ \A j \in 1 .. Len(z) : z[j] = q[o][j]
  <2>1. <<>> \in Seq(Slots)
    OBVIOUS
  <2>q. QED BY <1>6, <2>1
<1>8. PICK x : x = [k \in Mods |-> IF k = m THEN <<>> ELSE IF SuspendedOther(m) /\ k = o THEN z ELSE q[k]]
  OBVIOUS
<1>9. x \in [Mods -> Seq(Slots)]
  BY <1>0, <1>7, <1>8
<1>10. ASSUME NEW k \in Mods
       PROVE  /\ Len(x[k]) <= Len(q[k]) /\ \A j \in 1 .. Len(x[k]) : x[k][j] = q[k][j]
              /\ \A j \in 1 .. Len(q[k]) : q[k][j] \in Gone(m) <=> j > Len(x[k])
  <2>1. CASE k = m
    <3>1. x[k] = <<>> /\ Len(x[k]) = 0
      BY <1>8, <2>1
    <3>2. \A j \in 1 .. Len(q[k]) : q[k][j] \in Gone(m) /\ j > 0
      BY <1>0, <1>3, <2>1
    <3>q. QED BY <1>0, <3>1, <3>2
  <2>2. CASE SuspendedOther(m) /\ k = o
    <3>1. k # m /\ x[k] = z
      BY <1>3, <1>8, <2>2
    <3>2. ASSUME NEW j \in 1 .. Len(q[k]) PROVE q[k][j] \in Gone(m) <=> q[k][j] = c
      BY <1>0, <1>3, <2>2, <3>1
    <3>3. PICK n \in Nat : n = Len(q[k])
      BY <1>0
    <3>4. n \in 1 .. n /\ Len(z) = n - 1 /\ \A j \in 1 .. n : q[k][j] = c <=> j = n
      BY <1>3, <1>4, <1>7, <2>2, <3>3
    <3>5. Len(z) <= n /\ \A j \in 1 .. n : (j = n <=> j > Len(z))
      BY <3>4
    <3>q. QED BY <1>7, <2>2, <3>1, <3>2, <3>3, <3>4, <3>5
  <2>3. CASE k # m /\ ~(SuspendedOther(m) /\ k = o)
    <3>1. x[k] = q[k]
      BY <1>8, <2>3
    <3>2. ASSUME NEW j \in 1 .. Len(q[k]) PROVE q[k][j] \notin Gone(m)
      BY <1>0, <1>3, <1>4, <2>3
    <3>q. QED BY <1>0, <3>1, <3>2
  <2>q. QED BY <2>1, <2>2, <2>3
<1>11. /\ node' = [i \in Slots |->
                      IF i \in Gone(m) THEN FreeNode
                      ELSE [node[i] EXCEPT !.next = IF @ \in Gone(m) THEN Null ELSE @]]
       /\ head' = [k \in Mods |-> IF head[k] \in Gone(m) THEN Null ELSE head[k]]
  BY DEF Emptied, Gone
<1>12. CutTo(q, x, Gone(m))
  BY <1>10, <1>11 DEF CutTo
<1>q. QED BY <1>5, <1>9, <1>12

\* norflash_api_erase and norflash_api_write with async = false.
LEMMA SyncKeeps ==
    ASSUME Product, NEW q \in [Mods -> Seq(Slots)], Inv(q), NEW r \in Requests, SyncRequest(r)
    PROVE  IInv'
<1>1. PICK m : m = r.addr[1]
  OBVIOUS
<1>2. PICK s \in Sectors : s = r.addr
  BY RequestIs
<1>0. /\ TypeOK /\ Lists(q) /\ Pools /\ Current(q) /\ Waiting /\ m \in Mods /\ s[1] = m
      /\ (allowed_cb => CpUses) /\ r.type \in {"erase", "write"}
      /\ node \in [Slots -> NodeSet] /\ cur \in [Mods -> Slots \cup {Null}]
      /\ Null \notin Slots /\ Null \notin Sectors
      /\ flash \in [Sectors -> [Pages -> Content]] /\ wanted \in [Sectors -> [Pages -> Content]]
      /\ job \in [Mods -> [req : Requests, phase : {"flush", "retry"}] \cup {Null}]
      /\ \A j \in Slots : node[j].type \in {"erase", "write"}
      /\ \A j \in 1 .. Len(q[m]) : q[m][j] \in Slots
  BY <1>1, <1>2, Parts, RequestIs
<1>3. /\ m \in SyncMods /\ job[m] = Null /\ ops < MaxOps /\ ops' = ops + 1
      /\ r.type = "erase" \/ OnErasedPages(r)
      /\ cur_mod' = cur_mod /\ cur_mod_id' = cur_mod_id /\ job' = job
      /\ wanted' = [wanted EXCEPT ![s] = Applied(wanted[s], r)]
  BY <1>1, <1>2 DEF SyncRequest, Granted, turn
<1>4. ~allowed_cb
  BY <1>0, <1>3 DEF Product
<1>5. allowed_cb' = FALSE /\ SyncDone(r, TRUE)
  BY <1>4 DEF SyncRequest, FlushAllowed, FlushForbidden
<1>6. Emptied(m, TRUE)
  BY <1>1, <1>5 DEF SyncDone
<1>7. PICK G : G = Gone(m)
  OBVIOUS
<1>8. G \in SUBSET Slots /\ \E x \in [Mods -> Seq(Slots)] : CutTo(q, x, G)
  BY <1>0, <1>6, <1>7, SyncCuts
<1>9. PICK x \in [Mods -> Seq(Slots)] : CutTo(q, x, G)
  BY <1>8
<1>10. PICK c : c = cur[cur_mod]
  OBVIOUS
<1>11. /\ SuspendedOther(m) =>
             /\ cur_mod \in Mods /\ cur_mod # m /\ q[cur_mod] # <<>>
             /\ c = q[cur_mod][Len(q[cur_mod])]
       /\ \A k \in Mods : cur[k] # Null => k = m \/ (SuspendedOther(m) /\ k = cur_mod)
       /\ \A i : i \in G <=> \/ SuspendedOther(m) /\ i = c
                             \/ \E j \in 1 .. Len(q[m]) : i = q[m][j]
  <2>1. m \in Mods
    BY <1>0
  <2>2. /\ SuspendedOther(m) =>
              /\ cur_mod \in Mods /\ cur_mod # m /\ q[cur_mod] # <<>>
              /\ cur[cur_mod] = q[cur_mod][Len(q[cur_mod])]
        /\ \A k \in Mods : cur[k] # Null => k = m \/ (SuspendedOther(m) /\ k = cur_mod)
        /\ \A i : i \in Gone(m) <=> \/ SuspendedOther(m) /\ i = cur[cur_mod]
                                    \/ \E j \in 1 .. Len(q[m]) : i = q[m][j]
    BY <2>1, OtherIs
  <2>q. QED BY <1>7, <1>10, <2>2
<1>12. SuspendedOther(m) =>
          /\ c \in Slots /\ node[c].used /\ node[c].addr \in Sectors /\ node[c].addr[1] = cur_mod
          /\ WriteNode(c) =>
                /\ Worked(cur_mod, c, flash[node[c].addr]) = wanted[node[c].addr]
                /\ \A j \in Slots : node[j].used /\ node[j].addr = node[c].addr => j = c
  BY <1>0, <1>10, OtherNode
<1>13. \A j \in 1 .. Len(q[m]) : node[q[m][j]].used /\ node[q[m][j]].addr[1] = m
  BY <1>0 DEF Lists
<1>14. Applied(wanted[s], r) \in [Pages -> Content]
  <2>1. CASE r.type = "erase"
    BY <2>1, BlankIs DEF Applied, Content
  <2>2. CASE r.type = "write"
    <3>1. OnErasedPages(r) /\ wanted[s] \in [Pages -> Content]
      BY <1>0, <1>3, <2>2
    <3>q. QED BY <1>2, <2>2, <3>1, AppliedIs DEF OnErasedPages
  <2>q. QED BY <1>0, <2>1, <2>2
<1>15. /\ wanted' \in [Sectors -> [Pages -> Content]]
       /\ wanted'[s] = Applied(wanted[s], r) /\ \A t \in Sectors : t # s => wanted'[t] = wanted[t]
  BY <1>0, <1>3, <1>14
<1>16. PICK D : D = Drained(m)
  OBVIOUS
<1>17. /\ D \in [Sectors -> [Pages -> Content]]
       /\ \A t \in Sectors : D[t] = IF t[1] = m THEN wanted[t] ELSE flash[t]
  BY <1>0, <1>16, DrainedIs
<1>18. PICK A : A = [D EXCEPT ![s] = Applied(D[s], r)]
  OBVIOUS
<1>19. /\ A \in [Sectors -> [Pages -> Content]]
       /\ \A t \in Sectors : A[t] = IF t[1] = m THEN wanted'[t] ELSE flash[t]
  <2>1. D[s] = wanted[s]
    BY <1>0, <1>17
  <2>q. QED BY <1>0, <1>14, <1>15, <1>17, <1>18, <2>1
<1>20. flash' = IF FirstFinished(m).addr = Null THEN A
                ELSE [A EXCEPT ![FirstFinished(m).addr] = FirstFinished(m).data]
  BY <1>1, <1>2, <1>5, <1>16, <1>18 DEF SyncDone
<1>21. ~SuspendedOther(m) => flash' = A
  BY <1>20 DEF FirstFinished
<1>22. SuspendedOther(m) => flash' = [A EXCEPT ![node[c].addr] = Worked(cur_mod, c, flash[node[c].addr])]
  <2>1. ASSUME SuspendedOther(m)
        PROVE  flash' = [A EXCEPT ![node[c].addr] = Worked(cur_mod, c, flash[node[c].addr])]
    <3>1. /\ FirstFinished(m).addr = node[c].addr
          /\ FirstFinished(m).data = Worked(cur_mod, c, flash[node[c].addr])
      BY <1>10, <2>1 DEF FirstFinished
    <3>2. FirstFinished(m).addr # Null
      BY <1>0, <1>12, <2>1, <3>1
    <3>q. QED BY <1>20, <3>1, <3>2
  <2>q. QED BY <2>1
<1>23. SuspendedOther(m) /\ EraseNode(c) =>
          Worked(cur_mod, c, flash[node[c].addr]) = Blank(Erased) /\ ~WriteNode(c)
  BY DEF EraseNode, WriteNode, Worked
<1>24. SuspendedOther(m) => EraseNode(c) \/ WriteNode(c)
  BY <1>0, <1>12 DEF EraseNode, WriteNode
<1>25. flash' \in [Sectors -> [Pages -> Content]]
  <2>1. CASE ~SuspendedOther(m)
    BY <1>19, <1>21, <2>1
  <2>2. CASE SuspendedOther(m)
    <3>1. Worked(cur_mod, c, flash[node[c].addr]) \in [Pages -> Content]
      BY <1>0, <1>12, <1>23, <1>24, <2>2, BlankIs DEF Content
    <3>q. QED BY <1>12, <1>19, <1>22, <2>2, <3>1
  <2>q. QED BY <2>1, <2>2
<1>26. ASSUME NEW t \in Sectors PROVE Settled(t, G) \/ StillQueued(t, G)
  <2>1. CASE t[1] = m
    <3>1. flash'[t] = wanted'[t]
      BY <1>11, <1>12, <1>19, <1>21, <1>22, <2>1
    <3>2. ASSUME NEW i \in Slots, node[i].used, node[i].addr = t PROVE i \in G
      <4>1. \E j \in 1 .. Len(q[m]) : q[m][j] = i
        <5>1. \E j \in 1 .. Len(q[node[i].addr[1]]) : q[node[i].addr[1]][j] = i
          BY <1>0, <3>2, OnList
        <5>q. QED BY <2>1, <3>2, <5>1
      <4>q. QED BY <1>11, <4>1
    <3>q. QED BY <3>1, <3>2 DEF Settled
  <2>2. CASE t[1] # m
    <3>1. wanted'[t] = wanted[t] /\ A[t] = flash[t]
      BY <1>0, <1>15, <1>19, <2>2
    <3>2. ASSUME NEW i \in G, node[i].addr = t PROVE SuspendedOther(m) /\ i = c
      BY <1>11, <1>13, <2>2, <3>2
    <3>3. CASE ~(SuspendedOther(m) /\ t = node[c].addr)
      <4>1. flash'[t] = flash[t]
        BY <1>12, <1>19, <1>21, <1>22, <3>1, <3>3
      <4>q. QED BY <3>1, <3>2, <3>3, <4>1 DEF StillQueued
    <3>4. CASE SuspendedOther(m) /\ t = node[c].addr
      <4>1. flash'[t] = Worked(cur_mod, c, flash[t]) /\ c \in G
        BY <1>11, <1>12, <1>19, <1>22, <3>4
      <4>2. CASE EraseNode(c)
        <5>1. \A i \in G : ~(WriteNode(i) /\ node[i].addr = t)
          BY <1>23, <3>2, <3>4, <4>2
        <5>2. flash'[t] = Blank(Erased) /\ \E i \in G : EraseNode(i) /\ node[i].addr = t
          BY <1>23, <3>4, <4>1, <4>2
        <5>q. QED BY <3>1, <5>1, <5>2 DEF StillQueued
      <4>3. CASE WriteNode(c)
        BY <1>12, <3>1, <3>4, <4>1, <4>3 DEF Settled
      <4>q. QED BY <1>24, <3>4, <4>2, <4>3
    <3>q. QED BY <3>3, <3>4
  <2>q. QED BY <2>1, <2>2
<1>27. PICK idle : idle = (IF SuspendedOther(m) THEN {cur_mod} ELSE {}) \cup {m}
  OBVIOUS
<1>28. /\ buff' = FreeBuffers(G)
       /\ cur' = [k \in Mods |-> IF k \in idle THEN Null ELSE cur[k]]
       /\ state' = [k \in Mods |-> IF k \in idle THEN "IDLE" ELSE state[k]]
       /\ next_page' = [k \in Mods |-> IF k \in idle THEN 0 ELSE next_page[k]]
  BY <1>6, <1>7, <1>27 DEF Emptied, Gone
<1>29. ASSUME NEW k \in Mods
       PROVE  /\ \/ /\ cur'[k] = cur[k] /\ state'[k] = state[k] /\ next_page'[k] = next_page[k]
                    /\ cur[k] \notin G
                 \/ cur'[k] = Null /\ state'[k] = "IDLE" /\ cur[k] \in G \cup {Null}
              /\ cur'[k] = Null
  <2>1. CASE k \in idle
    <3>1. cur'[k] = Null /\ state'[k] = "IDLE"
      BY <1>28, <2>1
    <3>2. CASE SuspendedOther(m) /\ k = cur_mod
      BY <1>10, <1>11, <3>1, <3>2
    <3>3. CASE k = m
      <4>1. cur[m] # Null => q[m] # <<>> /\ cur[m] = q[m][Len(q[m])]
        BY <1>0 DEF Current
      <4>2. q[m] # <<>> => Len(q[m]) \in 1 .. Len(q[m])
        BY <1>0, EmptySeq, Parts
      <4>q. QED BY <1>11, <3>1, <3>3, <4>1, <4>2
    <3>q. QED BY <1>27, <2>1, <3>2, <3>3
  <2>2. CASE k \notin idle
    <3>1. cur[k] = Null
      BY <1>11, <1>27, <2>2
    <3>2. Null \notin G
      BY <1>0, <1>8
    <3>q. QED BY <1>28, <2>2, <3>1, <3>2
  <2>q. QED BY <2>1, <2>2
<1>30. \A i \in G : node[i].used
  BY <1>11, <1>12, <1>13
<1>31. DoneWith(G)
  BY <1>26, <1>28, <1>29, <1>30 DEF DoneWith
<1>32. /\ Lists(x)' /\ Pools' /\ Current(x)' /\ Contents'
       /\ node' \in [Slots -> NodeSet] /\ head' \in [Mods -> Slots \cup {Null}]
       /\ buff' \in [Buffs -> [Pages -> Content] \cup {Null}]
       /\ \A t : (HasErase(t)' => HasErase(t)) /\ (HasWrite(t)' => HasWrite(t))
  BY <1>8, <1>9, <1>31, WorkDone
<1>33. TypeOK'
  <2>1. /\ cur \in [Mods -> Slots \cup {Null}] /\ next_page \in [Mods -> 0 .. NPages]
        /\ state \in [Mods -> {"IDLE", "WRITTING_SUSPEND", "ERASE_SUSPEND"}]
        /\ ops \in 0 .. MaxOps /\ NPages \in Nat /\ MaxOps \in Nat
    BY <1>0, SizeAssumption DEF TypeOK
  <2>2. ops' \in 0 .. MaxOps
    BY <1>3, <2>1
  <2>3. /\ cur' \in [Mods -> Slots \cup {Null}] /\ next_page' \in [Mods -> 0 .. NPages]
        /\ state' \in [Mods -> {"IDLE", "WRITTING_SUSPEND", "ERASE_SUSPEND"}]
    BY <1>28, <2>1
  <2>q. QED BY <1>0, <1>3, <1>5, <1>15, <1>25, <1>32, <2>2, <2>3 DEF TypeOK
<1>34. Waiting'
  <2>1. \A k \in Mods : job'[k] # Null => k # m
    BY <1>3
  <2>2. \A t \in Sectors : t[1] # m => wanted'[t] = wanted[t]
    BY <1>0, <1>15
  <2>q. QED BY <1>0, <1>3, <1>32, <2>1, <2>2, WaitingStays
<1>q. QED BY <1>5, <1>32, <1>33, <1>34 DEF IInv, Inv
-----------------------------------------------------------------------------
(* The invariant holds throughout.                                         *)

\* Every step of a client, of the sleep hook and of the flash keeps it.
LEMMA NextKeeps ==
    ASSUME Product, IInv, [Next]_vars
    PROVE  IInv'
<1>0. PICK q \in [Mods -> Seq(Slots)] : Inv(q)
  BY DEF IInv
<1>1. ASSUME UNCHANGED <<lists, progress, turn, flash, wanted>>, job' = job, ops' = ops,
             allowed_cb' \in BOOLEAN, allowed_cb' => CpUses
      PROVE  IInv'
  <2>1. UNCHANGED <<lists, progress, flash, wanted>> /\ cur_mod' = cur_mod
    BY <1>1 DEF turn
  <2>2. /\ Lists(q)' /\ Pools' /\ Contents' /\ Current(q)'
        /\ \A s : (HasErase(s)' <=> HasErase(s)) /\ (HasWrite(s)' <=> HasWrite(s))
    BY <1>0, <2>1, Unmoved
  <2>3. TypeOK'
    BY <1>0, <1>1, Parts DEF TypeOK, lists, progress, turn
  <2>4. Waiting'
    BY <1>0, <1>1, <2>2, Parts, WaitingStays
  <2>q. QED BY <1>1, <2>2, <2>3, <2>4 DEF IInv, Inv
<1>2. CASE UNCHANGED vars
  <2>1. UNCHANGED <<lists, progress, turn, flash, wanted>> /\ job' = job /\ ops' = ops
        /\ allowed_cb' = allowed_cb
    BY <1>2 DEF vars, lists, progress, turn
  <2>2. allowed_cb' \in BOOLEAN /\ (allowed_cb' => CpUses)
    BY <1>0, <2>1, Parts DEF TypeOK
  <2>q. QED BY <1>1, <2>1, <2>2
<1>3. CASE norflash_api_flush_disable \/ norflash_api_flush_enable
  <2>1. UNCHANGED <<lists, progress, turn, flash, wanted>> /\ job' = job /\ ops' = ops
    BY <1>3 DEF norflash_api_flush_disable, norflash_api_flush_enable
  <2>2. allowed_cb' \in BOOLEAN /\ (allowed_cb' => CpUses)
    BY <1>3 DEF norflash_api_flush_disable, norflash_api_flush_enable
  <2>q. QED BY <1>1, <2>1, <2>2
<1>4. CASE norflash_api_flush
  BY <1>0, <1>4, Parts, FlushKeeps DEF norflash_api_flush
<1>5. ASSUME NEW m \in Mods, app_flush_pending_flash_op(m) PROVE IInv'
  <2>1. /\ Flush /\ wanted' = wanted /\ ops' = ops /\ job[m] # Null
        /\ job' = job \/ job' = [job EXCEPT ![m].phase = "retry"]
    BY <1>5 DEF app_flush_pending_flash_op
  <2>2. job \in [Mods -> [req : Requests, phase : {"flush", "retry"}] \cup {Null}]
    BY <1>0, Parts
  <2>3. job[m] \in [req : Requests, phase : {"flush", "retry"}]
    BY <2>1, <2>2
  <2>4. job' \in [Mods -> [req : Requests, phase : {"flush", "retry"}] \cup {Null}]
    BY <2>1, <2>2, <2>3
  <2>5. \A k \in Mods : job'[k] # Null => job[k] # Null /\ job'[k].req = job[k].req
    BY <2>1, <2>2, <2>3
  <2>q. QED BY <1>0, <2>1, <2>4, <2>5, FlushKeeps
<1>q. QED BY <1>0, <1>2, <1>3, <1>4, <1>5, RequestKeeps, SyncKeeps, RetryKeeps DEF Next

\* Nodes in use are those on the lists, the suspended operation is the oldest
\* of the module at work, and flash, buffer and queue together hold what the
\* accepted requests asked for.
THEOREM Invariance ==
    ASSUME Product
    PROVE  Spec => []IInv
<1>1. Init => IInv
  BY InitHolds
<1>2. IInv /\ [Next]_vars => IInv'
  BY NextKeeps
<1>q. QED BY <1>1, <1>2, PTL DEF Spec

\* The state of the queue keeps its types.
THEOREM TypeCorrectness ==
    ASSUME Product
    PROVE  Spec => []TypeOK
<1>1. IInv => TypeOK
  BY DEF IInv, Inv
<1>q. QED BY <1>1, Invariance, PTL

\* norflash_api.cpp neither leaks nor frees twice: the nodes in use are those
\* on the lists, each on one list once, and the buffer in use is that of the
\* queued write.
THEOREM PoolsIntact ==
    ASSUME Product
    PROVE  Spec => []Linked
<1>1. ASSUME IInv PROVE Linked
  <2>0. PICK q \in [Mods -> Seq(Slots)] : Inv(q)
    BY <1>1 DEF IInv
  <2>1. /\ TypeOK /\ Lists(q) /\ Pools
        /\ \A m \in Mods : q[m] \in Seq(Slots) /\ DOMAIN q[m] = 1 .. Len(q[m])
    BY <2>0, Parts, LenProperties
  <2>2. \A m \in Mods : List(m) = q[m] /\ ToSet(List(m)) = {q[m][k] : k \in 1 .. Len(q[m])}
    BY <2>1, ListIs DEF ToSet
  <2>3. \A m \in Mods : IsInjective(List(m))
    BY <2>1, <2>2 DEF IsInjective, Lists
  <2>4. \A m \in Mods : \A i \in ToSet(List(m)) : node[i].used /\ node[i].addr[1] = m
    BY <2>1, <2>2 DEF Lists
  <2>5. ASSUME NEW i \in Slots, node[i].used PROVE i \in ToSet(List(node[i].addr[1]))
    <3>1. node[i].addr[1] \in Mods /\ \E k \in 1 .. Len(q[node[i].addr[1]]) : q[node[i].addr[1]][k] = i
      BY <2>1, <2>5, OnList
    <3>q. QED BY <2>2, <3>1
  <2>6. ASSUME NEW b \in Buffs
        PROVE  buff[b] # Null <=>
                  \E i \in Slots : node[i].used /\ node[i].type = "write" /\ node[i].buff = b
    <3>1. Buffs = {1}
      BY DEF Product, Buffs
    <3>q. QED BY <2>1, <3>1 DEF Pools, WriteNode
  <2>q. QED BY <2>3, <2>4, <2>5, <2>6 DEF Linked
<1>q. QED BY <1>1, Invariance, PTL

\* Worked off in their order, the queued operations leave every sector as the
\* accepted requests, in the order they were made, would have left it.
THEOREM QueueInOrder ==
    ASSUME Product
    PROVE  Spec => []InOrder
<1>1. ASSUME IInv PROVE InOrder
  <2>0. PICK q \in [Mods -> Seq(Slots)] : Inv(q)
    BY <1>1 DEF IInv
  <2>1. ASSUME NEW s \in Sectors PROVE Drained(s[1])[s] = wanted[s]
    <3>1. s[1] \in Mods
      BY SectorAssumption
    <3>q. QED BY <2>0, <3>1, DrainedIs
  <2>q. QED BY <2>1 DEF InOrder
<1>q. QED BY <1>1, Invariance, PTL

\* norflash_api_read returns what the latest accepted requests made of the
\* page, whether they are queued, half done or finished.
THEOREM LatestIsRead ==
    ASSUME Product
    PROVE  Spec => []ReadsLatest
<1>1. ASSUME IInv PROVE ReadsLatest
  <2>0. PICK q \in [Mods -> Seq(Slots)] : Inv(q)
    BY <1>1 DEF IInv
  <2>1. ASSUME NEW s \in Sectors, NEW p \in Pages PROVE Read(s, p) = wanted[s][p]
    <3>0. /\ TypeOK /\ Lists(q) /\ Contents /\ s[1] \in Mods /\ Null \notin Slots
          /\ \A k \in 1 .. Len(q[s[1]]) : q[s[1]][k] \in Slots /\ node[q[s[1]][k]].used
          /\ \A i \in Slots : node[i].type \in {"erase", "write"}
          /\ Len(q[s[1]]) \in Nat
      <4>1. s[1] \in Mods
        BY SectorAssumption
      <4>2. Lists(q)
        BY <2>0, Parts
      <4>3. \A k \in 1 .. Len(q[s[1]]) : node[q[s[1]][k]].used
        BY <4>1, <4>2 DEF Lists
      <4>q. QED BY <2>0, <4>1, <4>2, <4>3, Parts
    <3>1. PICK n : n = Newest(s[1], NodesOf(s))
      OBVIOUS
    <3>2. Read(s, p) = IF n = Null THEN flash[s][p]
                       ELSE IF node[n].type = "write" THEN buff[node[n].buff][p] ELSE Erased
      BY <3>1 DEF Read
    <3>3. CASE n = Null
      <4>1. \A i \in Slots : ~(node[i].used /\ node[i].addr = s)
        BY <2>0, <3>1, <3>3, NoNodes
      <4>2. ~HasWrite(s) /\ ~HasErase(s)
        BY <4>1 DEF HasWrite, HasErase, WriteNode, EraseNode
      <4>3. flash[s] = wanted[s]
        BY <3>0, <4>2 DEF Contents, Base
      <4>q. QED BY <3>2, <3>3, <4>3
    <3>4. CASE n # Null
      <4>1. PICK k \in 1 .. Len(q[s[1]]) :
               /\ n = q[s[1]][k] /\ q[s[1]][k] \in NodesOf(s)
               /\ \A j \in 1 .. k - 1 : q[s[1]][j] \notin NodesOf(s)
        BY <3>0, <3>1, <3>4, NewestIs
      <4>2. n \in Slots /\ node[n].used /\ node[n].addr = s
        BY <3>0, <4>1 DEF NodesOf
      <4>3. CASE node[n].type = "write"
        BY <3>0, <3>2, <3>4, <4>2, <4>3 DEF Contents, WriteNode
      <4>4. CASE node[n].type = "erase"
        <5>1. EraseNode(n) /\ HasErase(s)
          BY <4>2, <4>4 DEF EraseNode, HasErase
        <5>2. ASSUME NEW w \in Slots, WriteNode(w), node[w].addr = s PROVE FALSE
          <6>1. PICK j \in 1 .. Len(q[s[1]]) : q[s[1]][j] = w
            BY <3>0, <5>2, OnList DEF WriteNode
          <6>2. j < k
            BY <3>0, <4>1, <4>2, <5>1, <5>2, <6>1 DEF Lists
          <6>3. j \in 1 .. k - 1
            BY <3>0, <4>1, <6>1, <6>2
          <6>q. QED BY <4>1, <5>2, <6>1, <6>3 DEF NodesOf
        <5>3. ~HasWrite(s)
          BY <5>2 DEF HasWrite
        <5>4. wanted[s] = Blank(Erased)
          BY <3>0, <5>1, <5>3 DEF Contents, Base
        <5>q. QED BY <3>2, <3>4, <4>4, <5>4 DEF Blank
      <4>q. QED BY <3>0, <4>2, <4>3, <4>4
    <3>q. QED BY <3>3, <3>4
  <2>q. QED BY <2>1 DEF ReadsLatest, norflash_api_read
<1>q. QED BY <1>1, Invariance, PTL

\* One step of a flush while module m has a suspended operation.
LEMMA FlushOnCurrent ==
    ASSUME IInv, Flush, NEW m \in Mods, state[m] # "IDLE", NEW s \in Sectors, flash'[s] # flash[s]
    PROVE  s = node[cur[m]].addr
<1>0. PICK q \in [Mods -> Seq(Slots)] : Inv(q)
  BY DEF IInv
<1>1. cur[m] # Null /\ cur_mod = m /\ flash \in [Sectors -> [Pages -> Content]] /\ m # Null
  BY <1>0, Parts DEF Current
<1>2. FlushWork(m) /\ Busy(m)
  BY <1>1 DEF Flush, FlushWork, Idle
<1>3. PICK i : i = cur[m]
  OBVIOUS
<1>4. Finished(m, i) \/ Suspended(m, i)
  BY <1>1, <1>2, <1>3 DEF FlushWork
<1>5. \E v : flash' = [flash EXCEPT ![node[i].addr] = v]
  BY <1>4 DEF Finished, Suspended
<1>q. QED BY <1>1, <1>3, <1>5

\* While an operation is suspended in the flash, nothing else touches the
\* flash: neither a flush nor a synchronous request of another module.
THEOREM OneOperationAtATime ==
    ASSUME Product
    PROVE  Spec => DeviceBusy
<1> DEFINE A == \A m \in Mods : state[m] # "IDLE" /\ state'[m] # "IDLE" =>
                    \A s \in Sectors : flash'[s] # flash[s] => s = node[cur[m]].addr
<1>1. ASSUME IInv, Next PROVE A
  <2>0. PICK q \in [Mods -> Seq(Slots)] : Inv(q)
    BY <1>1 DEF IInv
  <2>1. SUFFICES ASSUME NEW m \in Mods, state[m] # "IDLE", state'[m] # "IDLE",
                        NEW s \in Sectors, flash'[s] # flash[s]
                 PROVE  s = node[cur[m]].addr
    OBVIOUS
  <2>2. ASSUME NEW r \in Requests, SyncRequest(r) PROVE FALSE
    <3>1. PICK k : k = r.addr[1]
      OBVIOUS
    <3>2. k \in SyncMods /\ ~allowed_cb
      BY <2>0, <2>2, <3>1, Parts DEF SyncRequest, Product
    <3>3. Emptied(k, TRUE)
      BY <2>2, <3>1, <3>2 DEF SyncRequest, FlushForbidden, SyncDone
    <3>4. state'[m] = IF m \in (IF SuspendedOther(k) THEN {cur_mod} ELSE {}) \cup {k} THEN "IDLE" ELSE state[m]
      BY <3>3 DEF Emptied
    <3>5. m # Null /\ Current(q)
      BY <2>0, Parts
    <3>6. cur_mod = m
      BY <2>1, <3>5 DEF Current
    <3>7. m # k => SuspendedOther(k)
      BY <2>1, <3>5, <3>6 DEF SuspendedOther
    <3>q. QED BY <2>1, <3>4, <3>6, <3>7
  <2>3. ASSUME Flush PROVE s = node[cur[m]].addr
    BY <1>1, <2>1, <2>3, FlushOnCurrent
  <2>4. ASSUME NEW r \in Requests, Request(r) PROVE FALSE
    BY <2>1, <2>4 DEF Request
  <2>5. ASSUME NEW k \in Mods, Retry(k) PROVE FALSE
    BY <2>1, <2>5 DEF Retry
  <2>6. CASE norflash_api_flush_disable \/ norflash_api_flush_enable
    BY <2>1, <2>6 DEF norflash_api_flush_disable, norflash_api_flush_enable
  <2>q. QED BY <1>1, <2>2, <2>3, <2>4, <2>5, <2>6 DEF Next, norflash_api_flush, app_flush_pending_flash_op
<1>2. IInv /\ [Next]_vars => [A]_vars
  BY <1>1
<1> HIDE DEF A
<1>3. Spec => [][A]_vars
  BY <1>2, Invariance, PTL DEF Spec
<1>q. QED BY <1>3 DEF DeviceBusy, A
=============================================================================
