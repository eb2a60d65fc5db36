------------------------ MODULE DeviceRecordsProofs -------------------------
(***************************************************************************)
(* Proofs about DeviceRecords, for any number of phones, keys and slots:   *)
(* what the copying loops compute, that the array implements the list of   *)
(* RecentDevices, that changes are marked and whose volume is changed.     *)
(***************************************************************************)
EXTENDS DeviceRecords, SetInduction

-----------------------------------------------------------------------------
(* What the loops compute.  Each loop is a recursive function of the       *)
(* number of copies done; its values are given in closed form, and equal   *)
(* the loop's by induction.                                                *)

\* Copying from the end moves n slots up by one and keeps the others.
LEMMA ShiftRightIs ==
    ASSUME NEW X, NEW s \in [Slots -> X], NEW n \in Slots
    PROVE  ShiftRight(s, n) = [i \in Slots |-> IF i \in 1 .. n THEN s[i - 1] ELSE s[i]]
<1> USE SizeAssumption DEF Slots
<1> DEFINE g == [k \in 0 .. n |->
                    [i \in Slots |-> IF n - k + 1 <= i /\ i <= n THEN s[i - 1] ELSE s[i]]]
           Loop(c) == c = [k \in 0 .. n |->
                              IF k = 0 THEN s
                              ELSE [c[k - 1] EXCEPT ![n - k + 1] = c[k - 1][n - k]]]
           copy == CHOOSE c : Loop(c)
<1>1. ShiftRight(s, n) = copy[n]
  BY DEF ShiftRight
<1>2. Loop(g)
  <2>1. ASSUME NEW k \in 0 .. n, k # 0
        PROVE  g[k] = [g[k - 1] EXCEPT ![n - k + 1] = g[k - 1][n - k]]
    <3>1. k - 1 \in 0 .. n
      BY <2>1
    <3>2. /\ g[k] = [i \in Slots |-> IF n - k + 1 <= i /\ i <= n THEN s[i - 1] ELSE s[i]]
          /\ g[k - 1] = [i \in Slots |-> IF n - k + 2 <= i /\ i <= n THEN s[i - 1] ELSE s[i]]
      BY <2>1, <3>1
    <3> HIDE DEF g
    <3>3. n - k \in Slots /\ n - k + 1 \in Slots
      BY <2>1
    <3>4. [g[k - 1] EXCEPT ![n - k + 1] = g[k - 1][n - k]]
             = [i \in Slots |-> IF i = n - k + 1 THEN g[k - 1][n - k] ELSE g[k - 1][i]]
      BY <3>2
    <3>5. g[k - 1][n - k] = s[n - k] /\ s[n - k] = s[(n - k + 1) - 1]
      BY <2>1, <3>2, <3>3
    <3>6. \A i \in Slots : (IF i = n - k + 1 THEN g[k - 1][n - k] ELSE g[k - 1][i])
                             = (IF n - k + 1 <= i /\ i <= n THEN s[i - 1] ELSE s[i])
      BY <2>1, <3>2, <3>5
    <3>q. QED BY <3>2, <3>4, <3>6
  <2>2. g[0] = s
    OBVIOUS
  <2>q. QED BY <2>1, <2>2
<1>3. Loop(copy)
  BY <1>2
<1> HIDE DEF copy
<1>4. n \in Nat /\ copy[0] = g[0]
  BY <1>2, <1>3
<1>5. ASSUME NEW k \in 0 .. n - 1, copy[k] = g[k]
      PROVE  copy[k + 1] = g[k + 1]
  <2> HIDE DEF g
  <2>1. k + 1 \in 0 .. n /\ k + 1 # 0 /\ (k + 1) - 1 = k
    OBVIOUS
  <2>2. copy[k + 1] = [copy[k] EXCEPT ![n - (k + 1) + 1] = copy[k][n - (k + 1)]]
    BY <1>3, <2>1
  <2>3. g[k + 1] = [g[k] EXCEPT ![n - (k + 1) + 1] = g[k][n - (k + 1)]]
    BY <1>2, <2>1
  <2>q. QED BY <1>5, <2>2, <2>3
<1>6. copy[n] = g[n]
  <2> HIDE DEF g, Loop
  <2>1. \A k \in 0 .. n : copy[k] = g[k]
    BY <1>4, <1>5, SameUpTo
  <2>q. QED BY <1>4, <2>1
<1>q. QED BY <1>1, <1>6

\* Records of the right shape, and those whose used slots hold different
\* devices.
Records == [num : 0 .. Count, slot : [Slots -> Entry]]
Used(r) == 0 .. r.num - 1
Proper(r) ==
    /\ r \in Records
    /\ \A i \in Used(r) : r.slot[i].addr \in Devices /\ r.slot[i].key \in Keys
    /\ \A i, j \in Used(r) : r.slot[i].addr = r.slot[j].addr => i = j

\* Copying from slot i + 1 on moves the slots behind i down by one.
LEMMA ShiftLeftIs ==
    ASSUME NEW r \in Records, NEW i \in Used(r)
    PROVE  ShiftLeft(r, i) = [j \in Slots |-> IF j = r.num - 1 THEN Blank
                                              ELSE IF j \in i .. r.num - 2 THEN r.slot[j + 1]
                                              ELSE r.slot[j]]
<1> USE SizeAssumption DEF Slots, Records, Used
<1> DEFINE s == r.slot
           n == r.num - i - 1
           g == [k \in 0 .. n |->
                    [j \in Slots |-> IF i <= j /\ j <= i + k - 1 THEN s[j + 1] ELSE s[j]]]
           Loop(c) == c = [k \in 0 .. n |->
                              IF k = 0 THEN s
                              ELSE [c[k - 1] EXCEPT ![i + k - 1] = c[k - 1][i + k]]]
           copy == CHOOSE c : Loop(c)
<1>0. n \in Nat /\ s \in [Slots -> Entry] /\ i \in Nat /\ i + n < Count /\ n = r.num - i - 1
  OBVIOUS
<1>1. ShiftLeft(r, i) = [copy[n] EXCEPT ![r.num - 1] = Blank]
  BY DEF ShiftLeft
<1> HIDE DEF s, n
<1>2. Loop(g)
  <2>1. ASSUME NEW k \in 0 .. n, k # 0
        PROVE  g[k] = [g[k - 1] EXCEPT ![i + k - 1] = g[k - 1][i + k]]
    <3>1. k - 1 \in 0 .. n /\ i + k \in Slots /\ i + k - 1 \in Slots
      BY <1>0, <2>1
    <3>2. /\ g[k] = [j \in Slots |-> IF i <= j /\ j <= i + k - 1 THEN s[j + 1] ELSE s[j]]
          /\ g[k - 1] = [j \in Slots |-> IF i <= j /\ j <= i + k - 2 THEN s[j + 1] ELSE s[j]]
      BY <2>1, <3>1
    <3> HIDE DEF g
    <3>4. [g[k - 1] EXCEPT ![i + k - 1] = g[k - 1][i + k]]
             = [j \in Slots |-> IF j = i + k - 1 THEN g[k - 1][i + k] ELSE g[k - 1][j]]
      BY <3>2
    <3>5. g[k - 1][i + k] = s[i + k] /\ s[i + k] = s[(i + k - 1) + 1]
      BY <1>0, <2>1, <3>1, <3>2
    <3>6. \A j \in Slots : (IF j = i + k - 1 THEN g[k - 1][i + k] ELSE g[k - 1][j])
                             = (IF i <= j /\ j <= i + k - 1 THEN s[j + 1] ELSE s[j])
      BY <1>0, <2>1, <3>2, <3>5
    <3>q. QED BY <3>2, <3>4, <3>6
  <2>2. g[0] = s
    BY <1>0
  <2>q. QED BY <1>0, <2>1, <2>2
<1>3. Loop(copy)
  BY <1>2
<1> HIDE DEF copy
<1>4. copy[0] = g[0]
  BY <1>0, <1>2, <1>3
<1>5. ASSUME NEW k \in 0 .. n - 1, copy[k] = g[k]
      PROVE  copy[k + 1] = g[k + 1]
  <2> HIDE DEF g
  <2>1. k + 1 \in 0 .. n /\ k + 1 # 0 /\ (k + 1) - 1 = k
    BY <1>0
  <2>2. copy[k + 1] = [copy[k] EXCEPT ![i + (k + 1) - 1] = copy[k][i + (k + 1)]]
    BY <1>3, <2>1
  <2>3. g[k + 1] = [g[k] EXCEPT ![i + (k + 1) - 1] = g[k][i + (k + 1)]]
    BY <1>2, <2>1
  <2>q. QED BY <1>5, <2>2, <2>3
<1>6. copy[n] = g[n]
  <2> HIDE DEF g, Loop, Slots, Records, Used
  <2>1. \A k \in 0 .. n : copy[k] = g[k]
    BY <1>0, <1>4, <1>5, SameUpTo
  <2>q. QED BY <1>0, <2>1
<1>7. n \in 0 .. n /\ g[n] = [j \in Slots |-> IF i <= j /\ j <= i + n - 1 THEN s[j + 1] ELSE s[j]]
  BY <1>0
<1> HIDE DEF g
<1>8. ShiftLeft(r, i) = [[j \in Slots |-> IF i <= j /\ j <= i + n - 1 THEN s[j + 1] ELSE s[j]]
                            EXCEPT ![r.num - 1] = Blank]
  BY <1>1, <1>6, <1>7
<1>9. r.num - 1 \in Slots /\ r.num \in Nat
  OBVIOUS
<1>10. ShiftLeft(r, i) = [j \in Slots |-> IF j = r.num - 1 THEN Blank
                                          ELSE IF i <= j /\ j <= r.num - 2 THEN s[j + 1]
                                          ELSE s[j]]
  <2> DEFINE t == [j \in Slots |-> IF i <= j /\ j <= i + n - 1 THEN s[j + 1] ELSE s[j]]
  <2>1. [t EXCEPT ![r.num - 1] = Blank]
           = [j \in Slots |-> IF j = r.num - 1 THEN Blank ELSE t[j]]
    OBVIOUS
  <2>2. \A j \in Slots : t[j] = IF i <= j /\ j <= r.num - 2 THEN s[j + 1] ELSE s[j]
    BY <1>0, <1>9
  <2> HIDE DEF t
  <2>q. QED BY <1>8, <2>1, <2>2 DEF t
<1>q. QED BY <1>0, <1>9, <1>10 DEF s

-----------------------------------------------------------------------------
(* Looking a device up.                                                    *)

\* The slot of a device is found, and it is the only one.
LEMMA IndexIs ==
    ASSUME NEW r, Proper(r), NEW d
    PROVE  /\ Index(r, d) = -1 \/ (Index(r, d) \in Used(r) /\ r.slot[Index(r, d)].addr = d)
           /\ \A i \in Used(r) : r.slot[i].addr = d => Index(r, d) = i
           /\ Used(r) \subseteq Slots /\ -1 \notin Used(r)
<1>1. r.num \in 0 .. Count /\ Used(r) \subseteq Slots /\ -1 \notin Used(r)
  BY SizeAssumption DEF Proper, Records, Used, Slots
<1>2. ASSUME NEW i \in Used(r), r.slot[i].addr = d
      PROVE  Index(r, d) = i
  <2>1. \A j \in 0 .. i - 1 : r.slot[j].addr # d
    <3>1. ASSUME NEW j \in 0 .. i - 1 PROVE j \in Used(r) /\ j # i
      BY <1>1 DEF Used
    <3>q. QED BY <1>2, <3>1 DEF Proper
  <2>2. \A j \in Used(r) : r.slot[j].addr = d => j = i
    BY <1>2 DEF Proper
  <2>q. QED BY <1>2, <2>1, <2>2 DEF Index, Used
<1>3. CASE \E i \in Used(r) : r.slot[i].addr = d
  BY <1>1, <1>2, <1>3
<1>4. CASE ~\E i \in Used(r) : r.slot[i].addr = d
  BY <1>1, <1>4 DEF Index, Used
<1>q. QED BY <1>1, <1>2, <1>3, <1>4

\* Where a device is found depends on the addresses alone.
LEMMA SameIndex ==
    ASSUME NEW r, NEW q, Proper(r), Proper(q), q.num = r.num,
           \A i \in Used(r) : q.slot[i].addr = r.slot[i].addr,
           NEW d
    PROVE  Index(q, d) = Index(r, d)
<1>1. Used(q) = Used(r)
  BY DEF Used
<1>2. CASE Index(r, d) \in Used(r)
  BY <1>1, <1>2, IndexIs
<1>3. CASE Index(r, d) = -1
  BY <1>1, <1>3, IndexIs
<1>q. QED BY <1>2, <1>3, IndexIs

-----------------------------------------------------------------------------
(* Adding a device.                                                        *)

\* The slot a device comes from: its own, the last of a full list, or the
\* first that is free.
From(r, d) == IF Index(r, d) # -1 THEN Index(r, d)
              ELSE IF r.num = Count THEN Count - 1 ELSE r.num
\* Its entry.
Added(r, d, k) ==
    [addr |-> d, key |-> k,
     vol |-> IF Index(r, d) # -1 THEN r.slot[Index(r, d)].vol ELSE DefaultVol]

\* nv_record_ddbrec_add puts the device into slot 0, moves what was in front
\* of its place up by one and leaves the rest alone.
LEMMA AddIs ==
    ASSUME NEW r, Proper(r), NEW d \in Devices, NEW k \in Keys
    PROVE  LET q == nv_record_ddbrec_add(r, d, k) IN
           /\ From(r, d) \in Slots
           /\ From(r, d) < q.num
           /\ q.num = IF Index(r, d) # -1 \/ r.num = Count THEN r.num ELSE r.num + 1
           /\ q.num \in 1 .. Count
           /\ Added(r, d, k) \in Entry
           /\ q = [num |-> q.num,
                   slot |-> [i \in Slots |-> IF i = 0 THEN Added(r, d, k)
                                             ELSE IF i \in 1 .. From(r, d) THEN r.slot[i - 1]
                                             ELSE r.slot[i]]]
<1> DEFINE i == Index(r, d)
           n == From(r, d)
           e == IF i # -1 THEN [r.slot[i] EXCEPT !.key = k]
                          ELSE [addr |-> d, key |-> k, vol |-> DefaultVol]
           m == IF i # -1 \/ r.num = Count THEN r.num ELSE r.num + 1
           q == nv_record_ddbrec_add(r, d, k)
<1>1. /\ r.num \in 0 .. Count /\ r.slot \in [Slots -> Entry] /\ Count \in Nat \ {0}
      /\ 0 \in Slots
  BY SizeAssumption DEF Proper, Records, Slots
<1>2. i = -1 \/ (i \in Used(r) /\ r.slot[i].addr = d /\ r.slot[i] \in Entry)
  BY <1>1, IndexIs
<1>3. n \in Slots /\ n < m /\ m \in 1 .. Count
  BY <1>1, <1>2 DEF From, Used, Slots
<1>4. e = Added(r, d, k) /\ Added(r, d, k) \in Entry
  <2>1. CASE i = -1
    BY <2>1, SizeAssumption DEF Added, Entry
  <2>2. CASE i # -1
    <3>1. r.slot[i].addr = d /\ r.slot[i] \in Entry
      BY <1>2, <2>2
    <3>2. [r.slot[i] EXCEPT !.key = k] = [addr |-> d, key |-> k, vol |-> r.slot[i].vol]
      BY <3>1 DEF Entry
    <3>q. QED BY <2>2, <3>1, <3>2 DEF Added, Entry
  <2>q. QED BY <2>1, <2>2
<1>5. q = [num |-> m, slot |-> [ShiftRight(r.slot, n) EXCEPT ![0] = e]]
  BY DEF nv_record_ddbrec_add, From
<1> HIDE DEF e, m, n, i, q
<1>6. ShiftRight(r.slot, n) = [j \in Slots |-> IF j \in 1 .. n THEN r.slot[j - 1] ELSE r.slot[j]]
  BY <1>1, <1>3, ShiftRightIs
<1>7. [ShiftRight(r.slot, n) EXCEPT ![0] = e]
         = [j \in Slots |-> IF j = 0 THEN e
                            ELSE IF j \in 1 .. n THEN r.slot[j - 1] ELSE r.slot[j]]
  BY <1>1, <1>6
<1>8. q.num = m
  BY <1>5
<1>q. QED BY <1>3, <1>4, <1>5, <1>7, <1>8 DEF q, m, n, i

\* The list stays one of different devices, with the added one in front.
LEMMA AddKeeps ==
    ASSUME NEW r, Proper(r), NEW d \in Devices, NEW k \in Keys
    PROVE  /\ Proper(nv_record_ddbrec_add(r, d, k))
           /\ Index(nv_record_ddbrec_add(r, d, k), d) = 0
<1> DEFINE q == nv_record_ddbrec_add(r, d, k)
           n == From(r, d)
           e == Added(r, d, k)
<1>1. /\ n \in Slots /\ n < q.num /\ q.num \in 1 .. Count /\ e \in Entry
      /\ q.num = IF Index(r, d) # -1 \/ r.num = Count THEN r.num ELSE r.num + 1
      /\ q = [num |-> q.num,
              slot |-> [i \in Slots |-> IF i = 0 THEN e
                                        ELSE IF i \in 1 .. n THEN r.slot[i - 1] ELSE r.slot[i]]]
  BY AddIs
<1>2. e.addr = d /\ e.key = k
  BY DEF Added
<1>3. r.num \in 0 .. Count /\ r.slot \in [Slots -> Entry] /\ Count \in Nat \ {0}
  BY SizeAssumption DEF Proper, Records
<1>4. Index(r, d) = -1 => n = r.num \/ (r.num = Count /\ n = Count - 1)
  BY DEF From
<1>5. Index(r, d) # -1 => n = Index(r, d) /\ n \in Used(r)
  BY IndexIs DEF From
<1> HIDE DEF q, n, e
<1> DEFINE old(i) == IF i <= n THEN i - 1 ELSE i
<1>6. ASSUME NEW i \in Used(q) \ {0}
      PROVE  /\ i \in Slots /\ old(i) \in Used(r) /\ q.slot[i] = r.slot[old(i)]
             /\ r.slot[old(i)].addr # d
  <2>1. i \in Slots /\ i \in Nat /\ i # 0 /\ i < q.num
    BY <1>1, <1>3 DEF Used, Slots
  <2>2. q.slot[i] = IF i \in 1 .. n THEN r.slot[i - 1] ELSE r.slot[i]
    BY <1>1, <2>1
  <2>3. q.slot[i] = r.slot[old(i)]
    BY <1>1, <2>1, <2>2 DEF Slots
  <2>4. old(i) \in Used(r)
    BY <1>1, <1>3, <1>4, <1>5, <2>1 DEF Used, Slots
  <2>5. old(i) # n
    BY <1>1, <2>1 DEF Slots
  <2>6. r.slot[old(i)].addr # d
    BY <1>5, <2>4, <2>5, IndexIs
  <2>q. QED BY <2>1, <2>3, <2>4, <2>6
<1>7. \A i, j \in Used(q) \ {0} : old(i) = old(j) => i = j
  BY <1>1, <1>3 DEF Used, Slots
<1>8. q.slot[0] = e /\ 0 \in Used(q)
  BY <1>1, <1>3 DEF Used, Slots
<1>9. q \in Records
  <2>1. ASSUME NEW i \in Slots
        PROVE  (IF i = 0 THEN e ELSE IF i \in 1 .. n THEN r.slot[i - 1] ELSE r.slot[i]) \in Entry
    BY <1>1, <1>3 DEF Slots
  <2>2. q.slot \in [Slots -> Entry] /\ q = [num |-> q.num, slot |-> q.slot]
    BY <1>1, <2>1
  <2>q. QED BY <1>1, <2>2 DEF Records
<1>10. ASSUME NEW i \in Used(q) PROVE q.slot[i].addr \in Devices /\ q.slot[i].key \in Keys
  <2>1. CASE i = 0
    BY <1>2, <1>8, <2>1
  <2>2. CASE i # 0
    BY <1>6, <2>2 DEF Proper
  <2>q. QED BY <2>1, <2>2
<1>11. ASSUME NEW i \in Used(q), NEW j \in Used(q), q.slot[i].addr = q.slot[j].addr
       PROVE  i = j
  <2>1. CASE i = 0 \/ j = 0
    BY <1>2, <1>6, <1>8, <1>11, <2>1
  <2>2. CASE i # 0 /\ j # 0
    <3>1. old(i) \in Used(r) /\ old(j) \in Used(r)
          /\ r.slot[old(i)].addr = r.slot[old(j)].addr
      BY <1>6, <1>11, <2>2
    <3>2. old(i) = old(j)
      BY <3>1 DEF Proper
    <3>q. QED BY <1>7, <2>2, <3>2
  <2>q. QED BY <2>1, <2>2
<1>12. Proper(q)
  BY <1>9, <1>10, <1>11 DEF Proper
<1>13. Index(q, d) = 0
  BY <1>2, <1>8, <1>12, IndexIs
<1>q. QED BY <1>12, <1>13 DEF q

\* When isFlushNv stays false nothing has changed.
LEMMA AddNothing ==
    ASSUME NEW r, Proper(r), NEW d \in Devices, NEW k \in Keys, ~NeedsFlush(r, d, k)
    PROVE  nv_record_ddbrec_add(r, d, k) = r
<1> DEFINE q == nv_record_ddbrec_add(r, d, k)
           e == Added(r, d, k)
<1>1. Index(r, d) = 0 /\ r.slot[0].key = k /\ r.slot[0].addr = d /\ r.slot[0] \in Entry
  BY IndexIs DEF NeedsFlush, Proper, Records
<1>2. From(r, d) = 0 /\ e = r.slot[0]
  BY <1>1 DEF From, Added, Entry
<1>3. q = [num |-> q.num,
           slot |-> [i \in Slots |-> IF i = 0 THEN e
                                     ELSE IF i \in 1 .. From(r, d) THEN r.slot[i - 1]
                                     ELSE r.slot[i]]]
      /\ q.num = r.num
  BY <1>1, AddIs
<1>4. r = [num |-> r.num, slot |-> r.slot] /\ r.slot \in [Slots -> Entry]
  BY DEF Proper, Records
<1> HIDE DEF q, e
<1>5. [i \in Slots |-> IF i = 0 THEN e ELSE IF i \in 1 .. From(r, d) THEN r.slot[i - 1]
                       ELSE r.slot[i]] = r.slot
  BY <1>2, <1>4
<1>q. QED BY <1>3, <1>4, <1>5 DEF q

-----------------------------------------------------------------------------
(* Deleting.                                                               *)

\* nv_record_ddbrec_delete of the device in slot i.
LEMMA DeleteIs ==
    ASSUME NEW r, Proper(r), NEW i \in Used(r)
    PROVE  nv_record_ddbrec_delete(r, r.slot[i].addr)
              = [num |-> r.num - 1,
                 slot |-> [j \in Slots |-> IF j = r.num - 1 THEN Blank
                                           ELSE IF j \in i .. r.num - 2 THEN r.slot[j + 1]
                                           ELSE r.slot[j]]]
<1>1. Index(r, r.slot[i].addr) = i /\ i # -1 /\ r \in Records
  BY IndexIs DEF Proper
<1>q. QED BY <1>1, ShiftLeftIs DEF nv_record_ddbrec_delete

\* What is left of r when the loop of app_ibrt_nvrecord_delete_all_mobile_record
\* has looked at all slots from p on: of those, the other earbud's alone.
LeftOver(r, p) ==
    LET b == Index(r, Bud) IN
    [num  |-> IF b >= p THEN p + 1 ELSE p,
     slot |-> [i \in Slots |-> IF i < p \/ i >= r.num THEN r.slot[i]
                               ELSE IF i = p /\ b >= p THEN r.slot[b] ELSE Blank]]

\* It is a list of different devices, and the slots below p are as they were.
LEMMA LeftOverKeeps ==
    ASSUME NEW r, Proper(r), NEW p \in 0 .. r.num
    PROVE  /\ Proper(LeftOver(r, p))
           /\ LeftOver(r, p).num = IF Index(r, Bud) >= p THEN p + 1 ELSE p
           /\ LeftOver(r, p).slot
                = [i \in Slots |-> IF i < p \/ i >= r.num THEN r.slot[i]
                                   ELSE IF i = p /\ Index(r, Bud) >= p
                                        THEN r.slot[Index(r, Bud)] ELSE Blank]
<1> DEFINE b == Index(r, Bud)
           q == LeftOver(r, p)
<1>1. /\ r.num \in 0 .. Count /\ r.slot \in [Slots -> Entry] /\ Count \in Nat \ {0}
      /\ Blank \in Entry
  BY SizeAssumption DEF Proper, Records, Blank, Entry, Volumes
<1>2. b = -1 \/ (b \in Used(r) /\ r.slot[b].addr = Bud)
  BY IndexIs
<1>3. /\ q.num = IF b >= p THEN p + 1 ELSE p
      /\ q.slot = [i \in Slots |-> IF i < p \/ i >= r.num THEN r.slot[i]
                                   ELSE IF i = p /\ b >= p THEN r.slot[b] ELSE Blank]
      /\ q = [num |-> q.num, slot |-> q.slot]
  BY DEF LeftOver
<1> HIDE DEF b, q
<1>4. q.num \in 0 .. Count /\ p \in Nat /\ b >= p => b \in Used(r)
  BY <1>1, <1>2, <1>3 DEF Used
<1>5. q.slot \in [Slots -> Entry]
  <2>1. \A i \in Used(r) : i \in Slots
    BY <1>1 DEF Used, Slots
  <2>2. ASSUME NEW i \in Slots
        PROVE  (IF i < p \/ i >= r.num THEN r.slot[i]
                ELSE IF i = p /\ b >= p THEN r.slot[b] ELSE Blank) \in Entry
    BY <1>1, <1>2, <2>1 DEF Used
  <2>q. QED BY <1>3, <2>2
<1> DEFINE old(i) == IF i < p THEN i ELSE b
<1>6. ASSUME NEW i \in Used(q)
      PROVE  old(i) \in Used(r) /\ q.slot[i] = r.slot[old(i)]
             /\ (i >= p => i = p /\ b >= p /\ b \in Used(r))
  <2>1. i \in Slots /\ i \in Nat /\ i < q.num /\ r.num \in Nat /\ p \in Nat /\ p <= r.num
    BY <1>1, <1>2, <1>3 DEF Used, Slots
  <2>2. q.slot[i] = IF i < p \/ i >= r.num THEN r.slot[i]
                    ELSE IF i = p /\ b >= p THEN r.slot[b] ELSE Blank
    BY <1>3, <2>1
  <2>3. CASE i < p
    BY <2>1, <2>2, <2>3 DEF Used
  <2>4. CASE ~(i < p)
    <3>1. i = p /\ b >= p /\ b \in Used(r) /\ b \in Nat
      BY <1>2, <1>3, <2>1, <2>4 DEF Used
    <3>2. p < r.num
      BY <2>1, <3>1 DEF Used
    <3>q. QED BY <2>1, <2>2, <2>4, <3>1, <3>2
  <2>q. QED BY <2>3, <2>4
<1>7. ASSUME NEW i \in Used(q), NEW j \in Used(q), old(i) = old(j)
      PROVE  i = j
  <2>1. i \in Nat /\ j \in Nat /\ p \in Nat
    BY <1>4, <1>3 DEF Used
  <2>2. CASE i < p /\ j < p
    BY <1>7, <2>2
  <2>3. CASE ~(i < p) /\ ~(j < p)
    BY <1>6, <2>1, <2>3
  <2>4. CASE i < p /\ ~(j < p)
    <3>1. b >= p /\ b \in Int
      BY <1>6, <2>1, <2>4 DEF Used
    <3>q. QED BY <1>7, <2>1, <2>4, <3>1
  <2>5. CASE ~(i < p) /\ j < p
    <3>1. b >= p /\ b \in Int
      BY <1>6, <2>1, <2>5 DEF Used
    <3>q. QED BY <1>7, <2>1, <2>5, <3>1
  <2>q. QED BY <2>2, <2>3, <2>4, <2>5
<1>8. Proper(q)
  <2>1. q \in Records
    BY <1>1, <1>2, <1>3, <1>5 DEF Records, Used
  <2>2. \A i \in Used(q) : q.slot[i].addr \in Devices /\ q.slot[i].key \in Keys
    BY <1>6 DEF Proper
  <2>3. ASSUME NEW i \in Used(q), NEW j \in Used(q), q.slot[i].addr = q.slot[j].addr
        PROVE  i = j
    <3>1. old(i) = old(j)
      BY <1>6, <2>3 DEF Proper
    <3>q. QED BY <1>7, <3>1
  <2>q. QED BY <2>1, <2>2, <2>3 DEF Proper
<1>q. QED BY <1>3, <1>8 DEF b, q

\* One round of the loop, at slot p.
LEMMA LeftOverStep ==
    ASSUME NEW r, Proper(r), NEW p \in Used(r)
    PROVE  LET t == LeftOver(r, p + 1)
               d == t.slot[p].addr
           IN  LeftOver(r, p) = IF d \in Mobiles THEN nv_record_ddbrec_delete(t, d) ELSE t
<1> DEFINE b == Index(r, Bud)
           t == LeftOver(r, p + 1)
           q == LeftOver(r, p)
<1>1. /\ r.num \in 0 .. Count /\ r.slot \in [Slots -> Entry] /\ Count \in Nat \ {0}
      /\ p \in Nat /\ p < r.num /\ p + 1 \in 0 .. r.num /\ p \in 0 .. r.num /\ p \in Slots
  BY SizeAssumption DEF Proper, Records, Used, Slots
<1>2. b = -1 \/ (b \in Used(r) /\ r.slot[b].addr = Bud)
  BY IndexIs
<1>2a. b \in Int /\ b < r.num
  BY <1>1, <1>2 DEF Used
<1>3. /\ Proper(t) /\ t.num = IF b >= p + 1 THEN p + 2 ELSE p + 1
      /\ t.slot = [i \in Slots |-> IF i < p + 1 \/ i >= r.num THEN r.slot[i]
                                   ELSE IF i = p + 1 /\ b >= p + 1 THEN r.slot[b] ELSE Blank]
      /\ t = [num |-> t.num, slot |-> t.slot]
  <2>1. (p + 1) + 1 = p + 2
    BY <1>1
  <2>q. QED BY <1>1, <2>1, LeftOverKeeps DEF LeftOver
<1>4. /\ q.num = IF b >= p THEN p + 1 ELSE p
      /\ q.slot = [i \in Slots |-> IF i < p \/ i >= r.num THEN r.slot[i]
                                   ELSE IF i = p /\ b >= p THEN r.slot[b] ELSE Blank]
      /\ q = [num |-> q.num, slot |-> q.slot]
  BY <1>1, LeftOverKeeps DEF LeftOver
<1> HIDE DEF t, q, b
<1>5. t.slot[p] = r.slot[p]
  BY <1>1, <1>3
<1>6. CASE b = p
  <2>1. r.slot[p].addr \notin Mobiles
    BY <1>1, <1>2, <1>6, AddressAssumption
  <2>2. \A i \in Slots : q.slot[i] = t.slot[i]
    BY <1>1, <1>3, <1>4, <1>6 DEF Slots
  <2>3. q.slot = t.slot /\ q.num = t.num
    BY <1>1, <1>3, <1>4, <1>6, <2>2
  <2>q. QED BY <1>3, <1>4, <1>5, <2>1, <2>3 DEF t, q
<1>7. CASE b # p
  <2>1. r.slot[p].addr \in Mobiles
    <3>1. r.slot[p].addr \in Devices
      BY DEF Proper
    <3>2. r.slot[p].addr # Bud
      BY <1>7, IndexIs DEF b
    <3>q. QED BY <3>1, <3>2 DEF Devices
  <2>2. p \in Used(t)
    BY <1>1, <1>3 DEF Used
  <2>3. nv_record_ddbrec_delete(t, t.slot[p].addr)
           = [num |-> t.num - 1,
              slot |-> [j \in Slots |-> IF j = t.num - 1 THEN Blank
                                        ELSE IF j \in p .. t.num - 2 THEN t.slot[j + 1]
                                        ELSE t.slot[j]]]
    BY <1>3, <2>2, DeleteIs
  <2>4. t.num - 1 = q.num
    BY <1>1, <1>2a, <1>3, <1>4, <1>7
  <2>5. \A j \in Slots : q.slot[j] = IF j = t.num - 1 THEN Blank
                                     ELSE IF j \in p .. t.num - 2 THEN t.slot[j + 1]
                                     ELSE t.slot[j]
    <3>1. CASE b >= p + 1
      <4>1. t.num = p + 2 /\ b >= p /\ p + 1 \in Slots /\ p + 1 < r.num
        BY <1>1, <1>2a, <1>3, <3>1 DEF Slots
      <4>2. t.slot[p + 1] = r.slot[b]
        BY <1>1, <1>3, <3>1, <4>1
      <4>q. QED BY <1>1, <1>2a, <1>3, <1>4, <3>1, <4>1, <4>2 DEF Slots
    <3>2. CASE b < p
      BY <1>1, <1>2a, <1>3, <1>4, <3>2 DEF Slots
    <3>q. QED BY <1>1, <1>2a, <1>7, <3>1, <3>2
  <2>6. q.slot = [j \in Slots |-> IF j = t.num - 1 THEN Blank
                                  ELSE IF j \in p .. t.num - 2 THEN t.slot[j + 1]
                                  ELSE t.slot[j]]
    BY <1>4, <2>5
  <2>7. q = nv_record_ddbrec_delete(t, t.slot[p].addr)
    BY <1>4, <2>3, <2>4, <2>6
  <2>q. QED BY <1>5, <2>1, <2>7 DEF t, q
<1>q. QED BY <1>6, <1>7

\* app_ibrt_nvrecord_delete_all_mobile_record leaves the other earbud alone.
LEMMA DeleteMobilesIs ==
    ASSUME NEW r, Proper(r)
    PROVE  DeleteMobiles(r) = LeftOver(r, 0)
<1> DEFINE n == r.num
           Round(t, k) == LET d == t.slot[n - k].addr
                          IN  IF d \in Mobiles THEN nv_record_ddbrec_delete(t, d) ELSE t
           g == [k \in 0 .. n |-> LeftOver(r, n - k)]
           Loop(c) == c = [k \in 0 .. n |-> IF k = 0 THEN r ELSE Round(c[k - 1], k)]
           left == CHOOSE c : Loop(c)
<1>1. DeleteMobiles(r) = left[n]
  BY DEF DeleteMobiles
<1>2. n \in Nat /\ n \in 0 .. Count /\ r = [num |-> r.num, slot |-> r.slot]
      /\ r.slot \in [Slots -> Entry]
  BY SizeAssumption DEF Proper, Records
<1>3. Loop(g)
  <2>1. ASSUME NEW k \in 0 .. n, k # 0
        PROVE  g[k] = Round(g[k - 1], k)
    <3>1. n - k \in Used(r) /\ (n - k) + 1 = n - (k - 1) /\ k - 1 \in 0 .. n
      BY <1>2, <2>1 DEF Used
    <3>2. g[k] = LeftOver(r, n - k) /\ g[k - 1] = LeftOver(r, (n - k) + 1)
      BY <3>1
    <3> HIDE DEF g
    <3>q. QED BY <3>1, <3>2, LeftOverStep
  <2>2. g[0] = r
    <3>1. g[0] = LeftOver(r, n)
      BY <1>2
    <3>2. ~(Index(r, Bud) >= n)
      BY <1>2, IndexIs DEF Used
    <3>3. [i \in Slots |-> IF i < n \/ i >= r.num THEN r.slot[i]
                           ELSE IF i = n /\ Index(r, Bud) >= n THEN r.slot[Index(r, Bud)]
                           ELSE Blank] = r.slot
      <4>1. \A i \in Slots : i < n \/ i >= r.num
        BY <1>2 DEF Slots
      <4>q. QED BY <1>2, <4>1
    <3>q. QED BY <1>2, <3>1, <3>2, <3>3 DEF LeftOver
  <2> HIDE DEF Round
  <2>q. QED BY <1>2, <2>1, <2>2
<1> HIDE DEF Round
<1>4. Loop(left)
  BY <1>3
<1> HIDE DEF left
<1>5. left[0] = g[0]
  <2> HIDE DEF g, n
  <2>1. 0 \in 0 .. n
    BY <1>2
  <2>q. QED BY <1>3, <1>4, <2>1
<1>6. ASSUME NEW k \in 0 .. n - 1, left[k] = g[k]
      PROVE  left[k + 1] = g[k + 1]
  <2> HIDE DEF g
  <2>1. k + 1 \in 0 .. n /\ k + 1 # 0 /\ (k + 1) - 1 = k
    BY <1>2
  <2>2. left[k + 1] = Round(left[k], k + 1) /\ g[k + 1] = Round(g[k], k + 1)
    BY <1>3, <1>4, <2>1
  <2>q. QED BY <1>6, <2>2
<1>7. left[n] = g[n]
  <2> HIDE DEF g, Loop, n
  <2>1. \A k \in 0 .. n : left[k] = g[k]
    BY <1>2, <1>5, <1>6, SameUpTo
  <2>q. QED BY <1>2, <2>1
<1>8. g[n] = LeftOver(r, 0)
  BY <1>2
<1>q. QED BY <1>1, <1>7, <1>8

-----------------------------------------------------------------------------
(* Writing a volume.                                                       *)

\* A volume written through a pointer changes no address, no key and no count.
LEMMA VolumeIs ==
    ASSUME NEW r, Proper(r), NEW p \in Slots \cup {Static}, NEW v \in Volumes
    PROVE  LET q == SetVolumeAt(r, p, v) IN
           /\ Proper(q) /\ q.num = r.num
           /\ \A i \in Slots : /\ q.slot[i].addr = r.slot[i].addr
                               /\ q.slot[i].key = r.slot[i].key
                               /\ q.slot[i] = [r.slot[i] EXCEPT !.vol = q.slot[i].vol]
           /\ \A d : Index(q, d) = Index(r, d)
<1> DEFINE q == SetVolumeAt(r, p, v)
<1>1. r.num \in 0 .. Count /\ r.slot \in [Slots -> Entry] /\ r = [num |-> r.num, slot |-> r.slot]
  BY DEF Proper, Records
<1>2. \A i \in Slots : r.slot[i] = [addr |-> r.slot[i].addr, key |-> r.slot[i].key,
                                    vol |-> r.slot[i].vol]
                       /\ r.slot[i].vol \in Volumes
  BY <1>1 DEF Entry
<1>3. q = [num |-> r.num,
           slot |-> [i \in Slots |-> IF i = p THEN [addr |-> r.slot[i].addr, key |-> r.slot[i].key,
                                                    vol |-> v]
                                     ELSE r.slot[i]]]
  <2>1. CASE p = Static
    <3>1. p \notin Slots
      BY <2>1, SizeAssumption DEF Static, Slots
    <3>q. QED BY <1>1, <2>1, <3>1 DEF SetVolumeAt
  <2>2. CASE p # Static
    <3>1. p \in Slots
      BY <2>2
    <3>2. q = [r EXCEPT !.slot = [r.slot EXCEPT ![p] = [r.slot[p] EXCEPT !.vol = v]]]
      BY <2>2 DEF SetVolumeAt
    <3>3. [r.slot[p] EXCEPT !.vol = v] = [addr |-> r.slot[p].addr, key |-> r.slot[p].key, vol |-> v]
      BY <1>1, <3>1 DEF Entry
    <3>q. QED BY <1>1, <3>1, <3>2, <3>3
  <2>q. QED BY <2>1, <2>2
<1> HIDE DEF q
<1>4. \A i \in Slots : q.slot[i] = IF i = p THEN [addr |-> r.slot[i].addr, key |-> r.slot[i].key,
                                                  vol |-> v]
                                   ELSE r.slot[i]
  BY <1>3
<1>5. q.num = r.num
  BY <1>3
<1>6. ASSUME NEW i \in Slots
      PROVE  /\ q.slot[i].addr = r.slot[i].addr /\ q.slot[i].key = r.slot[i].key
             /\ q.slot[i] = [r.slot[i] EXCEPT !.vol = q.slot[i].vol]
             /\ q.slot[i] \in Entry
  <2>1. CASE i = p
    <3>1. r.slot[i].addr \in Devices \cup {Zero} /\ r.slot[i].key \in Keys \cup {Zero}
      BY <1>1 DEF Entry
    <3>2. q.slot[i] = [addr |-> r.slot[i].addr, key |-> r.slot[i].key, vol |-> v]
      BY <1>4, <2>1
    <3>3. [r.slot[i] EXCEPT !.vol = v]
             = [addr |-> r.slot[i].addr, key |-> r.slot[i].key, vol |-> v]
      BY <1>1 DEF Entry
    <3>q. QED BY <3>1, <3>2, <3>3 DEF Entry
  <2>2. CASE i # p
    <3>1. q.slot[i] = r.slot[i] /\ q.slot[i] \in Entry
      BY <1>1, <1>4, <2>2
    <3>q. QED BY <1>2, <3>1
  <2>q. QED BY <2>1, <2>2
<1>7. Proper(q)
  <2>1. q \in Records
    BY <1>1, <1>3, <1>4, <1>6 DEF Records
  <2>2. Used(q) = Used(r) /\ Used(r) \subseteq Slots
    BY <1>1, <1>5, SizeAssumption DEF Used, Slots
  <2>q. QED BY <1>6, <2>1, <2>2 DEF Proper
<1>8. ASSUME NEW d PROVE Index(q, d) = Index(r, d)
  <2>1. \A i \in Used(r) : q.slot[i].addr = r.slot[i].addr
    BY <1>6, IndexIs
  <2>q. QED BY <1>5, <1>7, <2>1, SameIndex
<1>q. QED BY <1>5, <1>6, <1>7, <1>8 DEF q

-----------------------------------------------------------------------------
(* The invariant.  The volume pointer is right as long as no change of the *)
(* list is waiting for the other earbud's indication: the record of an     *)
(* earbud that is authenticated is in slot 0 and has pushed the phone's    *)
(* record away from under the pointer.  An earbud that has fallen out of   *)
(* the list aims nothing when it is indicated, and nothing has to be aimed: *)
(* it was a phone that pushed it out, and its own indication aimed.        *)

\* One phone at a time is more than "down" (BT_ONE_BRING_TWO is off).
OnePhone == \A m, n \in Mobiles : link[m] # "down" /\ link[n] # "down" => m = n

\* The other earbud's record has moved and its indication is still to come.
Pushed == link[Bud] = "keyed" /\ Index(info, Bud) # -1

Aimed ==
    \A m \in Mobiles :
        link[m] = "up" /\ Index(info, m) # -1 /\ ~unheard /\ ~Pushed
            => vol_p = Index(info, m)

IInv == TypeOK /\ Proper(info) /\ Proper(saved) /\ Marked /\ OnePhone /\ Aimed

\* A fresh record, no links, the pointer at the default.
LEMMA InitIInv ==
    ASSUME Init
    PROVE  IInv
<1> USE SizeAssumption, BoundAssumption DEF Init
<1>1. Blank \in Entry /\ 0 \in Volumes /\ Count \in Nat
  BY DEF Blank, Entry, Volumes
<1>2. info.num = 0 /\ info \in Records /\ saved = info
  BY <1>1 DEF Records
<1>3. Proper(info) /\ Proper(saved)
  BY <1>2 DEF Proper, Used
<1>4. op \in [at : {"idle", "write", "touch"}, vol : Volumes]
  BY <1>1 DEF Idle
<1>5. \A d \in Devices : link[d] = "down"
  OBVIOUS
<1>6. TypeOK
  <2>1. info \in Records /\ saved \in Records
    BY <1>2
  <2>2. is_update \in BOOLEAN /\ unheard \in BOOLEAN /\ vol_p \in Slots \cup {Static}
        /\ stream_vol \in Volumes /\ link \in [Devices -> {"down", "keyed", "up"}]
    OBVIOUS
  <2>3. links \in 0 .. MaxLinks /\ vols \in 0 .. MaxVols /\ boots \in 0 .. MaxBoots
    OBVIOUS
  <2> HIDE DEF Init
  <2>q. QED BY <1>4, <2>1, <2>2, <2>3 DEF TypeOK, Records
<1>7. Marked /\ OnePhone /\ Aimed
  BY <1>2, <1>5 DEF Marked, OnePhone, Aimed, Devices
<1>q. QED BY <1>3, <1>6, <1>7 DEF IInv

\* The pointer is at a slot or at the default, and so is every lookup.
LEMMA LookUp ==
    ASSUME NEW r, Proper(r), NEW d
    PROVE  Index(r, d) \in Slots \cup {Static}
BY IndexIs DEF Static

\* A pairing: the device's record comes to slot 0.  No phone is up afterwards
\* if it was a phone; the other earbud has pushed the records otherwise.
LEMMA AuthenticateKeeps ==
    ASSUME IInv, NEW d \in Devices, NEW k \in Keys, Authenticate(d, k)
    PROVE  IInv'
<1> USE DEF IInv
<1>1. /\ info' = nv_record_ddbrec_add(info, d, k)
      /\ is_update' = (is_update \/ NeedsFlush(info, d, k))
      /\ link' = [link EXCEPT ![d] = "keyed"]
      /\ links < MaxLinks /\ links' = links + 1
      /\ saved' = saved /\ vol_p' = vol_p /\ stream_vol' = stream_vol /\ op' = op
      /\ unheard' = unheard /\ vols' = vols /\ boots' = boots
      /\ MayConnect(d)
  BY DEF Authenticate
<1>2. Proper(info') /\ Proper(saved') /\ Index(info', d) = 0
  BY <1>1, AddKeeps
<1>3. TypeOK'
  <2>1. info' \in Records /\ is_update' \in BOOLEAN /\ links' \in 0 .. MaxLinks
        /\ link' \in [Devices -> {"down", "keyed", "up"}]
    BY <1>1, <1>2, BoundAssumption DEF TypeOK, Proper, NeedsFlush
  <2>q. QED BY <1>1, <2>1 DEF TypeOK, Records
<1>4. Marked'
  <2>1. CASE NeedsFlush(info, d, k)
    BY <1>1, <2>1 DEF Marked
  <2>2. CASE ~NeedsFlush(info, d, k)
    <3>1. info' = info
      BY <1>1, <2>2, AddNothing
    <3>q. QED BY <1>1, <3>1 DEF Marked
  <2>q. QED BY <2>1, <2>2
<1>5. \A c \in Devices : link'[c] = IF c = d THEN "keyed" ELSE link[c]
  BY <1>1 DEF TypeOK
<1>6. CASE d \in Mobiles
  <2>1. \A m \in Mobiles : link[m] = "down"
    BY <1>1, <1>6 DEF MayConnect
  <2>2. OnePhone' /\ Aimed'
    BY <1>5, <1>6, <2>1 DEF OnePhone, Aimed, Devices
  <2>q. QED BY <1>2, <1>3, <1>4, <2>2
<1>7. CASE d = Bud
  <2>1. Pushed'
    BY <1>2, <1>5, <1>7 DEF Pushed, Devices
  <2>2. \A m \in Mobiles : link'[m] = link[m]
    BY <1>5, <1>7, AddressAssumption DEF Devices
  <2>3. OnePhone' /\ Aimed'
    BY <2>1, <2>2 DEF OnePhone, Aimed
  <2>q. QED BY <1>2, <1>3, <1>4, <2>3
<1>q. QED BY <1>6, <1>7 DEF Devices

\* A known device returns with its key.
LEMMA ReconnectKeeps ==
    ASSUME IInv, NEW d \in Devices, Reconnect(d)
    PROVE  IInv'
<1> USE DEF IInv
<1>1. /\ link' = [link EXCEPT ![d] = "keyed"]
      /\ links < MaxLinks /\ links' = links + 1
      /\ info' = info /\ is_update' = is_update
      /\ saved' = saved /\ vol_p' = vol_p /\ stream_vol' = stream_vol /\ op' = op
      /\ unheard' = unheard /\ vols' = vols /\ boots' = boots
      /\ MayConnect(d) /\ Index(info, d) # -1
  BY DEF Reconnect
<1>2. TypeOK'
  <2>1. links' \in 0 .. MaxLinks /\ link' \in [Devices -> {"down", "keyed", "up"}]
    BY <1>1, BoundAssumption DEF TypeOK
  <2>q. QED BY <1>1, <2>1 DEF TypeOK
<1>3. Proper(info') /\ Proper(saved') /\ Marked'
  BY <1>1 DEF Marked
<1>4. \A c \in Devices : link'[c] = IF c = d THEN "keyed" ELSE link[c]
  BY <1>1 DEF TypeOK
<1>5. CASE d \in Mobiles
  <2>1. \A m \in Mobiles : link[m] = "down"
    BY <1>1, <1>5 DEF MayConnect
  <2>2. OnePhone' /\ Aimed'
    BY <1>4, <1>5, <2>1 DEF OnePhone, Aimed, Devices
  <2>q. QED BY <1>2, <1>3, <2>2
<1>6. CASE d = Bud
  <2>1. Pushed'
    BY <1>1, <1>4, <1>6 DEF Pushed, Devices
  <2>2. \A m \in Mobiles : link'[m] = link[m]
    BY <1>4, <1>6, AddressAssumption DEF Devices
  <2>3. OnePhone' /\ Aimed'
    BY <2>1, <2>2 DEF OnePhone, Aimed
  <2>q. QED BY <1>2, <1>3, <2>3
<1>q. QED BY <1>5, <1>6 DEF Devices

\* An indication: whoever is indicated, the pointer goes to the phone that is
\* up, unless the device has no record.
LEMMA ConnectedKeeps ==
    ASSUME IInv, NEW d \in Devices, Connected(d)
    PROVE  IInv'
<1> USE DEF IInv
<1> DEFINE l == [link EXCEPT ![d] = "up"]
<1>1. /\ link[d] = "keyed" /\ link' = l
      /\ vol_p' = KeeperUpdate(d, l)
      /\ unheard' = (unheard /\ (Talking(l) = {} \/ Index(info, d) = -1))
      /\ info' = info /\ is_update' = is_update
      /\ saved' = saved /\ stream_vol' = stream_vol /\ op' = op
      /\ links' = links /\ vols' = vols /\ boots' = boots
  BY DEF Connected
<1>2. \A c \in Devices : l[c] = IF c = d THEN "up" ELSE link[c]
  BY DEF TypeOK
<1>3. Proper(info') /\ Proper(saved') /\ Marked'
  BY <1>1 DEF Marked
<1>4. vol_p' \in Slots \cup {Static}
  BY <1>1, LookUp DEF KeeperUpdate, Reaim, Aim, TypeOK
<1>5. l \in [Devices -> {"down", "keyed", "up"}]
  BY DEF TypeOK
<1> HIDE DEF l
<1>6. TypeOK'
  BY <1>1, <1>4, <1>5 DEF TypeOK
<1>7. \A m \in Mobiles : m \in Devices /\ (l[m] # "down" <=> link[m] # "down")
  BY <1>1, <1>2 DEF Devices
<1>8. OnePhone'
  BY <1>1, <1>7 DEF OnePhone
<1>9. ASSUME NEW m \in Mobiles,
             link'[m] = "up", Index(info', m) # -1, ~unheard', ~Pushed'
      PROVE  vol_p' = Index(info', m)
  <2>1. m \in Talking(l) /\ Talking(l) = {m}
    BY <1>1, <1>7, <1>8, <1>9 DEF Talking, OnePhone
  <2>2. CASE Index(info, d) # -1
    BY <1>1, <2>1, <2>2 DEF KeeperUpdate, Reaim, Aim
  <2>3. CASE Index(info, d) = -1
    <3>1. d # m /\ d = Bud
      <4>1. d # m
        BY <1>1, <1>9, <2>3
      <4>2. d \notin Mobiles
        BY <1>1, <1>7, <1>9, <4>1 DEF OnePhone
      <4>q. QED BY <4>1, <4>2 DEF Devices
    <3>2. link[m] = "up" /\ ~unheard /\ ~Pushed
      BY <1>1, <1>2, <1>7, <1>9, <2>3, <3>1 DEF Pushed
    <3>3. vol_p = Index(info, m)
      BY <1>1, <1>9, <3>2 DEF Aimed
    <3>q. QED BY <1>1, <2>3, <3>3 DEF KeeperUpdate
  <2>q. QED BY <2>2, <2>3
<1>10. Aimed'
  BY <1>9 DEF Aimed
<1>q. QED BY <1>3, <1>6, <1>8, <1>10

\* A link is lost.
LEMMA DisconnectKeeps ==
    ASSUME IInv, NEW d \in Devices, Disconnect(d)
    PROVE  IInv'
<1> USE DEF IInv
<1>1. /\ link[d] # "down" /\ link' = [link EXCEPT ![d] = "down"]
      /\ unheard' = (unheard \/ (link[d] = "keyed" /\ d = Bud))
      /\ info' = info /\ is_update' = is_update /\ vol_p' = vol_p
      /\ saved' = saved /\ stream_vol' = stream_vol /\ op' = op
      /\ links' = links /\ vols' = vols /\ boots' = boots
  BY DEF Disconnect
<1>2. \A c \in Devices : link'[c] = IF c = d THEN "down" ELSE link[c]
  BY <1>1 DEF TypeOK
<1>3. Proper(info') /\ Proper(saved') /\ Marked'
  BY <1>1 DEF Marked
<1>4. TypeOK'
  <2>1. link' \in [Devices -> {"down", "keyed", "up"}] /\ unheard' \in BOOLEAN
    BY <1>1 DEF TypeOK
  <2>q. QED BY <1>1, <2>1 DEF TypeOK
<1>5. OnePhone'
  BY <1>2 DEF OnePhone, Devices
<1>6. ASSUME NEW m \in Mobiles,
             link'[m] = "up", Index(info', m) # -1, ~unheard', ~Pushed'
      PROVE  vol_p' = Index(info', m)
  <2>1. link[m] = "up"
    BY <1>2, <1>6 DEF Devices
  <2>2. ~unheard /\ ~(link[d] = "keyed" /\ d = Bud)
    BY <1>1, <1>6, Zenon
  <2>3. ~Pushed
    BY <1>1, <1>2, <1>6, <2>2 DEF Pushed, Devices
  <2>q. QED BY <1>1, <1>6, <2>1, <2>2, <2>3 DEF Aimed
<1>7. Aimed'
  BY <1>6 DEF Aimed
<1>q. QED BY <1>3, <1>4, <1>5, <1>7

\* A stream aims the pointer at its phone.
LEMMA StreamOpensKeeps ==
    ASSUME IInv, NEW m \in Mobiles, StreamOpens(m)
    PROVE  IInv'
<1> USE DEF IInv
<1>1. /\ link[m] = "up" /\ vol_p' = Index(info, m) /\ unheard' = FALSE
      /\ info' = info /\ is_update' = is_update /\ link' = link
      /\ saved' = saved /\ stream_vol' = stream_vol /\ op' = op
      /\ links' = links /\ vols' = vols /\ boots' = boots
  BY DEF StreamOpens, Aim
<1>2. TypeOK'
  BY <1>1, LookUp DEF TypeOK
<1>3. OnePhone' /\ Marked'
  BY <1>1 DEF OnePhone, Marked
<1>4. Aimed'
  <2>1. \A n \in Mobiles : link[n] = "up" => n = m
    BY <1>1 DEF OnePhone
  <2>q. QED BY <1>1, <2>1 DEF Aimed
<1>q. QED BY <1>1, <1>2, <1>3, <1>4

\* Steps that move no record, aim nothing and change no link.
LEMMA StaysAimed ==
    ASSUME IInv, \A d : Index(info', d) = Index(info, d),
           link' = link, vol_p' = vol_p, unheard' = unheard
    PROVE  OnePhone' /\ Aimed'
<1>1. Pushed' = Pushed
  BY DEF Pushed
<1>q. QED BY <1>1 DEF IInv, OnePhone, Aimed

\* The phone sets the volume.
LEMMA SetKeeps ==
    ASSUME IInv, NEW m \in Mobiles, NEW v \in Volumes, a2dp_volume_local_set(m, v)
    PROVE  IInv'
<1> USE DEF IInv
<1> DEFINE i == Index(info, m)
           r == SetVolumeAt(info, i, v)
           at_p == IF vol_p = Static THEN stream_vol ELSE r.slot[vol_p].vol
           q == SetVolumeAt(r, vol_p, v)
<1>1. /\ info' = IF at_p # v THEN q ELSE r
      /\ stream_vol' = IF vol_p = Static THEN v ELSE stream_vol
      /\ is_update' = (is_update \/ r # info \/ at_p # v)
      /\ vols < MaxVols /\ vols' = vols + 1
      /\ link' = link /\ vol_p' = vol_p /\ unheard' = unheard /\ saved' = saved /\ op' = op
      /\ links' = links /\ boots' = boots
  BY DEF a2dp_volume_local_set
<1>2. i \in Slots \cup {Static} /\ vol_p \in Slots \cup {Static}
  BY LookUp DEF TypeOK
<1>3. Proper(r) /\ \A d : Index(r, d) = Index(info, d)
  BY <1>2, VolumeIs
<1> HIDE DEF r
<1>4. Proper(q) /\ \A d : Index(q, d) = Index(r, d)
  BY <1>2, <1>3, VolumeIs
<1> HIDE DEF q, at_p, i
<1>5. Proper(info') /\ \A d : Index(info', d) = Index(info, d)
  BY <1>1, <1>3, <1>4
<1>6. TypeOK'
  <2>1. info' \in Records /\ vols' \in 0 .. MaxVols /\ stream_vol' \in Volumes
    BY <1>1, <1>5, BoundAssumption DEF Proper, TypeOK
  <2>2. is_update' \in BOOLEAN
    BY <1>1, Zenon
  <2>q. QED BY <1>1, <2>1, <2>2 DEF TypeOK, Records
<1>7. Marked'
  <2>1. CASE info' = info
    <3>1. is_update => is_update'
      BY <1>1, Zenon
    <3>q. QED BY <1>1, <2>1, <3>1 DEF Marked
  <2>2. CASE info' # info
    <3>1. r # info \/ at_p # v
      BY <1>1, <2>2
    <3>2. is_update'
      BY <1>1, <3>1, Zenon
    <3>q. QED BY <3>2 DEF Marked
  <2>q. QED BY <2>1, <2>2
<1>8. OnePhone' /\ Aimed'
  BY <1>1, <1>5, StaysAimed
<1>q. QED BY <1>1, <1>5, <1>6, <1>7, <1>8

\* The pairing information is cleared: the pointer is stale, and unheard says so.
LEMMA ClearKeeps ==
    ASSUME IInv, ClearPairing
    PROVE  IInv'
<1> USE DEF IInv
<1>1. /\ info' = DeleteMobiles(info) /\ is_update' = TRUE /\ unheard' = TRUE
      /\ link' = link /\ vol_p' = vol_p /\ saved' = saved /\ op' = op /\ stream_vol' = stream_vol
      /\ links' = links /\ vols' = vols /\ boots' = boots
  BY DEF ClearPairing
<1>2. 0 \in 0 .. info.num
  BY DEF Proper, Records
<1>3. Proper(info')
  <2>1. DeleteMobiles(info) = LeftOver(info, 0)
    BY DeleteMobilesIs
  <2>2. Proper(LeftOver(info, 0))
    BY <1>2, LeftOverKeeps
  <2>q. QED BY <1>1, <2>1, <2>2
<1>4. TypeOK'
  <2>1. info' \in Records
    BY <1>3 DEF Proper
  <2>q. QED BY <1>1, <2>1 DEF TypeOK, Records
<1>5. OnePhone' /\ Aimed' /\ Marked'
  BY <1>1 DEF OnePhone, Aimed, Marked
<1>q. QED BY <1>1, <1>3, <1>4, <1>5

\* The audio thread computes a volume in range.
LEMMA VolumeReadKeeps ==
    ASSUME IInv, VolumeRead
    PROVE  IInv'
<1> USE DEF IInv
<1>1. /\ op.at = "idle" /\ vols < MaxVols /\ vols' = vols + 1
      /\ info' = info /\ is_update' = is_update /\ link' = link /\ unheard' = unheard
      /\ saved' = saved /\ vol_p' = vol_p /\ stream_vol' = stream_vol
      /\ links' = links /\ boots' = boots
  BY DEF VolumeRead
<1>2. VolumeAt(vol_p) \in Volumes
  BY DEF VolumeAt, TypeOK, Entry
<1>3. PICK v \in {VolumeAt(vol_p) + 1, VolumeAt(vol_p) - 1} :
         op' = [at |-> "write", vol |-> IF v > VolMax THEN VolMax ELSE IF v < 0 THEN 0 ELSE v]
  BY DEF VolumeRead
<1>4. (IF v > VolMax THEN VolMax ELSE IF v < 0 THEN 0 ELSE v) \in Volumes
  BY <1>2, SizeAssumption DEF Volumes
<1>5. op' \in [at : {"idle", "write", "touch"}, vol : Volumes]
  BY <1>3, <1>4
<1>6. TypeOK'
  <2>1. vols' \in 0 .. MaxVols
    BY <1>1, BoundAssumption DEF TypeOK
  <2>q. QED BY <1>1, <1>5, <2>1 DEF TypeOK
<1>7. Marked'
  BY <1>1 DEF Marked
<1>8. OnePhone' /\ Aimed'
  BY <1>1, StaysAimed
<1>q. QED BY <1>1, <1>6, <1>7, <1>8

\* The write goes wherever the pointer is by now; the mark is still to come.
LEMMA VolumeWriteKeeps ==
    ASSUME IInv, VolumeWrite
    PROVE  IInv'
<1> USE DEF IInv
<1>1. /\ op.at = "write" /\ op' = [op EXCEPT !.at = "touch"]
      /\ info' = SetVolumeAt(info, vol_p, op.vol)
      /\ stream_vol' = IF vol_p = Static THEN op.vol ELSE stream_vol
      /\ is_update' = is_update /\ link' = link /\ unheard' = unheard
      /\ saved' = saved /\ vol_p' = vol_p
      /\ links' = links /\ vols' = vols /\ boots' = boots
  BY DEF VolumeWrite
<1>2. op.vol \in Volumes /\ vol_p \in Slots \cup {Static}
  BY DEF TypeOK
<1>3. Proper(info') /\ \A d : Index(info', d) = Index(info, d)
  <2> DEFINE q == SetVolumeAt(info, vol_p, op.vol)
  <2>1. Proper(q) /\ \A d : Index(q, d) = Index(info, d)
    BY <1>2, VolumeIs
  <2>2. info' = q
    BY <1>1
  <2> HIDE DEF q
  <2>q. QED BY <2>1, <2>2
<1>4. op' \in [at : {"idle", "write", "touch"}, vol : Volumes] /\ op'.at = "touch"
  BY <1>1 DEF TypeOK
<1>5. TypeOK'
  <2>1. info' \in Records /\ stream_vol' \in Volumes
    BY <1>1, <1>2, <1>3 DEF Proper, TypeOK
  <2>q. QED BY <1>1, <1>4, <2>1 DEF TypeOK, Records
<1>6. Marked'
  BY <1>4 DEF Marked
<1>7. OnePhone' /\ Aimed'
  BY <1>1, <1>3, StaysAimed
<1>q. QED BY <1>1, <1>3, <1>5, <1>6, <1>7

\* nv_record_touch_cause_flush.
LEMMA VolumeTouchKeeps ==
    ASSUME IInv, VolumeTouch
    PROVE  IInv'
<1> USE DEF IInv
<1>1. /\ op' = Idle /\ is_update' = TRUE
      /\ info' = info /\ link' = link /\ unheard' = unheard
      /\ saved' = saved /\ vol_p' = vol_p /\ stream_vol' = stream_vol
      /\ links' = links /\ vols' = vols /\ boots' = boots
  BY DEF VolumeTouch
<1>2. op' \in [at : {"idle", "write", "touch"}, vol : Volumes]
  BY <1>1, SizeAssumption DEF Idle, Volumes
<1>3. TypeOK' /\ Marked'
  BY <1>1, <1>2 DEF TypeOK, Marked
<1>4. OnePhone' /\ Aimed'
  BY <1>1, StaysAimed
<1>q. QED BY <1>1, <1>3, <1>4

\* The record is saved.
LEMMA FlushKeeps ==
    ASSUME IInv, Flush
    PROVE  IInv'
<1> USE DEF IInv
<1>1. /\ saved' = info /\ is_update' = FALSE
      /\ info' = info /\ link' = link /\ unheard' = unheard /\ op' = op
      /\ vol_p' = vol_p /\ stream_vol' = stream_vol
      /\ links' = links /\ vols' = vols /\ boots' = boots
  BY DEF Flush
<1>2. TypeOK' /\ Marked'
  BY <1>1 DEF TypeOK, Marked
<1>3. OnePhone' /\ Aimed'
  BY <1>1, StaysAimed
<1>q. QED BY <1>1, <1>2, <1>3

\* A restart: no links, and the record as it was saved.
LEMMA RebootKeeps ==
    ASSUME IInv, Reboot
    PROVE  IInv'
<1> USE DEF IInv
<1>1. /\ info' = saved /\ saved' = saved /\ is_update' = FALSE
      /\ vol_p' = Static /\ stream_vol' = DefaultVol /\ op' = Idle
      /\ link' = [d \in Devices |-> "down"] /\ unheard' = FALSE
      /\ boots < MaxBoots /\ boots' = boots + 1 /\ links' = links /\ vols' = vols
  BY DEF Reboot
<1>2. op' \in [at : {"idle", "write", "touch"}, vol : Volumes] /\ stream_vol' \in Volumes
  BY <1>1, SizeAssumption DEF Idle, Volumes
<1>3. TypeOK'
  <2>1. boots' \in 0 .. MaxBoots /\ link' \in [Devices -> {"down", "keyed", "up"}]
    BY <1>1, BoundAssumption DEF TypeOK
  <2>q. QED BY <1>1, <1>2, <2>1 DEF TypeOK
<1>4. \A d \in Devices : link'[d] = "down"
  BY <1>1
<1>5. OnePhone' /\ Aimed' /\ Marked'
  BY <1>1, <1>4 DEF OnePhone, Aimed, Marked, Devices
<1>q. QED BY <1>1, <1>3, <1>5

\* Every step keeps IInv.
LEMMA StepIInv ==
    ASSUME IInv, [Next]_vars
    PROVE  IInv'
<1>1. ASSUME NEW d \in Devices, NEW k \in Keys, Authenticate(d, k) PROVE IInv'
  BY <1>1, AuthenticateKeeps
<1>2. ASSUME NEW d \in Devices, Reconnect(d) PROVE IInv'
  BY <1>2, ReconnectKeeps
<1>3. ASSUME NEW d \in Devices, Connected(d) PROVE IInv'
  BY <1>3, ConnectedKeeps
<1>4. ASSUME NEW d \in Devices, Disconnect(d) PROVE IInv'
  BY <1>4, DisconnectKeeps
<1>5. ASSUME NEW m \in Mobiles, StreamOpens(m) PROVE IInv'
  BY <1>5, StreamOpensKeeps
<1>6. ASSUME NEW m \in Mobiles, NEW v \in Volumes, a2dp_volume_local_set(m, v) PROVE IInv'
  BY <1>6, SetKeeps
<1>7. CASE ClearPairing
  BY <1>7, ClearKeeps
<1>8. CASE VolumeRead
  BY <1>8, VolumeReadKeeps
<1>9. CASE VolumeWrite
  BY <1>9, VolumeWriteKeeps
<1>10. CASE VolumeTouch
  BY <1>10, VolumeTouchKeeps
<1>11. CASE Flush
  BY <1>11, FlushKeeps
<1>12. CASE Reboot
  BY <1>12, RebootKeeps
<1>13. CASE UNCHANGED vars
  <2>1. /\ info' = info /\ saved' = saved /\ is_update' = is_update /\ vol_p' = vol_p
        /\ stream_vol' = stream_vol /\ op' = op /\ link' = link /\ unheard' = unheard
        /\ links' = links /\ vols' = vols /\ boots' = boots
    BY <1>13 DEF vars
  <2>2. OnePhone' /\ Aimed'
    BY <2>1, StaysAimed
  <2>q. QED BY <2>1, <2>2 DEF IInv, TypeOK, Marked
<1>q. QED BY <1>1, <1>2, <1>3, <1>4, <1>5, <1>6, <1>7, <1>8, <1>9, <1>10, <1>11, <1>12,
             <1>13 DEF Next

\* IInv is an invariant of the records and the pointer.
THEOREM Invariance == Spec => []IInv
<1>1. Init => IInv
  BY InitIInv
<1>2. IInv /\ [Next]_vars => IInv'
  BY StepIInv
<1>q. QED BY <1>1, <1>2, PTL DEF Spec

\* Counts, slots, pointer and volumes stay in their ranges, however full the
\* list is and wherever the pointer is left.
THEOREM TypeCorrectness == Spec => []TypeOK
<1>1. IInv => TypeOK
  BY DEF IInv
<1>q. QED BY <1>1, Invariance, PTL

\* Whatever differs from flash is marked for saving or about to be.
THEOREM ChangesAreMarked == Spec => []Marked
<1>1. IInv => Marked
  BY DEF IInv
<1>q. QED BY <1>1, Invariance, PTL

\* While a phone with a record is connected and nobody is about to be
\* indicated, volume changes go to that phone's record.
THEOREM PointerAtPhone == Spec => []VolumeOwner
<1>1. IInv => VolumeOwner
  <2>1. SUFFICES ASSUME IInv, NEW m \in Talking(link), Index(info, m) # -1, ~unheard,
                        \A d \in Devices : link[d] # "keyed"
                 PROVE  vol_p = Index(info, m)
    BY DEF VolumeOwner
  <2>2. m \in Mobiles /\ link[m] = "up" /\ ~Pushed
    BY <2>1 DEF Talking, Pushed, Devices
  <2>q. QED BY <2>1, <2>2 DEF IInv, Aimed
<1>q. QED BY <1>1, Invariance, PTL

-----------------------------------------------------------------------------
(* The array implements the list of RecentDevices.                         *)

\* The list an array stands for.
LEMMA ListedIs ==
    ASSUME NEW r, Proper(r)
    PROVE  /\ DOMAIN Listed(r) = 1 .. r.num /\ Len(Listed(r)) = r.num /\ r.num \in 0 .. Count
           /\ \A i \in 1 .. r.num : Listed(r)[i] = r.slot[i - 1] /\ i - 1 \in Used(r)
<1>1. r.num \in 0 .. Count /\ Count \in Nat
  BY SizeAssumption DEF Proper, Records
<1>q. QED BY <1>1 DEF Listed, Used

\* A device is known to the list when it is found in the array.
LEMMA KnownIs ==
    ASSUME IInv, NEW d
    PROVE  /\ Recent!Known(d) <=> Index(info, d) # -1
           /\ Recent!Known(d) => Recent!Place(d) = Index(info, d) + 1
<1>0. Proper(info) /\ info.num \in 0 .. Count /\ Count \in Nat
  BY SizeAssumption DEF IInv, Proper, Records
<1>1. \A i \in 1 .. info.num : Listed(info)[i].addr = d => i = Index(info, d) + 1
  <2>1. SUFFICES ASSUME NEW i \in 1 .. info.num, Listed(info)[i].addr = d
                 PROVE  i = Index(info, d) + 1
    OBVIOUS
  <2>2. info.slot[i - 1].addr = d /\ i - 1 \in Used(info)
    BY <1>0, <2>1, ListedIs
  <2>3. Index(info, d) = i - 1
    BY <1>0, <2>2, IndexIs
  <2>q. QED BY <1>0, <2>3
<1>2. ASSUME Index(info, d) # -1
      PROVE  Index(info, d) + 1 \in 1 .. info.num /\ Listed(info)[Index(info, d) + 1].addr = d
  <2>1. Index(info, d) \in Used(info) /\ info.slot[Index(info, d)].addr = d
    BY <1>0, <1>2, IndexIs
  <2>2. Index(info, d) + 1 \in 1 .. info.num /\ (Index(info, d) + 1) - 1 = Index(info, d)
    BY <1>0, <2>1 DEF Used
  <2>q. QED BY <1>0, <2>1, <2>2, ListedIs
<1>3. DOMAIN Listed(info) = 1 .. info.num
  BY <1>0, ListedIs
<1>4. ASSUME NEW i \in 1 .. info.num, Listed(info)[i].addr = d PROVE Index(info, d) # -1
  <2>1. info.slot[i - 1].addr = d /\ i - 1 \in Used(info)
    BY <1>0, <1>4, ListedIs
  <2>q. QED BY <1>0, <2>1, IndexIs
<1>q. QED BY <1>1, <1>2, <1>3, <1>4 DEF Recent!Known, Recent!Place

\* A pairing is one of the list's.
LEMMA PairStep ==
    ASSUME IInv, NEW d \in Devices, NEW k \in Keys, Authenticate(d, k)
    PROVE  Recent!Pair(d, k)
<1> DEFINE q == nv_record_ddbrec_add(info, d, k)
           n == From(info, d)
           e == Added(info, d, k)
           i == Index(info, d)
           others == Recent!Others(d)
           m == IF Len(others) < Count THEN Len(others) + 1 ELSE Count
<1>1. info' = q /\ saved' = saved
  BY DEF Authenticate
<1>2. Proper(info) /\ Proper(q) /\ info.num \in 0 .. Count /\ Count \in Nat \ {0}
  BY AddKeeps, SizeAssumption DEF IInv, Proper, Records
<1>3. /\ n \in Slots /\ n < q.num /\ q.num \in 1 .. Count
      /\ q.num = IF i # -1 \/ info.num = Count THEN info.num ELSE info.num + 1
      /\ q.slot = [j \in Slots |-> IF j = 0 THEN e
                                   ELSE IF j \in 1 .. n THEN info.slot[j - 1] ELSE info.slot[j]]
  BY <1>2, AddIs
<1>4. n = IF i # -1 THEN i ELSE IF info.num = Count THEN Count - 1 ELSE info.num
  BY DEF From
<1>5. i = -1 \/ (i \in Nat /\ i < info.num)
  BY <1>2, IndexIs DEF Used
<1>6. e = [addr |-> d, key |-> k, vol |-> Recent!VolumeOf(d)]
  <2>1. CASE i = -1
    BY <2>1, KnownIs DEF Added, Recent!VolumeOf
  <2>2. CASE i # -1
    <3>1. Recent!Known(d) /\ Recent!Place(d) = i + 1
      BY <2>2, KnownIs
    <3>2. i + 1 \in 1 .. info.num /\ (i + 1) - 1 = i
      BY <1>2, <1>5, <2>2
    <3>3. Listed(info)[i + 1] = info.slot[i]
      BY <1>2, <3>2, ListedIs
    <3>q. QED BY <2>2, <3>1, <3>3 DEF Added, Recent!VolumeOf
  <2>q. QED BY <2>1, <2>2
<1>7. ASSUME i = -1
      PROVE  others = Listed(info) /\ Len(others) = info.num
  BY <1>2, <1>7, KnownIs, ListedIs DEF Recent!Others
<1>8. ASSUME i # -1
      PROVE  /\ others = [j \in 1 .. info.num - 1 |-> Listed(info)[IF j < i + 1 THEN j ELSE j + 1]]
             /\ Len(others) = info.num - 1
  <2>1. Recent!Known(d) /\ Recent!Place(d) = i + 1 /\ Len(Listed(info)) = info.num
    BY <1>2, <1>8, KnownIs, ListedIs
  <2>2. others = [j \in 1 .. info.num - 1 |-> Listed(info)[IF j < i + 1 THEN j ELSE j + 1]]
    BY <2>1 DEF Recent!Others
  <2>3. info.num - 1 \in Nat
    BY <1>2, <1>5, <1>8
  <2> HIDE DEF others, i
  <2>q. QED BY <2>2, <2>3
<1> HIDE DEF q, n, e, i, others
<1>9. m = q.num
  BY <1>2, <1>3, <1>5, <1>7, <1>8
<1>10. ASSUME NEW j \in 1 .. q.num, j # 1
       PROVE  others[j - 1] = q.slot[j - 1]
  <2>1. j - 1 \in Slots /\ j - 1 \in Nat /\ j - 1 # 0 /\ n \in Nat
    BY <1>2, <1>3, <1>10 DEF Slots
  <2>2. q.slot[j - 1] = IF j - 1 <= n THEN info.slot[j - 2] ELSE info.slot[j - 1]
    BY <1>3, <2>1
  <2>3. CASE i = -1
    <3>1. j - 1 <= n /\ j - 1 \in 1 .. info.num
      BY <1>2, <1>3, <1>4, <1>10, <2>1, <2>3
    <3>2. others[j - 1] = info.slot[(j - 1) - 1]
      BY <1>2, <1>7, <2>3, <3>1, ListedIs
    <3>q. QED BY <2>2, <3>1, <3>2
  <2>4. CASE i # -1
    <3>1. n = i /\ q.num = info.num /\ j - 1 \in 1 .. info.num - 1 /\ j \in 1 .. info.num
          /\ j - 1 \in 1 .. info.num
      BY <1>2, <1>3, <1>4, <1>10, <2>1, <2>4
    <3>2. others[j - 1] = Listed(info)[IF j - 1 < i + 1 THEN j - 1 ELSE (j - 1) + 1]
      BY <1>8, <2>4, <3>1
    <3>3. Listed(info)[j - 1] = info.slot[j - 2] /\ Listed(info)[j] = info.slot[j - 1]
      BY <1>2, <3>1, ListedIs
    <3>q. QED BY <1>5, <2>1, <2>2, <2>4, <3>1, <3>2, <3>3
  <2>q. QED BY <2>3, <2>4
<1>11. Listed(q) = [j \in 1 .. m |-> IF j = 1 THEN e ELSE others[j - 1]]
  <2>1. \A j \in 1 .. q.num : q.slot[j - 1] = IF j = 1 THEN e ELSE others[j - 1]
    <3>1. q.slot[0] = e
      BY <1>2, <1>3 DEF Slots
    <3>q. QED BY <1>10, <3>1
  <2>q. QED BY <1>9, <2>1 DEF Listed
<1>12. Listed(info)' = Listed(q) /\ Listed(saved)' = Listed(saved)
  BY <1>1 DEF Listed
<1>q. QED BY <1>6, <1>11, <1>12 DEF Recent!Pair, others

\* Clearing the pairing information forgets the phones.
LEMMA ForgetStep ==
    ASSUME IInv, ClearPairing
    PROVE  Recent!ForgetMobiles
<1> DEFINE b == Index(info, Bud)
           q == LeftOver(info, 0)
<1>1. info' = q /\ saved' = saved /\ Proper(info) /\ Count \in Nat /\ info.num \in 0 .. Count
  BY DeleteMobilesIs, SizeAssumption DEF ClearPairing, IInv, Proper, Records
<1>2. 0 \in 0 .. info.num
  BY <1>1
<1>3. /\ Proper(q) /\ q.num = IF b >= 0 THEN 1 ELSE 0
      /\ q.slot = [i \in Slots |-> IF i < 0 \/ i >= info.num THEN info.slot[i]
                                   ELSE IF i = 0 /\ b >= 0 THEN info.slot[b] ELSE Blank]
  BY <1>1, <1>2, LeftOverKeeps
<1>4. b = -1 \/ (b \in Nat /\ b < info.num /\ info.slot[b].addr = Bud)
  BY <1>1, IndexIs DEF Used
<1>5. ASSUME NEW i \in 1 .. info.num
      PROVE  Listed(info)[i].addr \notin Mobiles <=> i = b + 1
  <2>1. Listed(info)[i] = info.slot[i - 1] /\ i - 1 \in Used(info)
    BY <1>1, ListedIs
  <2>2. info.slot[i - 1].addr \in Devices
    BY <1>1, <2>1 DEF Proper
  <2>3. info.slot[i - 1].addr = Bud <=> b = i - 1
    BY <1>1, <2>1, IndexIs
  <2>q. QED BY <1>4, <2>1, <2>2, <2>3, AddressAssumption DEF Devices
<1>6. Listed(info)' = Listed(q) /\ Listed(saved)' = Listed(saved)
  BY <1>1 DEF Listed
<1>7. DOMAIN Listed(info) = 1 .. info.num /\ DOMAIN Listed(q) = 1 .. q.num
  BY <1>1, <1>3, ListedIs
<1> HIDE DEF q, b
<1> DEFINE f == [j \in 1 .. q.num |-> b + 1]
<1>8. \A j \in 1 .. q.num : j = 1 /\ b >= 0 /\ b \in Nat /\ b < info.num
  BY <1>3, <1>4
<1>9. f \in [1 .. q.num -> 1 .. info.num]
  BY <1>1, <1>8
<1>10. ASSUME NEW j \in 1 .. q.num PROVE Listed(q)[j] = Listed(info)[f[j]]
  <2>1. j = 1 /\ b >= 0 /\ b \in Nat /\ b + 1 \in 1 .. info.num /\ (b + 1) - 1 = b /\ 0 \in Slots
        /\ ~(0 >= info.num)
    BY <1>1, <1>8 DEF Slots
  <2>2. Listed(q)[j] = q.slot[0]
    BY <1>3, <2>1, ListedIs
  <2>3. q.slot[0] = info.slot[b]
    BY <1>3, <2>1
  <2>4. Listed(info)[b + 1] = info.slot[b]
    BY <1>1, <2>1, ListedIs
  <2>q. QED BY <2>2, <2>3, <2>4
<1>11. \A i, j \in 1 .. q.num : i < j => f[i] < f[j]
  BY <1>8
<1>12. ASSUME NEW i \in 1 .. info.num
       PROVE  Listed(info)[i].addr \notin Mobiles <=> \E j \in 1 .. q.num : f[j] = i
  <2>1. i = b + 1 => 1 \in 1 .. q.num
    BY <1>3, <1>4
  <2>q. QED BY <1>5, <2>1
<1>13. DOMAIN f = 1 .. q.num
  OBVIOUS
<1> HIDE DEF f
<1>14. /\ f \in [DOMAIN Listed(info)' -> DOMAIN Listed(info)]
       /\ \A j \in DOMAIN f : Listed(info)'[j] = Listed(info)[f[j]]
       /\ \A i, j \in DOMAIN f : i < j => f[i] < f[j]
       /\ \A i \in DOMAIN Listed(info) :
             Listed(info)[i].addr \notin Mobiles <=> \E j \in DOMAIN f : f[j] = i
  BY <1>6, <1>7, <1>9, <1>10, <1>11, <1>12, <1>13
<1>q. QED BY <1>6, <1>14, Zenon DEF Recent!ForgetMobiles

\* Writing volumes changes volumes.
LEMMA VolumesStep ==
    ASSUME IInv, NEW q, Proper(q), info' = q, saved' = saved, q.num = info.num,
           \A i \in Slots : q.slot[i] = [info.slot[i] EXCEPT !.vol = q.slot[i].vol]
    PROVE  Recent!SetVolumes
<1>1. Proper(info)
  BY DEF IInv
<1>2. Listed(info)' = Listed(q) /\ Listed(saved)' = Listed(saved)
  BY DEF Listed
<1>3. Len(Listed(q)) = Len(Listed(info)) /\ DOMAIN Listed(info) = 1 .. info.num
  BY <1>1, ListedIs
<1>4. ASSUME NEW i \in 1 .. info.num
      PROVE  \E v \in Volumes : Listed(q)[i] = [Listed(info)[i] EXCEPT !.vol = v]
  <2>1. Listed(q)[i] = q.slot[i - 1] /\ Listed(info)[i] = info.slot[i - 1] /\ i - 1 \in Used(info)
    BY <1>1, ListedIs
  <2>2. i - 1 \in Slots
    BY <1>1, <2>1, IndexIs
  <2>3. q.slot[i - 1].vol \in Volumes
    BY <2>2 DEF Proper, Records, Entry
  <2>q. QED BY <2>1, <2>2, <2>3
<1>q. QED BY <1>2, <1>3, <1>4 DEF Recent!SetVolumes

\* The phone's setting writes one or two volumes.
LEMMA SetStep ==
    ASSUME IInv, NEW m \in Mobiles, NEW v \in Volumes, a2dp_volume_local_set(m, v)
    PROVE  Recent!SetVolumes
<1> DEFINE i == Index(info, m)
           r == SetVolumeAt(info, i, v)
           at_p == IF vol_p = Static THEN stream_vol ELSE r.slot[vol_p].vol
           q == SetVolumeAt(r, vol_p, v)
<1>1. info' = (IF at_p # v THEN q ELSE r) /\ saved' = saved
  BY DEF a2dp_volume_local_set
<1>2. i \in Slots \cup {Static} /\ vol_p \in Slots \cup {Static} /\ Proper(info)
  BY LookUp DEF IInv, TypeOK
<1>3. /\ Proper(r) /\ r.num = info.num
      /\ \A j \in Slots : r.slot[j] = [info.slot[j] EXCEPT !.vol = r.slot[j].vol]
  BY <1>2, VolumeIs
<1> HIDE DEF r, i
<1>4. /\ Proper(q) /\ q.num = r.num
      /\ \A j \in Slots : q.slot[j] = [r.slot[j] EXCEPT !.vol = q.slot[j].vol]
  BY <1>2, <1>3, VolumeIs
<1> HIDE DEF q, at_p
<1>5. ASSUME NEW j \in Slots
      PROVE  q.slot[j] = [info.slot[j] EXCEPT !.vol = q.slot[j].vol]
  <2>1. info.slot[j] \in Entry /\ r.slot[j] \in Entry
    BY <1>2, <1>3 DEF Proper, Records
  <2>2. r.slot[j] = [info.slot[j] EXCEPT !.vol = r.slot[j].vol]
        /\ q.slot[j] = [r.slot[j] EXCEPT !.vol = q.slot[j].vol]
    BY <1>3, <1>4
  <2>3. r.slot[j].addr = info.slot[j].addr /\ r.slot[j].key = info.slot[j].key
    BY <2>1, <2>2 DEF Entry
  <2>4. \A x : [r.slot[j] EXCEPT !.vol = x] = [info.slot[j] EXCEPT !.vol = x]
    BY <2>1, <2>3 DEF Entry
  <2>q. QED BY <2>2, <2>4
<1>6. CASE at_p # v
  BY <1>1, <1>3, <1>4, <1>5, <1>6, VolumesStep
<1>7. CASE at_p = v
  BY <1>1, <1>3, <1>7, VolumesStep
<1>q. QED BY <1>6, <1>7

\* The audio thread writes one volume, or none that is listed.
LEMMA WriteStep ==
    ASSUME IInv, VolumeWrite
    PROVE  Recent!SetVolumes
<1> DEFINE q == SetVolumeAt(info, vol_p, op.vol)
<1>1. info' = q /\ saved' = saved
  BY DEF VolumeWrite
<1>2. op.vol \in Volumes /\ vol_p \in Slots \cup {Static} /\ Proper(info)
  BY DEF IInv, TypeOK
<1>3. /\ Proper(q) /\ q.num = info.num
      /\ \A j \in Slots : q.slot[j] = [info.slot[j] EXCEPT !.vol = q.slot[j].vol]
  BY <1>2, VolumeIs
<1> HIDE DEF q
<1>q. QED BY <1>1, <1>3, VolumesStep

\* Every step of the array is a step of the list, or changes neither list.
LEMMA ListStep ==
    ASSUME IInv, [Next]_vars
    PROVE  Recent!Next \/ UNCHANGED <<Listed(info), Listed(saved)>>
<1>1. ASSUME NEW d \in Devices, NEW k \in Keys, Authenticate(d, k) PROVE Recent!Next
  BY <1>1, PairStep DEF Recent!Next
<1>2. ASSUME NEW m \in Mobiles, NEW v \in Volumes, a2dp_volume_local_set(m, v) PROVE Recent!Next
  BY <1>2, SetStep DEF Recent!Next
<1>3. CASE ClearPairing
  BY <1>3, ForgetStep DEF Recent!Next
<1>4. CASE VolumeWrite
  BY <1>4, WriteStep DEF Recent!Next
<1>5. CASE Flush
  BY <1>5 DEF Flush, Listed, Recent!Next, Recent!Keep
<1>6. CASE Reboot
  BY <1>6 DEF Reboot, Listed, Recent!Next, Recent!Restart
<1>7. CASE info' = info /\ saved' = saved
  BY <1>7 DEF Listed
<1>8. \/ \E d \in Devices, k \in Keys : Authenticate(d, k)
      \/ \E m \in Mobiles, v \in Volumes : a2dp_volume_local_set(m, v)
      \/ ClearPairing \/ VolumeWrite \/ Flush \/ Reboot
      \/ info' = info /\ saved' = saved
  BY DEF Next, vars, Reconnect, Connected, Disconnect, StreamOpens, VolumeRead, VolumeTouch
<1>q. QED BY <1>1, <1>2, <1>3, <1>4, <1>5, <1>6, <1>7, <1>8

\* The slots that are copied one after the other implement a list of
\* different devices, the one paired last in front, for any number of slots:
\* a device that returns keeps its volume, and nobody is forgotten but the
\* last of a full list and the phones that are cleared.
THEOREM ArrayImplementsList == Spec => ImplementsRecent
<1>1. Init => Recent!Init
  <2>1. SUFFICES ASSUME Init PROVE Recent!Init
    OBVIOUS
  <2>2. info.num = 0 /\ saved = info
    BY <2>1 DEF Init
  <2>3. Listed(info) = <<>> /\ Listed(saved) = <<>>
    BY <2>2 DEF Listed
  <2>q. QED BY <2>3 DEF Recent!Init
<1>2. IInv /\ [Next]_vars => [Recent!Next]_<<Listed(info), Listed(saved)>>
  BY ListStep
<1>q. QED BY <1>1, <1>2, Invariance, PTL DEF Spec, ImplementsRecent, Recent!Spec
=============================================================================
