-------------------------- MODULE OpbConfigProofs ---------------------------
(***************************************************************************)
(* Proofs about OpbConfig, for any settings, names and number of writes.   *)
(***************************************************************************)
EXTENDS OpbConfig, FiniteSetTheorems, TLAPS

-----------------------------------------------------------------------------
(* Facts about buds, names and records.                                    *)

\* Each bud has one peer, and is the peer of its peer.
LEMMA Peers ==
    ASSUME NEW b \in Buds
    PROVE  Peer(b) \in Buds /\ Peer(b) # b /\ Buds = {b, Peer(b)} /\ Peer(Peer(b)) = b
<1>1. IsFiniteSet(Buds \ {b}) /\ Cardinality(Buds \ {b}) = 1
  BY BudAssumption, FS_RemoveElement
<1>2. PICK c : Buds \ {b} = {c}
  BY <1>1, FS_Singleton
<1>3. Buds = {b, c} /\ b # c
  BY <1>2
<1>4. Peer(b) = c /\ Peer(c) = b
  BY <1>3 DEF Peer
<1>q. QED BY <1>3, <1>4

\* strncpy of a name that was stored before changes nothing.
LEMMA ShortenedStored ==
    /\ \A n \in Names : Shortened(n) \in StoredNames
    /\ \A n \in StoredNames : Shortened(n) = n
<1>1. \A n \in Names : Shortened(n) \in StoredNames
  BY DEF StoredNames
<1>2. ASSUME NEW n \in StoredNames PROVE Shortened(n) = n
  <2>1. CASE n = NoName
    BY <2>1, NameAssumption DEF Shortened
  <2>2. ASSUME NEW m \in Names, n = Shortened(m)
        PROVE  Shortened(n) = n
    <3>1. m = [id |-> m.id, len |-> m.len] /\ m.len \in Nat /\ NvMax \in Nat
      BY NameAssumption
    <3>2. n.len <= NvMax /\ n.len \in Nat
      BY <2>2, <3>1 DEF Shortened
    <3>q. QED BY <3>1, <3>2 DEF Shortened
  <2>q. QED BY <2>1, <2>2 DEF StoredNames
<1>q. QED BY <1>1, <1>2

\* The configuration and record of a bud while they agree.
States == [cur : Config, rec : Record]
Saved(st) == st \in States /\ st.cur = st.rec.config

\* A configuration of known action codes is valid.
LEMMA KnownIsValid ==
    ASSUME NEW c \in Config
    PROVE  validate_config(c)
BY SettingAssumption DEF Config, validate_config

\* app_opb_config_set applies and saves.
LEMMA SetSaves ==
    ASSUME NEW st, Saved(st), NEW c \in Config
    PROVE  LET s == app_opb_config_set(st, c) IN
           Saved(s) /\ s.cur = c /\ s.rec.name = st.rec.name
BY KnownIsValid DEF Saved, States, Record, app_opb_config_set, nv_record_set_button_config

\* opb_config_tws_sync_info_prepare_handler sends the record in use.
LEMMA PreparesRecord ==
    ASSUME NEW st, Saved(st)
    PROVE  Prepared(st) = st.rec /\ Prepared(st) \in Record
<1>1. Shortened(st.rec.name) = st.rec.name
  BY ShortenedStored DEF Saved, States, Record
<1>q. QED BY <1>1 DEF Saved, States, Record, Prepared

\* opb_config_tws_sync_info_received_handler takes the whole record.
LEMMA ReceivesRecord ==
    ASSUME NEW st, Saved(st), NEW data \in Record
    PROVE  Saved(Received(st, data)) /\ Received(st, data).rec = data
<1> DEFINE s == app_opb_config_set(st, data.config)
<1>1. Saved(s) /\ s.cur = data.config
  BY SetSaves DEF Record
<1>2. Shortened(data.name) = data.name /\ data.name \in StoredNames
  BY ShortenedStored DEF Record
<1>3. Received(st, data) = [s EXCEPT !.rec = [s.rec EXCEPT !.name = data.name]]
  BY <1>2 DEF Received, nv_record_set_device_name
<1> HIDE DEF s
<1>4. s \in States /\ s.rec \in Record
  BY <1>1 DEF Saved, States
<1>5. [s.rec EXCEPT !.name = data.name] = [config |-> data.config, name |-> data.name]
  BY <1>1, <1>4 DEF Saved, Record
<1>6. data = [config |-> data.config, name |-> data.name]
  BY DEF Record
<1>7. Received(st, data) = [s EXCEPT !.rec = data]
  BY <1>3, <1>5, <1>6
<1>8. Received(st, data) = [cur |-> data.config, rec |-> data]
  BY <1>1, <1>4, <1>7 DEF States
<1>q. QED BY <1>8 DEF Saved, States, Record

-----------------------------------------------------------------------------
(* What each bud applies is what its record holds, and every record and    *)
(* message is well formed.  A step keeps this because every handler runs   *)
(* its change through app_opb_config_set or leaves both parts alone.       *)

Applied == \A b \in Buds : current[b] = mirror[b].config
IInv == TypeOK /\ Applied

\* The state of a bud is one it has saved.
LEMMA StateIsSaved ==
    ASSUME IInv, NEW b \in Buds
    PROVE  Saved(StateOf(b))
BY DEF IInv, TypeOK, Applied, Saved, States, StateOf

\* A bud takes over a saved state; the other one keeps its own.
LEMMA TakesOver ==
    ASSUME IInv, NEW b \in Buds, NEW st, Saved(st), Became(b, st)
    PROVE  /\ current' \in [Buds -> Config] /\ mirror' \in [Buds -> Record]
           /\ Applied'
           /\ mirror'[b] = st.rec
           /\ \A c \in Buds \ {b} : mirror'[c] = mirror[c]
<1> USE DEF IInv, TypeOK
<1>1. st.cur \in Config /\ st.rec \in Record /\ st.cur = st.rec.config
  BY DEF Saved, States
<1>2. /\ current' = [current EXCEPT ![b] = st.cur]
      /\ mirror' = [mirror EXCEPT ![b] = st.rec]
  BY DEF Became
<1>3. ASSUME NEW c \in Buds PROVE current'[c] = mirror'[c].config
  BY <1>1, <1>2 DEF Applied
<1>q. QED BY <1>1, <1>2, <1>3 DEF Applied

\* A client's write, to either side or of the name, leaves a saved state.
LEMMA WriteIsSaved ==
    ASSUME IInv, NEW b \in Buds
    PROVE  /\ \A side \in {"left", "right"}, v \in Settings \cup {Unknown} :
                 LET c == [current[b] EXCEPT ![side] = v] IN
                 validate_config(c) => Saved(app_opb_config_set(StateOf(b), c))
           /\ \A n \in Names :
                 Saved([StateOf(b) EXCEPT !.rec = nv_record_set_device_name(@, n)])
<1>1. Saved(StateOf(b)) /\ current[b] \in Config
  BY StateIsSaved DEF IInv, TypeOK
<1>2. ASSUME NEW side \in {"left", "right"}, NEW v \in Settings \cup {Unknown},
             validate_config([current[b] EXCEPT ![side] = v])
      PROVE  Saved(app_opb_config_set(StateOf(b), [current[b] EXCEPT ![side] = v]))
  <2>1. v # Unknown
    BY <1>1, <1>2 DEF validate_config, Config
  <2>2. [current[b] EXCEPT ![side] = v] \in Config
    BY <1>1, <2>1 DEF Config
  <2>q. QED BY <1>1, <2>2, SetSaves
<1>3. ASSUME NEW n \in Names
      PROVE  Saved([StateOf(b) EXCEPT !.rec = nv_record_set_device_name(@, n)])
  <2>1. Shortened(n) \in StoredNames
    BY ShortenedStored
  <2>q. QED BY <1>1, <2>1 DEF Saved, States, Record, nv_record_set_device_name
<1>q. QED BY <1>2, <1>3

\* A message sent keeps the channels well formed.
LEMMA Sends ==
    ASSUME NEW q \in Seq(Message), NEW m \in Message
    PROVE  /\ Append(q, m) \in Seq(Message) /\ Append(q, m) # <<>>
           /\ Len(Append(q, m)) = Len(q) + 1
           /\ Append(q, m)[Len(q) + 1] = m
           /\ \A i \in 1 .. Len(q) : Append(q, m)[i] = q[i]
OBVIOUS

\* A message taken: the others move up by one.
LEMMA Takes ==
    ASSUME NEW q \in Seq(Message), q # <<>>
    PROVE  /\ Head(q) \in Message /\ Head(q) = q[1] /\ Len(q) > 0
           /\ Tail(q) \in Seq(Message) /\ Len(Tail(q)) = Len(q) - 1
           /\ \A i \in 1 .. Len(Tail(q)) : Tail(q)[i] = q[i + 1]
OBVIOUS

\* What a write and its synchronisation do to the channels.
LEMMA SyncSends ==
    ASSUME IInv, NEW b \in Buds, NEW st, Saved(st), app_tws_if_sync_info(b, st)
    PROVE  /\ chan' \in [Buds -> Seq(Message)]
           /\ connected => chan' = [chan EXCEPT ![Peer(b)] =
                                       Append(chan[Peer(b)], [kind |-> "cmd", data |-> st.rec])]
<1>1. Prepared(st) = st.rec /\ st.rec \in Record
  BY PreparesRecord DEF Saved, States
<1>2. [kind |-> "cmd", data |-> st.rec] \in Message
  BY <1>1 DEF Message
<1>3. Peer(b) \in Buds
  BY Peers
<1>4. Append(chan[Peer(b)], [kind |-> "cmd", data |-> st.rec]) \in Seq(Message)
  BY <1>2, <1>3 DEF IInv, TypeOK
<1>5. chan' = IF connected
              THEN [chan EXCEPT ![Peer(b)] =
                       Append(chan[Peer(b)], [kind |-> "cmd", data |-> st.rec])]
              ELSE chan
  BY <1>1 DEF app_tws_if_sync_info
<1>q. QED BY <1>4, <1>5 DEF IInv, TypeOK

\* A command taken: the record is the one sent, and the answer carries it.
LEMMA CommandStep ==
    ASSUME IInv, NEW b \in Buds, ReceiveCommand(b)
    PROVE  LET p == Peer(b)
               d == Head(chan[b]).data
           IN  /\ d \in Record
               /\ current' \in [Buds -> Config] /\ mirror' \in [Buds -> Record] /\ Applied'
               /\ mirror'[b] = d /\ mirror'[p] = mirror[p]
               /\ [kind |-> "rsp", data |-> d] \in Message
               /\ chan' \in [Buds -> Seq(Message)]
               /\ chan'[b] = Tail(chan[b])
               /\ chan'[p] = Append(chan[p], [kind |-> "rsp", data |-> d])
<1> DEFINE p == Peer(b)
           d == Head(chan[b]).data
           st == Received(StateOf(b), d)
<1>1. p \in Buds /\ p # b
  BY Peers
<1>2. chan[b] \in Seq(Message) /\ chan[p] \in Seq(Message) /\ chan[b] # <<>>
  BY <1>1 DEF IInv, TypeOK, ReceiveCommand
<1>3. d \in Record /\ Tail(chan[b]) \in Seq(Message)
  BY <1>2, Takes DEF Message
<1>4. Saved(st) /\ st.rec = d
  BY <1>3, StateIsSaved, ReceivesRecord
<1>5. Prepared(st) = d
  BY <1>4, PreparesRecord
<1>6. Became(b, st) /\ chan' = [chan EXCEPT ![b] = Tail(@), ![p] = Append(@, Answer(b, st))]
  BY DEF ReceiveCommand
<1>7. Answer(b, st) = [kind |-> "rsp", data |-> d]
  BY <1>5 DEF Answer
<1>8. [kind |-> "rsp", data |-> d] \in Message
  BY <1>3 DEF Message
<1>9. Append(chan[p], [kind |-> "rsp", data |-> d]) \in Seq(Message)
  BY <1>2, <1>8
<1> HIDE DEF p, d, st
<1>10. /\ chan' = [chan EXCEPT ![b] = Tail(chan[b]),
                              ![p] = Append(chan[p], [kind |-> "rsp", data |-> d])]
  BY <1>1, <1>6, <1>7 DEF IInv, TypeOK
<1>11. /\ chan' \in [Buds -> Seq(Message)]
       /\ chan'[b] = Tail(chan[b])
       /\ chan'[p] = Append(chan[p], [kind |-> "rsp", data |-> d])
  BY <1>1, <1>3, <1>9, <1>10 DEF IInv, TypeOK
<1>12. /\ current' \in [Buds -> Config] /\ mirror' \in [Buds -> Record] /\ Applied'
       /\ mirror'[b] = d /\ mirror'[p] = mirror[p]
  BY <1>1, <1>4, <1>6, TakesOver
<1>q. QED BY <1>3, <1>8, <1>11, <1>12 DEF p, d

\* A response taken: the record is the one sent.
LEMMA ResponseStep ==
    ASSUME IInv, NEW b \in Buds, ReceiveResponse(b)
    PROVE  LET p == Peer(b)
               d == Head(chan[b]).data
           IN  /\ d \in Record
               /\ current' \in [Buds -> Config] /\ mirror' \in [Buds -> Record] /\ Applied'
               /\ mirror'[b] = d /\ mirror'[p] = mirror[p]
               /\ chan' \in [Buds -> Seq(Message)]
               /\ chan'[b] = Tail(chan[b]) /\ chan'[p] = chan[p]
<1> DEFINE p == Peer(b)
           d == Head(chan[b]).data
           st == Received(StateOf(b), d)
<1>1. p \in Buds /\ p # b
  BY Peers
<1>2. chan[b] \in Seq(Message) /\ chan[b] # <<>>
  BY DEF IInv, TypeOK, ReceiveResponse
<1>3. d \in Record /\ Tail(chan[b]) \in Seq(Message)
  BY <1>2, Takes DEF Message
<1>4. Saved(st) /\ st.rec = d
  BY <1>3, StateIsSaved, ReceivesRecord
<1>5. Became(b, st) /\ chan' = [chan EXCEPT ![b] = Tail(@)]
  BY DEF ReceiveResponse
<1> HIDE DEF p, d, st
<1>6. /\ chan' \in [Buds -> Seq(Message)]
      /\ chan'[b] = Tail(chan[b]) /\ chan'[p] = chan[p]
  BY <1>1, <1>3, <1>5 DEF IInv, TypeOK
<1>7. /\ current' \in [Buds -> Config] /\ mirror' \in [Buds -> Record] /\ Applied'
      /\ mirror'[b] = d /\ mirror'[p] = mirror[p]
  BY <1>1, <1>4, <1>5, TakesOver
<1>q. QED BY <1>3, <1>6, <1>7 DEF p, d

\* A write that was accepted.
LEMMA AcceptedStep ==
    ASSUME IInv, NEW b \in Buds, NEW st, Saved(st), NEW field, NEW value,
           Accepted(b, st, field, value)
    PROVE  /\ current' \in [Buds -> Config] /\ mirror' \in [Buds -> Record] /\ Applied'
           /\ chan' \in [Buds -> Seq(Message)]
           /\ connected => /\ chan'[Peer(b)] =
                                 Append(chan[Peer(b)], [kind |-> "cmd", data |-> st.rec])
                           /\ chan'[b] = chan[b]
                           /\ [kind |-> "cmd", data |-> st.rec] \in Message
<1>1. Became(b, st) /\ app_tws_if_sync_info(b, st)
  BY DEF Accepted
<1>2. Peer(b) \in Buds /\ Peer(b) # b
  BY Peers
<1>3. [kind |-> "cmd", data |-> st.rec] \in Message
  BY DEF Saved, States, Message
<1>4. /\ chan' \in [Buds -> Seq(Message)]
      /\ connected => chan' = [chan EXCEPT ![Peer(b)] =
                                  Append(chan[Peer(b)], [kind |-> "cmd", data |-> st.rec])]
  BY <1>1, SyncSends
<1>5. chan \in [Buds -> Seq(Message)]
  BY DEF IInv, TypeOK
<1>6. current' \in [Buds -> Config] /\ mirror' \in [Buds -> Record] /\ Applied'
  BY <1>1, TakesOver
<1>q. QED BY <1>2, <1>3, <1>4, <1>5, <1>6

\* A write to any of the characteristics.
Write(b) ==
    \/ \E side \in {"left", "right"}, v \in Settings \cup {Unknown} : WriteConfig(b, side, v)
    \/ \E n \in Names : WriteName(b, n)

\* A write is counted, and is refused or accepted with a saved state.
LEMMA WriteStep ==
    ASSUME IInv, NEW b \in Buds, Write(b)
    PROVE  /\ b \in Writers /\ writes < MaxWrites /\ writes' = writes + 1
           /\ UNCHANGED <<stored, connected, drops>>
           /\ \/ Refused
              \/ \E st, field, value : Saved(st) /\ Accepted(b, st, field, value)
<1>1. ASSUME NEW side \in {"left", "right"}, NEW v \in Settings \cup {Unknown},
             WriteConfig(b, side, v)
      PROVE  /\ b \in Writers /\ writes < MaxWrites /\ writes' = writes + 1
             /\ UNCHANGED <<stored, connected, drops>>
             /\ \/ Refused
                \/ \E st, field, value : Saved(st) /\ Accepted(b, st, field, value)
  <2> DEFINE c == [current[b] EXCEPT ![side] = v]
  <2>1. CASE validate_config(c) /\ Accepted(b, app_opb_config_set(StateOf(b), c), side, v)
    BY <1>1, <2>1, WriteIsSaved DEF WriteConfig
  <2>2. CASE Refused
    BY <1>1, <2>2 DEF WriteConfig
  <2>q. QED BY <1>1, <2>1, <2>2 DEF WriteConfig
<1>2. ASSUME NEW n \in Names, WriteName(b, n)
      PROVE  /\ b \in Writers /\ writes < MaxWrites /\ writes' = writes + 1
             /\ UNCHANGED <<stored, connected, drops>>
             /\ \/ Refused
                \/ \E st, field, value : Saved(st) /\ Accepted(b, st, field, value)
  <2> DEFINE st == [StateOf(b) EXCEPT !.rec = nv_record_set_device_name(@, n)]
  <2>1. CASE Accepted(b, st, "name", n)
    BY <1>2, <2>1, WriteIsSaved DEF WriteName
  <2>2. CASE Refused
    BY <1>2, <2>2 DEF WriteName
  <2>q. QED BY <1>2, <2>1, <2>2 DEF WriteName
<1>q. QED BY <1>1, <1>2 DEF Write

\* The actions, write by write and bud by bud.
LEMMA NextCases ==
    ASSUME Next
    PROVE  \/ Disconnect
           \/ Connect
           \/ \E b \in Buds : \/ Write(b)
                              \/ ReceiveCommand(b)
                              \/ ReceiveResponse(b)
                              \/ Flush(b)
                              \/ Reboot(b)
BY DEF Next, Write

\* A fresh pair of buds.
LEMMA InitIInv ==
    ASSUME Init
    PROVE  IInv
<1> DEFINE fresh == [config |-> [left |-> Default, right |-> Default], name |-> NoName]
<1>1. fresh.config \in Config /\ fresh \in Record
  BY SettingAssumption DEF Config, Record, StoredNames
<1>2. /\ current = [b \in Buds |-> fresh.config] /\ mirror = [b \in Buds |-> fresh]
      /\ stored = [b \in Buds |-> fresh] /\ chan = [b \in Buds |-> <<>>]
      /\ connected = TRUE /\ writes = 0 /\ drops = 0
  BY DEF Init
<1> HIDE DEF fresh
<1>3. <<>> \in Seq(Message)
  OBVIOUS
<1>q. QED BY <1>1, <1>2, <1>3, BoundAssumption DEF IInv, TypeOK, Applied

\* Every step keeps IInv.
LEMMA StepIInv ==
    ASSUME IInv, [Next]_vars
    PROVE  IInv'
<1> USE DEF IInv
<1>0. /\ current \in [Buds -> Config] /\ mirror \in [Buds -> Record]
      /\ stored \in [Buds -> Record] /\ chan \in [Buds -> Seq(Message)]
      /\ connected \in BOOLEAN /\ writes \in 0 .. MaxWrites /\ drops \in 0 .. MaxDrops
      /\ MaxWrites \in Nat /\ MaxDrops \in Nat
  BY BoundAssumption DEF TypeOK
<1>e. [b \in Buds |-> <<>>] \in [Buds -> Seq(Message)]
  OBVIOUS
<1>1. CASE Disconnect
  <2>1. /\ current' = current /\ mirror' = mirror /\ stored' = stored /\ writes' = writes
        /\ chan' = [b \in Buds |-> <<>>] /\ connected' = FALSE /\ drops' \in 0 .. MaxDrops
    BY <1>0, <1>1 DEF Disconnect
  <2>q. QED BY <1>0, <1>e, <2>1 DEF TypeOK, Applied
<1>2. CASE Connect
  BY <1>0, <1>2 DEF Connect, TypeOK, Applied
<1>3. ASSUME NEW b \in Buds, Write(b) PROVE IInv'
  <2>1. writes' \in 0 .. MaxWrites /\ stored' = stored /\ connected' = connected /\ drops' = drops
    BY <1>0, <1>3, WriteStep
  <2>2. CASE Refused
    BY <1>0, <2>1, <2>2 DEF Refused, TypeOK, Applied
  <2>3. ASSUME NEW st, NEW field, NEW value, Saved(st), Accepted(b, st, field, value)
        PROVE  IInv'
    <3>1. /\ current' \in [Buds -> Config] /\ mirror' \in [Buds -> Record] /\ Applied'
          /\ chan' \in [Buds -> Seq(Message)]
      BY <2>3, AcceptedStep
    <3>q. QED BY <1>0, <2>1, <3>1 DEF TypeOK
  <2>q. QED BY <1>3, <2>2, <2>3, WriteStep
<1>4. ASSUME NEW b \in Buds, ReceiveCommand(b) PROVE IInv'
  <2>1. /\ current' \in [Buds -> Config] /\ mirror' \in [Buds -> Record] /\ Applied'
        /\ chan' \in [Buds -> Seq(Message)]
    BY <1>4, CommandStep
  <2>q. QED BY <1>0, <1>4, <2>1 DEF ReceiveCommand, TypeOK
<1>5. ASSUME NEW b \in Buds, ReceiveResponse(b) PROVE IInv'
  <2>1. /\ current' \in [Buds -> Config] /\ mirror' \in [Buds -> Record] /\ Applied'
        /\ chan' \in [Buds -> Seq(Message)]
    BY <1>5, ResponseStep
  <2>q. QED BY <1>0, <1>5, <2>1 DEF ReceiveResponse, TypeOK
<1>6. ASSUME NEW b \in Buds, Flush(b) PROVE IInv'
  BY <1>0, <1>6 DEF Flush, TypeOK, Applied
<1>7. ASSUME NEW b \in Buds, Reboot(b) PROVE IInv'
  <2>1. stored[b] \in Record /\ stored[b].config \in Config
    BY <1>0 DEF Record
  <2>2. /\ mirror' = [mirror EXCEPT ![b] = stored[b]]
        /\ current' = [current EXCEPT ![b] = stored[b].config]
        /\ chan' = [c \in Buds |-> <<>>] /\ connected' = FALSE
        /\ stored' = stored /\ writes' = writes /\ drops' \in 0 .. MaxDrops
    BY <1>0, <1>7 DEF Reboot
  <2>3. current' \in [Buds -> Config] /\ mirror' \in [Buds -> Record]
    BY <1>0, <2>1, <2>2
  <2>4. Applied'
    BY <1>0, <2>2 DEF Applied
  <2>q. QED BY <1>0, <1>e, <2>2, <2>3, <2>4 DEF TypeOK
<1>8. CASE UNCHANGED vars
  BY <1>0, <1>8 DEF vars, TypeOK, Applied
<1>q. QED BY <1>1, <1>2, <1>3, <1>4, <1>5, <1>6, <1>7, <1>8, NextCases

\* IInv is an invariant of the buds, for any set of writers.
THEOREM Invariance == Spec => []IInv
<1>1. Init => IInv
  BY InitIInv
<1>2. IInv /\ [Next]_vars => IInv'
  BY StepIInv
<1>q. QED BY <1>1, <1>2, PTL DEF Spec

\* The configuration and record of each bud, every message on the link and
\* both counters stay well formed, for any settings, names and bounds.
THEOREM TypeCorrectness == Spec => []TypeOK
<1>1. IInv => TypeOK
  BY DEF IInv
<1>q. QED BY <1>1, Invariance, PTL

\* Whoever writes, and whatever the link and the flash do, the action a key
\* press runs is the one in the bud's record, and it is a known one.
THEOREM AppliedIsSaved == Spec => []SavedAsApplied
<1>1. IInv => SavedAsApplied
  BY KnownIsValid DEF IInv, TypeOK, Applied, SavedAsApplied
<1>q. QED BY <1>1, Invariance, PTL

-----------------------------------------------------------------------------
(* One writer, and a link that has held: commands run one way and answers  *)
(* the other, and when no command is left on the link the last answer, or  *)
(* the writer itself if there is none, has the peer's record.  The record  *)
(* in between may be older than the writer's own: the writer takes back    *)
(* what it sent before (see LastWriteStays), but never ends with a record  *)
(* other than its peer's.                                                  *)

OneWay(w) ==
    /\ \A i \in 1 .. Len(chan[Peer(w)]) : chan[Peer(w)][i].kind = "cmd"
    /\ \A i \in 1 .. Len(chan[w]) : chan[w][i].kind = "rsp"
Converges(w) ==
    /\ chan[Peer(w)] = <<>> /\ chan[w] = <<>> => mirror[w] = mirror[Peer(w)]
    /\ chan[Peer(w)] = <<>> /\ chan[w] # <<>> =>
          chan[w][Len(chan[w])].data = mirror[Peer(w)]
LinkInv(w) == drops = 0 => connected /\ OneWay(w) /\ Converges(w)

\* Nothing is on the link at first, and both records are fresh.
LEMMA InitLink ==
    ASSUME NEW w \in Buds, Init
    PROVE  LinkInv(w)
<1>1. Peer(w) \in Buds
  BY Peers
<1>q. QED BY <1>1 DEF Init, LinkInv, OneWay, Converges

\* The writer's command keeps the peer busy: Converges asks nothing.
LEMMA WriteLink ==
    ASSUME IInv, NEW w \in Buds, Writers \subseteq {w}, LinkInv(w), NEW b \in Buds, Write(b)
    PROVE  LinkInv(w)'
<1> DEFINE p == Peer(w)
<1>1. b = w /\ connected' = connected /\ drops' = drops
  BY WriteStep
<1>2. SUFFICES ASSUME drops = 0
               PROVE  connected' /\ OneWay(w)' /\ Converges(w)'
  BY <1>1 DEF LinkInv
<1>3. connected /\ OneWay(w) /\ Converges(w)
  BY <1>2 DEF LinkInv
<1>4. p \in Buds /\ chan[p] \in Seq(Message) /\ chan[w] \in Seq(Message)
  BY Peers DEF IInv, TypeOK
<1>5. CASE Refused
  BY <1>1, <1>3, <1>5 DEF Refused, OneWay, Converges
<1>6. ASSUME NEW st, NEW field, NEW value, Saved(st), Accepted(b, st, field, value)
      PROVE  connected' /\ OneWay(w)' /\ Converges(w)'
  <2> DEFINE m == [kind |-> "cmd", data |-> st.rec]
  <2>1. chan'[p] = Append(chan[p], m) /\ chan'[w] = chan[w] /\ m \in Message
    BY <1>1, <1>3, <1>6, AcceptedStep
  <2>2. m.kind = "cmd"
    OBVIOUS
  <2> HIDE DEF m
  <2>3. \A i \in 1 .. Len(chan'[p]) : chan'[p][i].kind = "cmd"
    BY <1>3, <1>4, <2>1, <2>2, Sends DEF OneWay
  <2>4. OneWay(w)'
    BY <1>3, <2>1, <2>3 DEF OneWay
  <2>5. chan'[p] # <<>>
    BY <1>4, <2>1, Sends
  <2>q. QED BY <1>1, <1>3, <2>4, <2>5 DEF Converges
<1>q. QED BY <1>1, <1>5, <1>6, WriteStep

\* A command reaches the peer, and its answer is last on the way back.
LEMMA CommandLink ==
    ASSUME IInv, NEW w \in Buds, LinkInv(w), NEW b \in Buds, ReceiveCommand(b)
    PROVE  LinkInv(w)'
<1> DEFINE p == Peer(w)
           d == Head(chan[b]).data
           m == [kind |-> "rsp", data |-> d]
<1>1. connected' = connected /\ drops' = drops
  BY DEF ReceiveCommand
<1>2. SUFFICES ASSUME drops = 0
               PROVE  connected' /\ OneWay(w)' /\ Converges(w)'
  BY <1>1 DEF LinkInv
<1>3. connected /\ OneWay(w) /\ Converges(w)
  BY <1>2 DEF LinkInv
<1>4. p \in Buds /\ Buds = {w, p} /\ p # w /\ Peer(p) = w
      /\ chan[p] \in Seq(Message) /\ chan[w] \in Seq(Message)
  BY Peers DEF IInv, TypeOK
<1>5. b = p
  <2>1. chan[b] # <<>> /\ Head(chan[b]).kind = "cmd"
    BY DEF ReceiveCommand
  <2>2. ASSUME b = w PROVE FALSE
    <3>1. Head(chan[w]) = chan[w][1] /\ 1 \in 1 .. Len(chan[w])
      BY <1>4, <2>1, <2>2, Takes
    <3>q. QED BY <1>3, <2>1, <2>2, <3>1 DEF OneWay
  <2>q. QED BY <1>4, <2>2
<1>6. /\ mirror'[p] = d /\ m \in Message
      /\ chan'[p] = Tail(chan[p]) /\ chan'[w] = Append(chan[w], m)
  BY <1>4, <1>5, CommandStep
<1>7. m.kind = "rsp" /\ m.data = d /\ chan[p] # <<>>
  BY <1>5 DEF ReceiveCommand
<1> HIDE DEF m, d, p
<1>8. \A i \in 1 .. Len(chan'[p]) : chan'[p][i].kind = "cmd"
  <2>1. SUFFICES ASSUME NEW i \in 1 .. Len(Tail(chan[p]))
                 PROVE  Tail(chan[p])[i].kind = "cmd"
    BY <1>6
  <2>2. Tail(chan[p])[i] = chan[p][i + 1] /\ i + 1 \in 1 .. Len(chan[p])
    BY <1>4, <1>7, Takes
  <2>q. QED BY <1>3, <2>2 DEF OneWay, p
<1>9. \A i \in 1 .. Len(chan'[w]) : chan'[w][i].kind = "rsp"
  BY <1>3, <1>4, <1>6, <1>7, Sends DEF OneWay
<1>10. chan'[w] # <<>> /\ chan'[w][Len(chan'[w])].data = mirror'[p]
  BY <1>4, <1>6, <1>7, Sends
<1>q. QED BY <1>1, <1>3, <1>8, <1>9, <1>10 DEF OneWay, Converges, p

\* An answer reaches the writer: the last one brings the peer's record.
LEMMA ResponseLink ==
    ASSUME IInv, NEW w \in Buds, LinkInv(w), NEW b \in Buds, ReceiveResponse(b)
    PROVE  LinkInv(w)'
<1> DEFINE p == Peer(w)
           d == Head(chan[b]).data
<1>1. connected' = connected /\ drops' = drops
  BY DEF ReceiveResponse
<1>2. SUFFICES ASSUME drops = 0
               PROVE  connected' /\ OneWay(w)' /\ Converges(w)'
  BY <1>1 DEF LinkInv
<1>3. connected /\ OneWay(w) /\ Converges(w)
  BY <1>2 DEF LinkInv
<1>4. p \in Buds /\ Buds = {w, p} /\ p # w
      /\ chan[p] \in Seq(Message) /\ chan[w] \in Seq(Message)
  BY Peers DEF IInv, TypeOK
<1>5. b = w
  <2>1. chan[b] # <<>> /\ Head(chan[b]).kind = "rsp"
    BY DEF ReceiveResponse
  <2>2. ASSUME b = p PROVE FALSE
    <3>1. Head(chan[p]) = chan[p][1] /\ 1 \in 1 .. Len(chan[p])
      BY <1>4, <2>1, <2>2, Takes
    <3>q. QED BY <1>3, <2>1, <2>2, <3>1 DEF OneWay
  <2>q. QED BY <1>4, <2>2
<1>6. /\ mirror'[w] = d /\ mirror'[p] = mirror[p]
      /\ chan'[w] = Tail(chan[w]) /\ chan'[p] = chan[p]
  BY <1>5, ResponseStep
<1>7. chan[w] # <<>> /\ d = chan[w][1].data
  BY <1>4, <1>5, Takes DEF ReceiveResponse
<1>8. /\ Len(Tail(chan[w])) = Len(chan[w]) - 1 /\ Len(chan[w]) > 0 /\ Tail(chan[w]) \in Seq(Message)
      /\ \A i \in 1 .. Len(Tail(chan[w])) : Tail(chan[w])[i] = chan[w][i + 1]
  BY <1>4, <1>7, Takes
<1> HIDE DEF d, p
<1>9. OneWay(w)'
  BY <1>3, <1>4, <1>6, <1>8 DEF OneWay, p
<1>10. ASSUME chan[p] = <<>>, Tail(chan[w]) = <<>>
       PROVE  mirror'[w] = mirror'[p]
  <2>e. Len(<<>>) = 0
    OBVIOUS
  <2>0. Len(Tail(chan[w])) = 0
    BY <1>10, <2>e, Zenon
  <2>3. Len(chan[w]) \in Nat
    BY <1>4
  <2>1. Len(chan[w]) = 1
    BY <1>8, <2>0, <2>3
  <2>2. chan[w][Len(chan[w])].data = mirror[p]
    BY <1>3, <1>7, <1>10 DEF Converges, p
  <2>q. QED BY <1>6, <1>7, <2>1, <2>2
<1>11. ASSUME chan[p] = <<>>, Tail(chan[w]) # <<>>
       PROVE  Tail(chan[w])[Len(Tail(chan[w]))].data = mirror'[p]
  <2>1. Len(Tail(chan[w])) \in 1 .. Len(Tail(chan[w]))
    BY <1>4, <1>8, <1>11
  <2>2. Tail(chan[w])[Len(Tail(chan[w]))] = chan[w][Len(chan[w])]
    BY <1>4, <1>8, <2>1
  <2>3. chan[w][Len(chan[w])].data = mirror[p]
    BY <1>3, <1>7, <1>11 DEF Converges, p
  <2>q. QED BY <1>6, <2>2, <2>3
<1>12. Converges(w)'
  BY <1>6, <1>10, <1>11 DEF Converges, p
<1>q. QED BY <1>1, <1>3, <1>9, <1>12

\* Every step of a pair with one writer keeps LinkInv.
LEMMA StepLink ==
    ASSUME IInv, NEW w \in Buds, Writers \subseteq {w}, LinkInv(w), [Next]_vars
    PROVE  LinkInv(w)'
<1>0. drops \in Nat
  BY BoundAssumption DEF IInv, TypeOK
<1>1. CASE Disconnect
  BY <1>0, <1>1 DEF Disconnect, LinkInv
<1>2. CASE Connect
  BY <1>2 DEF Connect, LinkInv
<1>3. ASSUME NEW b \in Buds, Write(b) PROVE LinkInv(w)'
  BY <1>3, WriteLink
<1>4. ASSUME NEW b \in Buds, ReceiveCommand(b) PROVE LinkInv(w)'
  BY <1>4, CommandLink
<1>5. ASSUME NEW b \in Buds, ReceiveResponse(b) PROVE LinkInv(w)'
  BY <1>5, ResponseLink
<1>6. ASSUME NEW b \in Buds, Flush(b) PROVE LinkInv(w)'
  BY <1>6 DEF Flush, LinkInv, OneWay, Converges
<1>7. ASSUME NEW b \in Buds, Reboot(b) PROVE LinkInv(w)'
  BY <1>0, <1>7 DEF Reboot, LinkInv
<1>8. CASE UNCHANGED vars
  BY <1>8 DEF vars, LinkInv, OneWay, Converges
<1>q. QED BY <1>1, <1>2, <1>3, <1>4, <1>5, <1>6, <1>7, <1>8, NextCases

\* With one client, on either bud, a link that has held leaves both buds with
\* the same configuration and name whenever it is quiet, whatever answers the
\* client's writes crossed.  (With a client on each bud it does not.)
THEOREM OneWriterKeepsInStep ==
    ASSUME NEW w \in Buds, Writers \subseteq {w}
    PROVE  Spec => []InStep
<1>1. Init => LinkInv(w)
  BY InitLink
<1>2. IInv /\ LinkInv(w) /\ [Next]_vars => LinkInv(w)'
  BY StepLink
<1>3. IInv /\ LinkInv(w) => InStep
  <2>1. SUFFICES ASSUME IInv, LinkInv(w), drops = 0, Quiet,
                        NEW b \in Buds, NEW c \in Buds
                 PROVE  current[b] = current[c] /\ mirror[b] = mirror[c]
    BY DEF InStep, BudsAgree
  <2>2. Peer(w) \in Buds /\ Buds = {w, Peer(w)}
    BY Peers
  <2>3. mirror[w] = mirror[Peer(w)]
    BY <2>1, <2>2 DEF LinkInv, Converges, Quiet
  <2>q. QED BY <2>1, <2>2, <2>3 DEF IInv, Applied
<1>q. QED BY <1>1, <1>2, <1>3, Invariance, PTL DEF Spec
=============================================================================
