-------------------------- MODULE KeyEventsProofs ---------------------------
(***************************************************************************)
(* Proofs about KeyEvents, for any intervals and thresholds, any limit of  *)
(* the counter and any number of gestures.                                 *)
(***************************************************************************)
EXTENDS KeyEvents, SequenceTheorems, TLAPS

KeyMessages == {"DOWN", "FIRST_DOWN", "CONTINUED_DOWN", "UP", "UP_AFTER_LONGPRESS", "REPEAT",
                "LONGLONGPRESS"} \cup Gestures

\* key_status between two interrupts: fewer taps counted than the last gesture
\* takes, and fewer intervals than a repeat takes.
KeyStatus ==
    [down : BOOLEAN, click : BOOLEAN, cnt : 0 .. MAX_KEY_CLICK_COUNT - 1,
     event : {"NONE", "DOWN", "UP", "LONGPRESS", "LONGLONGPRESS"},
     updown : 0 .. LongLongPress, clicked : 0 .. DoubleClick, repeat : 0 .. Repeat - 1,
     out : Seq(KeyMessages)]

Pwr == [debounce : BOOLEAN, dither : BOOLEAN, pressed : BOOLEAN, age : 0 .. Debounce]
Timer == [active : BOOLEAN, at : {"idle", "classify"}, down : BOOLEAN, need : BOOLEAN]
Thread == [at : {"idle", "handling"}, msg : KeyMessages \cup {"NONE"}, loaded : 0 .. 255]
FingerState == [down : BOOLEAN, age : 0 .. LongLongPress,
                goal : {"none", "hold"} \cup Gestures, left : 0 .. MAX_KEY_CLICK_COUNT]

Typed ==
    /\ finger \in FingerState /\ pwr \in Pwr /\ irq \in BOOLEAN /\ timer \in Timer
    /\ key \in KeyStatus /\ cnt \in 0 .. 255 /\ mail \in Seq(KeyMessages) /\ thread \in Thread
-----------------------------------------------------------------------------
(* The stages of hal_key_debounce_handler.                                 *)

\* Five gestures by the number of taps.
LEMMA FiveClicks ==
    /\ Len(Clicks) = 5 /\ MAX_KEY_CLICK_COUNT = 4 /\ DOMAIN Clicks = 1 .. 5
    /\ \A n \in 0 .. 4 : Clicks[n + 1] \in KeyMessages /\ Clicks[n + 1] \in Gestures
<1>1. Len(Clicks) = 5 /\ DOMAIN Clicks = 1 .. 5
  BY DEF Clicks
<1>2. MAX_KEY_CLICK_COUNT = 4
  BY <1>1 DEF MAX_KEY_CLICK_COUNT
<1>3. Clicks[1] \in Gestures /\ Clicks[2] \in Gestures /\ Clicks[3] \in Gestures
      /\ Clicks[4] \in Gestures /\ Clicks[5] \in Gestures
  BY DEF Clicks, Gestures
<1>4. ASSUME NEW n \in 0 .. 4 PROVE Clicks[n + 1] \in Gestures
  <2>1. n = 0 \/ n = 1 \/ n = 2 \/ n = 3 \/ n = 4
    OBVIOUS
  <2>q. QED BY <1>3, <2>1
<1>q. QED BY <1>1, <1>2, <1>4 DEF KeyMessages

\* Sending an event keeps key_status in its ranges.
LEMMA SentIs ==
    ASSUME NEW k \in KeyStatus, NEW e \in KeyMessages
    PROVE  Sent(k, e) \in KeyStatus
<1>1. Append(k.out, e) \in Seq(KeyMessages)
  BY DEF KeyStatus
<1>q. QED BY <1>1 DEF Sent, KeyStatus

\* The thresholds.
LEMMA Ranges ==
    /\ Debounce \in Nat /\ Dither \in Nat /\ Repeat \in Nat \ {0} /\ DoubleClick \in Nat
    /\ LongPress \in Nat /\ LongLongPress \in Nat /\ LongPress < LongLongPress
    /\ CntLimit \in Nat
BY KeyAssumption

\* The values the handler resets to.
LEMMA Resets ==
    /\ 0 \in 0 .. LongLongPress /\ 0 \in 0 .. DoubleClick /\ 0 \in 0 .. Repeat - 1
    /\ 0 \in 0 .. MAX_KEY_CLICK_COUNT - 1 /\ <<>> \in Seq(KeyMessages)
<1>1. <<>> \in Seq(KeyMessages)
  OBVIOUS
<1>q. QED BY <1>1, Ranges, FiveClicks

\* Each stage keeps key_status in its ranges: a release,
LEMMA ReleasedIs ==
    ASSUME NEW k \in KeyStatus, NEW d \in BOOLEAN
    PROVE  Released(k, d) \in KeyStatus
<1> DEFINE u0 == [k EXCEPT !.updown = 0]
           u == Sent(u0, "UP")
           n == [u EXCEPT !.event = "NONE"]
<1>1. u0 \in KeyStatus
  BY Resets DEF KeyStatus
<1>2. u \in KeyStatus
  BY <1>1, SentIs DEF KeyMessages
<1> HIDE DEF u
<1>3. n \in KeyStatus /\ [u EXCEPT !.event = "UP"] \in KeyStatus
  BY <1>2 DEF KeyStatus
<1>4. Sent(n, "UP_AFTER_LONGPRESS") \in KeyStatus
  BY <1>3, SentIs DEF KeyMessages
<1> HIDE DEF n
<1>5. Released(k, d) \in {k, u, Sent(n, "UP_AFTER_LONGPRESS"), [u EXCEPT !.event = "UP"]}
  BY DEF Released, u, n
<1>q. QED BY <1>2, <1>3, <1>4, <1>5

\* the taps, where the last gesture ends the counting,
LEMMA ClickedIs ==
    ASSUME NEW k \in KeyStatus, NEW d \in BOOLEAN
    PROVE  Clicked(k, d) \in KeyStatus
<1> DEFINE c == Tapped(k, d)
           z == [c EXCEPT !.click = FALSE, !.cnt = 0, !.event = "NONE"]
<1>0. /\ k.cnt \in 0 .. 3 /\ k.clicked \in 0 .. DoubleClick /\ k.click \in BOOLEAN
      /\ 0 \in 0 .. DoubleClick
  BY FiveClicks, Ranges DEF KeyStatus
<1>1. PICK click \in BOOLEAN, n \in 0 .. 4, a \in 0 .. DoubleClick :
         c = [k EXCEPT !.click = click, !.cnt = n, !.clicked = a]
  <2>1. CASE ~k.click
    <3>1. c = [k EXCEPT !.click = TRUE, !.cnt = 0, !.clicked = 0]
      BY <2>1 DEF Tapped
    <3>2. TRUE \in BOOLEAN /\ 0 \in 0 .. 4
      OBVIOUS
    <3>q. QED BY <1>0, <3>1, <3>2
  <2>2. CASE k.click /\ k.down /\ ~d
    <3>1. c = [k EXCEPT !.cnt = k.cnt + 1, !.clicked = 0]
      BY <2>2 DEF Tapped
    <3>2. c = [k EXCEPT !.click = k.click, !.cnt = k.cnt + 1, !.clicked = 0]
      BY <3>1 DEF KeyStatus
    <3>3. k.cnt + 1 \in 0 .. 4
      BY <1>0
    <3>q. QED BY <1>0, <3>2, <3>3
  <2>3. CASE k.click /\ ~(k.down /\ ~d)
    <3>1. c = k
      BY <2>3 DEF Tapped
    <3>2. c = [k EXCEPT !.click = k.click, !.cnt = k.cnt, !.clicked = k.clicked]
      BY <3>1 DEF KeyStatus
    <3>3. k.cnt \in 0 .. 4
      BY <1>0
    <3>q. QED BY <1>0, <3>2, <3>3
  <2>q. QED BY <2>1, <2>2, <2>3
<1>1a. c.cnt = n
  BY <1>1 DEF KeyStatus
<1> HIDE DEF c
<1>2. z \in KeyStatus
  BY <1>1, Resets DEF KeyStatus
<1>3. c.cnt \in 0 .. 4 /\ Clicks[c.cnt + 1] \in KeyMessages
  BY <1>1a, FiveClicks
<1>4. Sent(z, Clicks[c.cnt + 1]) \in KeyStatus
  BY <1>2, <1>3, SentIs
<1>5. ASSUME ~(c.cnt >= MAX_KEY_CLICK_COUNT) PROVE c \in KeyStatus
  <2>1. n \in 0 .. MAX_KEY_CLICK_COUNT - 1
    BY <1>1a, <1>5, FiveClicks
  <2>q. QED BY <1>1, <2>1 DEF KeyStatus
<1> HIDE DEF z
<1>6. \/ Clicked(k, d) = k
      \/ Clicked(k, d) = Sent(z, Clicks[c.cnt + 1])
      \/ Clicked(k, d) = c /\ ~(c.cnt >= MAX_KEY_CLICK_COUNT)
  BY DEF Clicked, c, z
<1>q. QED BY <1>4, <1>5, <1>6

\* a press,
LEMMA PressedIs ==
    ASSUME NEW k \in KeyStatus, NEW w \in BOOLEAN, NEW d \in BOOLEAN
    PROVE  Pressed(k, w, d) \in KeyStatus
<1> DEFINE p == [k EXCEPT !.updown = 0, !.event = IF @ \in {"NONE", "UP"} THEN "DOWN" ELSE @]
           e == IF k.event = "NONE" THEN "FIRST_DOWN" ELSE "CONTINUED_DOWN"
<1>1. p \in KeyStatus
  BY Resets DEF KeyStatus
<1>2. Sent(p, "DOWN") \in KeyStatus
  BY <1>1, SentIs DEF KeyMessages
<1>3. Sent(Sent(p, "DOWN"), e) \in KeyStatus
  BY <1>2, SentIs DEF KeyMessages
<1>4. Pressed(k, w, d) = IF w \/ ~d THEN k ELSE Sent(Sent(p, "DOWN"), e)
  BY DEF Pressed
<1>q. QED BY <1>3, <1>4

\* the repeats, counted up to Repeat,
LEMMA RepeatsIs ==
    ASSUME NEW k \in KeyStatus
    PROVE  Repeats(k) \in KeyStatus
<1> DEFINE r == [k EXCEPT !.repeat = @ + 1]
           z == [r EXCEPT !.repeat = 0]
<1>1. k.repeat \in 0 .. Repeat - 1 /\ r.repeat = k.repeat + 1
  BY DEF KeyStatus
<1>2. ASSUME r.repeat # Repeat PROVE r \in KeyStatus
  <2>1. k.repeat + 1 \in 0 .. Repeat - 1
    BY <1>1, <1>2, Ranges
  <2>q. QED BY <2>1 DEF KeyStatus
<1>3. z \in KeyStatus
  BY Resets DEF KeyStatus
<1>4. Sent(z, "REPEAT") \in KeyStatus
  BY <1>3, SentIs DEF KeyMessages
<1>q. QED BY <1>2, <1>4 DEF Repeats

\* and a key that is held.
LEMMA HeldIs ==
    ASSUME NEW k \in KeyStatus
    PROVE  Held(k) \in KeyStatus
<1> DEFINE a == [k EXCEPT !.repeat = 0, !.event = "LONGPRESS"]
           b == [Repeats(k) EXCEPT !.event = "LONGLONGPRESS"]
<1>1. a \in KeyStatus
  BY Resets DEF KeyStatus
<1>2. Sent(a, "LONGPRESS") \in KeyStatus
  BY <1>1, SentIs DEF KeyMessages, Gestures
<1>3. Repeats(k) \in KeyStatus
  BY RepeatsIs
<1>4. b \in KeyStatus
  BY <1>3 DEF KeyStatus
<1>5. Sent(b, "LONGLONGPRESS") \in KeyStatus
  BY <1>4, SentIs DEF KeyMessages
<1> HIDE DEF a, b
<1>6. Held(k) \in {k, Repeats(k), Sent(a, "LONGPRESS"), Sent(b, "LONGLONGPRESS")}
  BY DEF Held, a, b
<1>q. QED BY <1>2, <1>3, <1>5, <1>6

\* The handler leaves a key_status in its ranges.
LEMMA ClassifyIs ==
    ASSUME NEW k \in KeyStatus, NEW d \in BOOLEAN
    PROVE  Classify(k, d) \in KeyStatus
<1> DEFINE k0 == [k EXCEPT !.out = <<>>]
           k1 == Released(k0, d)
           k2 == Clicked(k1, d)
           k3 == [k2 EXCEPT !.down = d]
           k4 == Pressed(k3, k.down, d)
<1>1. k0 \in KeyStatus /\ k.down \in BOOLEAN
  BY Resets DEF KeyStatus
<1>2. k1 \in KeyStatus
  BY <1>1, ReleasedIs
<1>3. k2 \in KeyStatus
  BY <1>2, ClickedIs
<1> HIDE DEF k2
<1>4. k3 \in KeyStatus
  BY <1>3 DEF KeyStatus
<1>5. k4 \in KeyStatus
  BY <1>1, <1>4, PressedIs
<1>6. Held(k4) \in KeyStatus
  BY <1>5, HeldIs
<1>q. QED BY <1>6 DEF Classify, k2
-----------------------------------------------------------------------------
(* Ranges, and a driver that hears.  While the key interrupt is disabled   *)
(* pwr_key has something to watch: the branch that stops watching is the   *)
(* one that enables the interrupt.  NeverDeaf does not say so and is not   *)
(* inductive: the timer also runs for a gesture, with nothing to watch.    *)

Hears == irq \/ (Watched(pwr) /\ (timer.active \/ (timer.at = "classify" /\ timer.need)))
IInv == Typed /\ Hears

\* A time stamp grows up to its limit.
LEMMA OlderIs ==
    ASSUME NEW limit \in Nat, NEW age \in 0 .. limit
    PROVE  Older(age, limit) \in 0 .. limit
BY DEF Older

\* The key at rest.
LEMMA InitIInv ==
    ASSUME Init
    PROVE  IInv
<1> USE DEF Init
<1>1. finger \in FingerState /\ pwr \in Pwr /\ irq \in BOOLEAN /\ timer \in Timer
      /\ thread \in Thread /\ cnt \in 0 .. 255
  BY Ranges, FiveClicks DEF FingerState, Pwr, Timer, Thread
<1>2. key \in KeyStatus /\ mail \in Seq(KeyMessages)
  BY Resets DEF KeyStatus
<1>q. QED BY <1>1, <1>2 DEF IInv, Typed, Hears

\* The edge interrupt: the timer is started with something to watch.
LEMMA EdgeKeeps ==
    ASSUME Typed, NEW stillDown \in BOOLEAN, Edge(stillDown)
    PROVE  /\ pwr' \in Pwr /\ irq' \in BOOLEAN /\ timer' \in Timer /\ Hears'
           /\ timer'.at = timer.at
<1>1. /\ irq' = FALSE /\ timer' = [timer EXCEPT !.active = TRUE]
      /\ pwr' = IF stillDown THEN [pwr EXCEPT !.pressed = TRUE, !.debounce = TRUE]
                ELSE [pwr EXCEPT !.pressed = FALSE, !.dither = TRUE]
  BY DEF Edge
<1>2. pwr' \in Pwr /\ timer' \in Timer /\ irq' \in BOOLEAN /\ timer'.active /\ timer'.at = timer.at
  BY <1>1 DEF Typed, Pwr, Timer
<1>3. Watched(pwr')
  BY <1>1 DEF Typed, Pwr, Watched
<1>q. QED BY <1>2, <1>3 DEF Hears

\* The timer interrupt looks at the key: while it does not enable the key
\* interrupt, it leaves something to watch.
LEMMA PwrKeyIs ==
    ASSUME NEW p \in Pwr, NEW down \in BOOLEAN
    PROVE  /\ PwrKey(p, down) \in Pwr
           /\ CodeDown(p, down) \in BOOLEAN /\ Enables(p, down) \in BOOLEAN
           /\ Watched(PwrKey(p, down)) \in BOOLEAN
           /\ Watched(p) /\ ~Enables(p, down) => Watched(PwrKey(p, down))
<1> USE DEF Pwr
<1>0. p.age \in Int /\ Dither \in Int /\ Debounce \in Int /\ 0 \in 0 .. Debounce
  BY Ranges
<1>1. CASE p.debounce /\ down
  <2>1. PwrKey(p, down) = [p EXCEPT !.pressed = TRUE, !.debounce = p.age < Debounce, !.dither = FALSE]
    BY <1>1 DEF PwrKey
  <2>2. (p.age < Debounce) \in BOOLEAN
    OBVIOUS
  <2>q. QED BY <2>1, <2>2 DEF Watched, CodeDown, Enables
<1>2. CASE p.debounce /\ ~down
  <2>1. PwrKey(p, down) = [p EXCEPT !.pressed = FALSE, !.debounce = FALSE, !.dither = TRUE, !.age = 0]
    BY <1>2 DEF PwrKey
  <2>q. QED BY <1>0, <2>1 DEF Watched, CodeDown, Enables
<1>3. CASE ~p.debounce /\ p.dither
  <2>1. PwrKey(p, down) = [p EXCEPT !.pressed = p.pressed /\ p.age < Dither, !.dither = p.age < Dither]
    BY <1>3 DEF PwrKey
  <2>2. CASE p.age < Dither
    <3>1. PwrKey(p, down) = [p EXCEPT !.pressed = p.pressed, !.dither = TRUE]
      BY <2>1, <2>2
    <3>q. QED BY <3>1 DEF Watched, CodeDown, Enables
  <2>3. CASE ~(p.age < Dither)
    <3>0. (p.pressed /\ p.age < Dither) = FALSE /\ (p.age < Dither) = FALSE
      BY <2>3
    <3>1. PwrKey(p, down) = [p EXCEPT !.pressed = FALSE, !.dither = FALSE]
      BY <2>1, <3>0, Zenon
    <3>2. Enables(p, down)
      BY <1>0, <1>3, <2>3 DEF Enables
    <3>q. QED BY <3>1, <3>2 DEF Watched, CodeDown, Enables
  <2>q. QED BY <2>2, <2>3
<1>4. CASE ~p.debounce /\ ~p.dither
  <2>1. PwrKey(p, down) = [p EXCEPT !.pressed = p.pressed /\ down]
    BY <1>4 DEF PwrKey
  <2>2. (p.pressed /\ down) \in BOOLEAN
    OBVIOUS
  <2>3. PwrKey(p, down) \in Pwr /\ PwrKey(p, down).pressed = (p.pressed /\ down)
    BY <2>1, <2>2
  <2>q. QED BY <1>4, <2>3 DEF Watched, CodeDown, Enables
<1>q. QED BY <1>1, <1>2, <1>3, <1>4

\* The timer interrupt, up to hal_key_enable_allint.
LEMMA SampleKeeps ==
    ASSUME IInv, Sample
    PROVE  IInv'
<1> DEFINE p == [pwr EXCEPT !.age = Older(@, Debounce)]
<1>0. Typed /\ Hears
  BY DEF IInv
<1>1. /\ pwr' = PwrKey(p, finger.down)
      /\ irq' = (irq \/ Enables(p, finger.down))
      /\ timer' = [active |-> FALSE, at |-> "classify", down |-> CodeDown(p, finger.down),
                   need |-> Watched(pwr')]
      /\ finger' = [finger EXCEPT !.age = Older(@, LongLongPress)]
      /\ key' = [key EXCEPT !.updown = IF key.event \in {"DOWN", "LONGPRESS"}
                                       THEN Older(@, LongLongPress) ELSE @,
                            !.clicked = IF key.event = "UP" THEN Older(@, DoubleClick) ELSE @]
      /\ cnt' = cnt /\ mail' = mail /\ thread' = thread
  BY DEF Sample
<1>2. finger.down \in BOOLEAN /\ Older(finger.age, LongLongPress) \in 0 .. LongLongPress
      /\ Older(pwr.age, Debounce) \in 0 .. Debounce
  BY <1>0, Ranges, OlderIs DEF Typed, FingerState, Pwr
<1>3. p \in Pwr /\ (Watched(p) <=> Watched(pwr))
  BY <1>0, <1>2 DEF Typed, Pwr, Watched
<1>4. Older(key.updown, LongLongPress) \in 0 .. LongLongPress
      /\ Older(key.clicked, DoubleClick) \in 0 .. DoubleClick
  BY <1>0, Ranges, OlderIs DEF Typed, KeyStatus
<1> HIDE DEF p
<1>5. /\ pwr' \in Pwr /\ CodeDown(p, finger.down) \in BOOLEAN /\ Enables(p, finger.down) \in BOOLEAN
      /\ Watched(pwr') \in BOOLEAN
      /\ Watched(p) /\ ~Enables(p, finger.down) => Watched(pwr')
  BY <1>1, <1>2, <1>3, PwrKeyIs
<1>6. timer' \in Timer /\ timer'.at = "classify" /\ timer'.need = Watched(pwr')
  BY <1>1, <1>5 DEF Timer
<1>7. finger' \in FingerState
  BY <1>0, <1>1, <1>2 DEF Typed, FingerState
<1>8. key' \in KeyStatus
  <2>1. PICK u \in 0 .. LongLongPress, c \in 0 .. DoubleClick :
           key' = [key EXCEPT !.updown = u, !.clicked = c]
    <3>1. key.updown \in 0 .. LongLongPress /\ key.clicked \in 0 .. DoubleClick
      BY <1>0 DEF Typed, KeyStatus
    <3>q. QED BY <1>1, <1>4, <3>1
  <2>q. QED BY <1>0, <2>1 DEF Typed, KeyStatus
<1>9. irq' \in BOOLEAN
  BY <1>1, Zenon
<1>10. Typed'
  BY <1>0, <1>1, <1>5, <1>6, <1>7, <1>8, <1>9 DEF Typed
<1>11. Hears'
  <2>1. ASSUME ~irq' PROVE Watched(pwr')
    <3>1. ~irq /\ ~Enables(p, finger.down)
      BY <1>1, <2>1, Zenon
    <3>2. Watched(pwr)
      BY <1>0, <3>1 DEF Hears
    <3>q. QED BY <1>3, <1>5, <3>1, <3>2
  <2>q. QED BY <1>6, <2>1 DEF Hears
<1>q. QED BY <1>10, <1>11 DEF IInv

\* The counter of the events is one byte.
LEMMA ByteIs ==
    ASSUME NEW x \in Nat
    PROVE  x % 256 \in 0 .. 255
OBVIOUS

\* Within the byte nothing wraps.
LEMMA ByteFits ==
    ASSUME NEW x \in 0 .. 255
    PROVE  x % 256 = x
BY SMT

\* The decrement of a byte that is not zero.
LEMMA ByteDown ==
    ASSUME NEW x \in 1 .. 255
    PROVE  (x + 255) % 256 = x - 1
<1>1. x + 255 = 256 * 1 + (x - 1) /\ x - 1 \in 0 .. 255
  OBVIOUS
<1>q. QED BY <1>1, SMT

\* The rest of the timer interrupt: the timer goes on if there is something to
\* watch.
LEMMA HandlerKeeps ==
    ASSUME IInv, DebounceHandler
    PROVE  IInv'
<1> DEFINE k == Classify(key, timer.down)
           n == Room(Len(k.out))
<1>0. Typed /\ Hears
  BY DEF IInv
<1>1. /\ key' = [k EXCEPT !.out = <<>>]
      /\ cnt' = (cnt + n) % 256
      /\ mail' = mail \o SubSeq(k.out, 1, n)
      /\ timer' = [active |-> timer.active \/ NeedTimer(k, timer.need), at |-> "idle",
                   down |-> FALSE, need |-> FALSE]
      /\ timer.at = "classify"
      /\ finger' = finger /\ pwr' = pwr /\ irq' = irq /\ thread' = thread
  BY DEF DebounceHandler, Counted
<1>2. k \in KeyStatus
  BY <1>0, ClassifyIs DEF Typed, Timer
<1> HIDE DEF k
<1>3. key' \in KeyStatus
  BY <1>1, <1>2, Resets DEF KeyStatus
<1>4. k.out \in Seq(KeyMessages) /\ Len(k.out) \in Nat
  BY <1>2 DEF KeyStatus
<1>5. n \in 0 .. Len(k.out)
  BY <1>0, <1>4, Ranges DEF Room, Typed
<1>6. SubSeq(k.out, 1, n) \in Seq(KeyMessages)
  BY <1>4, <1>5, SubSeqProperties
<1>7. mail' \in Seq(KeyMessages)
  BY <1>0, <1>1, <1>6, ConcatProperties DEF Typed
<1>8. cnt' \in 0 .. 255
  <2>1. cnt + n \in Nat
    BY <1>0, <1>4, <1>5 DEF Typed
  <2>2. (cnt + n) % 256 \in 0 .. 255
    BY <2>1, ByteIs
  <2>q. QED BY <1>1, <2>2
<1>9. timer' \in Timer /\ (timer.active \/ timer.need => timer'.active)
  <2>1. (timer.active \/ NeedTimer(k, timer.need)) \in BOOLEAN
    BY Zenon
  <2>2. timer' \in Timer /\ timer'.active = (timer.active \/ NeedTimer(k, timer.need))
    BY <1>1, <2>1 DEF Timer
  <2>q. QED BY <2>2 DEF NeedTimer
<1>10. Typed'
  BY <1>0, <1>1, <1>3, <1>7, <1>8, <1>9 DEF Typed
<1>11. Hears'
  BY <1>0, <1>1, <1>9 DEF Hears
<1>q. QED BY <1>10, <1>11 DEF IInv

\* Steps of the application thread.
LEMMA ThreadKeeps ==
    ASSUME IInv, AppThread
    PROVE  IInv'
<1>0. Typed /\ Hears
  BY DEF IInv
<1>1. CASE Get
  <2>1. /\ thread' = [at |-> "handling", msg |-> Head(mail), loaded |-> cnt]
        /\ mail' = Tail(mail) /\ mail # <<>>
        /\ finger' = finger /\ pwr' = pwr /\ irq' = irq /\ timer' = timer /\ key' = key /\ cnt' = cnt
    BY <1>1 DEF Get
  <2>2. Head(mail) \in KeyMessages /\ Tail(mail) \in Seq(KeyMessages)
    BY <1>0, <2>1 DEF Typed
  <2>3. thread' \in Thread
    BY <1>0, <2>1, <2>2 DEF Typed, Thread
  <2>q. QED BY <1>0, <2>1, <2>2, <2>3 DEF IInv, Typed, Hears
<1>2. CASE HandleProcess
  <2>1. /\ cnt' = (thread.loaded + 255) % 256
        /\ thread' = [at |-> "idle", msg |-> "NONE", loaded |-> 0]
        /\ finger' = finger /\ pwr' = pwr /\ irq' = irq /\ timer' = timer /\ key' = key /\ mail' = mail
    BY <1>2 DEF HandleProcess
  <2>2. thread.loaded \in 0 .. 255
    BY <1>0 DEF Typed, Thread
  <2>3. cnt' \in 0 .. 255 /\ thread' \in Thread
    BY <2>1, <2>2 DEF Thread
  <2>q. QED BY <1>0, <2>1, <2>3 DEF IInv, Typed, Hears
<1>q. QED BY <1>1, <1>2 DEF AppThread

\* A finger that touches, if the key interrupt is enabled, starts the timer.
LEMMA TouchKeeps ==
    ASSUME IInv, Touch
    PROVE  pwr' \in Pwr /\ irq' \in BOOLEAN /\ timer' \in Timer /\ Hears' /\ timer'.at = timer.at
<1>1. CASE irq
  BY <1>1, EdgeKeeps DEF Touch, IInv
<1>2. CASE ~irq
  BY <1>2 DEF Touch, IInv, Typed, Hears
<1>q. QED BY <1>1, <1>2

\* A gesture takes as many touches as it has taps.
LEMMA GestureIs ==
    ASSUME NEW g \in {"hold"} \cup {Clicks[i] : i \in DOMAIN Clicks}
    PROVE  /\ g = "hold" \/ g \in Gestures
           /\ g # "hold" => (CHOOSE i \in DOMAIN Clicks : Clicks[i] = g) - 1 \in 0 .. 4
<1>1. CASE g = "hold"
  BY <1>1
<1>2. ASSUME NEW i \in DOMAIN Clicks, g = Clicks[i]
      PROVE  /\ g \in Gestures
             /\ (CHOOSE j \in DOMAIN Clicks : Clicks[j] = g) - 1 \in 0 .. 4
  <2>1. (CHOOSE j \in DOMAIN Clicks : Clicks[j] = g) \in DOMAIN Clicks
    BY <1>2
  <2>2. i - 1 \in 0 .. 4 /\ (i - 1) + 1 = i
    BY FiveClicks
  <2>3. Clicks[i] \in Gestures
    BY <2>2, FiveClicks
  <2>q. QED BY <1>2, <2>1, <2>3, FiveClicks
<1>q. QED BY <1>1, <1>2

\* Steps of the finger and of time, which leave the key status alone.
LEMMA FingerKeeps ==
    ASSUME IInv, Finger \/ Whims
    PROVE  IInv'
<1>0. Typed /\ Hears
  BY DEF IInv
<1>1. 0 \in 0 .. LongLongPress /\ 0 \in 0 .. MAX_KEY_CLICK_COUNT /\ MAX_KEY_CLICK_COUNT = 4
  BY Ranges, FiveClicks
<1>2. CASE Pass
  <2>1. /\ finger' = [finger EXCEPT !.age = Older(@, LongLongPress)]
        /\ pwr' = [pwr EXCEPT !.age = Older(@, Debounce)]
        /\ irq' = irq /\ timer' = timer /\ key' = key /\ cnt' = cnt /\ mail' = mail /\ thread' = thread
    BY <1>2 DEF Pass
  <2>2. Older(finger.age, LongLongPress) \in 0 .. LongLongPress
        /\ Older(pwr.age, Debounce) \in 0 .. Debounce
    BY <1>0, Ranges, OlderIs DEF Typed, FingerState, Pwr
  <2>3. finger' \in FingerState
    BY <1>0, <2>1, <2>2 DEF Typed, FingerState
  <2>4. pwr' \in Pwr /\ (Watched(pwr) => Watched(pwr'))
    BY <1>0, <2>1, <2>2 DEF Typed, Pwr, Watched
  <2>q. QED BY <1>0, <2>1, <2>3, <2>4 DEF IInv, Typed, Hears
<1>3. CASE TapAgain
  <2>1. /\ finger' = [finger EXCEPT !.down = TRUE, !.age = 0, !.left = @ - 1]
        /\ finger.left > 0 /\ Touch
        /\ key' = key /\ cnt' = cnt /\ mail' = mail /\ thread' = thread
    BY <1>3 DEF TapAgain
  <2>2. finger.left - 1 \in 0 .. MAX_KEY_CLICK_COUNT
    BY <1>0, <1>1, <2>1 DEF Typed, FingerState
  <2>3. finger' \in FingerState
    BY <1>0, <1>1, <2>1, <2>2 DEF Typed, FingerState
  <2>q. QED BY <1>0, <2>1, <2>3, TouchKeeps DEF IInv, Typed
<1>4. CASE Lift
  <2>1. /\ finger' = [finger EXCEPT !.down = FALSE, !.age = 0]
        /\ pwr' = pwr /\ irq' = irq /\ timer' = timer
        /\ key' = key /\ cnt' = cnt /\ mail' = mail /\ thread' = thread
    BY <1>4 DEF Lift
  <2>2. finger' \in FingerState
    BY <1>0, <1>1, <2>1 DEF Typed, FingerState
  <2>q. QED BY <1>0, <2>1, <2>2 DEF IInv, Typed, Hears
<1>5. CASE Glitch
  <2>1. /\ finger' = [finger EXCEPT !.age = 0, !.goal = "none"]
        /\ key' = key /\ cnt' = cnt /\ mail' = mail /\ thread' = thread
    BY <1>5 DEF Glitch
  <2>2. PICK stillDown \in BOOLEAN : Edge(stillDown)
    BY <1>5 DEF Glitch
  <2>3. finger' \in FingerState
    BY <1>0, <1>1, <2>1 DEF Typed, FingerState
  <2>q. QED BY <1>0, <2>1, <2>2, <2>3, EdgeKeeps DEF IInv, Typed
<1>6. ASSUME NEW g \in {"hold"} \cup {Clicks[i] : i \in DOMAIN Clicks}, BeginGesture(g)
      PROVE  IInv'
  <2> DEFINE n == IF g = "hold" THEN 0 ELSE (CHOOSE i \in DOMAIN Clicks : Clicks[i] = g) - 1
  <2>1. /\ finger' = [down |-> TRUE, age |-> 0, goal |-> g, left |-> n]
        /\ Touch /\ key' = key /\ cnt' = cnt /\ mail' = mail /\ thread' = thread
    BY <1>6 DEF BeginGesture
  <2>2. n \in 0 .. MAX_KEY_CLICK_COUNT /\ g \in {"none", "hold"} \cup Gestures
    BY <1>1, GestureIs
  <2> HIDE DEF n
  <2>3. finger' \in FingerState
    BY <1>1, <2>1, <2>2 DEF FingerState
  <2>q. QED BY <1>0, <2>1, <2>3, TouchKeeps DEF IInv, Typed
<1>q. QED BY <1>2, <1>3, <1>4, <1>5, <1>6 DEF Finger, Whims

\* Every step keeps IInv.
LEMMA StepIInv ==
    ASSUME IInv, [Next]_vars
    PROVE  IInv'
<1>1. CASE UNCHANGED vars
  BY <1>1 DEF vars, IInv, Typed, Hears
<1>2. CASE Next
  BY <1>2, SampleKeeps, HandlerKeeps, ThreadKeeps, FingerKeeps DEF Next, Interrupt
<1>q. QED BY <1>1, <1>2

\* IInv is an invariant of the keys, with or without preemption of the
\* decrement.
THEOREM Invariance == Spec => []IInv
<1>1. Init => IInv
  BY InitIInv
<1>2. IInv /\ [Next]_vars => IInv'
  BY StepIInv
<1>q. QED BY <1>1, <1>2, PTL DEF Spec

\* Taps, repeats and ages never leave their ranges: the counter of taps never
\* reaches beyond the last entry of the table of gestures.
THEOREM TypeCorrectness == Spec => []TypeOK
<1>1. IInv => TypeOK
  BY FiveClicks, Ranges
     DEF IInv, Typed, TypeOK, FingerState, Pwr, KeyStatus, Thread
<1>q. QED BY <1>1, Invariance, PTL

\* Either the key interrupt is enabled or the timer will look at the key.
THEOREM DriverHears == Spec => []NeverDeaf
<1>1. IInv => NeverDeaf
  BY DEF IInv, Hears, NeverDeaf
<1>q. QED BY <1>1, Invariance, PTL
-----------------------------------------------------------------------------
(* The count of the events on their way.                                   *)

\* The byte holds the count, and while the thread has it loaded no interrupt
\* changes it.
CInv ==
    /\ IInv
    /\ cnt = OnTheirWay
    /\ cnt <= CntLimit + 1
    /\ thread.at = "handling" => thread.loaded = cnt /\ timer.at = "idle"

\* key_event_process counts the events it puts into the mailbox.
LEMMA HandlerCounts ==
    ASSUME CInv, DebounceHandler, CntLimit < 255
    PROVE  cnt' = OnTheirWay' /\ cnt' <= CntLimit + 1 /\ thread' = thread /\ thread.at # "handling"
<1> DEFINE k == Classify(key, timer.down)
           n == Room(Len(k.out))
<1>0. IInv /\ Typed /\ Hears /\ cnt = OnTheirWay /\ cnt <= CntLimit + 1 /\ cnt \in Nat
      /\ mail \in Seq(KeyMessages) /\ Len(mail) \in Nat /\ CntLimit \in Nat
  BY KeyAssumption DEF CInv, IInv, Typed
<1>1. /\ cnt' = (cnt + n) % 256
      /\ mail' = mail \o SubSeq(k.out, 1, n)
      /\ timer.at = "classify" /\ thread' = thread
  BY DEF DebounceHandler, Counted
<1>2. k \in KeyStatus
  BY <1>0, ClassifyIs DEF Typed, Timer
<1> HIDE DEF k
<1>3. k.out \in Seq(KeyMessages) /\ Len(k.out) \in Nat
  BY <1>2 DEF KeyStatus
<1>4. n \in 0 .. Len(k.out) /\ cnt + n <= CntLimit + 1
  BY <1>0, <1>3 DEF Room
<1> HIDE DEF n
<1>5. SubSeq(k.out, 1, n) \in Seq(KeyMessages) /\ Len(SubSeq(k.out, 1, n)) = n
  BY <1>3, <1>4, SubSeqProperties
<1>6. Len(mail') = Len(mail) + n
  BY <1>0, <1>1, <1>5, ConcatProperties
<1>7. cnt + n \in 0 .. 255
  BY <1>0, <1>4
<1>8. cnt' = cnt + n
  BY <1>1, <1>7, ByteFits
<1>9. thread.at # "handling"
  BY <1>1 DEF CInv
<1>10. OnTheirWay = Len(mail) /\ OnTheirWay' = Len(mail')
  BY <1>0, <1>1, <1>6, <1>9, <1>4 DEF OnTheirWay
<1>q. QED BY <1>0, <1>1, <1>4, <1>6, <1>8, <1>9, <1>10

\* Taking an event leaves the count alone, and carrying it out takes one off.
LEMMA ThreadCounts ==
    ASSUME CInv, AppThread, CntLimit < 255
    PROVE  /\ cnt' = OnTheirWay' /\ cnt' <= CntLimit + 1
           /\ thread'.at = "handling" => thread'.loaded = cnt' /\ timer'.at = "idle"
<1>0. Typed /\ cnt = OnTheirWay /\ cnt <= CntLimit + 1 /\ cnt \in 0 .. 255
      /\ mail \in Seq(KeyMessages) /\ Len(mail) \in Nat /\ CntLimit \in Nat
  BY KeyAssumption DEF CInv, IInv, Typed
<1>1. CASE Get
  <2>1. /\ thread'.at = "handling" /\ thread'.loaded = cnt /\ thread.at = "idle"
        /\ mail' = Tail(mail) /\ mail # <<>> /\ cnt' = cnt /\ timer' = timer /\ timer.at = "idle"
    BY <1>1 DEF Get
  <2>2. Len(mail') = Len(mail) - 1
    BY <1>0, <2>1, HeadTailProperties
  <2>q. QED BY <1>0, <2>1, <2>2 DEF OnTheirWay
<1>2. CASE HandleProcess
  <2>1. /\ cnt' = (thread.loaded + 255) % 256 /\ thread.at = "handling"
        /\ thread'.at = "idle" /\ mail' = mail
    BY <1>2 DEF HandleProcess
  <2>2. thread.loaded = cnt /\ cnt = Len(mail) + 1
    BY <1>0, <2>1 DEF CInv, OnTheirWay
  <2>3. cnt' = cnt - 1
    <3>1. cnt \in 1 .. 255
      BY <1>0, <2>2
    <3>q. QED BY <2>1, <2>2, <3>1, ByteDown
  <2>q. QED BY <1>0, <2>1, <2>2, <2>3 DEF OnTheirWay
<1>q. QED BY <1>1, <1>2 DEF AppThread

\* The other steps touch neither the counter nor the mailbox, and the timer
\* interrupt begins only while the thread has not loaded the counter.
LEMMA OthersCount ==
    ASSUME CInv, Sample \/ Finger \/ Whims, ~Preempts
    PROVE  /\ cnt' = cnt /\ mail' = mail /\ thread' = thread
           /\ thread.at = "handling" => timer'.at = "idle"
<1>0. IInv /\ (thread.at = "handling" => timer.at = "idle")
  BY DEF CInv
<1>1. CASE Sample
  BY <1>1 DEF Sample, MayInterrupt
<1>2. CASE Pass \/ Lift
  BY <1>0, <1>2 DEF Pass, Lift
<1>3. CASE TapAgain
  BY <1>0, <1>3, TouchKeeps DEF TapAgain
<1>4. CASE Glitch
  <2>1. PICK stillDown \in BOOLEAN : Edge(stillDown)
    BY <1>4 DEF Glitch
  <2>2. timer'.at = timer.at
    BY <1>0, <2>1, EdgeKeeps DEF IInv
  <2>q. QED BY <1>0, <1>4, <2>2 DEF Glitch
<1>5. ASSUME NEW g \in {"hold"} \cup {Clicks[i] : i \in DOMAIN Clicks}, BeginGesture(g)
      PROVE  /\ cnt' = cnt /\ mail' = mail /\ thread' = thread
             /\ timer'.at = timer.at
  BY <1>0, <1>5, TouchKeeps DEF BeginGesture
<1>q. QED BY <1>0, <1>1, <1>2, <1>3, <1>4, <1>5 DEF Finger, Whims

\* Every step keeps CInv.
LEMMA StepCInv ==
    ASSUME CInv, [Next]_vars, ~Preempts, CntLimit < 255
    PROVE  CInv'
<1>1. IInv'
  BY StepIInv DEF CInv
<1>2. CASE Sample \/ Finger \/ Whims
  BY <1>1, <1>2, OthersCount DEF CInv, OnTheirWay
<1>3. CASE DebounceHandler
  BY <1>1, <1>3, HandlerCounts DEF CInv
<1>4. CASE AppThread
  BY <1>1, <1>4, ThreadCounts DEF CInv
<1>5. CASE UNCHANGED vars
  BY <1>1, <1>5 DEF CInv, OnTheirWay, vars
<1>q. QED BY <1>2, <1>3, <1>4, <1>5 DEF Next, Interrupt

\* key_event_cnt is the number of key events in the mailbox and in the
\* handler, and never more than one above the limit, when the decrement in
\* app_key_handle_process is one instruction to the timer interrupt and the
\* limit leaves room in the byte.  With Preempts the statement is false: the
\* decrement is not protected in the code.
THEOREM CountIsExact ==
    ASSUME ~Preempts, CntLimit < 255
    PROVE  Spec => []CountAgrees
<1>1. Init => CInv
  <2>1. Init => cnt = 0 /\ mail = <<>> /\ thread.at = "idle" /\ CntLimit \in Nat
    BY KeyAssumption DEF Init
  <2>q. QED BY <2>1, InitIInv DEF CInv, OnTheirWay
<1>2. CInv /\ [Next]_vars => CInv'
  BY StepCInv
<1>3. CInv => CountAgrees
  BY DEF CInv, CountAgrees
<1>q. QED BY <1>1, <1>2, <1>3, PTL DEF Spec
-----------------------------------------------------------------------------
(* What hal_key_debounce_handler does in each situation.                   *)

\* The click state is the same in c as in k.
SameClick(c, k) == c.click = k.click /\ c.cnt = k.cnt /\ c.clicked = k.clicked

\* Events sent one after the other.
LEMMA OneTwo ==
    ASSUME NEW x \in KeyMessages, NEW y \in KeyMessages
    PROVE  /\ Append(<<>>, x) = <<x>> /\ Append(<<x>>, y) = <<x, y>>
<1>1. Append(<<>>, x) = <<x>>
  OBVIOUS
<1>2. Append(<<x>>, y) = <<x, y>>
  <2>1. <<x>> \in Seq(KeyMessages) /\ Len(<<x>>) = 1 /\ <<x>>[1] = x
    OBVIOUS
  <2>2. PICK s : s = Append(<<x>>, y)
    OBVIOUS
  <2>3. s \in Seq(KeyMessages) /\ Len(s) = 2 /\ s[1] = x /\ s[2] = y
    BY <2>1, <2>2, AppendProperties
  <2>4. PICK t : t = <<x, y>>
    OBVIOUS
  <2>5. t \in Seq(KeyMessages) /\ Len(t) = 2 /\ t[1] = x /\ t[2] = y
    BY <2>4
  <2>6. \A i \in 1 .. Len(s) : s[i] = t[i]
    <3>1. \A i \in 1 .. 2 : i = 1 \/ i = 2
      OBVIOUS
    <3>q. QED BY <2>3, <2>5, <3>1
  <2>7. s = t
    BY <2>3, <2>5, <2>6, SeqEqual
  <2>q. QED BY <2>2, <2>4, <2>7
<1>q. QED BY <1>1, <1>2

\* The handler begins with no event sent.
LEMMA Starts ==
    ASSUME NEW k \in KeyStatus
    PROVE  \E z \in KeyStatus :
              /\ z = [k EXCEPT !.out = <<>>] /\ z.out = <<>>
              /\ z.down = k.down /\ z.event = k.event /\ z.updown = k.updown /\ z.repeat = k.repeat
              /\ SameClick(z, k)
<1>1. PICK z : z = [k EXCEPT !.out = <<>>]
  OBVIOUS
<1>2. z \in KeyStatus
  BY <1>1, Resets DEF KeyStatus
<1>3. /\ z.out = <<>> /\ z.down = k.down /\ z.event = k.event /\ z.updown = k.updown
      /\ z.repeat = k.repeat
  BY <1>1 DEF KeyStatus
<1>4. SameClick(z, k)
  BY <1>1 DEF KeyStatus, SameClick
<1>q. QED BY <1>1, <1>2, <1>3, <1>4

\* Sending an event leaves the rest alone.
LEMMA SentFields ==
    ASSUME NEW k \in KeyStatus, NEW e \in KeyMessages
    PROVE  \E z \in KeyStatus :
              /\ z = Sent(k, e) /\ z.out = Append(k.out, e)
              /\ z.down = k.down /\ z.event = k.event /\ z.updown = k.updown /\ z.repeat = k.repeat
              /\ SameClick(z, k)
<1>1. PICK z : z = [k EXCEPT !.out = Append(@, e)]
  OBVIOUS
<1>2. z = Sent(k, e) /\ z \in KeyStatus
  BY <1>1, SentIs DEF Sent
<1>3. /\ z.out = Append(k.out, e) /\ z.down = k.down /\ z.event = k.event
      /\ z.updown = k.updown /\ z.repeat = k.repeat
  BY <1>1 DEF KeyStatus
<1>4. SameClick(z, k)
  BY <1>1 DEF KeyStatus, SameClick
<1>q. QED BY <1>2, <1>3, <1>4

\* The end of a short press: the first half of a tap.
LEMMA ReleasedTap ==
    ASSUME NEW k \in KeyStatus, k.down, k.event = "DOWN"
    PROVE  \E z \in KeyStatus :
              /\ z = Released(k, FALSE) /\ z.out = Append(k.out, "UP")
              /\ z.down /\ z.event = "UP" /\ SameClick(z, k)
<1>1. PICK a : a = [k EXCEPT !.updown = 0]
  OBVIOUS
<1>2. a \in KeyStatus /\ a.out = k.out /\ a.down /\ a.event = "DOWN" /\ SameClick(a, k)
  BY <1>1, Resets DEF KeyStatus, SameClick
<1>3. PICK u \in KeyStatus :
         /\ u = Sent(a, "UP") /\ u.out = Append(a.out, "UP") /\ u.down = a.down /\ SameClick(u, a)
  <2>1. "UP" \in KeyMessages
    BY DEF KeyMessages
  <2>q. QED BY <1>2, <2>1, SentFields
<1>4. PICK z : z = [u EXCEPT !.event = "UP"]
  OBVIOUS
<1>5. z \in KeyStatus /\ z.out = u.out /\ z.down /\ z.event = "UP" /\ SameClick(z, u)
  BY <1>2, <1>3, <1>4 DEF KeyStatus, SameClick
<1>6. Released(k, FALSE) = z
  BY <1>1, <1>3, <1>4 DEF Released, LongHeld
<1>7. SameClick(z, k)
  BY <1>2, <1>3, <1>5 DEF SameClick
<1>q. QED BY <1>2, <1>3, <1>5, <1>6, <1>7

\* The end of a hold.
LEMMA ReleasedHold ==
    ASSUME NEW k \in KeyStatus, k.down, LongHeld(k)
    PROVE  \E z \in KeyStatus :
              /\ z = Released(k, FALSE) /\ z.out = Append(Append(k.out, "UP"), "UP_AFTER_LONGPRESS")
              /\ z.down /\ z.event = "NONE" /\ SameClick(z, k)
<1>1. PICK a : a = [k EXCEPT !.updown = 0]
  OBVIOUS
<1>2. a \in KeyStatus /\ a.out = k.out /\ a.down /\ SameClick(a, k)
  BY <1>1, Resets DEF KeyStatus, SameClick
<1>0. "UP" \in KeyMessages /\ "UP_AFTER_LONGPRESS" \in KeyMessages
  BY DEF KeyMessages
<1>3. PICK u \in KeyStatus :
         /\ u = Sent(a, "UP") /\ u.out = Append(a.out, "UP") /\ u.down = a.down /\ SameClick(u, a)
  BY <1>0, <1>2, SentFields
<1>4. PICK n : n = [u EXCEPT !.event = "NONE"]
  OBVIOUS
<1>5. n \in KeyStatus /\ n.out = u.out /\ n.down /\ n.event = "NONE" /\ SameClick(n, u)
  BY <1>2, <1>3, <1>4 DEF KeyStatus, SameClick
<1>6. PICK z \in KeyStatus :
         /\ z = Sent(n, "UP_AFTER_LONGPRESS") /\ z.out = Append(n.out, "UP_AFTER_LONGPRESS")
         /\ z.down = n.down /\ z.event = n.event /\ SameClick(z, n)
  BY <1>0, <1>5, SentFields
<1>7. Released(k, FALSE) = z
  BY <1>1, <1>3, <1>4, <1>6 DEF Released, LongHeld
<1>8. SameClick(z, k)
  BY <1>2, <1>3, <1>5, <1>6 DEF SameClick
<1>q. QED BY <1>2, <1>3, <1>5, <1>6, <1>7, <1>8

\* Without a release nothing happens in the first stage.
LEMMA NotReleased ==
    ASSUME NEW k, NEW d \in BOOLEAN, ~k.down \/ d
    PROVE  Released(k, d) = k
BY DEF Released

\* The second stage does nothing unless a tap has ended.
LEMMA NotClicked ==
    ASSUME NEW k, NEW d, k.event # "UP"
    PROVE  Clicked(k, d) = k
BY DEF Clicked

\* The taps counted once the next release is seen, less one.
NewCnt(k) == IF k.click THEN k.cnt + 1 ELSE 0

\* At most five taps are counted.
LEMMA NewCntIs ==
    ASSUME NEW k \in KeyStatus
    PROVE  NewCnt(k) \in 0 .. 4
<1>1. k.cnt \in 0 .. 3 /\ k.click \in BOOLEAN
  BY FiveClicks DEF KeyStatus
<1>q. QED BY <1>1 DEF NewCnt

\* A tap has just ended: it is counted, and the fifth one is a gesture.
LEMMA ClickedTap ==
    ASSUME NEW k \in KeyStatus, k.down, k.event = "UP"
    PROVE  \E z \in KeyStatus :
              /\ z = Clicked(k, FALSE) /\ z.down
              /\ NewCnt(k) < 4 => /\ z.event = "UP" /\ z.click /\ z.cnt = NewCnt(k) /\ z.clicked = 0
                                  /\ z.out = k.out
              /\ NewCnt(k) = 4 => z.event = "NONE" /\ ~z.click /\ z.out = Append(k.out, "RAMPAGECLICK")
<1>n. PICK n \in 0 .. 4 : n = NewCnt(k)
  BY NewCntIs
<1>0. /\ MAX_KEY_CLICK_COUNT = 4 /\ DoubleClick > 0 /\ DoubleClick \in Nat
      /\ 0 \in 0 .. DoubleClick
  BY FiveClicks, KeyAssumption
<1>1. PICK c : c = [k EXCEPT !.click = TRUE, !.cnt = n, !.clicked = 0]
  OBVIOUS
<1>2. c.click /\ c.cnt = n /\ c.clicked = 0 /\ c.out = k.out /\ c.event = "UP" /\ c.down
  BY <1>1 DEF KeyStatus
<1>3. Tapped(k, FALSE) = c
  <2>1. CASE ~k.click
    BY <1>n, <1>1, <2>1 DEF Tapped, NewCnt
  <2>2. CASE k.click
    <3>1. Tapped(k, FALSE) = [k EXCEPT !.cnt = @ + 1, !.clicked = 0]
      BY <2>2 DEF Tapped
    <3>2. n = k.cnt + 1 /\ k.click = TRUE
      BY <1>n, <2>2 DEF NewCnt, KeyStatus
    <3>q. QED BY <1>1, <3>1, <3>2 DEF KeyStatus
  <2>q. QED BY <2>1, <2>2
<1>4. ASSUME n < 4
      PROVE  /\ Clicked(k, FALSE) = c /\ c \in KeyStatus
  <2>0. n \in 0 .. MAX_KEY_CLICK_COUNT - 1 /\ ~(n >= MAX_KEY_CLICK_COUNT)
        /\ ~(c.clicked >= DoubleClick)
    BY <1>0, <1>2, <1>4
  <2>1. Clicked(k, FALSE) = c
    BY <1>2, <1>3, <2>0 DEF Clicked
  <2>2. c \in KeyStatus
    BY <1>0, <1>1, <2>0 DEF KeyStatus
  <2>q. QED BY <2>1, <2>2
<1>5. ASSUME n = 4
      PROVE  \E z \in KeyStatus : /\ z = Clicked(k, FALSE) /\ z.down /\ z.event = "NONE"
                                  /\ ~z.click /\ z.out = Append(k.out, "RAMPAGECLICK")
  <2>1. PICK y : y = [c EXCEPT !.click = FALSE, !.cnt = 0, !.event = "NONE"]
    OBVIOUS
  <2>2. y \in KeyStatus /\ y.out = k.out /\ y.event = "NONE" /\ y.click = FALSE /\ y.down
    BY <1>0, <1>1, <1>2, <2>1, Resets DEF KeyStatus
  <2>3. Clicks[5] = "RAMPAGECLICK" /\ "RAMPAGECLICK" \in KeyMessages
    BY DEF Clicks, KeyMessages, Gestures
  <2>4. PICK z \in KeyStatus :
           /\ z = Sent(y, "RAMPAGECLICK") /\ z.out = Append(y.out, "RAMPAGECLICK")
           /\ z.down = y.down /\ z.event = y.event /\ SameClick(z, y)
    BY <2>2, <2>3, SentFields
  <2>5. Clicked(k, FALSE) = Sent(y, Clicks[c.cnt + 1])
    <3>1. c.cnt >= MAX_KEY_CLICK_COUNT
      BY <1>0, <1>2, <1>5
    <3>q. QED BY <1>3, <2>1, <3>1 DEF Clicked
  <2>6. c.cnt + 1 = 5
    BY <1>2, <1>5
  <2>7. Clicked(k, FALSE) = z
    BY <2>3, <2>4, <2>5, <2>6
  <2>q. QED BY <2>2, <2>4, <2>7 DEF SameClick
<1>6. n < 4 \/ n = 4
  OBVIOUS
<1>7. CASE n < 4
  <2>1. n # 4
    BY <1>7
  <2>q. QED BY <1>n, <1>2, <1>4, <1>7, <2>1
<1>8. CASE n = 4
  <2>1. ~(n < 4)
    BY <1>8
  <2>q. QED BY <1>n, <1>5, <1>8, <2>1
<1>q. QED BY <1>6, <1>7, <1>8

\* Between taps: the gesture ends with the pause.
LEMMA ClickedPause ==
    ASSUME NEW k \in KeyStatus, ~k.down, k.event = "UP", k.click, NEW d \in BOOLEAN
    PROVE  \E z \in KeyStatus :
              /\ z = Clicked(k, d) /\ ~z.down
              /\ k.clicked < DoubleClick => z = k
              /\ k.clicked >= DoubleClick =>
                    z.event = "NONE" /\ ~z.click /\ z.out = Append(k.out, Clicks[k.cnt + 1])
<1>0. /\ k.cnt \in 0 .. 3 /\ MAX_KEY_CLICK_COUNT = 4 /\ k.clicked \in Nat /\ DoubleClick \in Nat
  BY FiveClicks, KeyAssumption DEF KeyStatus
<1>1. Tapped(k, d) = k
  BY DEF Tapped
<1>2. CASE k.clicked < DoubleClick
  <2>1. Clicked(k, d) = k
    BY <1>0, <1>1, <1>2 DEF Clicked
  <2>q. QED BY <1>0, <1>2, <2>1
<1>3. CASE k.clicked >= DoubleClick
  <2>1. PICK y : y = [k EXCEPT !.click = FALSE, !.cnt = 0, !.event = "NONE"]
    OBVIOUS
  <2>2. y \in KeyStatus /\ y.out = k.out /\ y.event = "NONE" /\ y.click = FALSE /\ ~y.down
    BY <2>1, Resets DEF KeyStatus
  <2>3. Clicks[k.cnt + 1] \in KeyMessages
    <3>1. k.cnt \in 0 .. 4
      BY <1>0
    <3>q. QED BY <3>1, FiveClicks
  <2>4. PICK z \in KeyStatus :
           /\ z = Sent(y, Clicks[k.cnt + 1]) /\ z.out = Append(y.out, Clicks[k.cnt + 1])
           /\ z.down = y.down /\ z.event = y.event /\ SameClick(z, y)
    BY <2>2, <2>3, SentFields
  <2>5. Clicked(k, d) = z
    BY <1>0, <1>1, <1>3, <2>1, <2>4 DEF Clicked
  <2>6. z.event = "NONE" /\ ~z.click /\ z.out = Append(k.out, Clicks[k.cnt + 1]) /\ ~z.down
    BY <2>2, <2>4 DEF SameClick
  <2>q. QED BY <1>0, <1>3, <2>5, <2>6
<1>q. QED BY <1>0, <1>2, <1>3

\* A press.
LEMMA PressedFields ==
    ASSUME NEW k \in KeyStatus, k.event \in {"NONE", "UP"}
    PROVE  \E z \in KeyStatus :
              /\ z = Pressed(k, FALSE, TRUE) /\ z.event = "DOWN" /\ z.updown = 0 /\ z.down = k.down
              /\ SameClick(z, k)
              /\ z.out = Append(Append(k.out, "DOWN"),
                                IF k.event = "NONE" THEN "FIRST_DOWN" ELSE "CONTINUED_DOWN")
<1> DEFINE e == IF k.event = "NONE" THEN "FIRST_DOWN" ELSE "CONTINUED_DOWN"
<1>0. "DOWN" \in KeyMessages /\ e \in KeyMessages
  BY DEF KeyMessages
<1>1. PICK a : a = [k EXCEPT !.updown = 0, !.event = "DOWN"]
  OBVIOUS
<1>2. a \in KeyStatus /\ a.out = k.out /\ a.down = k.down /\ a.event = "DOWN" /\ a.updown = 0
      /\ SameClick(a, k)
  BY <1>1, Resets DEF KeyStatus, SameClick
<1>3. PICK u \in KeyStatus :
         /\ u = Sent(a, "DOWN") /\ u.out = Append(a.out, "DOWN") /\ u.down = a.down
         /\ u.event = a.event /\ u.updown = a.updown /\ SameClick(u, a)
  BY <1>0, <1>2, SentFields
<1> HIDE DEF e
<1>4. PICK z \in KeyStatus :
         /\ z = Sent(u, e) /\ z.out = Append(u.out, e) /\ z.down = u.down
         /\ z.event = u.event /\ z.updown = u.updown /\ SameClick(z, u)
  BY <1>0, <1>3, SentFields
<1>5. Pressed(k, FALSE, TRUE) = Sent(Sent([k EXCEPT !.updown = 0, !.event = IF @ \in {"NONE", "UP"} THEN "DOWN" ELSE @], "DOWN"), e)
  BY DEF Pressed, e
<1>6. a = [k EXCEPT !.updown = 0, !.event = IF @ \in {"NONE", "UP"} THEN "DOWN" ELSE @]
  BY <1>1
<1>7. Pressed(k, FALSE, TRUE) = z
  BY <1>3, <1>4, <1>5, <1>6
<1>8. SameClick(z, k)
  BY <1>2, <1>3, <1>4 DEF SameClick
<1>9. z.out = Append(Append(k.out, "DOWN"), e)
  BY <1>2, <1>3, <1>4
<1>10. z.event = "DOWN" /\ z.updown = 0 /\ z.down = k.down
  BY <1>2, <1>3, <1>4
<1>q. QED BY <1>7, <1>8, <1>9, <1>10 DEF e

\* Nothing is pressed.
LEMMA NotPressed ==
    ASSUME NEW k, NEW w \in BOOLEAN, NEW d \in BOOLEAN, w \/ ~d
    PROVE  Pressed(k, w, d) = k
BY DEF Pressed

\* Nothing is held.
LEMMA NotHeld ==
    ASSUME NEW k \in KeyStatus, ~k.down \/ (k.event = "DOWN" /\ k.updown < LongPress)
    PROVE  Held(k) = k
<1>1. k.updown \in Nat /\ LongPress \in Nat
  BY Ranges DEF KeyStatus
<1>q. QED BY <1>1 DEF Held, LongHeld

\* A press becomes a hold.
LEMMA HeldLong ==
    ASSUME NEW k \in KeyStatus, k.down, k.event = "DOWN", k.updown >= LongPress
    PROVE  \E z \in KeyStatus :
              /\ z = Held(k) /\ z.event = "LONGPRESS" /\ z.down /\ SameClick(z, k)
              /\ z.out = Append(k.out, "LONGPRESS")
<1>1. PICK a : a = [k EXCEPT !.repeat = 0, !.event = "LONGPRESS"]
  OBVIOUS
<1>2. a \in KeyStatus /\ a.out = k.out /\ a.down /\ a.event = "LONGPRESS" /\ SameClick(a, k)
  BY <1>1, Resets DEF KeyStatus, SameClick
<1>3. PICK z \in KeyStatus :
         /\ z = Sent(a, "LONGPRESS") /\ z.out = Append(a.out, "LONGPRESS") /\ z.down = a.down
         /\ z.event = a.event /\ SameClick(z, a)
  BY <1>2, SentFields DEF KeyMessages, Gestures
<1>4. Held(k) = z
  BY <1>1, <1>3 DEF Held, LongHeld
<1>5. SameClick(z, k)
  BY <1>2, <1>3 DEF SameClick
<1>q. QED BY <1>2, <1>3, <1>4, <1>5

\* The messages of a key that stays held are no gestures.
LEMMA RepeatFields ==
    ASSUME NEW k \in KeyStatus
    PROVE  \E z \in KeyStatus :
              /\ z = Repeats(k) /\ z.event = k.event /\ z.down = k.down /\ SameClick(z, k)
              /\ z.out = k.out \/ z.out = Append(k.out, "REPEAT")
<1>1. PICK r : r = [k EXCEPT !.repeat = @ + 1]
  OBVIOUS
<1>2. r.repeat = k.repeat + 1 /\ k.repeat \in 0 .. Repeat - 1 /\ Repeat \in Nat
      /\ r.event = k.event /\ r.down = k.down /\ SameClick(r, k) /\ r.out = k.out
  BY <1>1, Ranges DEF KeyStatus, SameClick
<1>3. CASE r.repeat # Repeat
  <2>1. Repeats(k) = r
    BY <1>1, <1>3 DEF Repeats
  <2>2. r \in KeyStatus
    BY <2>1, RepeatsIs
  <2>q. QED BY <1>2, <2>1, <2>2
<1>4. CASE r.repeat = Repeat
  <2>1. PICK y : y = [r EXCEPT !.repeat = 0]
    OBVIOUS
  <2>2. y \in KeyStatus /\ y.event = k.event /\ y.down = k.down /\ SameClick(y, k) /\ y.out = k.out
    BY <1>1, <1>2, <2>1, Resets DEF KeyStatus, SameClick
  <2>3. PICK z \in KeyStatus :
           /\ z = Sent(y, "REPEAT") /\ z.out = Append(y.out, "REPEAT") /\ z.down = y.down
           /\ z.event = y.event /\ SameClick(z, y)
    BY <2>2, SentFields DEF KeyMessages
  <2>4. Repeats(k) = z
    BY <1>1, <1>4, <2>1, <2>3 DEF Repeats
  <2>5. SameClick(z, k)
    BY <2>2, <2>3 DEF SameClick
  <2>q. QED BY <2>2, <2>3, <2>4, <2>5
<1>q. QED BY <1>3, <1>4

\* A key that stays held: repeats, and the second threshold.
LEMMA HeldOn ==
    ASSUME NEW k \in KeyStatus, k.down, LongHeld(k), k.out = <<>>
    PROVE  \E z \in KeyStatus :
              /\ z = Held(k) /\ LongHeld(z) /\ z.down /\ SameClick(z, k)
              /\ \A i \in 1 .. Len(z.out) : z.out[i] \in {"REPEAT", "LONGLONGPRESS"}
<1>0. k.updown \in Nat /\ LongLongPress \in Nat
  BY Ranges DEF KeyStatus
<1>1. PICK r \in KeyStatus :
         /\ r = Repeats(k) /\ r.event = k.event /\ r.down = k.down /\ SameClick(r, k)
         /\ r.out = k.out \/ r.out = Append(k.out, "REPEAT")
  BY RepeatFields
<1>2. r.out = <<>> \/ r.out = <<"REPEAT">>
  BY <1>1
<1>3. CASE k.event = "LONGPRESS" /\ k.updown >= LongLongPress
  <2>1. PICK b : b = [r EXCEPT !.event = "LONGLONGPRESS"]
    OBVIOUS
  <2>2. b \in KeyStatus /\ b.event = "LONGLONGPRESS" /\ b.down = r.down /\ SameClick(b, r) /\ b.out = r.out
    BY <1>1, <2>1 DEF KeyStatus, SameClick
  <2>3. PICK z \in KeyStatus :
           /\ z = Sent(b, "LONGLONGPRESS") /\ z.out = Append(b.out, "LONGLONGPRESS") /\ z.down = b.down
           /\ z.event = b.event /\ SameClick(z, b)
    BY <2>2, SentFields DEF KeyMessages
  <2>4. Held(k) = Sent([Repeats(k) EXCEPT !.event = "LONGLONGPRESS"], "LONGLONGPRESS")
    BY <1>0, <1>3 DEF Held, LongHeld
  <2>4a. Held(k) = z
    BY <1>1, <2>1, <2>3, <2>4
  <2>5. z.out = <<"LONGLONGPRESS">> \/ z.out = <<"REPEAT", "LONGLONGPRESS">>
    BY <1>2, <2>2, <2>3
  <2>6. \A i \in 1 .. Len(z.out) : z.out[i] \in {"REPEAT", "LONGLONGPRESS"}
    BY <2>5
  <2>7. SameClick(z, k) /\ z.down /\ LongHeld(z)
    BY <1>1, <2>2, <2>3 DEF SameClick, LongHeld
  <2>q. QED BY <2>4a, <2>6, <2>7
<1>4. CASE ~(k.event = "LONGPRESS" /\ k.updown >= LongLongPress)
  <2>1. Held(k) = r
    BY <1>0, <1>1, <1>4 DEF Held, LongHeld
  <2>2. \A i \in 1 .. Len(r.out) : r.out[i] \in {"REPEAT", "LONGLONGPRESS"}
    BY <1>2
  <2>q. QED BY <1>1, <2>1, <2>2 DEF LongHeld
<1>q. QED BY <1>3, <1>4

\* The handler remembers whether the key is down.
LEMMA SetDown ==
    ASSUME NEW k \in KeyStatus, NEW d \in BOOLEAN
    PROVE  \E z \in KeyStatus :
              /\ z = [k EXCEPT !.down = d] /\ z.down = d /\ z.out = k.out
              /\ z.event = k.event /\ z.updown = k.updown /\ SameClick(z, k)
<1>1. PICK z : z = [k EXCEPT !.down = d]
  OBVIOUS
<1>2. z \in KeyStatus /\ z.down = d /\ z.out = k.out /\ z.event = k.event /\ z.updown = k.updown
  BY <1>1 DEF KeyStatus
<1>3. SameClick(z, k)
  BY <1>1 DEF KeyStatus, SameClick
<1>q. QED BY <1>1, <1>2, <1>3

\* The key is up and was up, and no tap is being counted.
LEMMA ClassifyQuiet ==
    ASSUME NEW k \in KeyStatus, ~k.down, k.event = "NONE"
    PROVE  \E c \in KeyStatus :
              /\ c = Classify(k, FALSE) /\ ~c.down /\ c.event = "NONE" /\ SameClick(c, k)
              /\ c.out = <<>>
<1>1. PICK a \in KeyStatus :
         /\ a = [k EXCEPT !.out = <<>>] /\ a.out = <<>>
         /\ a.down = k.down /\ a.event = k.event /\ a.updown = k.updown /\ a.repeat = k.repeat
         /\ SameClick(a, k)
  BY Starts
<1>1a. Released(a, FALSE) = a
  BY <1>1, NotReleased
<1>1b. Clicked(a, FALSE) = a
  BY <1>1, NotClicked
<1>2. Clicked(Released(a, FALSE), FALSE) = a
  BY <1>1a, <1>1b
<1>3. PICK z \in KeyStatus :
         /\ z = [a EXCEPT !.down = FALSE] /\ z.down = FALSE /\ z.out = a.out
         /\ z.event = a.event /\ z.updown = a.updown /\ SameClick(z, a)
  BY SetDown
<1>4. Held(Pressed(z, k.down, FALSE)) = z
  <2>1. k.down \in BOOLEAN
    BY DEF KeyStatus
  <2>q. QED BY <1>3, <2>1, NotPressed, NotHeld
<1>5. Classify(k, FALSE) = z
  BY <1>1, <1>2, <1>3, <1>4 DEF Classify
<1>q. QED BY <1>1, <1>3, <1>5 DEF SameClick

\* The key is up between two taps, or after the last one.
LEMMA ClassifyPause ==
    ASSUME NEW k \in KeyStatus, ~k.down, k.event = "UP", k.click
    PROVE  \E c \in KeyStatus :
              /\ c = Classify(k, FALSE) /\ ~c.down
              /\ k.clicked < DoubleClick => c.event = "UP" /\ SameClick(c, k) /\ c.out = <<>>
              /\ k.clicked >= DoubleClick =>
                    c.event = "NONE" /\ ~c.click /\ c.out = <<Clicks[k.cnt + 1]>>
<1>1. PICK a \in KeyStatus :
         /\ a = [k EXCEPT !.out = <<>>] /\ a.out = <<>>
         /\ a.down = k.down /\ a.event = k.event /\ a.updown = k.updown /\ a.repeat = k.repeat
         /\ SameClick(a, k)
  BY Starts
<1>2. Released(a, FALSE) = a
  BY <1>1, NotReleased
<1>3. a.click /\ a.clicked = k.clicked /\ a.cnt = k.cnt
  BY <1>1 DEF SameClick
<1>4. PICK b \in KeyStatus :
         /\ b = Clicked(a, FALSE) /\ ~b.down
         /\ a.clicked < DoubleClick => b = a
         /\ a.clicked >= DoubleClick =>
               b.event = "NONE" /\ ~b.click /\ b.out = Append(a.out, Clicks[a.cnt + 1])
  BY <1>1, <1>3, ClickedPause
<1>5. PICK z \in KeyStatus :
         /\ z = [b EXCEPT !.down = FALSE] /\ z.down = FALSE /\ z.out = b.out
         /\ z.event = b.event /\ z.updown = b.updown /\ SameClick(z, b)
  BY SetDown
<1>6. Held(Pressed(z, k.down, FALSE)) = z
  <2>1. k.down \in BOOLEAN
    BY DEF KeyStatus
  <2>q. QED BY <1>5, <2>1, NotPressed, NotHeld
<1>7. Classify(k, FALSE) = z
  BY <1>1, <1>2, <1>4, <1>5, <1>6 DEF Classify
<1>8. k.clicked < DoubleClick => z.event = "UP" /\ SameClick(z, k) /\ z.out = <<>>
  <2>1. ASSUME k.clicked < DoubleClick PROVE b = a
    BY <1>3, <1>4, <2>1
  <2>q. QED BY <1>1, <1>3, <1>5, <2>1 DEF SameClick
<1>9. k.clicked >= DoubleClick => z.event = "NONE" /\ ~z.click /\ z.out = <<Clicks[k.cnt + 1]>>
  <2>1. Append(a.out, Clicks[a.cnt + 1]) = <<Clicks[k.cnt + 1]>>
    BY <1>1, <1>3
  <2>q. QED BY <1>3, <1>4, <1>5, <2>1 DEF SameClick
<1>q. QED BY <1>5, <1>7, <1>8, <1>9

\* The last stages of a press.
LEMMA PressStages ==
    ASSUME NEW b \in KeyStatus, b.event \in {"NONE", "UP"}
    PROVE  \E z \in KeyStatus :
              /\ z = Held(Pressed([b EXCEPT !.down = TRUE], FALSE, TRUE))
              /\ z.down /\ z.event = "DOWN" /\ z.updown = 0 /\ SameClick(z, b)
              /\ z.out = Append(Append(b.out, "DOWN"),
                                IF b.event = "NONE" THEN "FIRST_DOWN" ELSE "CONTINUED_DOWN")
<1>1. PICK y \in KeyStatus :
         /\ y = [b EXCEPT !.down = TRUE] /\ y.down = TRUE /\ y.out = b.out
         /\ y.event = b.event /\ y.updown = b.updown /\ SameClick(y, b)
  BY SetDown
<1>2. PICK z \in KeyStatus :
         /\ z = Pressed(y, FALSE, TRUE) /\ z.event = "DOWN" /\ z.updown = 0 /\ z.down = y.down
         /\ SameClick(z, y)
         /\ z.out = Append(Append(y.out, "DOWN"),
                           IF y.event = "NONE" THEN "FIRST_DOWN" ELSE "CONTINUED_DOWN")
  BY <1>1, PressedFields
<1>3. Held(z) = z
  <2>1. z.updown < LongPress
    <3>1. LongPress \in Nat /\ 2 < LongPress
      BY KeyAssumption
    <3>2. z.updown = 0
      BY <1>2
    <3>q. QED BY <3>1, <3>2
  <2>q. QED BY <1>2, <2>1, NotHeld
<1>q. QED BY <1>1, <1>2, <1>3 DEF SameClick

\* A press is seen.
LEMMA ClassifyPress ==
    ASSUME NEW k \in KeyStatus, ~k.down,
           k.event = "NONE" \/ (k.event = "UP" /\ k.click /\ k.clicked < DoubleClick)
    PROVE  \E c \in KeyStatus :
              /\ c = Classify(k, TRUE) /\ c.down /\ c.event = "DOWN" /\ c.updown = 0
              /\ SameClick(c, k)
              /\ c.out \in {<<"DOWN", "FIRST_DOWN">>, <<"DOWN", "CONTINUED_DOWN">>}
<1>1. PICK a \in KeyStatus :
         /\ a = [k EXCEPT !.out = <<>>] /\ a.out = <<>>
         /\ a.down = k.down /\ a.event = k.event /\ a.updown = k.updown /\ a.repeat = k.repeat
         /\ SameClick(a, k)
  BY Starts
<1>2. Released(a, TRUE) = a
  BY NotReleased
<1>3. Clicked(a, TRUE) = a
  <2>1. CASE k.event = "NONE"
    BY <1>1, <2>1, NotClicked
  <2>2. CASE k.event = "UP" /\ k.click /\ k.clicked < DoubleClick
    <3>1. a.event = "UP" /\ a.click /\ a.clicked < DoubleClick /\ ~a.down
      BY <1>1, <2>2 DEF SameClick
    <3>q. QED BY <3>1, ClickedPause
  <2>q. QED BY <2>1, <2>2
<1>4. a.event \in {"NONE", "UP"}
  BY <1>1
<1>5. PICK z \in KeyStatus :
         /\ z = Held(Pressed([a EXCEPT !.down = TRUE], FALSE, TRUE))
         /\ z.down /\ z.event = "DOWN" /\ z.updown = 0 /\ SameClick(z, a)
         /\ z.out = Append(Append(a.out, "DOWN"),
                           IF a.event = "NONE" THEN "FIRST_DOWN" ELSE "CONTINUED_DOWN")
  BY <1>4, PressStages
<1>6. Classify(k, TRUE) = z
  <2>1. k.down = FALSE
    BY DEF KeyStatus
  <2>q. QED BY <1>1, <1>2, <1>3, <1>5, <2>1 DEF Classify
<1>7. z.out \in {<<"DOWN", "FIRST_DOWN">>, <<"DOWN", "CONTINUED_DOWN">>}
  <2>1. CASE a.event = "NONE"
    <3>1. z.out = Append(Append(a.out, "DOWN"), "FIRST_DOWN")
      BY <1>5, <2>1
    <3>q. QED BY <1>1, <3>1, OneTwo DEF KeyMessages
  <2>2. CASE a.event # "NONE"
    <3>1. z.out = Append(Append(a.out, "DOWN"), "CONTINUED_DOWN")
      BY <1>5, <2>2
    <3>q. QED BY <1>1, <3>1, OneTwo DEF KeyMessages
  <2>q. QED BY <2>1, <2>2
<1>8. SameClick(z, k)
  BY <1>1, <1>5 DEF SameClick
<1>q. QED BY <1>5, <1>6, <1>7, <1>8

\* A press is seen when the pause is just over.
LEMMA ClassifyPressLate ==
    ASSUME NEW k \in KeyStatus, ~k.down, k.event = "UP", k.click, k.clicked >= DoubleClick
    PROVE  \E c \in KeyStatus : c = Classify(k, TRUE) /\ c.down /\ c.event = "DOWN"
<1>1. PICK a \in KeyStatus :
         /\ a = [k EXCEPT !.out = <<>>] /\ a.out = <<>>
         /\ a.down = k.down /\ a.event = k.event /\ a.updown = k.updown /\ a.repeat = k.repeat
         /\ SameClick(a, k)
  BY Starts
<1>2. Released(a, TRUE) = a
  BY NotReleased
<1>3. a.click /\ a.clicked >= DoubleClick
  BY <1>1 DEF SameClick
<1>4. PICK b \in KeyStatus :
         /\ b = Clicked(a, TRUE) /\ ~b.down
         /\ a.clicked < DoubleClick => b = a
         /\ a.clicked >= DoubleClick =>
               b.event = "NONE" /\ ~b.click /\ b.out = Append(a.out, Clicks[a.cnt + 1])
  BY <1>1, <1>3, ClickedPause
<1>5. b.event \in {"NONE", "UP"}
  BY <1>3, <1>4
<1>6. PICK z \in KeyStatus :
         /\ z = Held(Pressed([b EXCEPT !.down = TRUE], FALSE, TRUE))
         /\ z.down /\ z.event = "DOWN" /\ z.updown = 0 /\ SameClick(z, b)
         /\ z.out = Append(Append(b.out, "DOWN"),
                           IF b.event = "NONE" THEN "FIRST_DOWN" ELSE "CONTINUED_DOWN")
  BY <1>5, PressStages
<1>7. Classify(k, TRUE) = z
  <2>1. k.down = FALSE
    BY DEF KeyStatus
  <2>q. QED BY <1>1, <1>2, <1>4, <1>6, <2>1 DEF Classify
<1>q. QED BY <1>6, <1>7

\* The end of a tap is seen.
LEMMA ClassifyTap ==
    ASSUME NEW k \in KeyStatus, k.down, k.event = "DOWN"
    PROVE  \E c \in KeyStatus :
              /\ c = Classify(k, FALSE) /\ ~c.down
              /\ NewCnt(k) < 4 => /\ c.event = "UP" /\ c.click /\ c.cnt = NewCnt(k) /\ c.clicked = 0
                                  /\ c.out = <<"UP">>
              /\ NewCnt(k) = 4 => c.event = "NONE" /\ ~c.click /\ c.out = <<"UP", "RAMPAGECLICK">>
<1>1. PICK a \in KeyStatus :
         /\ a = [k EXCEPT !.out = <<>>] /\ a.out = <<>>
         /\ a.down = k.down /\ a.event = k.event /\ a.updown = k.updown /\ a.repeat = k.repeat
         /\ SameClick(a, k)
  BY Starts
<1>2. PICK b \in KeyStatus :
         /\ b = Released(a, FALSE) /\ b.out = Append(a.out, "UP")
         /\ b.down /\ b.event = "UP" /\ SameClick(b, a)
  BY <1>1, ReleasedTap
<1>4. NewCnt(b) = NewCnt(k)
  BY <1>1, <1>2 DEF SameClick, NewCnt
<1>5. PICK z \in KeyStatus :
         /\ z = Clicked(b, FALSE) /\ z.down
         /\ NewCnt(b) < 4 => /\ z.event = "UP" /\ z.click /\ z.cnt = NewCnt(b) /\ z.clicked = 0
                             /\ z.out = b.out
         /\ NewCnt(b) = 4 => z.event = "NONE" /\ ~z.click /\ z.out = Append(b.out, "RAMPAGECLICK")
  BY <1>2, ClickedTap
<1>6. PICK c \in KeyStatus :
         /\ c = [z EXCEPT !.down = FALSE] /\ c.down = FALSE /\ c.out = z.out
         /\ c.event = z.event /\ c.updown = z.updown /\ SameClick(c, z)
  BY SetDown
<1>7. Held(Pressed(c, k.down, FALSE)) = c
  <2>1. k.down \in BOOLEAN
    BY DEF KeyStatus
  <2>q. QED BY <1>6, <2>1, NotPressed, NotHeld
<1>8. Classify(k, FALSE) = c
  BY <1>1, <1>2, <1>5, <1>6, <1>7 DEF Classify
<1>9. b.out = <<"UP">> /\ Append(b.out, "RAMPAGECLICK") = <<"UP", "RAMPAGECLICK">>
  <2>1. "UP" \in KeyMessages /\ "RAMPAGECLICK" \in KeyMessages
    BY DEF KeyMessages, Gestures
  <2>2. b.out = <<"UP">>
    BY <1>1, <1>2, <2>1, OneTwo
  <2>q. QED BY <2>1, <2>2, OneTwo
<1>10. NewCnt(k) < 4 =>
          c.event = "UP" /\ c.click /\ c.cnt = NewCnt(k) /\ c.clicked = 0 /\ c.out = <<"UP">>
  BY <1>4, <1>5, <1>6, <1>9 DEF SameClick
<1>11. NewCnt(k) = 4 => c.event = "NONE" /\ ~c.click /\ c.out = <<"UP", "RAMPAGECLICK">>
  BY <1>4, <1>5, <1>6, <1>9 DEF SameClick
<1>q. QED BY <1>6, <1>8, <1>10, <1>11

\* The end of a hold is seen.
LEMMA ClassifyEnd ==
    ASSUME NEW k \in KeyStatus, k.down, LongHeld(k)
    PROVE  \E c \in KeyStatus :
              /\ c = Classify(k, FALSE) /\ ~c.down /\ c.event = "NONE" /\ SameClick(c, k)
              /\ c.out = <<"UP", "UP_AFTER_LONGPRESS">>
<1>1. PICK a \in KeyStatus :
         /\ a = [k EXCEPT !.out = <<>>] /\ a.out = <<>>
         /\ a.down = k.down /\ a.event = k.event /\ a.updown = k.updown /\ a.repeat = k.repeat
         /\ SameClick(a, k)
  BY Starts
<1>2. PICK b \in KeyStatus :
         /\ b = Released(a, FALSE) /\ b.out = Append(Append(a.out, "UP"), "UP_AFTER_LONGPRESS")
         /\ b.down /\ b.event = "NONE" /\ SameClick(b, a)
  <2>1. LongHeld(a)
    BY <1>1 DEF LongHeld
  <2>q. QED BY <1>1, <2>1, ReleasedHold
<1>3. Clicked(b, FALSE) = b
  BY <1>2, NotClicked
<1>6. PICK c \in KeyStatus :
         /\ c = [b EXCEPT !.down = FALSE] /\ c.down = FALSE /\ c.out = b.out
         /\ c.event = b.event /\ c.updown = b.updown /\ SameClick(c, b)
  BY SetDown
<1>7. Held(Pressed(c, k.down, FALSE)) = c
  <2>1. k.down \in BOOLEAN
    BY DEF KeyStatus
  <2>q. QED BY <1>6, <2>1, NotPressed, NotHeld
<1>8. Classify(k, FALSE) = c
  BY <1>1, <1>2, <1>3, <1>6, <1>7 DEF Classify
<1>9. c.out = <<"UP", "UP_AFTER_LONGPRESS">>
  <2>1. c.out = Append(Append(<<>>, "UP"), "UP_AFTER_LONGPRESS")
    BY <1>1, <1>2, <1>6
  <2>2. "UP" \in KeyMessages /\ "UP_AFTER_LONGPRESS" \in KeyMessages
    BY DEF KeyMessages
  <2>q. QED BY <2>1, <2>2, OneTwo
<1>10. SameClick(c, k)
  BY <1>1, <1>2, <1>6 DEF SameClick
<1>q. QED BY <1>2, <1>6, <1>8, <1>9, <1>10

\* The key stays down.
LEMMA DownStages ==
    ASSUME NEW k \in KeyStatus, k.down, k.event # "UP"
    PROVE  \E a \in KeyStatus :
              /\ Classify(k, TRUE) = Held(a) /\ a.out = <<>> /\ a.down
              /\ a.event = k.event /\ a.updown = k.updown /\ SameClick(a, k)
<1>1. PICK a \in KeyStatus :
         /\ a = [k EXCEPT !.out = <<>>] /\ a.out = <<>>
         /\ a.down = k.down /\ a.event = k.event /\ a.updown = k.updown /\ a.repeat = k.repeat
         /\ SameClick(a, k)
  BY Starts
<1>1a. Released(a, TRUE) = a
  BY <1>1, NotReleased
<1>1b. Clicked(a, TRUE) = a
  BY <1>1, NotClicked
<1>2. Clicked(Released(a, TRUE), TRUE) = a
  BY <1>1a, <1>1b
<1>3. PICK z \in KeyStatus :
         /\ z = [a EXCEPT !.down = TRUE] /\ z.down = TRUE /\ z.out = a.out
         /\ z.event = a.event /\ z.updown = a.updown /\ SameClick(z, a)
  BY SetDown
<1>4. Pressed(z, k.down, TRUE) = z
  <2>1. k.down \in BOOLEAN
    BY DEF KeyStatus
  <2>q. QED BY <2>1, NotPressed
<1>5. Classify(k, TRUE) = Held(z)
  BY <1>1, <1>2, <1>3, <1>4 DEF Classify
<1>q. QED BY <1>1, <1>3, <1>5 DEF SameClick

\* The key stays down, and becomes a hold or not.
LEMMA ClassifyDown ==
    ASSUME NEW k \in KeyStatus, k.down, k.event = "DOWN"
    PROVE  \E c \in KeyStatus :
              /\ c = Classify(k, TRUE) /\ c.down /\ SameClick(c, k)
              /\ k.updown < LongPress => c.event = "DOWN" /\ c.updown = k.updown /\ c.out = <<>>
              /\ k.updown >= LongPress => c.event = "LONGPRESS" /\ c.out = <<"LONGPRESS">>
<1>0. k.updown \in Nat /\ LongPress \in Nat
  BY Ranges DEF KeyStatus
<1>1. PICK a \in KeyStatus :
         /\ Classify(k, TRUE) = Held(a) /\ a.out = <<>> /\ a.down
         /\ a.event = k.event /\ a.updown = k.updown /\ SameClick(a, k)
  BY DownStages
<1>2. CASE k.updown < LongPress
  <2>1. Held(a) = a
    BY <1>1, <1>2, NotHeld
  <2>2. ~(k.updown >= LongPress)
    BY <1>0, <1>2
  <2>q. QED BY <1>1, <2>1, <2>2
<1>3. CASE k.updown >= LongPress
  <2>1. PICK z \in KeyStatus :
           /\ z = Held(a) /\ z.event = "LONGPRESS" /\ z.down /\ SameClick(z, a)
           /\ z.out = Append(a.out, "LONGPRESS")
    BY <1>1, <1>3, HeldLong
  <2>2. z.out = <<"LONGPRESS">> /\ SameClick(z, k)
    BY <1>1, <2>1 DEF SameClick
  <2>3. ~(k.updown < LongPress)
    BY <1>0, <1>3
  <2>q. QED BY <1>1, <2>1, <2>2, <2>3
<1>4. k.updown < LongPress \/ k.updown >= LongPress
  BY <1>0
<1>q. QED BY <1>2, <1>3, <1>4

\* The key stays held.
LEMMA ClassifyHeld ==
    ASSUME NEW k \in KeyStatus, k.down, LongHeld(k)
    PROVE  \E c \in KeyStatus :
              /\ c = Classify(k, TRUE) /\ c.down /\ SameClick(c, k) /\ LongHeld(c)
              /\ \A i \in 1 .. Len(c.out) : c.out[i] \in {"REPEAT", "LONGLONGPRESS"}
<1>1. PICK a \in KeyStatus :
         /\ Classify(k, TRUE) = Held(a) /\ a.out = <<>> /\ a.down
         /\ a.event = k.event /\ a.updown = k.updown /\ SameClick(a, k)
  <2>1. k.event # "UP"
    BY DEF LongHeld
  <2>q. QED BY <2>1, DownStages
<1>2. LongHeld(a)
  BY <1>1 DEF LongHeld
<1>3. PICK z \in KeyStatus :
         /\ z = Held(a) /\ LongHeld(z) /\ z.down /\ SameClick(z, a)
         /\ \A i \in 1 .. Len(z.out) : z.out[i] \in {"REPEAT", "LONGLONGPRESS"}
  BY <1>1, <1>2, HeldOn
<1>4. SameClick(z, k)
  BY <1>1, <1>3 DEF SameClick
<1>q. QED BY <1>1, <1>3, <1>4
-----------------------------------------------------------------------------
(* What each step does to the fields.                                      *)

\* A time stamp in numbers.
LEMMA OlderFacts ==
    ASSUME NEW limit \in Nat, NEW age \in 0 .. limit
    PROVE  /\ Older(age, limit) \in 0 .. limit
           /\ Older(age, limit) <= age + 1 /\ Older(age, limit) >= age
           /\ age < limit => Older(age, limit) = age + 1
BY DEF Older

\* The variables have the fields they are given.
LEMMA Fields ==
    ASSUME Typed
    PROVE  /\ finger.down \in BOOLEAN /\ finger.age \in 0 .. LongLongPress /\ finger.left \in 0 .. 4
           /\ finger.goal \in {"none", "hold"} \cup Gestures
           /\ pwr.debounce \in BOOLEAN /\ pwr.dither \in BOOLEAN /\ pwr.pressed \in BOOLEAN
           /\ pwr.age \in 0 .. Debounce /\ irq \in BOOLEAN
           /\ timer.active \in BOOLEAN /\ timer.at \in {"idle", "classify"} /\ timer.down \in BOOLEAN
           /\ timer.need \in BOOLEAN
           /\ key \in KeyStatus /\ key.down \in BOOLEAN /\ key.click \in BOOLEAN /\ key.cnt \in 0 .. 3
           /\ key.event \in {"NONE", "DOWN", "UP", "LONGPRESS", "LONGLONGPRESS"}
           /\ key.updown \in 0 .. LongLongPress /\ key.clicked \in 0 .. DoubleClick
           /\ mail \in Seq(KeyMessages) /\ thread.at \in {"idle", "handling"}
           /\ thread.msg \in KeyMessages \cup {"NONE"} /\ cnt \in 0 .. 255
BY FiveClicks DEF Typed, FingerState, Pwr, Timer, KeyStatus, Thread

\* The timer interrupt looks at the key: time,
LEMMA SampleTime ==
    ASSUME Typed, Sample
    PROVE  /\ timer.active /\ timer.at = "idle" /\ InTime
           /\ finger'.down = finger.down /\ finger'.goal = finger.goal /\ finger'.left = finger.left
           /\ finger'.age = Older(finger.age, LongLongPress)
           /\ timer'.at = "classify" /\ ~timer'.active
           /\ key'.down = key.down /\ key'.event = key.event /\ key'.click = key.click
           /\ key'.cnt = key.cnt
           /\ key.event \in {"DOWN", "LONGPRESS"} => key'.updown = Older(key.updown, LongLongPress)
           /\ key.event = "UP" => key'.clicked = Older(key.clicked, DoubleClick)
           /\ cnt' = cnt /\ mail' = mail /\ thread' = thread /\ owed' = owed /\ wrong' = wrong
           /\ lost' = lost /\ fits' = fits
<1>1. PICK u, v : /\ key' = [key EXCEPT !.updown = u, !.clicked = v]
                  /\ key.event \in {"DOWN", "LONGPRESS"} => u = Older(key.updown, LongLongPress)
                  /\ key.event = "UP" => v = Older(key.clicked, DoubleClick)
  <2>1. key' = [key EXCEPT !.updown = IF key.event \in {"DOWN", "LONGPRESS"}
                                      THEN Older(key.updown, LongLongPress) ELSE key.updown,
                           !.clicked = IF key.event = "UP" THEN Older(key.clicked, DoubleClick)
                                       ELSE key.clicked]
    BY DEF Sample
  <2>q. QED BY <2>1
<1>2. key \in KeyStatus
  BY DEF Typed
<1>3. /\ key'.down = key.down /\ key'.event = key.event /\ key'.click = key.click
      /\ key'.cnt = key.cnt /\ key'.updown = u /\ key'.clicked = v
  BY <1>1, <1>2 DEF KeyStatus
<1>4. finger' = [finger EXCEPT !.age = Older(@, LongLongPress)]
  BY DEF Sample
<1>5. /\ finger'.down = finger.down /\ finger'.goal = finger.goal /\ finger'.left = finger.left
      /\ finger'.age = Older(finger.age, LongLongPress)
  BY <1>4 DEF Typed, FingerState
<1>6. /\ timer.active /\ timer.at = "idle" /\ InTime
      /\ cnt' = cnt /\ mail' = mail /\ thread' = thread /\ owed' = owed /\ wrong' = wrong
      /\ lost' = lost /\ fits' = fits
  BY DEF Sample
<1>7. timer'.at = "classify" /\ timer'.active = FALSE
  BY DEF Sample
<1>q. QED BY <1>1, <1>3, <1>5, <1>6, <1>7

\* and the power key.
LEMMA SamplePwr ==
    ASSUME Typed, Sample
    PROVE  \E p \in Pwr :
              /\ p.debounce = pwr.debounce /\ p.dither = pwr.dither /\ p.pressed = pwr.pressed
              /\ p.age = Older(pwr.age, Debounce)
              /\ pwr' = PwrKey(p, finger.down)
              /\ irq' = (irq \/ Enables(p, finger.down))
              /\ timer'.down = CodeDown(p, finger.down)
<1>1. PICK p : p = [pwr EXCEPT !.age = Older(@, Debounce)]
  OBVIOUS
<1>2. Older(pwr.age, Debounce) \in 0 .. Debounce
  BY Ranges, OlderIs DEF Typed, Pwr
<1>3. p \in Pwr /\ p.debounce = pwr.debounce /\ p.dither = pwr.dither /\ p.pressed = pwr.pressed
      /\ p.age = Older(pwr.age, Debounce)
  BY <1>1, <1>2 DEF Typed, Pwr
<1>4. /\ pwr' = PwrKey(p, finger.down)
      /\ irq' = (irq \/ Enables(p, finger.down))
      /\ timer' = [active |-> FALSE, at |-> "classify", down |-> CodeDown(p, finger.down),
                   need |-> Watched(pwr')]
  BY <1>1 DEF Sample
<1>5. timer'.down = CodeDown(p, finger.down)
  BY <1>4
<1>q. QED BY <1>3, <1>4, <1>5

\* What becomes of pwr_key, by what it was.
LEMMA PwrKeyFields ==
    ASSUME NEW p \in Pwr, NEW down \in BOOLEAN, NEW q, q = PwrKey(p, down)
    PROVE  /\ p.debounce /\ down =>
                 /\ q.pressed /\ (q.debounce <=> p.age < Debounce) /\ ~q.dither /\ q.age = p.age
                 /\ (CodeDown(p, down) <=> p.age >= Debounce) /\ ~Enables(p, down)
           /\ p.debounce /\ ~down =>
                 ~q.pressed /\ ~q.debounce /\ q.dither /\ q.age = 0 /\ ~CodeDown(p, down) /\ ~Enables(p, down)
           /\ ~p.debounce /\ p.dither =>
                 /\ ~q.debounce /\ q.age = p.age /\ ~CodeDown(p, down)
                 /\ (q.pressed <=> p.pressed /\ p.age < Dither) /\ (q.dither <=> p.age < Dither)
                 /\ (Enables(p, down) <=> p.age >= Dither)
           /\ ~p.debounce /\ ~p.dither =>
                 /\ ~q.debounce /\ ~q.dither /\ (q.pressed <=> p.pressed /\ down) /\ q.age = p.age
                 /\ (CodeDown(p, down) <=> p.pressed /\ down) /\ (Enables(p, down) <=> p.pressed /\ ~down)
<1> USE DEF Pwr
<1>0. p.age \in Int /\ Dither \in Int /\ Debounce \in Int
  BY Ranges
<1>1. CASE p.debounce /\ down
  <2>1. q = [p EXCEPT !.pressed = TRUE, !.debounce = p.age < Debounce, !.dither = FALSE]
    BY <1>1 DEF PwrKey
  <2>2. q.pressed = TRUE /\ q.debounce = (p.age < Debounce) /\ q.dither = FALSE /\ q.age = p.age
    BY <2>1
  <2>3. (CodeDown(p, down) <=> p.age >= Debounce) /\ ~Enables(p, down)
    BY <1>1 DEF CodeDown, Enables
  <2>q. QED BY <1>1, <2>2, <2>3
<1>2. CASE p.debounce /\ ~down
  <2>1. q = [p EXCEPT !.pressed = FALSE, !.debounce = FALSE, !.dither = TRUE, !.age = 0]
    BY <1>2 DEF PwrKey
  <2>q. QED BY <1>2, <2>1 DEF CodeDown, Enables
<1>3. CASE ~p.debounce /\ p.dither
  <2>1. q = [p EXCEPT !.pressed = p.pressed /\ p.age < Dither, !.dither = p.age < Dither]
    BY <1>3 DEF PwrKey
  <2>2. q.pressed = (p.pressed /\ p.age < Dither) /\ q.dither = (p.age < Dither)
        /\ q.debounce = FALSE /\ q.age = p.age
    BY <1>3, <2>1
  <2>3. ~CodeDown(p, down) /\ (Enables(p, down) <=> p.age >= Dither)
    BY <1>3 DEF CodeDown, Enables
  <2>q. QED BY <1>3, <2>2, <2>3
<1>4. CASE ~p.debounce /\ ~p.dither
  <2>1. q = [p EXCEPT !.pressed = p.pressed /\ down]
    BY <1>4 DEF PwrKey
  <2>2. q.pressed = (p.pressed /\ down) /\ q.debounce = FALSE /\ q.dither = FALSE /\ q.age = p.age
    BY <1>4, <2>1
  <2>3. (CodeDown(p, down) <=> p.pressed /\ down) /\ (Enables(p, down) <=> p.pressed /\ ~down)
    BY <1>4 DEF CodeDown, Enables
  <2>q. QED BY <1>4, <2>2, <2>3
<1>q. QED BY <1>1, <1>2, <1>3, <1>4

\* The rest of the timer interrupt.
LEMMA HandlerFields ==
    ASSUME Typed, DebounceHandler, NEW c \in KeyStatus, c = Classify(key, timer.down)
    PROVE  /\ timer.at = "classify" /\ timer'.at = "idle" /\ timer'.down = FALSE
           /\ (timer'.active <=> timer.active \/ timer.need \/ c.event # "NONE")
           /\ key'.down = c.down /\ key'.event = c.event /\ key'.updown = c.updown /\ SameClick(key', c)
           /\ finger' = finger /\ pwr' = pwr /\ irq' = irq /\ thread' = thread /\ fits' = fits
           /\ wrong' = wrong
<1>1. /\ key' = [c EXCEPT !.out = <<>>]
      /\ timer' = [active |-> timer.active \/ NeedTimer(c, timer.need), at |-> "idle",
                   down |-> FALSE, need |-> FALSE]
      /\ timer.at = "classify"
      /\ finger' = finger /\ pwr' = pwr /\ irq' = irq /\ thread' = thread /\ fits' = fits
      /\ wrong' = wrong
  BY DEF DebounceHandler
<1>2. key'.down = c.down /\ key'.event = c.event /\ key'.updown = c.updown /\ SameClick(key', c)
  BY <1>1 DEF KeyStatus, SameClick
<1>3. timer'.at = "idle" /\ timer'.down = FALSE /\ timer'.active = (timer.active \/ NeedTimer(c, timer.need))
  BY <1>1
<1>4. timer'.active <=> timer.active \/ timer.need \/ c.event # "NONE"
  BY <1>3 DEF NeedTimer
<1>q. QED BY <1>1, <1>2, <1>3, <1>4

\* The edge interrupt.
LEMMA EdgeFields ==
    ASSUME Typed, NEW stillDown \in BOOLEAN, Edge(stillDown)
    PROVE  /\ irq' = FALSE /\ timer'.active /\ timer'.at = timer.at /\ timer'.down = timer.down
           /\ timer'.need = timer.need /\ pwr'.age = pwr.age
           /\ stillDown => pwr'.pressed /\ pwr'.debounce /\ pwr'.dither = pwr.dither
           /\ ~stillDown => ~pwr'.pressed /\ pwr'.dither /\ pwr'.debounce = pwr.debounce
<1>1. /\ irq' = FALSE /\ timer' = [timer EXCEPT !.active = TRUE]
      /\ pwr' = IF stillDown THEN [pwr EXCEPT !.pressed = TRUE, !.debounce = TRUE]
                ELSE [pwr EXCEPT !.pressed = FALSE, !.dither = TRUE]
  BY DEF Edge
<1>2. timer'.active = TRUE /\ timer'.at = timer.at /\ timer'.down = timer.down
      /\ timer'.need = timer.need
  BY <1>1 DEF Typed, Timer
<1>3. CASE stillDown
  <2>1. pwr' = [pwr EXCEPT !.pressed = TRUE, !.debounce = TRUE]
    BY <1>1, <1>3
  <2>2. pwr'.pressed = TRUE /\ pwr'.debounce = TRUE /\ pwr'.dither = pwr.dither /\ pwr'.age = pwr.age
    BY <2>1 DEF Typed, Pwr
  <2>q. QED BY <1>1, <1>2, <1>3, <2>2
<1>4. CASE ~stillDown
  <2>1. pwr' = [pwr EXCEPT !.pressed = FALSE, !.dither = TRUE]
    BY <1>1, <1>4
  <2>2. pwr'.pressed = FALSE /\ pwr'.dither = TRUE /\ pwr'.debounce = pwr.debounce /\ pwr'.age = pwr.age
    BY <2>1 DEF Typed, Pwr
  <2>q. QED BY <1>1, <1>2, <1>4, <2>2
<1>q. QED BY <1>3, <1>4

\* A touch.
LEMMA TouchFields ==
    ASSUME Typed, Touch
    PROVE  /\ timer'.at = timer.at /\ timer'.down = timer.down /\ timer'.need = timer.need
           /\ pwr'.age = pwr.age /\ irq' = FALSE
           /\ irq => pwr'.pressed /\ pwr'.debounce /\ pwr'.dither = pwr.dither /\ timer'.active
           /\ ~irq => pwr' = pwr /\ timer'.active = timer.active
<1>0. irq \in BOOLEAN
  BY DEF Typed
<1>1. CASE irq
  <2>1. Edge(TRUE)
    BY <1>1 DEF Touch
  <2>q. QED BY <1>1, <2>1, EdgeFields
<1>2. CASE ~irq
  <2>1. pwr' = pwr /\ irq' = irq /\ timer' = timer
    BY <1>2 DEF Touch
  <2>q. QED BY <1>0, <1>2, <2>1
<1>q. QED BY <1>1, <1>2

\* A gesture begins.
LEMMA BeginFields ==
    ASSUME Typed, NEW g, BeginGesture(g), ~Hurried
    PROVE  /\ ~finger.down /\ finger.left = 0 /\ finger.age > DoubleClick + 1
           /\ finger'.down = TRUE /\ finger'.age = 0 /\ finger'.goal = g
           /\ finger'.left = IF g = "hold" THEN 0 ELSE (CHOOSE i \in DOMAIN Clicks : Clicks[i] = g) - 1
           /\ fits' = (OnTheirWay = 0 /\ g \in {"hold", "CLICK"})
           /\ lost' = (IF lost = "last" THEN "earlier" ELSE lost)
           /\ Touch /\ key' = key /\ cnt' = cnt /\ mail' = mail /\ thread' = thread /\ wrong' = wrong
<1>1. /\ ~finger.down /\ finger.left = 0
      /\ Paused \/ (Hurried /\ g = "hold" /\ finger.goal = "CLICK" /\ finger.age \in 1 .. DoubleClick - 2)
      /\ finger' = [down |-> TRUE, age |-> 0, goal |-> g,
                    left |-> IF g = "hold" THEN 0 ELSE (CHOOSE i \in DOMAIN Clicks : Clicks[i] = g) - 1]
      /\ fits' = (OnTheirWay = 0 /\ g \in {"hold", "CLICK"})
      /\ lost' = (IF lost = "last" THEN "earlier" ELSE lost)
      /\ Touch /\ key' = key /\ cnt' = cnt /\ mail' = mail /\ thread' = thread /\ wrong' = wrong
  BY DEF BeginGesture
<1>2. finger.age > DoubleClick + 1
  BY <1>1 DEF Paused
<1>q. QED BY <1>1, <1>2

\* Another tap.
LEMMA AgainFields ==
    ASSUME Typed, TapAgain
    PROVE  /\ ~finger.down /\ finger.left > 0 /\ finger.age >= 1
           /\ finger'.down = TRUE /\ finger'.age = 0 /\ finger'.left = finger.left - 1
           /\ finger'.goal = finger.goal /\ Touch
           /\ key' = key /\ cnt' = cnt /\ mail' = mail /\ thread' = thread /\ owed' = owed
           /\ wrong' = wrong /\ lost' = lost /\ fits' = fits
<1>1. /\ ~finger.down /\ finger.left > 0 /\ finger.age >= 1
      /\ finger' = [finger EXCEPT !.down = TRUE, !.age = 0, !.left = @ - 1] /\ Touch
      /\ key' = key /\ cnt' = cnt /\ mail' = mail /\ thread' = thread /\ owed' = owed
      /\ wrong' = wrong /\ lost' = lost /\ fits' = fits
  BY DEF TapAgain
<1>2. /\ finger'.down = TRUE /\ finger'.age = 0 /\ finger'.left = finger.left - 1
      /\ finger'.goal = finger.goal
  BY <1>1 DEF Typed, FingerState
<1>q. QED BY <1>1, <1>2

\* The finger is lifted.
LEMMA LiftFields ==
    ASSUME Typed, Lift
    PROVE  /\ finger.down /\ finger.age >= IF finger.goal = "hold" THEN LongPress + 2 ELSE 1
           /\ finger'.down = FALSE /\ finger'.age = 0 /\ finger'.left = finger.left
           /\ finger'.goal = finger.goal
           /\ pwr' = pwr /\ irq' = irq /\ timer' = timer
           /\ key' = key /\ cnt' = cnt /\ mail' = mail /\ thread' = thread /\ owed' = owed
           /\ wrong' = wrong /\ lost' = lost /\ fits' = fits
<1>1. /\ finger.down /\ finger.age >= IF finger.goal = "hold" THEN LongPress + 2 ELSE 1
      /\ finger' = [finger EXCEPT !.down = FALSE, !.age = 0]
      /\ pwr' = pwr /\ irq' = irq /\ timer' = timer
      /\ key' = key /\ cnt' = cnt /\ mail' = mail /\ thread' = thread /\ owed' = owed
      /\ wrong' = wrong /\ lost' = lost /\ fits' = fits
  BY DEF Lift
<1>2. /\ finger'.down = FALSE /\ finger'.age = 0 /\ finger'.left = finger.left
      /\ finger'.goal = finger.goal
  BY <1>1 DEF Typed, FingerState
<1>q. QED BY <1>1, <1>2

\* A contact that is too short.
LEMMA GlitchFields ==
    ASSUME Typed, Glitch
    PROVE  /\ ~finger.down /\ finger.left = 0 /\ finger.age > DoubleClick + 1 /\ irq
           /\ finger'.down = FALSE /\ finger'.age = 0 /\ finger'.left = 0 /\ finger'.goal = "none"
           /\ \E stillDown \in BOOLEAN : Edge(stillDown)
           /\ key' = key /\ cnt' = cnt /\ mail' = mail /\ thread' = thread /\ owed' = owed
           /\ wrong' = wrong /\ lost' = lost /\ fits' = fits
<1>1. /\ ~finger.down /\ finger.left = 0 /\ Paused /\ irq
      /\ finger' = [finger EXCEPT !.age = 0, !.goal = "none"]
      /\ \E stillDown \in BOOLEAN : Edge(stillDown)
      /\ key' = key /\ cnt' = cnt /\ mail' = mail /\ thread' = thread /\ owed' = owed
      /\ wrong' = wrong /\ lost' = lost /\ fits' = fits
  BY DEF Glitch
<1>2. /\ finger'.down = FALSE /\ finger'.age = 0 /\ finger'.left = 0 /\ finger'.goal = "none"
  BY <1>1 DEF Typed, FingerState
<1>q. QED BY <1>1, <1>2 DEF Paused

\* Time passes.
LEMMA PassFields ==
    ASSUME Typed, Pass
    PROVE  /\ ~timer.active /\ timer.at = "idle" /\ InTime
           /\ finger'.down = finger.down /\ finger'.goal = finger.goal /\ finger'.left = finger.left
           /\ finger'.age = Older(finger.age, LongLongPress)
           /\ pwr'.debounce = pwr.debounce /\ pwr'.dither = pwr.dither /\ pwr'.pressed = pwr.pressed
           /\ pwr'.age = Older(pwr.age, Debounce)
           /\ irq' = irq /\ timer' = timer /\ key' = key /\ cnt' = cnt /\ mail' = mail
           /\ thread' = thread /\ owed' = owed /\ wrong' = wrong /\ lost' = lost /\ fits' = fits
<1>1. /\ ~timer.active /\ timer.at = "idle" /\ InTime
      /\ finger' = [finger EXCEPT !.age = Older(@, LongLongPress)]
      /\ pwr' = [pwr EXCEPT !.age = Older(@, Debounce)]
      /\ irq' = irq /\ timer' = timer /\ key' = key /\ cnt' = cnt /\ mail' = mail
      /\ thread' = thread /\ owed' = owed /\ wrong' = wrong /\ lost' = lost /\ fits' = fits
  BY DEF Pass
<1>2. /\ finger'.down = finger.down /\ finger'.goal = finger.goal /\ finger'.left = finger.left
      /\ finger'.age = Older(finger.age, LongLongPress)
  BY <1>1 DEF Typed, FingerState
<1>3. /\ pwr'.debounce = pwr.debounce /\ pwr'.dither = pwr.dither /\ pwr'.pressed = pwr.pressed
      /\ pwr'.age = Older(pwr.age, Debounce)
  BY <1>1 DEF Typed, Pwr
<1>q. QED BY <1>1, <1>2, <1>3
-----------------------------------------------------------------------------
(* The state of the key follows the finger.                                *)

Presses == {"DOWN", "LONGPRESS", "LONGLONGPRESS"}

\* The timer runs as long as a gesture is being watched, and what key_status
\* says of the key and of the gesture fits together.
Shape ==
    /\ timer.at = "idle" /\ key.event # "NONE" => timer.active
    /\ timer.down => timer.at = "classify"
    /\ key.down <=> key.event \in Presses
    /\ key.event = "UP" => key.click /\ (timer.at = "idle" => key.clicked < DoubleClick)

\* The key interrupt is disabled while there is something to watch, and a key
\* that counts as down is pressed.
Solid ==
    /\ Watched(pwr) => ~irq
    /\ timer.down \/ (key.down /\ timer.at = "idle") =>
          ~pwr.debounce /\ ~pwr.dither /\ pwr.pressed

\* The driver is not behind the finger that was lifted.
Ages ==
    ~finger.down =>
        /\ timer.down => finger.age = 0
        /\ key.down => finger.age = 0 \/ (finger.age = 1 /\ timer.at = "classify")
        /\ key.event = "UP" => finger.age <= key.clicked + 1

Line == Shape /\ Solid /\ Ages

\* After the pause between two gestures the last one is over.
LEMMA PauseEnds ==
    ASSUME Typed, Line, ~finger.down, finger.age > DoubleClick + 1
    PROVE  key.event = "NONE" /\ ~key.down /\ ~timer.down
<1>1. DoubleClick \in Nat /\ finger.age \in Nat /\ key.clicked \in 0 .. DoubleClick
      /\ key.event \in {"NONE", "DOWN", "UP", "LONGPRESS", "LONGLONGPRESS"}
  BY Ranges, Fields
<1>2. ~timer.down /\ ~key.down
  BY <1>1 DEF Line, Ages
<1>3. key.event # "UP"
  BY <1>1 DEF Line, Ages
<1>4. key.event \notin Presses
  BY <1>2 DEF Line, Shape
<1>q. QED BY <1>1, <1>2, <1>3, <1>4 DEF Presses

\* The timer interrupt looks at the key.
LEMMA SampleLine ==
    ASSUME IInv, Line, Sample
    PROVE  Line'
<1>0. Typed /\ Typed'
  BY SampleKeeps DEF IInv
<1>1. /\ timer.active /\ timer.at = "idle"
      /\ finger'.down = finger.down /\ finger'.age = Older(finger.age, LongLongPress)
      /\ timer'.at = "classify"
      /\ key'.down = key.down /\ key'.event = key.event /\ key'.click = key.click
      /\ key.event = "UP" => key'.clicked = Older(key.clicked, DoubleClick)
  BY <1>0, SampleTime
<1>2. /\ finger.down \in BOOLEAN /\ finger.age \in 0 .. LongLongPress /\ key.clicked \in 0 .. DoubleClick
      /\ LongLongPress \in Nat /\ DoubleClick \in Nat /\ LongLongPress > 0 /\ DoubleClick > 0
      /\ pwr.debounce \in BOOLEAN /\ pwr.dither \in BOOLEAN /\ pwr.pressed \in BOOLEAN
  BY <1>0, Fields, KeyAssumption
<1>2a. /\ Older(finger.age, LongLongPress) \in Nat /\ Older(finger.age, LongLongPress) <= finger.age + 1
       /\ finger.age < LongLongPress => Older(finger.age, LongLongPress) = finger.age + 1
  BY <1>2 DEF Older
<1>2b. key.clicked < DoubleClick => Older(key.clicked, DoubleClick) = key.clicked + 1
  BY <1>2, OlderFacts
<1>3. PICK p \in Pwr :
         /\ p.debounce = pwr.debounce /\ p.dither = pwr.dither /\ p.pressed = pwr.pressed
         /\ p.age = Older(pwr.age, Debounce)
         /\ pwr' = PwrKey(p, finger.down)
         /\ irq' = (irq \/ Enables(p, finger.down))
         /\ timer'.down = CodeDown(p, finger.down)
  BY <1>0, SamplePwr
<1>4. p.age \in Nat /\ Dither \in Nat /\ Debounce \in Nat
  BY Ranges DEF Pwr
<1>5. Shape'
  BY <1>1 DEF Line, Shape
<1>6. Solid'
  <2>1. Watched(pwr) => ~irq
    BY DEF Line, Solid
  <2>2. CASE p.debounce /\ finger.down
    <3>1. /\ pwr'.pressed /\ (pwr'.debounce <=> p.age < Debounce) /\ ~pwr'.dither
          /\ (timer'.down <=> p.age >= Debounce) /\ ~Enables(p, finger.down)
      BY <1>2, <1>3, <2>2, PwrKeyFields
    <3>2. ~irq'
      BY <1>3, <2>1, <2>2, <3>1 DEF Watched
    <3>3. timer'.down => ~pwr'.debounce
      BY <1>4, <3>1
    <3>q. QED BY <1>1, <3>1, <3>2, <3>3 DEF Solid
  <2>3. CASE p.debounce /\ ~finger.down
    BY <1>2, <1>3, <1>4, <1>1, <2>1, <2>3, PwrKeyFields DEF Solid, Watched
  <2>4. CASE ~p.debounce /\ p.dither
    BY <1>2, <1>3, <1>4, <1>1, <2>1, <2>4, PwrKeyFields DEF Solid, Watched
  <2>5. CASE ~p.debounce /\ ~p.dither
    BY <1>2, <1>3, <1>4, <1>1, <2>1, <2>5, PwrKeyFields DEF Solid, Watched
  <2>q. QED BY <2>2, <2>3, <2>4, <2>5
<1>7. Ages'
  <2>1. SUFFICES ASSUME ~finger.down PROVE Ages'
    BY <1>1 DEF Ages
  <2>2. ~timer'.down
    BY <1>3, <2>1 DEF CodeDown
  <2>3. key.down => finger'.age = 1
    <3>1. key.down => finger.age = 0
      BY <1>1, <2>1 DEF Line, Ages
    <3>q. QED BY <1>1, <1>2, <1>2a, <3>1
  <2>4. key.event = "UP" => finger'.age <= key'.clicked + 1
    <3>1. SUFFICES ASSUME key.event = "UP" PROVE finger'.age <= key'.clicked + 1
      OBVIOUS
    <3>2. finger.age <= key.clicked + 1 /\ key.clicked < DoubleClick
      BY <1>1, <2>1, <3>1 DEF Line, Ages, Shape
    <3>3. key'.clicked = key.clicked + 1 /\ finger'.age <= finger.age + 1 /\ finger'.age \in Nat
      BY <1>1, <1>2a, <1>2b, <3>1, <3>2
    <3>q. QED BY <1>2, <3>2, <3>3
  <2>q. QED BY <1>1, <2>2, <2>3, <2>4 DEF Ages
<1>q. QED BY <1>5, <1>6, <1>7 DEF Line

\* The handler: how key_status goes on.
LEMMA HandlerLine ==
    ASSUME IInv, Line, DebounceHandler
    PROVE  Line'
<1>0. Typed /\ Shape /\ Solid /\ Ages
  BY DEF IInv, Line
<1>1. PICK c \in KeyStatus : c = Classify(key, timer.down)
  BY <1>0, Fields, ClassifyIs
<1>2. /\ timer.at = "classify" /\ timer'.at = "idle" /\ timer'.down = FALSE
      /\ (timer'.active <=> timer.active \/ timer.need \/ c.event # "NONE")
      /\ key'.down = c.down /\ key'.event = c.event /\ SameClick(key', c)
      /\ finger' = finger /\ pwr' = pwr /\ irq' = irq
  BY <1>0, <1>1, HandlerFields
<1>3. /\ timer.down \in BOOLEAN /\ key.down \in BOOLEAN /\ key \in KeyStatus
      /\ key.event \in {"NONE", "DOWN", "UP", "LONGPRESS", "LONGLONGPRESS"}
      /\ DoubleClick \in Nat /\ key.clicked \in Nat /\ LongPress \in Nat /\ key.updown \in Nat
      /\ 0 < DoubleClick /\ finger.age \in Nat
  BY <1>0, Fields, KeyAssumption
<1>4. ASSUME c.down <=> c.event \in Presses,
             c.event = "UP" => c.click /\ c.clicked < DoubleClick,
             c.down => timer.down,
             ~finger.down => (c.down => finger.age = 0) /\ (c.event = "UP" => finger.age <= c.clicked + 1)
      PROVE  Line'
  <2>2. Shape'
    BY <1>2, <1>4 DEF Shape, SameClick
  <2>3. Solid'
    BY <1>0, <1>2, <1>4 DEF Solid
  <2>4. Ages'
    BY <1>0, <1>2, <1>4 DEF Ages, SameClick
  <2>q. QED BY <2>2, <2>3, <2>4 DEF Line
<1>5. CASE ~key.down /\ ~timer.down /\ key.event = "NONE"
  <2>1. c.event = "NONE" /\ ~c.down
    <3>1. timer.down = FALSE
      BY <1>3, <1>5
    <3>q. QED BY <1>1, <1>3, <1>5, <3>1, ClassifyQuiet
  <2>q. QED BY <1>4, <2>1 DEF Presses
<1>6. CASE ~key.down /\ ~timer.down /\ key.event = "UP"
  <2>0. timer.down = FALSE /\ key.click
    BY <1>0, <1>3, <1>6 DEF Shape
  <2>1. /\ ~c.down
        /\ key.clicked < DoubleClick => c.event = "UP" /\ SameClick(c, key) /\ c.out = <<>>
        /\ key.clicked >= DoubleClick => c.event = "NONE"
    BY <1>1, <1>3, <1>6, <2>0, ClassifyPause
  <2>2. CASE key.clicked < DoubleClick
    <3>1. c.event = "UP" /\ c.click = key.click /\ c.clicked = key.clicked
      BY <2>1, <2>2 DEF SameClick
    <3>q. QED BY <1>0, <1>4, <1>6, <2>0, <2>1, <2>2, <3>1 DEF Presses, Ages
  <2>3. CASE key.clicked >= DoubleClick
    BY <1>4, <2>1, <2>3 DEF Presses
  <2>q. QED BY <1>3, <2>2, <2>3
<1>7. CASE ~key.down /\ timer.down
  <2>0. timer.down = TRUE /\ key.event \in {"NONE", "UP"} /\ (key.event = "UP" => key.click)
    BY <1>0, <1>3, <1>7 DEF Shape, Presses
  <2>1. c.down /\ c.event = "DOWN"
    <3>1. CASE key.event = "UP" /\ key.clicked >= DoubleClick
      BY <1>1, <1>3, <1>7, <2>0, <3>1, ClassifyPressLate
    <3>2. CASE key.event = "UP" /\ key.clicked < DoubleClick
      BY <1>1, <1>3, <1>7, <2>0, <3>2, ClassifyPress
    <3>3. CASE key.event = "NONE"
      BY <1>1, <1>3, <1>7, <2>0, <3>3, ClassifyPress
    <3>q. QED BY <1>3, <2>0, <3>1, <3>2, <3>3
  <2>2. ~finger.down => finger.age = 0
    BY <1>0, <1>7 DEF Ages
  <2>q. QED BY <1>4, <1>7, <2>1, <2>2 DEF Presses
<1>8. CASE key.down /\ ~timer.down /\ key.event = "DOWN"
  <2>0. timer.down = FALSE
    BY <1>3, <1>8
  <2>1. /\ ~c.down
        /\ NewCnt(key) < 4 => c.event = "UP" /\ c.click /\ c.clicked = 0
        /\ NewCnt(key) = 4 => c.event = "NONE"
    BY <1>1, <1>3, <1>8, <2>0, ClassifyTap
  <2>2. NewCnt(key) < 4 \/ NewCnt(key) = 4
    <3>1. NewCnt(key) \in 0 .. 4
      BY <1>3, NewCntIs
    <3>q. QED BY <3>1
  <2>3. ~finger.down => finger.age <= 1
    BY <1>0, <1>3, <1>8 DEF Ages
  <2>4. CASE c.event = "UP" /\ c.click /\ c.clicked = 0
    <3>1. ~finger.down => finger.age <= c.clicked + 1
      BY <2>3, <2>4
    <3>q. QED BY <1>3, <1>4, <2>1, <2>4, <3>1 DEF Presses
  <2>5. CASE c.event = "NONE"
    BY <1>4, <2>1, <2>5 DEF Presses
  <2>q. QED BY <2>1, <2>2, <2>4, <2>5
<1>9. CASE key.down /\ ~timer.down /\ LongHeld(key)
  <2>1. c.event = "NONE" /\ ~c.down
    <3>1. timer.down = FALSE
      BY <1>3, <1>9
    <3>q. QED BY <1>1, <1>3, <1>9, <3>1, ClassifyEnd
  <2>q. QED BY <1>4, <2>1 DEF Presses
<1>10. CASE key.down /\ timer.down
  <2>0. timer.down = TRUE /\ key.event \in Presses
    BY <1>0, <1>3, <1>10 DEF Shape
  <2>1. c.down /\ c.event \in Presses
    <3>1. CASE key.event = "DOWN"
      <4>1. c.down /\ (key.updown < LongPress => c.event = "DOWN")
            /\ (key.updown >= LongPress => c.event = "LONGPRESS")
        BY <1>1, <1>3, <1>10, <2>0, <3>1, ClassifyDown
      <4>q. QED BY <1>3, <4>1 DEF Presses
    <3>2. CASE LongHeld(key)
      <4>1. c.down /\ LongHeld(c)
        BY <1>1, <1>3, <1>10, <2>0, <3>2, ClassifyHeld
      <4>q. QED BY <4>1 DEF Presses, LongHeld
    <3>q. QED BY <2>0, <3>1, <3>2 DEF Presses, LongHeld
  <2>2. ~finger.down => finger.age = 0
    BY <1>0, <1>10 DEF Ages
  <2>q. QED BY <1>4, <1>10, <2>1, <2>2 DEF Presses
<1>11. key.down => key.event = "DOWN" \/ LongHeld(key)
  BY <1>0 DEF Shape, Presses, LongHeld
<1>12. ~key.down => key.event \in {"NONE", "UP"}
  BY <1>0, <1>3 DEF Shape, Presses
<1>q. QED BY <1>5, <1>6, <1>7, <1>8, <1>9, <1>10, <1>11, <1>12

\* The steps that leave driver and finger alone.
LEMMA ThreadLine ==
    ASSUME Line, AppThread \/ UNCHANGED vars
    PROVE  Line'
<1>1. finger' = finger /\ pwr' = pwr /\ irq' = irq /\ timer' = timer /\ key' = key
  BY DEF AppThread, Get, HandleProcess, vars
<1>q. QED BY <1>1 DEF Line, Shape, Solid, Ages

\* The finger, and time.
LEMMA FingerLine ==
    ASSUME IInv, Line, Finger \/ Whims, ~Hurried
    PROVE  Line'
<1>0. Typed /\ Shape /\ Solid /\ Ages
  BY DEF IInv, Line
<1>f. /\ finger.age \in Nat /\ key.clicked \in Nat /\ LongLongPress \in Nat /\ DoubleClick \in Nat
      /\ irq \in BOOLEAN /\ pwr.debounce \in BOOLEAN /\ pwr.dither \in BOOLEAN
      /\ pwr.pressed \in BOOLEAN /\ timer.at \in {"idle", "classify"}
  BY <1>0, Fields, Ranges
<1>1. ASSUME Touch, finger'.down = TRUE, key' = key PROVE Line'
  <2>1. /\ timer'.at = timer.at /\ timer'.down = timer.down /\ irq' = FALSE
        /\ irq => pwr'.pressed /\ pwr'.debounce /\ pwr'.dither = pwr.dither /\ timer'.active
        /\ ~irq => pwr' = pwr /\ timer'.active = timer.active
    BY <1>0, <1>1, TouchFields
  <2>2. Shape'
    BY <1>0, <1>1, <1>f, <2>1 DEF Shape
  <2>3. Solid'
    <3>1. CASE irq
      <4>1. ~pwr.pressed
        BY <1>0, <3>1 DEF Solid, Watched
      <4>2. ~(timer.down \/ (key.down /\ timer.at = "idle"))
        BY <1>0, <4>1 DEF Solid
      <4>q. QED BY <1>1, <2>1, <4>2 DEF Solid
    <3>2. CASE ~irq
      BY <1>0, <1>1, <2>1, <3>2 DEF Solid
    <3>q. QED BY <3>1, <3>2
  <2>4. Ages'
    BY <1>1 DEF Ages
  <2>q. QED BY <2>2, <2>3, <2>4 DEF Line
<1>2. CASE Pass
  <2>1. /\ ~timer.active /\ timer.at = "idle"
        /\ finger'.down = finger.down
        /\ pwr'.debounce = pwr.debounce /\ pwr'.dither = pwr.dither /\ pwr'.pressed = pwr.pressed
        /\ irq' = irq /\ timer' = timer /\ key' = key
    BY <1>0, <1>2, PassFields
  <2>2. key.event = "NONE" /\ ~timer.down /\ ~key.down
    BY <1>0, <2>1 DEF Shape, Presses
  <2>3. Shape' /\ Ages'
    BY <1>0, <2>1, <2>2 DEF Shape, Ages
  <2>4. Solid'
    BY <1>0, <2>1 DEF Solid, Watched
  <2>q. QED BY <2>3, <2>4 DEF Line
<1>3. CASE TapAgain
  BY <1>0, <1>1, <1>3, AgainFields
<1>4. CASE Lift
  <2>1. /\ finger.down /\ finger'.down = FALSE /\ finger'.age = 0
        /\ pwr' = pwr /\ irq' = irq /\ timer' = timer /\ key' = key
    BY <1>0, <1>4, LiftFields
  <2>2. Shape' /\ Solid'
    BY <1>0, <2>1 DEF Shape, Solid
  <2>3. Ages'
    BY <1>f, <2>1 DEF Ages
  <2>q. QED BY <2>2, <2>3 DEF Line
<1>5. CASE Glitch
  <2>1. /\ ~finger.down /\ finger.age > DoubleClick + 1
        /\ finger'.down = FALSE /\ finger'.age = 0 /\ irq /\ key' = key
    BY <1>0, <1>5, GlitchFields
  <2>2. PICK stillDown \in BOOLEAN : Edge(stillDown)
    BY <1>0, <1>5, GlitchFields
  <2>3. /\ irq' = FALSE /\ timer'.active /\ timer'.at = timer.at /\ timer'.down = timer.down
    BY <1>0, <2>2, EdgeFields
  <2>4. key.event = "NONE" /\ ~key.down /\ ~timer.down
    BY <1>0, <2>1, PauseEnds DEF Line
  <2>5. Shape'
    BY <1>0, <2>1, <2>3, <2>4 DEF Shape
  <2>6. Solid'
    BY <2>1, <2>3, <2>4 DEF Solid
  <2>7. Ages'
    BY <2>1, <2>3, <2>4 DEF Ages
  <2>q. QED BY <2>5, <2>6, <2>7 DEF Line
<1>6. ASSUME NEW g \in {"hold"} \cup {Clicks[i] : i \in DOMAIN Clicks}, BeginGesture(g)
      PROVE  Line'
  BY <1>0, <1>1, <1>6, BeginFields
<1>q. QED BY <1>2, <1>3, <1>4, <1>5, <1>6 DEF Finger, Whims

\* The key at rest.
LEMMA InitLine ==
    ASSUME Init
    PROVE  Line
<1>1. DoubleClick \in Nat /\ LongLongPress \in Nat
  BY Ranges
<1>q. QED BY <1>1 DEF Init, Line, Shape, Solid, Ages, Presses, Watched

\* Every step keeps Line.
LEMMA StepLine ==
    ASSUME IInv, Line, [Next]_vars, ~Hurried
    PROVE  Line'
BY SampleLine, HandlerLine, ThreadLine, FingerLine DEF Next, Interrupt
-----------------------------------------------------------------------------
(* A tap or a hold fits into the limit of the counter.                     *)

\* The last gesture is a single touch that found no event on its way.  Until
\* its own event is sent there are at most those of the press and of the
\* release before it; afterwards the finger is up and no other comes.
Few ==
    fits =>
        /\ lost # "last" /\ finger.left = 0
        /\ timer.at = "classify" /\ key.down /\ ~timer.down => ~finger.down
        /\ key.event = "NONE" => OnTheirWay = 0 \/ (~finger.down /\ ~timer.down)
        /\ key.event = "DOWN" => OnTheirWay <= 2
        /\ key.event = "UP" => OnTheirWay <= 3 /\ ~finger.down /\ ~timer.down

FInv == CInv /\ Line /\ Few

\* The gestures by the number of their taps.
LEMMA TapsOf ==
    ASSUME NEW i \in DOMAIN Clicks
    PROVE  (CHOOSE j \in DOMAIN Clicks : Clicks[j] = Clicks[i]) = i
<1>1. /\ Clicks[1] = "CLICK" /\ Clicks[2] = "DOUBLECLICK" /\ Clicks[3] = "TRIPLECLICK"
      /\ Clicks[4] = "ULTRACLICK" /\ Clicks[5] = "RAMPAGECLICK" /\ DOMAIN Clicks = 1 .. 5
  BY DEF Clicks
<1>2. \A j \in DOMAIN Clicks : j = 1 \/ j = 2 \/ j = 3 \/ j = 4 \/ j = 5
  BY <1>1
<1>3. \A j \in DOMAIN Clicks : Clicks[j] = Clicks[i] => j = i
  BY <1>1, <1>2
<1>4. PICK j : j = (CHOOSE l \in DOMAIN Clicks : Clicks[l] = Clicks[i])
  OBVIOUS
<1>5. j \in DOMAIN Clicks /\ Clicks[j] = Clicks[i]
  BY <1>4
<1>q. QED BY <1>3, <1>4, <1>5

\* key_event_process puts the first n of the events sent into the mailbox.
LEMMA HandlerRoom ==
    ASSUME CInv, DebounceHandler, CntLimit < 255, NEW c \in KeyStatus, c = Classify(key, timer.down)
    PROVE  \E n \in 0 .. Len(c.out) :
              /\ n = Room(Len(c.out)) /\ mail' = mail \o SubSeq(c.out, 1, n)
              /\ cnt' = cnt + n
              /\ cnt + Len(c.out) <= CntLimit + 1 => n = Len(c.out)
              /\ lost' = IF {c.out[i] : i \in n + 1 .. Len(c.out)} \cap Gestures # {} THEN "last" ELSE lost
              /\ owed' = IF lost' = "no" THEN owed ELSE <<>>
<1>0. cnt \in 0 .. 255 /\ cnt <= CntLimit + 1 /\ CntLimit \in Nat /\ c.out \in Seq(KeyMessages)
  BY KeyAssumption DEF CInv, IInv, Typed, KeyStatus
<1>1. Len(c.out) \in Nat
  BY <1>0
<1>2. PICK n : n = Room(Len(c.out))
  OBVIOUS
<1>3. /\ n \in 0 .. Len(c.out) /\ cnt + n <= CntLimit + 1
      /\ cnt + Len(c.out) <= CntLimit + 1 => n = Len(c.out)
  BY <1>0, <1>1, <1>2 DEF Room
<1>4. /\ cnt' = (cnt + n) % 256
      /\ mail' = mail \o SubSeq(c.out, 1, n)
      /\ lost' = IF {c.out[i] : i \in n + 1 .. Len(c.out)} \cap Gestures # {} THEN "last" ELSE lost
      /\ owed' = IF lost' = "no" THEN owed ELSE <<>>
  BY <1>2 DEF DebounceHandler, Counted
<1>5. cnt + n \in 0 .. 255
  BY <1>0, <1>3
<1>6. cnt' = cnt + n
  BY <1>4, <1>5, ByteFits
<1>q. QED BY <1>2, <1>3, <1>4, <1>6

\* What is sent is not dropped, if there is room or if it is no gesture.
LEMMA NotDropped ==
    ASSUME CInv, DebounceHandler, CntLimit < 255, NEW c \in KeyStatus, c = Classify(key, timer.down),
           \/ cnt + Len(c.out) <= CntLimit + 1
           \/ \A i \in 1 .. Len(c.out) : c.out[i] \notin Gestures
    PROVE  lost' = lost
<1>1. PICK n \in 0 .. Len(c.out) :
         /\ cnt + Len(c.out) <= CntLimit + 1 => n = Len(c.out)
         /\ lost' = IF {c.out[i] : i \in n + 1 .. Len(c.out)} \cap Gestures # {} THEN "last" ELSE lost
  BY HandlerRoom
<1>2. Len(c.out) \in Nat
  BY DEF KeyStatus
<1>3. {c.out[i] : i \in n + 1 .. Len(c.out)} \cap Gestures = {}
  <2>1. CASE n = Len(c.out)
    <3>1. \A i \in n + 1 .. Len(c.out) : FALSE
      BY <1>2, <2>1
    <3>q. QED BY <3>1
  <2>2. CASE \A i \in 1 .. Len(c.out) : c.out[i] \notin Gestures
    <3>1. \A i \in n + 1 .. Len(c.out) : i \in 1 .. Len(c.out)
      BY <1>2
    <3>q. QED BY <2>2, <3>1
  <2>q. QED BY <1>1, <2>1, <2>2
<1>q. QED BY <1>1, <1>3

\* The timer interrupt looks at the key.
LEMMA SampleFew ==
    ASSUME FInv, Sample
    PROVE  Few'
<1>0. IInv /\ Typed /\ Line /\ Shape /\ Solid /\ Few
  BY DEF FInv, CInv, IInv, Line
<1>1. /\ timer.at = "idle" /\ finger'.down = finger.down /\ finger'.left = finger.left
      /\ key'.down = key.down /\ key'.event = key.event
      /\ mail' = mail /\ thread' = thread /\ lost' = lost /\ fits' = fits
  BY <1>0, SampleTime
<1>2. PICK p \in Pwr :
         /\ p.debounce = pwr.debounce /\ p.dither = pwr.dither /\ p.pressed = pwr.pressed
         /\ timer'.down = CodeDown(p, finger.down)
  BY <1>0, SamplePwr
<1>3. ~finger.down => ~timer'.down
  BY <1>2 DEF CodeDown
<1>4. finger.down /\ key.down => timer'.down
  <2>1. key.down => ~p.debounce /\ ~p.dither /\ p.pressed
    BY <1>0, <1>1, <1>2 DEF Solid
  <2>q. QED BY <1>2, <2>1 DEF CodeDown
<1>5. OnTheirWay' = OnTheirWay
  BY <1>1 DEF OnTheirWay
<1>q. QED BY <1>0, <1>1, <1>3, <1>4, <1>5 DEF Few

\* The handler sends the events.
LEMMA HandlerFew ==
    ASSUME FInv, CInv', DebounceHandler, 3 <= CntLimit, CntLimit < 255
    PROVE  Few'
<1>0. CInv /\ IInv /\ Typed /\ Line /\ Shape /\ Few
  BY DEF FInv, CInv, IInv, Line
<1>1. PICK c \in KeyStatus : c = Classify(key, timer.down)
  BY <1>0, Fields, ClassifyIs
<1>2. /\ timer'.at = "idle" /\ timer'.down = FALSE
      /\ key'.down = c.down /\ key'.event = c.event
      /\ finger' = finger /\ fits' = fits
  BY <1>0, <1>1, HandlerFields
<1>3. /\ timer.at = "classify" /\ timer.down \in BOOLEAN /\ key.down \in BOOLEAN /\ key \in KeyStatus
      /\ key.event \in {"NONE", "DOWN", "UP", "LONGPRESS", "LONGLONGPRESS"}
      /\ DoubleClick \in Nat /\ key.clicked \in Nat /\ LongPress \in Nat /\ key.updown \in Nat
      /\ cnt \in Nat /\ CntLimit \in Nat /\ cnt = OnTheirWay /\ cnt' = OnTheirWay'
  <2>1. timer.at = "classify"
    BY DEF DebounceHandler
  <2>2. cnt = OnTheirWay
    BY <1>0 DEF CInv
  <2>3. cnt' = OnTheirWay'
    BY DEF CInv
  <2>4. /\ timer.down \in BOOLEAN /\ key.down \in BOOLEAN /\ key \in KeyStatus
        /\ key.event \in {"NONE", "DOWN", "UP", "LONGPRESS", "LONGLONGPRESS"}
        /\ key.clicked \in 0 .. DoubleClick /\ key.updown \in 0 .. LongLongPress /\ cnt \in 0 .. 255
    BY <1>0, Fields
  <2>5. DoubleClick \in Nat /\ LongPress \in Nat /\ LongLongPress \in Nat /\ CntLimit \in Nat
    BY Ranges
  <2>q. QED BY <2>1, <2>2, <2>3, <2>4, <2>5
<1>4. PICK n \in 0 .. Len(c.out) :
         /\ cnt' = cnt + n
         /\ cnt + Len(c.out) <= CntLimit + 1 => n = Len(c.out)
  BY <1>0, <1>1, HandlerRoom
<1>5. c.out \in Seq(KeyMessages) /\ Len(c.out) \in Nat
  BY DEF KeyStatus
<1>5a. PICK l \in Nat : l = Len(c.out)
  BY <1>5
<1>5b. n \in 0 .. l /\ cnt' = cnt + n
  BY <1>4, <1>5a
<1>6. SUFFICES ASSUME fits
               PROVE  /\ lost' = lost
                      /\ c.event = "NONE" => cnt' = 0 \/ ~finger.down
                      /\ c.event = "DOWN" => cnt' <= 2
                      /\ c.event = "UP" => cnt' <= 3 /\ ~finger.down
  BY <1>0, <1>2, <1>3 DEF Few
<1>7. /\ timer.at = "classify" /\ key.down /\ ~timer.down => ~finger.down
      /\ key.event = "NONE" => cnt = 0 \/ (~finger.down /\ ~timer.down)
      /\ key.event = "DOWN" => cnt <= 2
      /\ key.event = "UP" => cnt <= 3 /\ ~finger.down /\ ~timer.down
  BY <1>0, <1>3, <1>6 DEF Few
<1>8. CASE ~key.down /\ ~timer.down /\ key.event = "NONE"
  <2>1. timer.down = FALSE
    BY <1>3, <1>8
  <2>2. c.event = "NONE" /\ c.out = <<>>
    BY <1>1, <1>3, <1>8, <2>1, ClassifyQuiet
  <2>3. lost' = lost
    BY <1>0, <1>1, <2>2, NotDropped
  <2>4. n = 0
    BY <1>4, <2>2
  <2>q. QED BY <1>3, <1>4, <1>7, <1>8, <2>2, <2>3, <2>4
<1>9. CASE ~key.down /\ ~timer.down /\ key.event = "UP"
  <2>0. timer.down = FALSE /\ key.click
    BY <1>0, <1>3, <1>9 DEF Shape
  <2>1. /\ key.clicked < DoubleClick => c.event = "UP" /\ c.out = <<>>
        /\ key.clicked >= DoubleClick => c.event = "NONE" /\ c.out = <<Clicks[key.cnt + 1]>>
    BY <1>1, <1>3, <1>9, <2>0, ClassifyPause
  <2>1a. key.clicked < DoubleClick \/ key.clicked >= DoubleClick
    BY <1>3
  <2>2. (c.event = "UP" /\ l = 0) \/ (c.event = "NONE" /\ l = 1)
    <3>1. CASE key.clicked < DoubleClick
      <4>1. c.event = "UP" /\ c.out = <<>>
        BY <2>1, <3>1
      <4>q. QED BY <1>5a, <4>1
    <3>2. CASE key.clicked >= DoubleClick
      <4>1. c.event = "NONE" /\ c.out = <<Clicks[key.cnt + 1]>>
        BY <2>1, <3>2
      <4>q. QED BY <1>5a, <4>1
    <3>q. QED BY <2>1a, <3>1, <3>2
  <2>3. lost' = lost
    <3>1. cnt + Len(c.out) <= CntLimit + 1
      <4>1. cnt <= 3 /\ cnt \in Nat /\ CntLimit \in Nat
        BY <1>3, <1>7, <1>9
      <4>2. l <= 1
        BY <2>2
      <4>q. QED BY <1>5a, <4>1, <4>2
    <3>q. QED BY <1>0, <1>1, <3>1, NotDropped
  <2>4. c.event = "UP" => n = 0
    BY <1>4, <1>5a, <2>2
  <2>q. QED BY <1>3, <1>4, <1>7, <1>9, <2>2, <2>3, <2>4
<1>10. CASE ~key.down /\ timer.down
  <2>0. timer.down = TRUE /\ key.event = "NONE" /\ cnt = 0
    BY <1>0, <1>3, <1>7, <1>10 DEF Shape, Presses
  <2>1. c.event = "DOWN" /\ c.out \in {<<"DOWN", "FIRST_DOWN">>, <<"DOWN", "CONTINUED_DOWN">>}
    BY <1>1, <1>3, <1>10, <2>0, ClassifyPress
  <2>2. Len(c.out) = 2
    BY <2>1
  <2>3. lost' = lost
    <3>1. cnt + Len(c.out) <= CntLimit + 1
      BY <1>3, <2>0, <2>2
    <3>q. QED BY <1>0, <1>1, <3>1, NotDropped
  <2>q. QED BY <1>4, <2>0, <2>1, <2>2, <2>3
<1>11. CASE key.down /\ ~timer.down /\ key.event = "DOWN"
  <2>0. timer.down = FALSE
    BY <1>3, <1>11
  <2>1. PICK b \in KeyStatus :
           /\ b = Classify(key, FALSE) /\ ~b.down
           /\ NewCnt(key) < 4 => /\ b.event = "UP" /\ b.click /\ b.cnt = NewCnt(key) /\ b.clicked = 0
                                 /\ b.out = <<"UP">>
           /\ NewCnt(key) = 4 => b.event = "NONE" /\ ~b.click /\ b.out = <<"UP", "RAMPAGECLICK">>
    BY <1>3, <1>11, ClassifyTap
  <2>1a. c = b
    BY <1>1, <2>0, <2>1
  <2>2. NewCnt(key) < 4 \/ NewCnt(key) = 4
    <3>1. NewCnt(key) \in 0 .. 4
      BY <1>3, NewCntIs
    <3>q. QED BY <3>1
  <2>3. (c.event = "UP" /\ l = 1) \/ (c.event = "NONE" /\ l = 2)
    BY <1>5a, <2>1, <2>1a, <2>2
  <2>4. lost' = lost
    <3>1. cnt + Len(c.out) <= CntLimit + 1
      <4>1. cnt <= 2 /\ cnt \in Nat /\ CntLimit \in Nat
        BY <1>3, <1>7, <1>11
      <4>2. l <= 2
        BY <2>3
      <4>q. QED BY <1>5a, <4>1, <4>2
    <3>q. QED BY <1>0, <1>1, <3>1, NotDropped
  <2>5. cnt \in Nat /\ cnt <= 2 /\ ~finger.down
    BY <1>3, <1>7, <1>11
  <2>6. l = 1 => cnt' <= 3
    BY <1>5b, <2>5
  <2>q. QED BY <2>3, <2>4, <2>5, <2>6
<1>12. CASE key.down /\ ~timer.down /\ LongHeld(key)
  <2>0. timer.down = FALSE
    BY <1>3, <1>12
  <2>1. c.event = "NONE" /\ c.out = <<"UP", "UP_AFTER_LONGPRESS">>
    BY <1>1, <1>3, <1>12, <2>0, ClassifyEnd
  <2>2. \A i \in 1 .. Len(c.out) : c.out[i] \notin Gestures
    <3>1. Len(c.out) = 2 /\ c.out[1] = "UP" /\ c.out[2] = "UP_AFTER_LONGPRESS"
      BY <2>1
    <3>2. \A i \in 1 .. 2 : i = 1 \/ i = 2
      OBVIOUS
    <3>q. QED BY <3>1, <3>2 DEF Gestures
  <2>3. lost' = lost
    BY <1>0, <1>1, <2>2, NotDropped
  <2>q. QED BY <1>3, <1>7, <1>12, <2>1, <2>3
<1>13. CASE key.down /\ timer.down /\ key.event = "DOWN"
  <2>0. timer.down = TRUE
    BY <1>3, <1>13
  <2>1. /\ key.updown < LongPress => c.event = "DOWN" /\ c.out = <<>>
        /\ key.updown >= LongPress => c.event = "LONGPRESS" /\ c.out = <<"LONGPRESS">>
    BY <1>1, <1>3, <1>13, <2>0, ClassifyDown
  <2>1a. key.updown < LongPress \/ key.updown >= LongPress
    BY <1>3
  <2>2. (c.event = "DOWN" /\ l = 0) \/ (c.event = "LONGPRESS" /\ l = 1)
    <3>1. CASE key.updown < LongPress
      <4>1. c.event = "DOWN" /\ c.out = <<>>
        BY <2>1, <3>1
      <4>q. QED BY <1>5a, <4>1
    <3>2. CASE key.updown >= LongPress
      <4>1. c.event = "LONGPRESS" /\ c.out = <<"LONGPRESS">>
        BY <2>1, <3>2
      <4>q. QED BY <1>5a, <4>1
    <3>q. QED BY <2>1a, <3>1, <3>2
  <2>3. lost' = lost
    <3>1. cnt + Len(c.out) <= CntLimit + 1
      <4>1. cnt <= 2 /\ cnt \in Nat /\ CntLimit \in Nat
        BY <1>3, <1>7, <1>13
      <4>2. l <= 1
        BY <2>2
      <4>q. QED BY <1>5a, <4>1, <4>2
    <3>q. QED BY <1>0, <1>1, <3>1, NotDropped
  <2>q. QED BY <1>3, <1>4, <1>5a, <1>7, <1>13, <2>2, <2>3
<1>14. CASE key.down /\ timer.down /\ LongHeld(key)
  <2>0. timer.down = TRUE
    BY <1>3, <1>14
  <2>1. LongHeld(c) /\ \A i \in 1 .. Len(c.out) : c.out[i] \in {"REPEAT", "LONGLONGPRESS"}
    BY <1>1, <1>3, <1>14, <2>0, ClassifyHeld
  <2>2. lost' = lost
    <3>1. \A i \in 1 .. Len(c.out) : c.out[i] \notin Gestures
      BY <2>1 DEF Gestures
    <3>q. QED BY <1>0, <1>1, <3>1, NotDropped
  <2>q. QED BY <2>1, <2>2 DEF LongHeld
<1>15. key.down => key.event = "DOWN" \/ LongHeld(key)
  BY <1>0 DEF Shape, Presses, LongHeld
<1>16. ~key.down => key.event \in {"NONE", "UP"}
  BY <1>0, <1>3 DEF Shape, Presses
<1>q. QED BY <1>8, <1>9, <1>10, <1>11, <1>12, <1>13, <1>14, <1>15, <1>16

\* The thread only takes events away.
LEMMA ThreadFew ==
    ASSUME FInv, CInv', AppThread
    PROVE  Few'
<1>0. CInv /\ Typed /\ Few /\ cnt \in 0 .. 255 /\ Len(mail) \in Nat
      /\ cnt = OnTheirWay /\ cnt' = OnTheirWay'
  BY Fields DEF FInv, CInv, IInv
<1>1. CASE Get
  <2>1. finger' = finger /\ timer' = timer /\ key' = key /\ cnt' = cnt /\ lost' = lost /\ fits' = fits
    BY <1>1 DEF Get
  <2>q. QED BY <1>0, <2>1 DEF Few
<1>2. CASE HandleProcess
  <2>1. /\ finger' = finger /\ timer' = timer /\ key' = key /\ lost' = lost /\ fits' = fits
        /\ cnt' = (thread.loaded + 255) % 256 /\ thread.at = "handling"
    BY <1>2 DEF HandleProcess
  <2>2. thread.loaded = cnt /\ cnt \in 1 .. 255
    BY <1>0, <2>1 DEF CInv, OnTheirWay
  <2>3. cnt' = cnt - 1
    BY <2>1, <2>2, ByteDown
  <2>q. QED BY <1>0, <2>1, <2>2, <2>3 DEF Few
<1>q. QED BY <1>1, <1>2 DEF AppThread

\* The finger: a gesture that begins finds the last one over.
LEMMA FingerFew ==
    ASSUME FInv, Finger \/ Whims, ~Hurried
    PROVE  Few'
<1>0. CInv /\ Typed /\ Line /\ Shape /\ Few
  BY DEF FInv, CInv, IInv, Line
<1>f. finger.down \in BOOLEAN /\ DoubleClick \in Nat
  BY <1>0, Fields, Ranges
<1>1. CASE Pass
  <2>1. /\ finger'.down = finger.down /\ finger'.left = finger.left
        /\ timer' = timer /\ key' = key /\ mail' = mail /\ thread' = thread /\ lost' = lost /\ fits' = fits
    BY <1>0, <1>1, PassFields
  <2>q. QED BY <1>0, <2>1 DEF Few, OnTheirWay
<1>2. CASE TapAgain
  <2>1. finger.left > 0 /\ fits' = fits
    BY <1>0, <1>2, AgainFields
  <2>q. QED BY <1>0, <2>1 DEF Few
<1>3. CASE Lift
  <2>1. /\ finger.down /\ finger'.down = FALSE /\ finger'.left = finger.left
        /\ timer' = timer /\ key' = key /\ mail' = mail /\ thread' = thread /\ lost' = lost /\ fits' = fits
    BY <1>0, <1>3, LiftFields
  <2>q. QED BY <1>0, <2>1 DEF Few, OnTheirWay
<1>4. CASE Glitch
  <2>1. /\ ~finger.down /\ finger'.down = FALSE /\ finger'.left = 0
        /\ key' = key /\ mail' = mail /\ thread' = thread /\ lost' = lost /\ fits' = fits
    BY <1>0, <1>4, GlitchFields
  <2>2. PICK stillDown \in BOOLEAN : Edge(stillDown)
    BY <1>0, <1>4, GlitchFields
  <2>3. timer'.at = timer.at /\ timer'.down = timer.down
    BY <1>0, <2>2, EdgeFields
  <2>q. QED BY <1>0, <2>1, <2>3 DEF Few, OnTheirWay
<1>5. ASSUME NEW g \in {"hold"} \cup {Clicks[i] : i \in DOMAIN Clicks}, BeginGesture(g)
      PROVE  Few'
  <2>1. /\ ~finger.down /\ finger.age > DoubleClick + 1
        /\ finger'.left = IF g = "hold" THEN 0 ELSE (CHOOSE i \in DOMAIN Clicks : Clicks[i] = g) - 1
        /\ fits' = (OnTheirWay = 0 /\ g \in {"hold", "CLICK"})
        /\ lost' = (IF lost = "last" THEN "earlier" ELSE lost)
        /\ Touch /\ key' = key /\ mail' = mail /\ thread' = thread
    BY <1>0, <1>5, BeginFields
  <2>2. key.event = "NONE" /\ ~key.down
    BY <1>0, <2>1, PauseEnds
  <2>3. g = "CLICK" => (CHOOSE i \in DOMAIN Clicks : Clicks[i] = g) = 1
    <3>1. 1 \in DOMAIN Clicks /\ Clicks[1] = "CLICK"
      BY DEF Clicks
    <3>q. QED BY <3>1, TapsOf
  <2>4. fits' => OnTheirWay' = 0 /\ finger'.left = 0
    <3>1. fits' => OnTheirWay = 0 /\ g \in {"hold", "CLICK"}
      BY <2>1
    <3>2. OnTheirWay' = OnTheirWay
      BY <2>1 DEF OnTheirWay
    <3>3. g \in {"hold", "CLICK"} => finger'.left = 0
      BY <2>1, <2>3
    <3>q. QED BY <3>1, <3>2, <3>3
  <2>5. lost' # "last"
    BY <2>1
  <2>q. QED BY <2>1, <2>2, <2>4, <2>5 DEF Few
<1>q. QED BY <1>1, <1>2, <1>3, <1>4, <1>5 DEF Finger, Whims

\* A tap or a hold that begins with no event on its way is not dropped, if
\* the limit of the counter is at least 3 (as KEY_EVENT_CNT_LIMIT is): it
\* takes at most three events before its own.  As CountIsExact, this is for
\* an application thread whose decrement is not interrupted; and a hold comes
\* after a pause.
THEOREM SingleTouchFits ==
    ASSUME ~Preempts, ~Hurried, 3 <= CntLimit, CntLimit < 255
    PROVE  Spec => []TapFits
<1>1. Init => FInv
  <2>1. Init => CInv
    <3>1. Init => cnt = 0 /\ mail = <<>> /\ thread.at = "idle" /\ CntLimit \in Nat
      BY KeyAssumption DEF Init
    <3>q. QED BY <3>1, InitIInv DEF CInv, OnTheirWay
  <2>2. Init => ~fits
    BY DEF Init
  <2>q. QED BY <2>1, <2>2, InitLine DEF FInv, Few
<1>2. FInv /\ [Next]_vars => FInv'
  <2> SUFFICES ASSUME FInv, [Next]_vars PROVE FInv'
    OBVIOUS
  <2>1. CInv' /\ Line'
    BY StepCInv, StepLine DEF FInv, CInv
  <2>2. CASE Sample
    BY <2>1, <2>2, SampleFew DEF FInv
  <2>3. CASE DebounceHandler
    BY <2>1, <2>3, HandlerFew DEF FInv
  <2>4. CASE AppThread
    BY <2>1, <2>4, ThreadFew DEF FInv
  <2>5. CASE Finger \/ Whims
    BY <2>1, <2>5, FingerFew DEF FInv
  <2>6. CASE UNCHANGED vars
    BY <2>1, <2>6 DEF FInv, Few, OnTheirWay, vars
  <2>q. QED BY <2>2, <2>3, <2>4, <2>5, <2>6 DEF Next, Interrupt
<1>3. FInv => TapFits
  BY DEF FInv, Few, TapFits
<1>q. QED BY <1>1, <1>2, <1>3, PTL DEF Spec
-----------------------------------------------------------------------------
(* Where the driver is in the gesture that the finger makes.               *)

\* The product's times: debouncing takes no longer than the pause between
\* two taps, and ages are counted beyond the pause between two gestures.
Timings == Debounce <= DoubleClick /\ DoubleClick + 1 < LongLongPress

Taps(g) == CHOOSE i \in DOMAIN Clicks : Clicks[i] = g
Tapping == finger.goal \in Gestures

\* No gesture is being made; after a contact that was too short pwr_key
\* settles before a gesture can begin.
Still ==
    finger.goal = "none" =>
        /\ ~finger.down /\ finger.left = 0 /\ ~timer.down /\ key.event = "NONE" /\ ~key.click
        /\ pwr.debounce => finger.age = 0
        /\ pwr.dither => finger.age = 0 \/ (pwr.age < Dither /\ finger.age <= pwr.age + 1)
        /\ pwr.pressed => pwr.debounce
        /\ finger.age = 0 \/ pwr.age = Debounce \/ finger.age <= pwr.age + 1

\* In a gesture each touch and each pause is seen when the timer interrupt
\* looks at the key for the first time.
Touched ==
    finger.goal # "none" =>
        /\ pwr.age = Debounce /\ ~pwr.dither
        /\ finger.down => pwr.pressed /\ (pwr.debounce <=> finger.age = 0)
        /\ ~finger.down => ~pwr.debounce /\ (pwr.pressed <=> finger.age = 0)
        /\ finger.down /\ finger.age >= 1 => (IF timer.at = "classify" THEN timer.down ELSE key.down)
        /\ ~finger.down /\ finger.age = 0 => (IF timer.at = "classify" THEN timer.down ELSE key.down)
        /\ finger.down /\ finger.age = 0 => ~timer.down /\ (key.down => timer.at = "classify")

\* The taps counted, and those whose release has not been counted yet.
Seen == IF key.click THEN key.cnt + 1 ELSE 0
Open ==
    IF finger.down THEN IF finger.age = 0 /\ key.down THEN 2 ELSE 1
    ELSE IF finger.age = 0 \/ key.down THEN 1 ELSE 0

\* The event of the gesture has not been sent yet.
Pending ==
    \/ finger.goal = "hold" /\ finger.down /\ key.event \in {"NONE", "DOWN"}
    \/ Tapping /\ (finger.left > 0 \/ finger.down \/ timer.down \/ key.event # "NONE")

\* Every tap is counted once.
Counting ==
    Tapping =>
        /\ finger.goal # "LONGPRESS" /\ finger.left < Taps(finger.goal)
        /\ key.event \in {"NONE", "DOWN", "UP"}
        /\ key.event = "NONE" => ~key.click
        /\ Pending => Seen + Open + finger.left = Taps(finger.goal)

\* The pause between two taps is not taken for the end of the gesture,
PauseTime ==
    Tapping =>
        /\ finger.left > 0 /\ ~finger.down => finger.age + 2 <= DoubleClick
        /\ key.event = "UP" =>
              /\ finger.left > 0 \/ finger.down \/ timer.down => key.clicked + 2 <= DoubleClick
              /\ finger.left > 0 /\ ~finger.down /\ ~timer.down => key.clicked + 1 <= finger.age
              /\ finger.down /\ finger.age = 0 => key.clicked + 3 <= DoubleClick

\* nor a tap for a hold.
TapTime ==
    Tapping =>
        /\ finger.down => finger.age + 2 <= LongPress
        /\ key.event = "DOWN" =>
              /\ key.updown + 2 <= LongPress
              /\ finger.down /\ finger.age > 0 => key.updown + 1 <= finger.age
              /\ ~finger.down /\ finger.age = 0 => key.updown + 3 <= LongPress

\* A hold lasts until it is recognised.
Holding ==
    finger.goal = "hold" =>
        /\ finger.left = 0 /\ ~key.click
        /\ finger.down => key.event # "UP"
        /\ ~finger.down => key.event \in {"NONE", "LONGPRESS", "LONGLONGPRESS"}
        /\ finger.down /\ finger.age = 0 => key.event = "NONE"
        /\ finger.down /\ key.event = "NONE" => finger.age = 0 \/ (finger.age = 1 /\ timer.at = "classify")
        /\ ~finger.down /\ finger.age = 0 => key.event # "NONE"
        /\ key.event = "DOWN" =>
              /\ finger.age <= key.updown + 1 /\ key.updown <= LongPress
              /\ timer.at = "idle" => key.updown < LongPress

Phase == Still /\ Touched /\ Counting /\ PauseTime /\ TapTime /\ Holding
GInv == IInv /\ Line /\ Phase

Way == (IF thread.at = "handling" THEN <<thread.msg>> ELSE <<>>) \o mail
Due(g) == ActionOf(IF g = "hold" THEN "LONGPRESS" ELSE g)
Acts(e) == ActionOf(e) # NoAction

\* The thresholds as numbers.
LEMMA Numbers ==
    /\ Debounce \in Nat /\ Dither \in Nat /\ DoubleClick \in Nat /\ LongPress \in Nat
    /\ LongLongPress \in Nat /\ 1 <= Debounce /\ 1 <= Dither /\ Dither <= Debounce
    /\ 3 <= DoubleClick /\ 3 <= LongPress /\ LongPress < LongLongPress
BY KeyAssumption

\* The ages and counters as numbers.
LEMMA Ints ==
    ASSUME Typed
    PROVE  /\ finger.age \in Nat /\ finger.age <= LongLongPress /\ finger.left \in Nat
           /\ finger.left <= 4 /\ pwr.age \in Nat /\ pwr.age <= Debounce
           /\ key.cnt \in Nat /\ key.cnt <= 3 /\ key.updown \in Nat /\ key.updown <= LongLongPress
           /\ key.clicked \in Nat /\ key.clicked <= DoubleClick
BY Fields, Numbers

\* A gesture has one to five taps.
LEMMA TapsIs ==
    ASSUME NEW g \in Gestures, g # "LONGPRESS"
    PROVE  Taps(g) \in 1 .. 5 /\ Clicks[Taps(g)] = g
<1>1. /\ Clicks[1] = "CLICK" /\ Clicks[2] = "DOUBLECLICK" /\ Clicks[3] = "TRIPLECLICK"
      /\ Clicks[4] = "ULTRACLICK" /\ Clicks[5] = "RAMPAGECLICK" /\ DOMAIN Clicks = 1 .. 5
  BY DEF Clicks
<1>2. PICK i \in DOMAIN Clicks : Clicks[i] = g
  <2>1. 1 \in DOMAIN Clicks /\ 2 \in DOMAIN Clicks /\ 3 \in DOMAIN Clicks /\ 4 \in DOMAIN Clicks
        /\ 5 \in DOMAIN Clicks
    BY <1>1
  <2>2. g = "CLICK" \/ g = "DOUBLECLICK" \/ g = "TRIPLECLICK" \/ g = "ULTRACLICK" \/ g = "RAMPAGECLICK"
    BY DEF Gestures
  <2>q. QED BY <1>1, <2>1, <2>2
<1>3. Taps(g) = i
  BY <1>2, TapsOf DEF Taps
<1>q. QED BY <1>1, <1>2, <1>3

\* Outside a gesture, or after the pause that ends one, the key interrupt is
\* enabled and pwr_key is old enough for the next touch to be seen at once.
LEMMA Ready ==
    ASSUME GInv, Timings, ~finger.down,
           finger.age > DoubleClick + 1 \/ (finger.goal # "none" /\ finger.age >= 1)
    PROVE  irq /\ ~Watched(pwr) /\ pwr.age = Debounce /\ finger.age >= 1
<1>0. Typed /\ Hears /\ Still /\ Touched
  BY DEF GInv, IInv, Phase
<1>1. /\ finger.age \in Nat /\ pwr.age \in Nat /\ pwr.age <= Debounce
  BY <1>0, Ints
<1>2. finger.age >= 1
  BY <1>1, Numbers
<1>3. CASE finger.goal = "none"
  <2>1. finger.age > DoubleClick + 1
    BY <1>3
  <2>2. ~pwr.debounce /\ ~pwr.pressed
    BY <1>0, <1>1, <1>2, <1>3 DEF Still
  <2>3. ~pwr.dither
    <3>1. pwr.dither => pwr.age < Dither /\ finger.age <= pwr.age + 1
      BY <1>0, <1>1, <1>2, <1>3 DEF Still
    <3>q. QED BY <1>1, <2>1, <3>1, Numbers DEF Timings
  <2>4. pwr.age = Debounce
    <3>1. pwr.age = Debounce \/ finger.age <= pwr.age + 1
      BY <1>0, <1>1, <1>2, <1>3 DEF Still
    <3>q. QED BY <1>1, <2>1, <3>1, Numbers DEF Timings
  <2>q. QED BY <1>0, <1>2, <2>2, <2>3, <2>4 DEF Hears, Watched
<1>4. CASE finger.goal # "none"
  BY <1>0, <1>1, <1>2, <1>4 DEF Touched, Hears, Watched
<1>q. QED BY <1>3, <1>4

\* Outside a gesture no tap is counted.
LEMMA NoClick ==
    ASSUME GInv, key.event = "NONE"
    PROVE  ~key.click
<1>1. finger.goal \in {"none", "hold"} \cup Gestures /\ Still /\ Counting /\ Holding
  BY Fields DEF GInv, IInv, Phase
<1>q. QED BY <1>1 DEF Still, Counting, Holding, Tapping

\* The steps that leave driver and finger alone.
LEMMA ThreadPhase ==
    ASSUME Phase, AppThread \/ UNCHANGED vars
    PROVE  Phase' /\ Pending' = Pending /\ finger' = finger
<1>1. finger' = finger /\ pwr' = pwr /\ irq' = irq /\ timer' = timer /\ key' = key
  BY DEF AppThread, Get, HandleProcess, vars
<1>2. Seen' = Seen /\ Open' = Open /\ Pending' = Pending /\ Tapping' = Tapping
  BY <1>1 DEF Seen, Open, Pending, Tapping
<1>3. Still' /\ Touched'
  BY <1>1 DEF Phase, Still, Touched
<1>4. Counting'
  BY <1>1, <1>2 DEF Phase, Counting
<1>5. PauseTime' /\ TapTime' /\ Holding'
  BY <1>1, <1>2 DEF Phase, PauseTime, TapTime, Holding
<1>q. QED BY <1>1, <1>2, <1>3, <1>4, <1>5 DEF Phase

\* A gesture begins.
LEMMA BeginPhase ==
    ASSUME GInv, Timings, ~Hurried, NEW g \in {"hold"} \cup {Clicks[i] : i \in DOMAIN Clicks},
           BeginGesture(g)
    PROVE  Phase' /\ ~Pending /\ Pending' /\ finger'.goal = g
<1>0. Typed /\ Line
  BY DEF GInv, IInv
<1>1. /\ ~finger.down /\ finger.left = 0 /\ finger.age > DoubleClick + 1
      /\ finger'.down = TRUE /\ finger'.age = 0 /\ finger'.goal = g
      /\ finger'.left = IF g = "hold" THEN 0 ELSE (CHOOSE i \in DOMAIN Clicks : Clicks[i] = g) - 1
      /\ Touch /\ key' = key
  BY <1>0, BeginFields
<1>2. key.event = "NONE" /\ ~key.down /\ ~timer.down
  BY <1>0, <1>1, PauseEnds
<1>3. ~key.click
  BY <1>2, NoClick
<1>4. irq /\ ~Watched(pwr) /\ pwr.age = Debounce
  BY <1>1, Ready
<1>5. /\ timer'.at = timer.at /\ timer'.down = timer.down /\ pwr'.age = pwr.age
      /\ pwr'.pressed /\ pwr'.debounce /\ pwr'.dither = pwr.dither
  BY <1>0, <1>1, <1>4, TouchFields
<1>6. ~Pending
  BY <1>1, <1>2 DEF Pending
<1>7. g # "none" /\ (g # "hold" => g \in Gestures /\ g # "LONGPRESS")
  <2>1. CASE g = "hold"
    BY <2>1
  <2>2. CASE g # "hold"
    <3>1. PICK i \in DOMAIN Clicks : g = Clicks[i]
      BY <2>2
    <3>2. i = 1 \/ i = 2 \/ i = 3 \/ i = 4 \/ i = 5
      BY DEF Clicks
    <3>3. Clicks[1] = "CLICK" /\ Clicks[2] = "DOUBLECLICK" /\ Clicks[3] = "TRIPLECLICK"
          /\ Clicks[4] = "ULTRACLICK" /\ Clicks[5] = "RAMPAGECLICK"
      BY DEF Clicks
    <3>q. QED BY <2>2, <3>1, <3>2, <3>3 DEF Gestures
  <2>q. QED BY <2>1, <2>2
<1>8. Pending'
  BY <1>1, <1>2, <1>7 DEF Pending, Tapping
<1>9. Still'
  BY <1>1, <1>7 DEF Still
<1>10. Touched'
  BY <1>1, <1>2, <1>4, <1>5 DEF Touched, Watched
<1>11. Counting' /\ PauseTime' /\ TapTime'
  <2>1. SUFFICES ASSUME g # "hold", g \in Gestures
                 PROVE  Counting' /\ PauseTime' /\ TapTime'
    BY <1>1, <1>7 DEF Counting, PauseTime, TapTime, Tapping, Gestures
  <2>2. Taps(g) \in 1 .. 5 /\ finger'.left = Taps(g) - 1
    BY <1>1, <1>7, <2>1, TapsIs DEF Taps
  <2>3. Seen' = 0 /\ Open' = 1
    BY <1>1, <1>2, <1>3 DEF Seen, Open
  <2>4. Seen' + Open' + finger'.left = Taps(g) /\ finger'.left < Taps(g)
    BY <2>2, <2>3
  <2>5. Counting'
    BY <1>1, <1>2, <1>3, <1>7, <2>1, <2>4 DEF Counting
  <2>6. PauseTime'
    BY <1>1, <1>2 DEF PauseTime
  <2>7. TapTime'
    BY <1>1, <1>2, Numbers DEF TapTime
  <2>q. QED BY <2>5, <2>6, <2>7
<1>12. Holding'
  BY <1>1, <1>2, <1>3 DEF Holding
<1>q. QED BY <1>1, <1>6, <1>8, <1>9, <1>10, <1>11, <1>12 DEF Phase

\* A contact that is too short, long after a gesture.
LEMMA GlitchPhase ==
    ASSUME GInv, Timings, Glitch
    PROVE  Phase' /\ ~Pending /\ ~Pending'
<1>0. Typed /\ Line
  BY DEF GInv, IInv
<1>1. /\ ~finger.down /\ finger.left = 0 /\ finger.age > DoubleClick + 1
      /\ finger'.down = FALSE /\ finger'.age = 0 /\ finger'.left = 0 /\ finger'.goal = "none"
      /\ key' = key
  BY <1>0, GlitchFields
<1>2. key.event = "NONE" /\ ~key.down /\ ~timer.down
  BY <1>0, <1>1, PauseEnds
<1>3. ~key.click
  BY <1>2, NoClick
<1>4. ~Watched(pwr)
  BY <1>1, Ready
<1>5. PICK stillDown \in BOOLEAN : Edge(stillDown)
  BY <1>0, GlitchFields
<1>6. /\ timer'.down = timer.down
      /\ pwr'.pressed => pwr'.debounce
  BY <1>0, <1>5, EdgeFields
<1>7. ~Tapping' /\ ~Pending /\ ~Pending'
  BY <1>1, <1>2 DEF Pending, Tapping, Gestures
<1>8. Still'
  BY <1>1, <1>2, <1>3, <1>6 DEF Still
<1>9. Touched' /\ Counting' /\ PauseTime' /\ TapTime' /\ Holding'
  BY <1>1, <1>7 DEF Touched, Counting, PauseTime, TapTime, Holding
<1>q. QED BY <1>7, <1>8, <1>9 DEF Phase

\* Another tap.
LEMMA AgainPhase ==
    ASSUME GInv, Timings, TapAgain
    PROVE  Phase' /\ Pending /\ Pending' /\ finger'.goal = finger.goal
<1>0. Typed /\ Line /\ Ages /\ Still /\ Touched /\ Counting /\ PauseTime /\ TapTime /\ Holding
  BY DEF GInv, IInv, Phase, Line
<1>1. /\ ~finger.down /\ finger.left > 0 /\ finger.age >= 1
      /\ finger'.down = TRUE /\ finger'.age = 0 /\ finger'.left = finger.left - 1
      /\ finger'.goal = finger.goal /\ Touch /\ key' = key
  BY <1>0, AgainFields
<1>2. /\ finger.goal \in {"none", "hold"} \cup Gestures /\ finger.age \in Nat /\ finger.left \in Nat
      /\ key.clicked \in Nat /\ key.down \in BOOLEAN /\ key.cnt \in Nat
      /\ timer.at \in {"idle", "classify"}
  BY <1>0, Fields, Ints
<1>3. finger.goal # "none" /\ finger.goal # "hold"
  BY <1>0, <1>1 DEF Still, Holding
<1>4. Tapping /\ Tapping' /\ Pending /\ Pending'
  BY <1>1, <1>2, <1>3 DEF Tapping, Pending
<1>5. irq /\ ~Watched(pwr) /\ pwr.age = Debounce
  BY <1>1, <1>3, Ready
<1>6. /\ timer'.at = timer.at /\ timer'.down = timer.down /\ pwr'.age = pwr.age
      /\ pwr'.pressed /\ pwr'.debounce /\ pwr'.dither = pwr.dither
  BY <1>0, <1>1, <1>5, TouchFields
<1>7. ~timer.down /\ (key.down => timer.at = "classify")
  BY <1>0, <1>1, <1>2 DEF Ages
<1>8. Still'
  BY <1>1, <1>3 DEF Still
<1>9. Touched'
  BY <1>1, <1>5, <1>6, <1>7 DEF Touched, Watched
<1>10. Counting'
  <2>1. Taps(finger.goal) \in Nat
    <3>1. finger.goal # "LONGPRESS" => Taps(finger.goal) \in 1 .. 5
      BY <1>2, <1>3, TapsIs
    <3>2. Seen + Open + finger.left = Taps(finger.goal) /\ Seen \in Nat /\ Open \in Nat
      BY <1>0, <1>2, <1>4 DEF Counting, Seen, Open
    <3>q. QED BY <1>2, <3>2
  <2>2. Seen + Open + finger.left = Taps(finger.goal) /\ finger.left < Taps(finger.goal)
    BY <1>0, <1>4 DEF Counting
  <2>3. Seen' = Seen /\ Seen \in Nat
    BY <1>1, <1>2 DEF Seen
  <2>4. Open' = Open + 1 /\ Open \in Nat
    BY <1>1, <1>2 DEF Open
  <2>5. Seen' + Open' + finger'.left = Taps(finger'.goal) /\ finger'.left < Taps(finger'.goal)
    BY <1>1, <1>2, <2>1, <2>2, <2>3, <2>4
  <2>6. key.event \in {"NONE", "DOWN", "UP"} /\ (key.event = "NONE" => ~key.click)
        /\ finger.goal # "LONGPRESS"
    BY <1>0, <1>4 DEF Counting
  <2>q. QED BY <1>1, <2>5, <2>6 DEF Counting
<1>11. PauseTime'
  <2>1. key.event = "UP" => /\ key.clicked + 2 <= DoubleClick /\ key.clicked + 1 <= finger.age
    BY <1>0, <1>1, <1>4, <1>7 DEF PauseTime
  <2>2. finger.age + 2 <= DoubleClick
    BY <1>0, <1>1, <1>4 DEF PauseTime
  <2>3. key.event = "UP" => key.clicked + 3 <= DoubleClick
    BY <1>2, <2>1, <2>2, Numbers
  <2>q. QED BY <1>1, <2>1, <2>3 DEF PauseTime
<1>12. TapTime'
  BY <1>0, <1>1, <1>4, Numbers DEF TapTime
<1>13. Holding'
  BY <1>1, <1>3 DEF Holding
<1>q. QED BY <1>1, <1>4, <1>8, <1>9, <1>10, <1>11, <1>12, <1>13 DEF Phase

\* The finger is lifted: a tap has been seen, and a hold recognised.
LEMMA LiftPhase ==
    ASSUME GInv, Lift
    PROVE  Phase' /\ Pending' = Pending /\ finger'.goal = finger.goal
<1>0. Typed /\ Line /\ Shape /\ Ages /\ Still /\ Touched /\ Counting /\ PauseTime /\ TapTime /\ Holding
  BY DEF GInv, IInv, Phase, Line
<1>1. /\ finger.down /\ finger.age >= IF finger.goal = "hold" THEN LongPress + 2 ELSE 1
      /\ finger'.down = FALSE /\ finger'.age = 0 /\ finger'.left = finger.left
      /\ finger'.goal = finger.goal /\ pwr' = pwr /\ timer' = timer /\ key' = key
  BY <1>0, LiftFields
<1>2. /\ finger.goal \in {"none", "hold"} \cup Gestures /\ finger.age \in Nat /\ finger.left \in Nat
      /\ key.clicked \in Nat /\ key.updown \in Nat /\ key.down \in BOOLEAN
      /\ timer.at \in {"idle", "classify"}
      /\ key.event \in {"NONE", "DOWN", "UP", "LONGPRESS", "LONGLONGPRESS"}
  BY <1>0, Fields, Ints
<1>3. finger.age >= 1
  BY <1>1, <1>2, Numbers
<1>4. finger.goal # "none"
  BY <1>0, <1>1 DEF Still
<1>5. IF timer.at = "classify" THEN timer.down ELSE key.down
  BY <1>0, <1>1, <1>3, <1>4 DEF Touched
<1>6. Still'
  BY <1>1, <1>4 DEF Still
<1>7. Touched'
  BY <1>0, <1>1, <1>2, <1>3, <1>4, <1>5 DEF Touched
<1>8. finger.goal = "hold" => LongHeld(key)
  <2>1. SUFFICES ASSUME finger.goal = "hold" PROVE key.event \notin {"NONE", "DOWN", "UP"}
    BY <1>2 DEF LongHeld
  <2>2. finger.age >= LongPress + 2
    BY <1>1, <2>1
  <2>3. key.event # "NONE"
    BY <1>0, <1>1, <1>2, <2>1, <2>2, Numbers DEF Holding
  <2>4. key.event # "DOWN"
    BY <1>0, <1>2, <2>1, <2>2, Numbers DEF Holding
  <2>q. QED BY <1>0, <1>1, <2>1, <2>3, <2>4 DEF Holding
<1>9. Holding'
  BY <1>0, <1>1, <1>8 DEF Holding, LongHeld
<1>10. Tapping => Pending /\ Pending'
  <2>1. timer.down \/ key.event # "NONE"
    BY <1>0, <1>2, <1>5 DEF Shape, Presses
  <2>q. QED BY <1>1, <2>1 DEF Pending, Tapping
<1>11. Pending' = Pending
  <2>1. CASE Tapping
    BY <1>10, <2>1 DEF Pending
  <2>2. CASE ~Tapping
    BY <1>1, <1>8, <2>2 DEF Pending, Tapping, LongHeld
  <2>q. QED BY <2>1, <2>2
<1>12. Counting'
  <2>1. Seen' = Seen
    BY <1>1 DEF Seen
  <2>2. Open' = 1 /\ Open = 1
    BY <1>1, <1>2, <1>3 DEF Open
  <2>q. QED BY <1>0, <1>1, <1>10, <2>1, <2>2 DEF Counting, Tapping
<1>13. PauseTime'
  <2>1. key.event = "UP" => timer.down
    BY <1>0, <1>2, <1>5 DEF Shape, Presses
  <2>q. QED BY <1>0, <1>1, <1>2, <2>1, Numbers DEF PauseTime, Tapping
<1>14. TapTime'
  <2>1. Tapping /\ key.event = "DOWN" => key.updown + 1 <= finger.age /\ finger.age + 2 <= LongPress
    BY <1>0, <1>1, <1>2, <1>3 DEF TapTime
  <2>2. Tapping /\ key.event = "DOWN" => key.updown + 3 <= LongPress /\ key.updown + 2 <= LongPress
    BY <1>2, <2>1, Numbers
  <2>q. QED BY <1>1, <2>2 DEF TapTime, Tapping
<1>q. QED BY <1>1, <1>6, <1>7, <1>9, <1>11, <1>12, <1>13, <1>14 DEF Phase

\* Time passes while nothing is watched.
LEMMA PassPhase ==
    ASSUME GInv, Timings, Pass
    PROVE  Phase' /\ Pending' = Pending /\ finger'.goal = finger.goal
<1>0. /\ Typed /\ Hears /\ Line /\ Shape /\ Solid /\ Still /\ Touched /\ Counting /\ PauseTime /\ TapTime
      /\ Holding
  BY DEF GInv, IInv, Phase, Line
<1>1. /\ ~timer.active /\ timer.at = "idle"
      /\ finger'.down = finger.down /\ finger'.goal = finger.goal /\ finger'.left = finger.left
      /\ finger'.age = Older(finger.age, LongLongPress)
      /\ pwr'.debounce = pwr.debounce /\ pwr'.dither = pwr.dither /\ pwr'.pressed = pwr.pressed
      /\ pwr'.age = Older(pwr.age, Debounce)
      /\ timer' = timer /\ key' = key
  BY <1>0, PassFields
<1>2. /\ finger.age \in Nat /\ finger.age <= LongLongPress /\ pwr.age \in Nat /\ pwr.age <= Debounce
      /\ finger.left \in Nat /\ LongLongPress \in Nat /\ Debounce \in Nat
      /\ finger.goal \in {"none", "hold"} \cup Gestures
  BY <1>0, Ints, Fields, Numbers
<1>3. /\ finger'.age \in Nat /\ finger'.age <= finger.age + 1 /\ finger'.age >= finger.age
      /\ pwr'.age \in Nat /\ (pwr.age < Debounce => pwr'.age = pwr.age + 1)
      /\ (pwr.age = Debounce => pwr'.age = Debounce)
  BY <1>1, <1>2 DEF Older
<1>4. ~pwr.debounce /\ ~pwr.dither /\ ~pwr.pressed
  BY <1>0, <1>1 DEF Hears, Solid, Watched
<1>5. key.event = "NONE" /\ ~timer.down /\ ~key.down
  BY <1>0, <1>1 DEF Shape, Presses
<1>6. ~key.click
  BY <1>5, NoClick
<1>7. Still'
  <2>1. SUFFICES ASSUME finger.goal = "none" PROVE Still'
    BY <1>1 DEF Still
  <2>2. ~finger.down /\ finger.left = 0
        /\ (finger.age = 0 \/ pwr.age = Debounce \/ finger.age <= pwr.age + 1)
    BY <1>0, <2>1 DEF Still
  <2>3. finger'.age = 0 \/ pwr'.age = Debounce \/ finger'.age <= pwr'.age + 1
    BY <1>2, <1>3, <2>2
  <2>q. QED BY <1>1, <1>4, <1>5, <1>6, <2>2, <2>3 DEF Still
<1>8. finger.goal # "none" => ~finger.down /\ finger.age >= 1 /\ finger'.age >= 1
  <2>1. finger.goal # "none" => ~finger.down /\ finger.age # 0
    BY <1>0, <1>4 DEF Touched
  <2>q. QED BY <1>2, <1>3, <2>1
<1>9. Touched'
  <2>1. SUFFICES ASSUME finger.goal # "none" PROVE Touched'
    BY <1>1 DEF Touched
  <2>2. pwr'.age = Debounce
    BY <1>0, <1>3, <2>1 DEF Touched
  <2>3. finger'.age # 0
    BY <1>3, <1>8, <2>1
  <2>q. QED BY <1>1, <1>4, <1>8, <2>1, <2>2, <2>3 DEF Touched
<1>10. Tapping => finger.left = 0
  <2>1. SUFFICES ASSUME Tapping, finger.left # 0 PROVE FALSE
    OBVIOUS
  <2>2. Pending
    BY <1>2, <2>1 DEF Pending
  <2>3. finger.goal # "none"
    BY <2>1 DEF Tapping, Gestures
  <2>4. Seen = 0 /\ Open = 0
    BY <1>2, <1>5, <1>6, <1>8, <2>3 DEF Seen, Open
  <2>5. finger.goal \in Gestures /\ finger.goal # "LONGPRESS" /\ finger.left < Taps(finger.goal)
        /\ Seen + Open + finger.left = Taps(finger.goal)
    BY <1>0, <2>1, <2>2 DEF Counting, Tapping
  <2>6. Taps(finger.goal) \in Nat
    BY <2>5, TapsIs
  <2>q. QED BY <1>2, <2>4, <2>5, <2>6
<1>11. Tapping => ~Pending /\ ~finger.down
  BY <1>5, <1>8, <1>10 DEF Pending, Tapping, Gestures
<1>12. Pending' = Pending
  BY <1>1 DEF Pending, Tapping
<1>13. Counting'
  BY <1>0, <1>1, <1>11, <1>12 DEF Counting, Tapping
<1>14. PauseTime' /\ TapTime'
  BY <1>1, <1>5, <1>10, <1>11 DEF PauseTime, TapTime, Tapping
<1>15. Holding'
  <2>1. SUFFICES ASSUME finger.goal = "hold" PROVE Holding'
    BY <1>1 DEF Holding
  <2>2. ~finger.down /\ finger'.age # 0
    BY <1>3, <1>8, <2>1
  <2>q. QED BY <1>0, <1>1, <1>5, <1>6, <2>1, <2>2 DEF Holding
<1>q. QED BY <1>1, <1>7, <1>9, <1>12, <1>13, <1>14, <1>15 DEF Phase

\* In a gesture the timer interrupt sees the key as the finger holds it.
LEMMA SampleSees ==
    ASSUME GInv, Sample, finger.goal # "none"
    PROVE  /\ ~pwr'.debounce /\ ~pwr'.dither /\ pwr'.pressed = finger.down /\ pwr'.age = Debounce
           /\ timer'.down = finger.down
<1>0. Typed /\ Touched
  BY DEF GInv, IInv, Phase
<1>1. PICK p \in Pwr :
         /\ p.debounce = pwr.debounce /\ p.dither = pwr.dither /\ p.pressed = pwr.pressed
         /\ p.age = Older(pwr.age, Debounce)
         /\ pwr' = PwrKey(p, finger.down)
         /\ timer'.down = CodeDown(p, finger.down)
  BY <1>0, SamplePwr
<1>2. /\ finger.age \in Nat /\ finger.down \in BOOLEAN /\ pwr.debounce \in BOOLEAN /\ Debounce \in Nat
      /\ pwr.pressed \in BOOLEAN
  BY <1>0, Ints, Fields, Numbers
<1>3. p.age = Debounce /\ ~p.dither
  BY <1>0, <1>1, <1>2 DEF Touched, Older
<1>4. pwr' \in Pwr /\ timer'.down \in BOOLEAN
  BY <1>1, <1>2, PwrKeyIs DEF CodeDown
<1>5. pwr'.pressed \in BOOLEAN
  BY <1>4 DEF Pwr
<1>6. CASE finger.down /\ pwr.debounce
  <2>1. /\ pwr'.pressed /\ (pwr'.debounce <=> p.age < Debounce) /\ ~pwr'.dither /\ pwr'.age = p.age
        /\ (timer'.down <=> p.age >= Debounce)
    BY <1>1, <1>2, <1>6, PwrKeyFields
  <2>2. ~(p.age < Debounce) /\ p.age >= Debounce
    BY <1>2, <1>3
  <2>q. QED BY <1>2, <1>3, <1>4, <1>5, <1>6, <2>1, <2>2
<1>7. CASE finger.down /\ ~pwr.debounce
  <2>1. /\ ~pwr'.debounce /\ ~pwr'.dither /\ (pwr'.pressed <=> p.pressed /\ finger.down) /\ pwr'.age = p.age
        /\ (timer'.down <=> p.pressed /\ finger.down)
    BY <1>1, <1>2, <1>3, <1>7, PwrKeyFields
  <2>2. pwr.pressed
    BY <1>0, <1>7 DEF Touched
  <2>q. QED BY <1>1, <1>2, <1>3, <1>4, <1>5, <1>7, <2>1, <2>2
<1>8. CASE ~finger.down
  <2>0. ~pwr.debounce
    BY <1>0, <1>8 DEF Touched
  <2>1. /\ ~pwr'.debounce /\ ~pwr'.dither /\ (pwr'.pressed <=> p.pressed /\ finger.down) /\ pwr'.age = p.age
        /\ (timer'.down <=> p.pressed /\ finger.down)
    BY <1>1, <1>2, <1>3, <2>0, PwrKeyFields
  <2>q. QED BY <1>1, <1>2, <1>3, <1>4, <1>5, <1>8, <2>1
<1>q. QED BY <1>6, <1>7, <1>8

\* Outside a gesture it lets the key settle.
LEMMA SampleStill ==
    ASSUME GInv, Sample, finger.goal = "none"
    PROVE  Still'
<1>0. Typed /\ Still
  BY DEF GInv, IInv, Phase
<1>1. /\ finger'.down = finger.down /\ finger'.goal = finger.goal /\ finger'.left = finger.left
      /\ finger'.age = Older(finger.age, LongLongPress)
      /\ key'.event = key.event /\ key'.click = key.click
  BY <1>0, SampleTime
<1>2. PICK p \in Pwr :
         /\ p.debounce = pwr.debounce /\ p.dither = pwr.dither /\ p.pressed = pwr.pressed
         /\ p.age = Older(pwr.age, Debounce)
         /\ pwr' = PwrKey(p, finger.down)
         /\ timer'.down = CodeDown(p, finger.down)
  BY <1>0, SamplePwr
<1>3. /\ finger.age \in Nat /\ finger.age <= LongLongPress /\ pwr.age \in Nat /\ pwr.age <= Debounce
      /\ LongLongPress \in Nat /\ Debounce \in Nat /\ Dither \in Nat /\ 1 <= Dither /\ Dither <= Debounce
      /\ finger.down \in BOOLEAN
  BY <1>0, Ints, Fields, Numbers
<1>4. /\ ~finger.down /\ finger.left = 0 /\ key.event = "NONE" /\ ~key.click
      /\ pwr.debounce => finger.age = 0
      /\ pwr.dither => finger.age = 0 \/ (pwr.age < Dither /\ finger.age <= pwr.age + 1)
      /\ pwr.pressed => pwr.debounce
      /\ finger.age = 0 \/ pwr.age = Debounce \/ finger.age <= pwr.age + 1
  BY <1>0 DEF Still
<1>5. /\ finger'.age \in Nat /\ finger'.age <= finger.age + 1
      /\ p.age \in Nat /\ (pwr.age < Debounce => p.age = pwr.age + 1)
      /\ (pwr.age = Debounce => p.age = Debounce)
  BY <1>1, <1>2, <1>3 DEF Older
<1>6. ~timer'.down
  BY <1>2, <1>4 DEF CodeDown
<1>7. finger'.age = 0 \/ p.age = Debounce \/ finger'.age <= p.age + 1
  BY <1>3, <1>4, <1>5
<1>8. CASE pwr.debounce
  <2>0. p.debounce /\ ~finger.down
    BY <1>2, <1>4, <1>8
  <2>1. ~pwr'.pressed /\ ~pwr'.debounce /\ pwr'.dither /\ pwr'.age = 0
    BY <1>2, <1>3, <2>0, PwrKeyFields
  <2>2. finger'.age <= 1
    BY <1>4, <1>5, <1>8
  <2>3. pwr'.age < Dither /\ finger'.age <= pwr'.age + 1
    BY <1>3, <2>1, <2>2
  <2>q. QED BY <1>1, <1>4, <1>6, <2>1, <2>3 DEF Still
<1>9. CASE ~pwr.debounce /\ pwr.dither
  <2>1. /\ ~pwr'.debounce /\ pwr'.age = p.age
        /\ (pwr'.pressed <=> p.pressed /\ p.age < Dither) /\ (pwr'.dither <=> p.age < Dither)
    BY <1>2, <1>3, <1>9, PwrKeyFields
  <2>2. finger'.age <= p.age + 1
    BY <1>3, <1>4, <1>5, <1>9
  <2>q. QED BY <1>1, <1>2, <1>4, <1>6, <1>7, <1>9, <2>1, <2>2 DEF Still
<1>10. CASE ~pwr.debounce /\ ~pwr.dither
  <2>1. ~pwr'.debounce /\ ~pwr'.dither /\ (pwr'.pressed <=> p.pressed /\ finger.down) /\ pwr'.age = p.age
    BY <1>2, <1>3, <1>10, PwrKeyFields
  <2>q. QED BY <1>1, <1>4, <1>6, <1>7, <2>1 DEF Still
<1>q. QED BY <1>8, <1>9, <1>10

\* The timer interrupt looks at the key.
LEMMA SamplePhase ==
    ASSUME GInv, Timings, Sample
    PROVE  Phase' /\ Pending' = Pending /\ finger'.goal = finger.goal
<1>0. /\ Typed /\ Line /\ Shape /\ Ages /\ Still /\ Touched /\ Counting /\ PauseTime /\ TapTime
      /\ Holding
  BY DEF GInv, IInv, Phase, Line
<1>1. /\ timer.active /\ timer.at = "idle" /\ InTime
      /\ finger'.down = finger.down /\ finger'.goal = finger.goal /\ finger'.left = finger.left
      /\ finger'.age = Older(finger.age, LongLongPress)
      /\ timer'.at = "classify"
      /\ key'.down = key.down /\ key'.event = key.event /\ key'.click = key.click
      /\ key'.cnt = key.cnt
      /\ key.event \in {"DOWN", "LONGPRESS"} => key'.updown = Older(key.updown, LongLongPress)
      /\ key.event = "UP" => key'.clicked = Older(key.clicked, DoubleClick)
  BY <1>0, SampleTime
<1>2. /\ finger.age \in Nat /\ finger.age <= LongLongPress /\ finger.left \in Nat
      /\ key.updown \in Nat /\ key.updown <= LongLongPress /\ key.clicked \in Nat
      /\ key.clicked <= DoubleClick /\ finger.down \in BOOLEAN
      /\ finger.goal \in {"none", "hold"} \cup Gestures /\ key.down \in BOOLEAN
  BY <1>0, Ints, Fields
<1>3. /\ finger'.age \in Nat /\ finger'.age <= finger.age + 1 /\ finger'.age >= 1
      /\ (finger.age < LongLongPress => finger'.age = finger.age + 1)
  BY <1>1, <1>2, Numbers DEF Older
<1>4. /\ (key.event = "DOWN" => key'.updown \in Nat /\ key'.updown <= key.updown + 1
             /\ (key.updown < LongLongPress => key'.updown = key.updown + 1))
      /\ (key.event = "UP" => key'.clicked \in Nat /\ key'.clicked <= key.clicked + 1)
  BY <1>1, <1>2, Numbers DEF Older
<1>5. ~timer.down /\ (key.down <=> key.event \in Presses)
  BY <1>0, <1>1 DEF Shape
<1>6. CASE finger.goal = "none"
  <2>1. Still'
    BY <1>6, SampleStill
  <2>2. ~Tapping /\ ~Tapping' /\ ~Pending /\ ~Pending'
    BY <1>1, <1>6 DEF Tapping, Pending, Gestures
  <2>3. Pending' = Pending
    BY <2>2 DEF Pending
  <2>q. QED BY <1>1, <1>6, <2>1, <2>2, <2>3 DEF Phase, Touched, Counting, PauseTime, TapTime, Holding
<1>7. CASE finger.goal # "none"
  <2>1. /\ ~pwr'.debounce /\ ~pwr'.dither /\ pwr'.pressed = finger.down /\ pwr'.age = Debounce
        /\ timer'.down = finger.down
    BY <1>7, SampleSees
  <2>2. Still'
    BY <1>1, <1>7 DEF Still
  <2>3. finger'.age # 0
    BY <1>3
  <2>4. Touched'
    BY <1>1, <1>2, <2>1, <2>3 DEF Touched
  <2>5. Pending' = Pending
    BY <1>1, <1>5, <2>1 DEF Pending, Tapping
  <2>6. /\ finger.down /\ finger.age = 0 => ~key.down
        /\ finger.down /\ finger.age # 0 => key.down
        /\ ~finger.down /\ finger.age = 0 => key.down
    BY <1>0, <1>1, <1>2, <1>7 DEF Touched
  <2>7. Counting'
    <3>1. Seen' = Seen
      BY <1>1 DEF Seen
    <3>2. Open' = Open
      BY <1>1, <2>3, <2>6 DEF Open
    <3>q. QED BY <1>0, <1>1, <2>5, <3>1, <3>2 DEF Counting, Tapping
  <2>8. PauseTime'
    <3>1. SUFFICES ASSUME Tapping PROVE PauseTime'
      BY <1>1 DEF PauseTime, Tapping
    <3>2. finger.left > 0 /\ ~finger.down => finger.age < DoubleClick - 2
      BY <1>1 DEF InTime
    <3>3. finger.left > 0 /\ ~finger.down => finger'.age + 2 <= DoubleClick /\ finger'.age = finger.age + 1
      BY <1>2, <1>3, <3>2, Numbers DEF Timings
    <3>4. ASSUME key.event = "UP", finger.down
          PROVE  key'.clicked + 2 <= DoubleClick
      <4>1. finger.age = 0
        BY <1>5, <2>6, <3>4 DEF Presses
      <4>2. key.clicked + 3 <= DoubleClick
        BY <1>0, <3>1, <3>4, <4>1 DEF PauseTime
      <4>q. QED BY <1>2, <1>4, <3>4, <4>2, Numbers
    <3>5. ASSUME key.event = "UP", ~finger.down, finger.left > 0
          PROVE  key'.clicked + 2 <= DoubleClick /\ key'.clicked + 1 <= finger'.age
      <4>1. key.clicked + 1 <= finger.age
        BY <1>0, <1>5, <3>1, <3>5 DEF PauseTime
      <4>q. QED BY <1>2, <1>4, <3>2, <3>3, <3>5, <4>1, Numbers
    <3>q. QED BY <1>1, <2>1, <2>3, <3>3, <3>4, <3>5 DEF PauseTime
  <2>9. TapTime'
    <3>1. SUFFICES ASSUME Tapping PROVE TapTime'
      BY <1>1 DEF TapTime, Tapping
    <3>2. finger.down => finger.age < LongPress - 2
      BY <1>1, <3>1 DEF InTime, Tapping, Gestures
    <3>3. finger.down => finger'.age + 2 <= LongPress /\ finger'.age = finger.age + 1
      BY <1>2, <1>3, <3>2, Numbers
    <3>4. ASSUME key.event = "DOWN", finger.down
          PROVE  key'.updown + 2 <= LongPress /\ key'.updown + 1 <= finger'.age
      <4>1. finger.age # 0
        BY <1>5, <2>6, <3>4 DEF Presses
      <4>2. key.updown + 1 <= finger.age
        BY <1>0, <1>2, <3>1, <3>4, <4>1 DEF TapTime
      <4>q. QED BY <1>2, <1>4, <3>2, <3>3, <3>4, <4>2, Numbers
    <3>5. ASSUME key.event = "DOWN", ~finger.down
          PROVE  key'.updown + 2 <= LongPress
      <4>1. finger.age = 0
        BY <1>0, <1>1, <1>5, <3>5 DEF Presses, Ages
      <4>2. key.updown + 3 <= LongPress
        BY <1>0, <3>1, <3>5, <4>1 DEF TapTime
      <4>q. QED BY <1>2, <1>4, <3>5, <4>2, Numbers
    <3>q. QED BY <1>1, <2>3, <3>3, <3>4, <3>5 DEF TapTime
  <2>10. Holding'
    <3>1. SUFFICES ASSUME finger.goal = "hold" PROVE Holding'
      BY <1>1 DEF Holding
    <3>2. finger.down /\ key.event = "NONE" => finger'.age = 1
      <4>1. finger.down /\ key.event = "NONE" => finger.age = 0
        BY <1>0, <1>1, <3>1 DEF Holding
      <4>q. QED BY <1>2, <1>3, <4>1
    <3>3. key.event = "DOWN" => finger'.age <= key'.updown + 1 /\ key'.updown <= LongPress
      <4>1. key.event = "DOWN" => finger.age <= key.updown + 1 /\ key.updown < LongPress
        BY <1>0, <1>1, <3>1 DEF Holding
      <4>q. QED BY <1>2, <1>3, <1>4, <4>1, Numbers
    <3>q. QED BY <1>0, <1>1, <2>3, <3>1, <3>2, <3>3 DEF Holding
  <2>q. QED BY <1>1, <2>2, <2>4, <2>5, <2>7, <2>8, <2>9, <2>10 DEF Phase
<1>q. QED BY <1>6, <1>7

Plain(out) == \A i \in 1 .. Len(out) : out[i] \notin Gestures
EventOf(g) == IF g = "hold" THEN "LONGPRESS" ELSE g
Emits(out, e) == out = <<e>> \/ out = <<"UP", e>>

\* What the handler sends: the event of the gesture when it is complete, and
\* no event of a gesture before or after.
Tells(c) ==
    \/ Pending' = Pending /\ Plain(c.out)
    \/ Pending /\ ~Pending' /\ Emits(c.out, EventOf(finger.goal))

\* The handler ends with the key as it was seen.
HandlerTo(c) ==
    /\ timer.at = "classify" /\ timer'.at = "idle" /\ timer'.down = FALSE
    /\ key'.down = c.down /\ key'.event = c.event /\ key'.updown = c.updown /\ SameClick(key', c)
    /\ finger' = finger /\ pwr' = pwr

\* Events that are no gestures.
LEMMA Plainly ==
    /\ Plain(<<>>) /\ Plain(<<"UP">>) /\ Plain(<<"DOWN", "FIRST_DOWN">>)
    /\ Plain(<<"DOWN", "CONTINUED_DOWN">>) /\ Plain(<<"UP", "UP_AFTER_LONGPRESS">>)
<1>1. Plain(<<>>)
  BY DEF Plain
<1>2. Plain(<<"UP">>)
  BY DEF Plain, Gestures
<1>3. ASSUME NEW x \in {"DOWN", "UP"}, NEW y \in {"FIRST_DOWN", "CONTINUED_DOWN", "UP_AFTER_LONGPRESS"}
      PROVE  Plain(<<x, y>>)
  <2>1. Len(<<x, y>>) = 2 /\ <<x, y>>[1] = x /\ <<x, y>>[2] = y
    OBVIOUS
  <2>2. x \notin Gestures /\ y \notin Gestures
    BY <1>3 DEF Gestures
  <2>3. SUFFICES ASSUME NEW i \in 1 .. 2 PROVE <<x, y>>[i] \notin Gestures
    BY <2>1 DEF Plain
  <2>4. i = 1 \/ i = 2
    OBVIOUS
  <2>q. QED BY <2>1, <2>2, <2>4
<1>q. QED BY <1>1, <1>2, <1>3

\* Touched holds when the handler ends with the key as it was seen.
LEMMA HandlerTouched ==
    ASSUME GInv, NEW c, HandlerTo(c), c.down <=> timer.down
    PROVE  Touched'
<1>1. Touched
  BY DEF GInv, Phase
<1>q. QED BY <1>1 DEF Touched, HandlerTo

\* Taps: what the timer interrupt saw.
LEMMA TapSeen ==
    ASSUME GInv, Tapping, timer.at = "classify"
    PROVE  /\ timer.down => IF finger.down THEN finger.age >= 1 ELSE finger.age = 0
           /\ ~timer.down => IF finger.down THEN finger.age = 0 ELSE finger.age >= 1
<1>1. Touched /\ Ages /\ Typed
  BY DEF GInv, Phase, Line, IInv
<1>2. finger.goal # "none"
  BY DEF Tapping, Gestures
<1>3. finger.age \in Nat
  BY <1>1, Ints
<1>q. QED BY <1>1, <1>2, <1>3 DEF Touched, Ages

\* Taps, nothing new: the handler leaves key_status as it is.
LEMMA TapSame ==
    ASSUME GInv, Tapping, NEW c, HandlerTo(c), timer.down <=> key.down,
           c.down = key.down, c.event = key.event, c.updown = key.updown \/ key.event # "DOWN",
           SameClick(c, key)
    PROVE  Phase' /\ Pending' = Pending
<1>0. /\ Typed /\ Shape /\ Still /\ Counting /\ PauseTime /\ TapTime /\ Holding
  BY DEF GInv, IInv, Phase, Line
<1>1. /\ timer'.at = "idle" /\ timer'.down = FALSE /\ timer.at = "classify"
      /\ key'.down = key.down /\ key'.event = key.event /\ (key.event = "DOWN" => key'.updown = key.updown)
      /\ key'.click = key.click /\ key'.cnt = key.cnt /\ key'.clicked = key.clicked
      /\ finger' = finger /\ pwr' = pwr
  BY DEF HandlerTo, SameClick
<1>2. Touched'
  BY HandlerTouched
<1>3. Tapping' /\ finger.goal # "none" /\ finger.goal # "hold"
  BY <1>1 DEF Tapping, Gestures
<1>4. timer.down => key.event # "NONE" /\ key.event # "UP"
  BY <1>0 DEF Shape, Presses
<1>5. Pending' = Pending
  BY <1>1, <1>3, <1>4 DEF Pending, Tapping
<1>6. Counting'
  <2>1. Seen' = Seen /\ Open' = Open
    BY <1>1 DEF Seen, Open
  <2>q. QED BY <1>0, <1>1, <1>5, <2>1 DEF Counting
<1>7. PauseTime'
  BY <1>0, <1>1, <1>4 DEF PauseTime
<1>8. TapTime'
  BY <1>0, <1>1 DEF TapTime
<1>9. Still' /\ Holding'
  BY <1>1, <1>3 DEF Still, Holding
<1>q. QED BY <1>2, <1>5, <1>6, <1>7, <1>8, <1>9 DEF Phase

\* Taps: the gesture is over.
LEMMA TapsOver ==
    ASSUME GInv, Tapping, NEW c, HandlerTo(c), ~timer.down, ~c.down, c.event = "NONE", ~c.click,
           finger.left = 0, ~finger.down, key.event # "NONE"
    PROVE  Phase' /\ Pending /\ ~Pending'
<1>0. Counting
  BY DEF GInv, Phase
<1>1. /\ timer'.down = FALSE /\ key'.down = c.down /\ key'.event = "NONE" /\ ~key'.click
      /\ finger' = finger
  BY DEF HandlerTo, SameClick
<1>2. Touched'
  BY HandlerTouched
<1>3. Tapping' /\ finger.goal # "none" /\ finger.goal # "hold"
  BY <1>1 DEF Tapping, Gestures
<1>4. Pending /\ ~Pending'
  BY <1>1, <1>3 DEF Pending
<1>5. Counting'
  BY <1>0, <1>1, <1>4 DEF Counting
<1>6. PauseTime' /\ TapTime' /\ Still' /\ Holding'
  BY <1>1, <1>3 DEF PauseTime, TapTime, Still, Holding
<1>q. QED BY <1>2, <1>4, <1>5, <1>6 DEF Phase

\* Taps: a touch is seen.
LEMMA TapPress ==
    ASSUME GInv, Tapping, NEW c, HandlerTo(c), ~key.down, timer.down, c.down, c.event = "DOWN",
           c.updown = 0, SameClick(c, key)
    PROVE  Phase' /\ Pending' = Pending
<1>0. Typed /\ Counting /\ PauseTime /\ TapTime
  BY DEF GInv, Phase, IInv
<1>1. /\ timer'.at = "idle" /\ timer'.down = FALSE /\ timer.at = "classify"
      /\ key'.down = TRUE /\ key'.event = "DOWN" /\ key'.updown = 0
      /\ key'.click = key.click /\ key'.cnt = key.cnt /\ finger' = finger
  BY DEF HandlerTo, SameClick
<1>2. Touched'
  BY HandlerTouched
<1>3. Tapping' /\ finger.goal # "none" /\ finger.goal # "hold"
  BY <1>1 DEF Tapping, Gestures
<1>4. Pending /\ Pending'
  BY <1>1, <1>3 DEF Pending
<1>5. Pending' = Pending
  BY <1>4 DEF Pending
<1>6. IF finger.down THEN finger.age >= 1 ELSE finger.age = 0
  BY <1>1, TapSeen
<1>7. finger.age \in Nat
  BY <1>0, Ints
<1>8. Counting'
  <2>1. Seen' = Seen
    BY <1>1 DEF Seen
  <2>2. Open' = Open
    BY <1>1, <1>6, <1>7 DEF Open
  <2>q. QED BY <1>0, <1>1, <1>4, <2>1, <2>2 DEF Counting
<1>9. PauseTime'
  BY <1>0, <1>1 DEF PauseTime
<1>10. TapTime'
  <2>1. finger.down => finger.age + 2 <= LongPress
    BY <1>0 DEF TapTime
  <2>2. 0 + 2 <= LongPress /\ 0 + 3 <= LongPress
    BY Numbers
  <2>3. finger.down /\ finger.age > 0 => 0 + 1 <= finger.age
    BY <1>7
  <2>q. QED BY <1>1, <2>1, <2>2, <2>3 DEF TapTime
<1>11. Still' /\ Holding'
  BY <1>1, <1>3 DEF Still, Holding
<1>q. QED BY <1>2, <1>5, <1>8, <1>9, <1>10, <1>11 DEF Phase

\* Taps: a release is seen and counted.
LEMMA TapCounted ==
    ASSUME GInv, Tapping, NEW c, HandlerTo(c), key.down, ~timer.down, ~c.down, c.event = "UP",
           key.event = "DOWN", c.click, c.cnt = NewCnt(key), c.clicked = 0
    PROVE  Phase' /\ Pending' = Pending
<1>0. Typed /\ Counting /\ PauseTime /\ TapTime
  BY DEF GInv, Phase, IInv
<1>1. /\ timer'.at = "idle" /\ timer'.down = FALSE /\ timer.at = "classify"
      /\ key'.down = c.down /\ key'.event = "UP" /\ key'.clicked = 0
      /\ key'.click /\ key'.cnt = NewCnt(key) /\ finger' = finger
  BY DEF HandlerTo, SameClick
<1>2. Touched'
  BY HandlerTouched
<1>3. Tapping' /\ finger.goal # "none" /\ finger.goal # "hold"
  BY <1>1 DEF Tapping, Gestures
<1>4. Pending /\ Pending'
  BY <1>1, <1>3 DEF Pending
<1>5. Pending' = Pending
  BY <1>4 DEF Pending
<1>6. IF finger.down THEN finger.age = 0 ELSE finger.age >= 1
  BY <1>1, TapSeen
<1>7. finger.age \in Nat /\ finger.left \in Nat /\ key \in KeyStatus
  BY <1>0, Ints, Fields
<1>8. Counting'
  <2>1. Seen' = Seen + 1 /\ Seen \in Nat
    <3>1. NewCnt(key) \in Nat
      BY <1>7, NewCntIs
    <3>2. Seen = NewCnt(key) /\ Seen' = NewCnt(key) + 1
      BY <1>1 DEF Seen, NewCnt
    <3>q. QED BY <3>1, <3>2
  <2>2. Open = Open' + 1 /\ Open' \in Nat
    BY <1>1, <1>6, <1>7 DEF Open
  <2>3. Seen + Open + finger.left = Taps(finger.goal)
    BY <1>0, <1>4 DEF Counting
  <2>4. Seen' + Open' + finger.left = Seen + Open + finger.left
    BY <1>7, <2>1, <2>2
  <2>q. QED BY <1>0, <1>1, <2>3, <2>4 DEF Counting
<1>9. PauseTime'
  <2>1. finger.left > 0 /\ ~finger.down => finger.age + 2 <= DoubleClick
    BY <1>0 DEF PauseTime
  <2>2. 0 + 2 <= DoubleClick /\ 0 + 3 <= DoubleClick
    BY Numbers
  <2>3. ~finger.down => 0 + 1 <= finger.age
    BY <1>6, <1>7
  <2>q. QED BY <1>1, <2>1, <2>2, <2>3 DEF PauseTime
<1>10. TapTime'
  BY <1>0, <1>1 DEF TapTime
<1>11. Still' /\ Holding'
  BY <1>1, <1>3 DEF Still, Holding
<1>q. QED BY <1>2, <1>5, <1>8, <1>9, <1>10, <1>11 DEF Phase

\* The handler while the finger taps.
LEMMA HandlerTaps ==
    ASSUME GInv, Tapping, NEW c \in KeyStatus, c = Classify(key, timer.down), HandlerTo(c)
    PROVE  Phase' /\ Tells(c)
<1>0. /\ Typed /\ Shape /\ Ages /\ Still /\ Counting /\ PauseTime /\ TapTime
  BY DEF GInv, IInv, Phase, Line
<1>1. /\ timer.down \in BOOLEAN /\ key.down \in BOOLEAN /\ key \in KeyStatus
      /\ key.clicked \in Nat /\ key.updown \in Nat /\ key.cnt \in 0 .. 3 /\ key.click \in BOOLEAN
      /\ finger.left \in Nat /\ finger.age \in Nat /\ timer.at = "classify"
  BY <1>0, Fields, Ints DEF HandlerTo
<1>2. /\ key.event \in {"NONE", "DOWN", "UP"} /\ (key.down <=> key.event = "DOWN")
      /\ (key.event = "UP" => key.click)
  BY <1>0 DEF Counting, Shape, Presses
<1>g. /\ finger.goal \in Gestures /\ finger.goal # "LONGPRESS" /\ Taps(finger.goal) \in 1 .. 5
      /\ Clicks[Taps(finger.goal)] = finger.goal /\ EventOf(finger.goal) = finger.goal
  <2>1. finger.goal \in Gestures /\ finger.goal # "LONGPRESS"
    BY <1>0 DEF Counting, Tapping
  <2>q. QED BY <2>1, TapsIs DEF EventOf, Gestures
<1>3. CASE ~timer.down /\ key.event = "NONE"
  <2>0. timer.down = FALSE /\ ~key.down
    BY <1>1, <1>2, <1>3
  <2>1. c.event = "NONE" /\ ~c.down /\ SameClick(c, key) /\ c.out = <<>>
    BY <1>1, <1>3, <2>0, ClassifyQuiet
  <2>2. c.down = key.down
    BY <1>1, <2>0, <2>1 DEF KeyStatus
  <2>3. Phase' /\ Pending' = Pending
    BY <1>1, <1>3, <2>0, <2>1, <2>2, TapSame
  <2>q. QED BY <2>1, <2>3, Plainly DEF Tells
<1>4. CASE ~timer.down /\ key.event = "UP"
  <2>0. timer.down = FALSE /\ ~key.down /\ key.click
    BY <1>1, <1>2, <1>4
  <2>1. /\ ~c.down
        /\ key.clicked < DoubleClick => c.event = "UP" /\ SameClick(c, key) /\ c.out = <<>>
        /\ key.clicked >= DoubleClick => c.event = "NONE" /\ ~c.click /\ c.out = <<Clicks[key.cnt + 1]>>
    BY <1>1, <1>4, <2>0, ClassifyPause
  <2>2. CASE key.clicked < DoubleClick
    <3>1. c.down = key.down
      BY <1>1, <2>0, <2>1 DEF KeyStatus
    <3>2. Phase' /\ Pending' = Pending
      BY <1>1, <1>4, <2>0, <2>1, <2>2, <3>1, TapSame
    <3>q. QED BY <2>1, <2>2, <3>2, Plainly DEF Tells
  <2>3. CASE key.clicked >= DoubleClick
    <3>1. finger.left = 0 /\ ~finger.down
      <4>1. finger.left > 0 \/ finger.down => key.clicked + 2 <= DoubleClick
        BY <1>0, <1>4 DEF PauseTime
      <4>q. QED BY <1>1, <2>3, <4>1, Numbers
    <3>2. Phase' /\ Pending /\ ~Pending'
      BY <1>4, <2>1, <2>3, <3>1, TapsOver
    <3>3. finger.age >= 1
      BY <1>1, <1>4, <3>1, TapSeen
    <3>4. Open = 0 /\ Seen = key.cnt + 1
      BY <1>1, <2>0, <3>1, <3>3 DEF Open, Seen
    <3>5. key.cnt + 1 = Taps(finger.goal)
      <4>1. Seen + Open + finger.left = Taps(finger.goal)
        BY <1>0, <3>2 DEF Counting
      <4>q. QED BY <1>1, <3>1, <3>4, <4>1
    <3>6. c.out = <<finger.goal>>
      BY <1>g, <2>1, <2>3, <3>5
    <3>q. QED BY <1>g, <3>2, <3>6 DEF Tells, Emits
  <2>q. QED BY <1>1, <2>2, <2>3, Numbers
<1>5. CASE timer.down /\ key.event # "DOWN"
  <2>0. timer.down = TRUE /\ ~key.down /\ key.event \in {"NONE", "UP"}
    BY <1>1, <1>2, <1>5
  <2>1. key.event = "UP" => key.click /\ key.clicked < DoubleClick
    <3>1. key.event = "UP" => key.clicked + 2 <= DoubleClick
      BY <1>0, <1>5 DEF PauseTime
    <3>q. QED BY <1>1, <1>2, <3>1, Numbers
  <2>2. /\ c.down /\ c.event = "DOWN" /\ c.updown = 0 /\ SameClick(c, key)
        /\ c.out \in {<<"DOWN", "FIRST_DOWN">>, <<"DOWN", "CONTINUED_DOWN">>}
    BY <1>1, <2>0, <2>1, ClassifyPress
  <2>3. Phase' /\ Pending' = Pending
    BY <1>5, <2>0, <2>2, TapPress
  <2>4. Plain(c.out)
    BY <2>2, Plainly
  <2>q. QED BY <2>3, <2>4 DEF Tells
<1>6. CASE ~timer.down /\ key.event = "DOWN"
  <2>0. timer.down = FALSE /\ key.down
    BY <1>1, <1>2, <1>6
  <2>1. /\ ~c.down
        /\ NewCnt(key) < 4 => c.event = "UP" /\ c.click /\ c.cnt = NewCnt(key) /\ c.clicked = 0 /\ c.out = <<"UP">>
        /\ NewCnt(key) = 4 => c.event = "NONE" /\ ~c.click /\ c.out = <<"UP", "RAMPAGECLICK">>
    BY <1>1, <1>6, <2>0, ClassifyTap
  <2>2. CASE NewCnt(key) < 4
    <3>1. Phase' /\ Pending' = Pending
      BY <1>6, <2>0, <2>1, <2>2, TapCounted
    <3>q. QED BY <2>1, <2>2, <3>1, Plainly DEF Tells
  <2>3. CASE NewCnt(key) = 4
    <3>1. Pending
      BY <1>6 DEF Pending
    <3>2. Seen + Open + finger.left = Taps(finger.goal)
      BY <1>0, <3>1 DEF Counting
    <3>3. Seen = 4 /\ Open \in Nat /\ Open >= 1
      <4>1. Seen = 4
        BY <2>3 DEF Seen, NewCnt
      <4>2. Open \in {1, 2}
        BY <2>0 DEF Open
      <4>q. QED BY <4>1, <4>2
    <3>4. Open = 1 /\ finger.left = 0 /\ Taps(finger.goal) = 5
      BY <1>1, <1>g, <3>2, <3>3
    <3>5. ~finger.down
      <4>1. finger.down => finger.age = 0
        BY <1>1, <1>6, TapSeen
      <4>q. QED BY <2>0, <3>4, <4>1 DEF Open
    <3>6. Phase' /\ ~Pending'
      BY <1>6, <2>1, <2>3, <3>4, <3>5, TapsOver
    <3>7. finger.goal = "RAMPAGECLICK"
      BY <1>g, <3>4 DEF Clicks
    <3>q. QED BY <1>g, <2>1, <2>3, <3>1, <3>6, <3>7 DEF Tells, Emits
  <2>4. NewCnt(key) < 4 \/ NewCnt(key) = 4
    <3>1. NewCnt(key) \in 0 .. 4
      BY <1>1, NewCntIs
    <3>q. QED BY <3>1
  <2>q. QED BY <2>2, <2>3, <2>4
<1>7. CASE timer.down /\ key.event = "DOWN"
  <2>0. timer.down = TRUE /\ key.down
    BY <1>1, <1>2, <1>7
  <2>1. key.updown < LongPress
    <3>1. key.updown + 2 <= LongPress
      BY <1>0, <1>7 DEF TapTime
    <3>q. QED BY <1>1, <3>1, Numbers
  <2>2. /\ c.down /\ SameClick(c, key)
        /\ key.updown < LongPress => c.event = "DOWN" /\ c.updown = key.updown /\ c.out = <<>>
    BY <1>1, <1>7, <2>0, ClassifyDown
  <2>3. c.down = key.down
    BY <1>1, <2>0, <2>2 DEF KeyStatus
  <2>4. Phase' /\ Pending' = Pending
    BY <1>1, <1>7, <2>0, <2>1, <2>2, <2>3, TapSame
  <2>q. QED BY <2>1, <2>2, <2>4, Plainly DEF Tells
<1>q. QED BY <1>1, <1>2, <1>3, <1>4, <1>5, <1>6, <1>7

\* The handler while the finger holds.
LEMMA HandlerHolds ==
    ASSUME GInv, finger.goal = "hold", NEW c \in KeyStatus, c = Classify(key, timer.down), HandlerTo(c)
    PROVE  Phase' /\ Tells(c)
<1>0. /\ Typed /\ Shape /\ Ages /\ Touched /\ Holding
  BY DEF GInv, IInv, Phase, Line
<1>1. /\ timer.down \in BOOLEAN /\ key.down \in BOOLEAN /\ key \in KeyStatus
      /\ key.updown \in Nat /\ key.click \in BOOLEAN
      /\ finger.age \in Nat /\ timer.at = "classify"
      /\ key.event \in {"NONE", "DOWN", "UP", "LONGPRESS", "LONGLONGPRESS"}
  BY <1>0, Fields, Ints DEF HandlerTo
<1>2. /\ finger.left = 0 /\ ~key.click
      /\ finger.down => key.event # "UP"
      /\ ~finger.down => key.event \in {"NONE", "LONGPRESS", "LONGLONGPRESS"}
      /\ finger.down /\ finger.age = 0 => key.event = "NONE"
      /\ finger.down /\ key.event = "NONE" => finger.age = 0 \/ finger.age = 1
      /\ ~finger.down /\ finger.age = 0 => key.event # "NONE"
      /\ key.event = "DOWN" => finger.age <= key.updown + 1
  BY <1>0 DEF Holding
<1>3. /\ finger.down => (timer.down <=> finger.age # 0)
      /\ ~finger.down => (timer.down <=> finger.age = 0)
  BY <1>0, <1>1 DEF Touched, Ages
<1>4. key.down <=> key.event \in {"DOWN", "LONGPRESS", "LONGLONGPRESS"}
  BY <1>0 DEF Shape, Presses
<1>5. /\ timer'.at = "idle" /\ key'.down = c.down /\ key'.event = c.event /\ key'.updown = c.updown
      /\ key'.click = c.click /\ finger' = finger
  BY DEF HandlerTo, SameClick
<1>6. ASSUME c.down <=> timer.down, Holding' PROVE Phase'
  <2>1. Touched'
    BY <1>6, HandlerTouched
  <2>2. ~Tapping' /\ finger'.goal # "none"
    BY <1>5 DEF Tapping, Gestures
  <2>q. QED BY <1>6, <2>1, <2>2 DEF Phase, Still, Counting, PauseTime, TapTime
<1>p. /\ ~Tapping /\ ~Tapping'
      /\ Pending = (finger.down /\ key.event \in {"NONE", "DOWN"})
      /\ Pending' = (finger.down /\ c.event \in {"NONE", "DOWN"})
  <2>1. ~Tapping /\ ~Tapping'
    BY <1>5 DEF Tapping, Gestures
  <2>q. QED BY <1>5, <2>1 DEF Pending
<1>7. CASE ~timer.down /\ key.event = "NONE"
  <2>0. timer.down = FALSE /\ ~key.down
    BY <1>1, <1>4, <1>7
  <2>1. c.event = "NONE" /\ ~c.down /\ SameClick(c, key) /\ c.out = <<>>
    <3>1. PICK z \in KeyStatus : /\ z = Classify(key, FALSE) /\ ~z.down /\ z.event = "NONE"
                                 /\ SameClick(z, key) /\ z.out = <<>>
      BY <1>1, <1>7, <2>0, ClassifyQuiet
    <3>2. z = c
      BY <2>0, <3>1
    <3>q. QED BY <3>1, <3>2
  <2>2. finger.down => finger.age = 0
    BY <1>3, <1>7
  <2>3. Holding'
    BY <1>2, <1>3, <1>5, <1>7, <2>1, <2>2 DEF Holding, SameClick
  <2>4. Pending' = Pending
    BY <1>7, <1>p, <2>1
  <2>q. QED BY <1>6, <1>7, <2>1, <2>3, <2>4, Plainly DEF Tells
<1>8. CASE timer.down /\ key.event = "NONE"
  <2>0. timer.down = TRUE /\ ~key.down
    BY <1>1, <1>4, <1>8
  <2>1. /\ c.down /\ c.event = "DOWN" /\ c.updown = 0 /\ SameClick(c, key)
        /\ c.out \in {<<"DOWN", "FIRST_DOWN">>, <<"DOWN", "CONTINUED_DOWN">>}
    BY <1>1, <1>8, <2>0, ClassifyPress
  <2>2. finger.down /\ finger.age = 1
    BY <1>2, <1>3, <1>8
  <2>3. Holding'
    <3>1. finger.age <= 0 + 1 /\ 0 <= LongPress /\ 0 < LongPress /\ finger.age # 0
      BY <2>2, Numbers
    <3>q. QED BY <1>2, <1>5, <2>1, <2>2, <3>1 DEF Holding, SameClick
  <2>4. Pending' = Pending
    BY <1>8, <1>p, <2>1
  <2>5. Plain(c.out)
    BY <2>1, Plainly
  <2>q. QED BY <1>6, <1>8, <2>1, <2>3, <2>4, <2>5 DEF Tells
<1>9. CASE key.event = "DOWN"
  <2>0. timer.down = TRUE /\ key.down /\ finger.down /\ finger.age # 0
    BY <1>1, <1>2, <1>3, <1>4, <1>9
  <2>1. /\ c.down /\ SameClick(c, key)
        /\ key.updown < LongPress => c.event = "DOWN" /\ c.updown = key.updown /\ c.out = <<>>
        /\ key.updown >= LongPress => c.event = "LONGPRESS" /\ c.out = <<"LONGPRESS">>
    BY <1>1, <1>9, <2>0, ClassifyDown
  <2>2. CASE key.updown < LongPress
    <3>1. Holding'
      <4>1. key.updown <= LongPress
        BY <1>1, <2>2, Numbers
      <4>q. QED BY <1>2, <1>5, <1>9, <2>0, <2>1, <2>2, <4>1 DEF Holding, SameClick
    <3>2. Pending' = Pending
      BY <1>9, <1>p, <2>1, <2>2
    <3>q. QED BY <1>6, <2>0, <2>1, <2>2, <3>1, <3>2, Plainly DEF Tells
  <2>3. CASE key.updown >= LongPress
    <3>1. Holding'
      BY <1>2, <1>5, <2>0, <2>1, <2>3 DEF Holding, SameClick
    <3>2. Pending /\ ~Pending'
      BY <1>9, <1>p, <2>0, <2>1, <2>3
    <3>3. Emits(c.out, EventOf(finger.goal))
      BY <2>1, <2>3 DEF Emits, EventOf
    <3>q. QED BY <1>6, <2>0, <2>1, <3>1, <3>2, <3>3 DEF Tells
  <2>q. QED BY <1>1, <2>2, <2>3, Numbers
<1>10. CASE ~timer.down /\ LongHeld(key)
  <2>0. timer.down = FALSE /\ key.down /\ ~finger.down /\ finger.age # 0
    BY <1>1, <1>2, <1>3, <1>4, <1>10 DEF LongHeld
  <2>1. c.event = "NONE" /\ ~c.down /\ SameClick(c, key) /\ c.out = <<"UP", "UP_AFTER_LONGPRESS">>
    BY <1>1, <1>10, <2>0, ClassifyEnd
  <2>2. Holding'
    BY <1>2, <1>5, <2>0, <2>1 DEF Holding, SameClick
  <2>3. Pending' = Pending
    BY <1>p, <2>0
  <2>q. QED BY <1>6, <1>10, <2>1, <2>2, <2>3, Plainly DEF Tells
<1>11. CASE timer.down /\ LongHeld(key)
  <2>0. timer.down = TRUE /\ key.down
    BY <1>1, <1>4, <1>11 DEF LongHeld
  <2>1. /\ c.down /\ SameClick(c, key) /\ LongHeld(c)
        /\ \A i \in 1 .. Len(c.out) : c.out[i] \in {"REPEAT", "LONGLONGPRESS"}
    BY <1>1, <1>11, <2>0, ClassifyHeld
  <2>2. Holding'
    BY <1>2, <1>5, <1>11, <2>1 DEF Holding, SameClick, LongHeld
  <2>3. Pending' = Pending
    BY <1>11, <1>p, <2>1 DEF LongHeld
  <2>4. Plain(c.out)
    <3>1. "REPEAT" \notin Gestures /\ "LONGLONGPRESS" \notin Gestures
      BY DEF Gestures
    <3>q. QED BY <2>1, <3>1 DEF Plain
  <2>q. QED BY <1>6, <1>11, <2>1, <2>2, <2>3, <2>4 DEF Tells
<1>12. key.event # "UP"
  BY <1>2
<1>q. QED BY <1>1, <1>7, <1>8, <1>9, <1>10, <1>11, <1>12 DEF LongHeld

\* The handler, whatever the finger does.
LEMMA HandlerPhase ==
    ASSUME GInv, DebounceHandler, NEW c \in KeyStatus, c = Classify(key, timer.down)
    PROVE  Phase' /\ Tells(c)
<1>0. /\ Typed /\ Shape /\ Ages /\ Still
  BY DEF GInv, IInv, Phase, Line
<1>1. HandlerTo(c)
  BY <1>0, HandlerFields DEF HandlerTo
<1>2. finger.goal \in {"none", "hold"} \cup Gestures /\ key \in KeyStatus /\ timer.down \in BOOLEAN
  BY <1>0, Fields
<1>3. CASE finger.goal = "none"
  <2>1. timer.down = FALSE /\ key.event = "NONE" /\ ~key.down
    BY <1>0, <1>2, <1>3 DEF Still, Shape, Presses
  <2>2. c.event = "NONE" /\ SameClick(c, key) /\ c.out = <<>>
    BY <1>2, <2>1, ClassifyQuiet
  <2>3. /\ timer'.down = FALSE /\ key'.event = "NONE" /\ key'.click = key.click
        /\ finger' = finger /\ pwr' = pwr
    BY <1>1, <2>2 DEF HandlerTo, SameClick
  <2>4. Still'
    BY <1>0, <2>3 DEF Still
  <2>5. ~Tapping /\ ~Tapping' /\ ~Pending /\ ~Pending'
    BY <1>3, <2>3 DEF Tapping, Pending, Gestures
  <2>6. Pending' = Pending
    BY <2>5 DEF Pending
  <2>7. Touched' /\ Counting' /\ PauseTime' /\ TapTime' /\ Holding'
    BY <1>3, <2>3, <2>5 DEF Touched, Counting, PauseTime, TapTime, Holding
  <2>q. QED BY <2>2, <2>4, <2>6, <2>7, Plainly DEF Phase, Tells
<1>4. CASE finger.goal = "hold"
  BY <1>1, <1>4, HandlerHolds
<1>5. CASE finger.goal \in Gestures
  BY <1>1, <1>5, HandlerTaps DEF Tapping
<1>q. QED BY <1>2, <1>3, <1>4, <1>5

\* At first no gesture is being made.
LEMMA InitPhase ==
    ASSUME Init
    PROVE  Phase /\ ~Pending
<1>1. /\ finger.goal = "none" /\ ~finger.down /\ finger.left = 0 /\ ~timer.down /\ key.event = "NONE"
      /\ ~key.click /\ ~pwr.debounce /\ ~pwr.dither /\ ~pwr.pressed /\ pwr.age = Debounce
  BY DEF Init
<1>2. ~Tapping /\ ~Pending
  BY <1>1 DEF Tapping, Pending, Gestures
<1>q. QED BY <1>1, <1>2 DEF Phase, Still, Touched, Counting, PauseTime, TapTime, Holding

\* Every step keeps the phase.
LEMMA StepGInv ==
    ASSUME GInv, [Next]_vars, ~Hurried, Timings
    PROVE  GInv'
<1>1. IInv' /\ Line'
  BY StepIInv, StepLine DEF GInv
<1>2. Phase'
  <2>1. CASE DebounceHandler
    <3>1. PICK c \in KeyStatus : c = Classify(key, timer.down)
      BY Fields, ClassifyIs DEF GInv, IInv
    <3>q. QED BY <2>1, <3>1, HandlerPhase
  <2>2. CASE AppThread \/ UNCHANGED vars
    BY <2>2, ThreadPhase DEF GInv
  <2>q. QED BY <2>1, <2>2, SamplePhase, PassPhase, AgainPhase, LiftPhase, GlitchPhase, BeginPhase
            DEF Next, Interrupt, Finger, Whims
<1>q. QED BY <1>1, <1>2 DEF GInv
-----------------------------------------------------------------------------
(* The actions of the events on their way.                                 *)

Messages == KeyMessages \cup {"NONE"}
Actions == {ActionOf(e) : e \in Messages}

\* h counts the events of s that act, and b lists their actions.
Counts(b, s, h) ==
    /\ h[0] = 0 /\ h[Len(s)] = Len(b)
    /\ \A p, q \in 0 .. Len(s) : p <= q => h[p] <= h[q]
    /\ \A p \in 1 .. Len(s) :
          /\ Acts(s[p]) => h[p] = h[p - 1] + 1 /\ b[h[p]] = ActionOf(s[p])
          /\ ~Acts(s[p]) => h[p] = h[p - 1]

Matches(b, s) == \E h \in [0 .. Len(s) -> 0 .. Len(b)] : Counts(b, s, h)

\* Without events there are no actions.
LEMMA MatchEmpty ==
    ASSUME NEW b \in Seq(Actions)
    PROVE  Matches(b, <<>>) <=> b = <<>>
<1>1. Len(<<>>) = 0 /\ Len(b) \in Nat
  BY LenProperties
<1>2. ASSUME Matches(b, <<>>) PROVE b = <<>>
  <2>1. PICK h : h[0] = 0 /\ h[Len(<<>>)] = Len(b)
    BY <1>2 DEF Matches, Counts
  <2>2. Len(b) = 0
    BY <1>1, <2>1
  <2>q. QED BY <2>2
<1>3. ASSUME b = <<>> PROVE Matches(b, <<>>)
  <2>1. Len(b) = 0
    BY <1>1, <1>3
  <2>2. PICK h : h = [p \in 0 .. 0 |-> 0]
    OBVIOUS
  <2>3. h \in [0 .. 0 -> 0 .. 0] /\ h[0] = 0
    BY <2>2
  <2>4. \A p, q \in 0 .. 0 : h[p] <= h[q]
    BY <2>2
  <2>5. Counts(b, <<>>, h)
    BY <1>1, <2>1, <2>3, <2>4 DEF Counts
  <2>q. QED BY <1>1, <2>1, <2>3, <2>5 DEF Matches
<1>q. QED BY <1>2, <1>3

\* Events that do not act add nothing.
LEMMA MatchPlain ==
    ASSUME NEW b \in Seq(Actions), NEW s \in Seq(Messages), NEW u \in Seq(Messages), Matches(b, s),
           \A i \in 1 .. Len(u) : ~Acts(u[i])
    PROVE  Matches(b, s \o u)
<1>1. PICK m \in Nat : m = Len(b)
  BY LenProperties
<1>2. PICK n \in Nat : n = Len(s)
  BY LenProperties
<1>3. PICK k \in Nat : k = Len(u)
  BY LenProperties
<1>4. PICK t : t = s \o u
  OBVIOUS
<1>5. /\ Len(t) = n + k /\ \A p \in 1 .. n : t[p] = s[p]
      /\ \A p \in n + 1 .. n + k : ~Acts(t[p])
  <2>1. Len(t) = n + k /\ \A i \in 1 .. n + k : t[i] = IF i <= n THEN s[i] ELSE u[i - n]
    BY <1>2, <1>3, <1>4, ConcatProperties
  <2>2. \A p \in n + 1 .. n + k : t[p] = u[p - n] /\ p - n \in 1 .. k
    BY <2>1
  <2>3. \A p \in 1 .. n : t[p] = s[p]
    BY <2>1
  <2>4. \A p \in n + 1 .. n + k : ~Acts(t[p])
    <3>1. \A i \in 1 .. k : ~Acts(u[i])
      BY <1>3
    <3>q. QED BY <2>2, <3>1
  <2>q. QED BY <2>1, <2>3, <2>4
<1>6. PICK h \in [0 .. n -> 0 .. m] : Counts(b, s, h)
  BY <1>1, <1>2 DEF Matches
<1>7. /\ h[0] = 0 /\ h[n] = m
      /\ \A p, q \in 0 .. n : p <= q => h[p] <= h[q]
      /\ \A p \in 1 .. n :
          /\ Acts(s[p]) => h[p] = h[p - 1] + 1 /\ b[h[p]] = ActionOf(s[p])
          /\ ~Acts(s[p]) => h[p] = h[p - 1]
  BY <1>1, <1>2, <1>6 DEF Counts
<1>8. PICK g : g = [p \in 0 .. n + k |-> IF p <= n THEN h[p] ELSE m]
  OBVIOUS
<1>9. /\ g \in [0 .. n + k -> 0 .. m] /\ (\A p \in 0 .. n : g[p] = h[p])
      /\ (\A p \in n .. n + k : g[p] = m)
  BY <1>6, <1>7, <1>8
<1>10. g[0] = 0 /\ g[n + k] = m
  BY <1>7, <1>9
<1>11. ASSUME NEW p \in 0 .. n + k, NEW q \in 0 .. n + k, p <= q PROVE g[p] <= g[q]
  <2>1. CASE q <= n
    BY <1>7, <1>9, <1>11, <2>1
  <2>2. CASE q > n
    <3>1. g[q] = m /\ g[p] \in 0 .. m
      BY <1>9, <2>2
    <3>q. QED BY <3>1
  <2>q. QED BY <2>1, <2>2
<1>12. ASSUME NEW p \in 1 .. n + k
       PROVE  /\ Acts(t[p]) => g[p] = g[p - 1] + 1 /\ b[g[p]] = ActionOf(t[p])
              /\ ~Acts(t[p]) => g[p] = g[p - 1]
  <2>1. CASE p <= n
    <3>1. p \in 1 .. n /\ p - 1 \in 0 .. n /\ p \in 0 .. n
      BY <2>1
    <3>2. g[p] = h[p] /\ g[p - 1] = h[p - 1] /\ t[p] = s[p]
      BY <1>5, <1>9, <3>1
    <3>q. QED BY <1>7, <3>1, <3>2
  <2>2. CASE p > n
    <3>1. p \in n + 1 .. n + k /\ p - 1 \in n .. n + k /\ p \in n .. n + k
      BY <2>2
    <3>q. QED BY <1>5, <1>9, <3>1
  <2>q. QED BY <2>1, <2>2
<1>13. Counts(b, t, g)
  BY <1>1, <1>5, <1>10, <1>11, <1>12 DEF Counts
<1>q. QED BY <1>1, <1>4, <1>5, <1>9, <1>13 DEF Matches

\* An event that acts adds its action.
LEMMA MatchAppend ==
    ASSUME NEW b \in Seq(Actions), NEW s \in Seq(Messages), NEW e \in Messages, Matches(b, s), Acts(e)
    PROVE  Matches(b \o <<ActionOf(e)>>, s \o <<e>>)
<1>1. PICK m \in Nat : m = Len(b)
  BY LenProperties
<1>2. PICK n \in Nat : n = Len(s)
  BY LenProperties
<1>3. PICK t : t = s \o <<e>>
  OBVIOUS
<1>4. PICK d : d = b \o <<ActionOf(e)>>
  OBVIOUS
<1>5. Len(t) = n + 1 /\ (\A p \in 1 .. n : t[p] = s[p]) /\ t[n + 1] = e
  <2>1. t = Append(s, e)
    BY <1>3, AppendIsConcat
  <2>q. QED BY <1>2, <2>1, AppendProperties
<1>6. Len(d) = m + 1 /\ (\A p \in 1 .. m : d[p] = b[p]) /\ d[m + 1] = ActionOf(e)
  <2>0. ActionOf(e) \in Actions
    BY DEF Actions
  <2>1. d = Append(b, ActionOf(e))
    BY <1>4, <2>0, AppendIsConcat
  <2>q. QED BY <1>1, <2>0, <2>1, AppendProperties
<1>7. PICK h \in [0 .. n -> 0 .. m] : Counts(b, s, h)
  BY <1>1, <1>2 DEF Matches
<1>8. /\ h[0] = 0 /\ h[n] = m
      /\ \A p, q \in 0 .. n : p <= q => h[p] <= h[q]
      /\ \A p \in 1 .. n :
          /\ Acts(s[p]) => h[p] = h[p - 1] + 1 /\ b[h[p]] = ActionOf(s[p])
          /\ ~Acts(s[p]) => h[p] = h[p - 1]
  BY <1>1, <1>2, <1>7 DEF Counts
<1>9. PICK g : g = [p \in 0 .. n + 1 |-> IF p <= n THEN h[p] ELSE m + 1]
  OBVIOUS
<1>10. /\ g \in [0 .. n + 1 -> 0 .. m + 1] /\ (\A p \in 0 .. n : g[p] = h[p] /\ g[p] \in 0 .. m)
       /\ g[n + 1] = m + 1
  BY <1>7, <1>9
<1>11. g[0] = 0 /\ g[n + 1] = m + 1
  BY <1>8, <1>10
<1>12. ASSUME NEW p \in 0 .. n + 1, NEW q \in 0 .. n + 1, p <= q PROVE g[p] <= g[q]
  <2>1. CASE q <= n
    BY <1>8, <1>10, <1>12, <2>1
  <2>2. CASE q > n
    <3>1. g[q] = m + 1 /\ g[p] \in 0 .. m + 1
      BY <1>10, <2>2
    <3>q. QED BY <3>1
  <2>q. QED BY <2>1, <2>2
<1>13. ASSUME NEW p \in 1 .. n + 1
       PROVE  /\ Acts(t[p]) => g[p] = g[p - 1] + 1 /\ d[g[p]] = ActionOf(t[p])
              /\ ~Acts(t[p]) => g[p] = g[p - 1]
  <2>1. CASE p <= n
    <3>1. p \in 1 .. n /\ p - 1 \in 0 .. n /\ p \in 0 .. n
      BY <2>1
    <3>2. g[p] = h[p] /\ g[p - 1] = h[p - 1] /\ t[p] = s[p] /\ h[p] \in 0 .. m /\ h[p - 1] \in 0 .. m
      BY <1>5, <1>7, <1>10, <3>1
    <3>3. /\ Acts(s[p]) => h[p] = h[p - 1] + 1 /\ b[h[p]] = ActionOf(s[p])
          /\ ~Acts(s[p]) => h[p] = h[p - 1]
      BY <1>8, <3>1
    <3>4. Acts(s[p]) => h[p] \in 1 .. m
      BY <3>2, <3>3
    <3>q. QED BY <1>6, <3>2, <3>3, <3>4
  <2>2. CASE p > n
    <3>1. p = n + 1 /\ p - 1 = n /\ n \in 0 .. n
      BY <2>2
    <3>2. t[p] = e /\ g[p] = m + 1 /\ g[p - 1] = m
      BY <1>5, <1>8, <1>10, <3>1
    <3>q. QED BY <1>6, <3>2
  <2>q. QED BY <2>1, <2>2
<1>14. Counts(d, t, g)
  BY <1>5, <1>6, <1>11, <1>12, <1>13 DEF Counts
<1>q. QED BY <1>3, <1>4, <1>5, <1>6, <1>10, <1>14 DEF Matches

\* The first event is handled: one that does not act,
LEMMA MatchSkip ==
    ASSUME NEW b \in Seq(Actions), NEW s \in Seq(Messages), s # <<>>, Matches(b, s), ~Acts(Head(s))
    PROVE  Matches(b, Tail(s))
<1>1. PICK m \in Nat : m = Len(b)
  BY LenProperties
<1>2. PICK n \in Nat : n = Len(s) /\ n >= 1
  BY EmptySeq
<1>3. PICK t : t = Tail(s)
  OBVIOUS
<1>4. Len(t) = n - 1 /\ (\A p \in 1 .. n - 1 : t[p] = s[p + 1]) /\ Head(s) = s[1]
  BY <1>2, <1>3, HeadTailProperties
<1>5. PICK h \in [0 .. n -> 0 .. m] : Counts(b, s, h)
  BY <1>1, <1>2 DEF Matches
<1>6. /\ h[0] = 0 /\ h[n] = m
      /\ \A p, q \in 0 .. n : p <= q => h[p] <= h[q]
      /\ \A p \in 1 .. n :
          /\ Acts(s[p]) => h[p] = h[p - 1] + 1 /\ b[h[p]] = ActionOf(s[p])
          /\ ~Acts(s[p]) => h[p] = h[p - 1]
  BY <1>1, <1>2, <1>5 DEF Counts
<1>7. h[1] = 0
  <2>1. 1 \in 1 .. n /\ 1 - 1 = 0
    BY <1>2
  <2>2. ~Acts(s[1])
    BY <1>4
  <2>3. h[1] = h[1 - 1]
    BY <1>6, <2>1, <2>2
  <2>q. QED BY <1>6, <2>1, <2>3
<1>8. PICK g : g = [p \in 0 .. n - 1 |-> h[p + 1]]
  OBVIOUS
<1>9. g \in [0 .. n - 1 -> 0 .. m] /\ (\A p \in 0 .. n - 1 : g[p] = h[p + 1])
  BY <1>2, <1>5, <1>8
<1>10. g[0] = 0 /\ g[n - 1] = m
  <2>1. 0 \in 0 .. n - 1 /\ n - 1 \in 0 .. n - 1 /\ 0 + 1 = 1 /\ (n - 1) + 1 = n
    BY <1>2
  <2>2. g[0] = h[0 + 1] /\ g[n - 1] = h[(n - 1) + 1]
    BY <1>9, <2>1
  <2>q. QED BY <1>6, <1>7, <2>1, <2>2
<1>11. \A p, q \in 0 .. n - 1 : p <= q => g[p] <= g[q]
  BY <1>2, <1>6, <1>9
<1>12. ASSUME NEW p \in 1 .. n - 1
       PROVE  /\ Acts(t[p]) => g[p] = g[p - 1] + 1 /\ b[g[p]] = ActionOf(t[p])
              /\ ~Acts(t[p]) => g[p] = g[p - 1]
  <2>1. p + 1 \in 1 .. n /\ p \in 0 .. n - 1 /\ p - 1 \in 0 .. n - 1 /\ (p - 1) + 1 = p /\ (p + 1) - 1 = p
    BY <1>2
  <2>2. g[p] = h[p + 1] /\ g[p - 1] = h[(p - 1) + 1] /\ t[p] = s[p + 1]
    BY <1>4, <1>9, <2>1
  <2>3. /\ Acts(s[p + 1]) => h[p + 1] = h[(p + 1) - 1] + 1 /\ b[h[p + 1]] = ActionOf(s[p + 1])
        /\ ~Acts(s[p + 1]) => h[p + 1] = h[(p + 1) - 1]
    BY <1>6, <2>1
  <2>q. QED BY <2>1, <2>2, <2>3
<1>13. Counts(b, t, g)
  BY <1>1, <1>4, <1>10, <1>11, <1>12 DEF Counts
<1>q. QED BY <1>1, <1>3, <1>4, <1>9, <1>13 DEF Matches

\* or one that does.
LEMMA MatchHead ==
    ASSUME NEW b \in Seq(Actions), NEW s \in Seq(Messages), s # <<>>, Matches(b, s), Acts(Head(s))
    PROVE  b # <<>> /\ Head(b) = ActionOf(Head(s)) /\ Matches(Tail(b), Tail(s))
<1>1. PICK m \in Nat : m = Len(b)
  BY LenProperties
<1>2. PICK n \in Nat : n = Len(s) /\ n >= 1
  BY EmptySeq
<1>3. PICK t : t = Tail(s)
  OBVIOUS
<1>4. Len(t) = n - 1 /\ (\A p \in 1 .. n - 1 : t[p] = s[p + 1]) /\ Head(s) = s[1]
  BY <1>2, <1>3, HeadTailProperties
<1>5. PICK h \in [0 .. n -> 0 .. m] : Counts(b, s, h)
  BY <1>1, <1>2 DEF Matches
<1>6. /\ h[0] = 0 /\ h[n] = m
      /\ \A p, q \in 0 .. n : p <= q => h[p] <= h[q]
      /\ \A p \in 1 .. n :
          /\ Acts(s[p]) => h[p] = h[p - 1] + 1 /\ b[h[p]] = ActionOf(s[p])
          /\ ~Acts(s[p]) => h[p] = h[p - 1]
  BY <1>1, <1>2, <1>5 DEF Counts
<1>7. h[1] = 1 /\ b[1] = ActionOf(Head(s))
  <2>1. 1 \in 1 .. n /\ 1 - 1 = 0
    BY <1>2
  <2>2. Acts(s[1])
    BY <1>4
  <2>3. h[1] = h[1 - 1] + 1 /\ b[h[1]] = ActionOf(s[1])
    BY <1>6, <2>1, <2>2
  <2>4. h[1] = 1
    BY <1>6, <2>1, <2>3
  <2>q. QED BY <1>4, <2>3, <2>4
<1>8. \A p \in 1 .. n : h[p] \in 1 .. m
  <2>1. ASSUME NEW p \in 1 .. n PROVE h[p] \in 1 .. m
    <3>1. 1 \in 0 .. n /\ p \in 0 .. n /\ 1 <= p
      BY <1>2
    <3>2. h[1] <= h[p] /\ h[p] \in 0 .. m
      BY <1>5, <1>6, <3>1
    <3>q. QED BY <1>7, <3>2
  <2>q. QED BY <2>1
<1>9. m >= 1
  <2>1. n \in 1 .. n
    BY <1>2
  <2>2. m \in 1 .. m
    BY <1>6, <1>8, <2>1
  <2>q. QED BY <2>2
<1>10. b # <<>>
  <2>1. Len(<<>>) = 0
    OBVIOUS
  <2>q. QED BY <1>1, <1>9, <2>1
<1>11. Head(b) = b[1]
  BY <1>10
<1>12. PICK d : d = Tail(b)
  OBVIOUS
<1>13. Len(d) = m - 1 /\ (\A p \in 1 .. m - 1 : d[p] = b[p + 1])
  BY <1>1, <1>10, <1>12, HeadTailProperties
<1>14. PICK g : g = [p \in 0 .. n - 1 |-> h[p + 1] - 1]
  OBVIOUS
<1>15. g \in [0 .. n - 1 -> 0 .. m - 1] /\ (\A p \in 0 .. n - 1 : g[p] = h[p + 1] - 1)
  BY <1>2, <1>8, <1>14
<1>16. g[0] = 0 /\ g[n - 1] = m - 1
  <2>1. 0 \in 0 .. n - 1 /\ n - 1 \in 0 .. n - 1 /\ 0 + 1 = 1 /\ (n - 1) + 1 = n
    BY <1>2
  <2>2. g[0] = h[0 + 1] - 1 /\ g[n - 1] = h[(n - 1) + 1] - 1
    BY <1>15, <2>1
  <2>q. QED BY <1>6, <1>7, <2>1, <2>2
<1>17. ASSUME NEW p \in 0 .. n - 1, NEW q \in 0 .. n - 1, p <= q PROVE g[p] <= g[q]
  <2>1. p + 1 \in 1 .. n /\ q + 1 \in 1 .. n /\ p + 1 <= q + 1 /\ p + 1 \in 0 .. n /\ q + 1 \in 0 .. n
    BY <1>2, <1>17
  <2>2. h[p + 1] <= h[q + 1] /\ h[p + 1] \in Nat /\ h[q + 1] \in Nat
    BY <1>6, <1>8, <2>1
  <2>3. g[p] = h[p + 1] - 1 /\ g[q] = h[q + 1] - 1
    BY <1>15
  <2>q. QED BY <2>2, <2>3
<1>18. ASSUME NEW p \in 1 .. n - 1
       PROVE  /\ Acts(t[p]) => g[p] = g[p - 1] + 1 /\ d[g[p]] = ActionOf(t[p])
              /\ ~Acts(t[p]) => g[p] = g[p - 1]
  <2>1. p + 1 \in 1 .. n /\ p \in 1 .. n /\ p \in 0 .. n - 1 /\ p - 1 \in 0 .. n - 1 /\ (p - 1) + 1 = p
        /\ (p + 1) - 1 = p
    BY <1>2
  <2>2. g[p] = h[p + 1] - 1 /\ g[p - 1] = h[p] - 1 /\ t[p] = s[p + 1]
    BY <1>4, <1>15, <2>1
  <2>3. /\ Acts(s[p + 1]) => h[p + 1] = h[p] + 1 /\ b[h[p + 1]] = ActionOf(s[p + 1])
        /\ ~Acts(s[p + 1]) => h[p + 1] = h[p]
    BY <1>6, <2>1
  <2>4. h[p] \in 1 .. m /\ h[p + 1] \in 1 .. m
    BY <1>8, <2>1
  <2>5. Acts(s[p + 1]) => g[p] \in 1 .. m - 1 /\ g[p] + 1 = h[p + 1]
    BY <2>2, <2>3, <2>4
  <2>6. Acts(s[p + 1]) => d[g[p]] = b[h[p + 1]]
    BY <1>13, <2>5
  <2>7. Acts(s[p + 1]) => g[p] = g[p - 1] + 1
    BY <2>2, <2>3, <2>4
  <2>q. QED BY <2>2, <2>3, <2>6, <2>7
<1>19. Counts(d, t, g)
  BY <1>4, <1>13, <1>16, <1>17, <1>18 DEF Counts
<1>20. Matches(d, t)
  BY <1>4, <1>13, <1>15, <1>19 DEF Matches
<1>q. QED BY <1>3, <1>7, <1>10, <1>11, <1>12, <1>20

\* What is owed: the actions of the events on their way, and then the action
\* of the gesture that the finger is still making.
Rest == IF Pending /\ Due(finger.goal) # NoAction THEN <<Due(finger.goal)>> ELSE <<>>
InOrder == lost = "no" => ~wrong /\ \E b \in Seq(Actions) : owed = b \o Rest /\ Matches(b, Way)
OInv == GInv /\ InOrder

\* Only gestures act.
LEMMA OnlyGestures ==
    ASSUME NEW e, e \notin Gestures
    PROVE  ~Acts(e)
BY DEF Acts, ActionOf, Gestures, Configured

\* What is on its way are messages.
LEMMA WayIs ==
    ASSUME Typed
    PROVE  Way \in Seq(Messages) /\ mail \in Seq(Messages)
           /\ (thread.at = "handling" => Way = <<thread.msg>> \o mail) /\ (thread.at = "idle" => Way = mail)
<1>1. mail \in Seq(KeyMessages) /\ thread.at \in {"idle", "handling"} /\ thread.msg \in Messages
  BY Fields DEF Messages
<1>2. mail \in Seq(Messages)
  BY <1>1, SeqMonotonic DEF Messages
<1>3. CASE thread.at = "handling"
  <2>1. Way = <<thread.msg>> \o mail
    BY <1>3 DEF Way
  <2>2. <<thread.msg>> \in Seq(Messages)
    BY <1>1
  <2>3. <<thread.msg>> \o mail \in Seq(Messages)
    BY <1>2, <2>2, ConcatProperties
  <2>q. QED BY <1>2, <1>3, <2>1, <2>3
<1>4. CASE thread.at = "idle"
  <2>1. Way = <<>> \o mail
    BY <1>4 DEF Way
  <2>2. Way = mail
    BY <1>2, <2>1, ConcatEmptySeq
  <2>q. QED BY <1>2, <1>4, <2>2
<1>q. QED BY <1>1, <1>3, <1>4

\* Due is an action.
LEMMA DueIs ==
    ASSUME NEW g \in {"hold"} \cup Gestures
    PROVE  /\ EventOf(g) \in Gestures /\ EventOf(g) \in Messages /\ Due(g) = ActionOf(EventOf(g))
           /\ Due(g) \in Actions
<1>1. EventOf(g) \in Gestures
  BY DEF EventOf, Gestures
<1>2. EventOf(g) \in Messages
  BY <1>1 DEF Messages, KeyMessages
<1>3. Due(g) = ActionOf(EventOf(g))
  BY DEF Due, EventOf
<1>q. QED BY <1>1, <1>2, <1>3 DEF Actions

\* Steps that leave what is owed and what is on its way alone.
LEMMA SameOrder ==
    ASSUME InOrder, Pending' = Pending, finger'.goal = finger.goal, owed' = owed, wrong' = wrong,
           lost' = lost, Way' = Way
    PROVE  InOrder'
<1>1. Rest' = Rest
  BY DEF Rest, Due, ActionOf
<1>2. SUFFICES ASSUME lost' = "no" PROVE ~wrong' /\ \E b \in Seq(Actions) : owed' = b \o Rest' /\ Matches(b, Way)'
  BY DEF InOrder, Actions, Messages, KeyMessages
<1>3. PICK b \in Seq(Actions) : owed = b \o Rest /\ Matches(b, Way)
  BY <1>2 DEF InOrder
<1>4. ~wrong
  BY <1>2 DEF InOrder
<1>q. QED BY <1>1, <1>3, <1>4

\* The head of two sequences put together.
LEMMA FirstOf ==
    ASSUME NEW b \in Seq(Actions), NEW r \in Seq(Actions), b # <<>>
    PROVE  /\ b \o r # <<>> /\ Head(b \o r) = Head(b) /\ Tail(b \o r) = Tail(b) \o r
           /\ Tail(b) \in Seq(Actions)
<1>1. PICK m \in Nat : m = Len(b) /\ m >= 1
  BY EmptySeq
<1>2. PICK k \in Nat : k = Len(r)
  BY LenProperties
<1>3. PICK t : t = b \o r
  OBVIOUS
<1>4. t \in Seq(Actions) /\ Len(t) = m + k /\ \A i \in 1 .. m + k : t[i] = IF i <= m THEN b[i] ELSE r[i - m]
  BY <1>1, <1>2, <1>3, ConcatProperties
<1>5. t # <<>>
  <2>1. Len(<<>>) = 0
    OBVIOUS
  <2>q. QED BY <1>1, <1>4, <2>1
<1>6. Head(t) = t[1] /\ Head(b) = b[1]
  BY <1>4, <1>5
<1>7. t[1] = b[1]
  BY <1>1, <1>4
<1>8. PICK u : u = Tail(t)
  OBVIOUS
<1>9. PICK d : d = Tail(b)
  OBVIOUS
<1>10. u \in Seq(Actions) /\ Len(u) = (m + k) - 1 /\ \A i \in 1 .. (m + k) - 1 : u[i] = t[i + 1]
  BY <1>4, <1>5, <1>8, HeadTailProperties
<1>11. d \in Seq(Actions) /\ Len(d) = m - 1 /\ \A i \in 1 .. m - 1 : d[i] = b[i + 1]
  BY <1>1, <1>9, HeadTailProperties
<1>12. PICK v : v = d \o r
  OBVIOUS
<1>13. v \in Seq(Actions) /\ Len(v) = (m - 1) + k
       /\ \A i \in 1 .. (m - 1) + k : v[i] = IF i <= m - 1 THEN d[i] ELSE r[i - (m - 1)]
  <2>0. m - 1 \in Nat /\ Len(d) = m - 1
    BY <1>1, <1>11
  <2>1. PICK l \in Nat : l = Len(d) /\ l = m - 1
    BY <2>0
  <2>2. v \in Seq(Actions) /\ Len(v) = l + k
        /\ \A i \in 1 .. l + k : v[i] = IF i <= l THEN d[i] ELSE r[i - l]
    <3>1. d \in Seq(Actions)
      BY <1>11
    <3>2. d \o r \in Seq(Actions) /\ Len(d \o r) = Len(d) + Len(r)
          /\ \A i \in 1 .. Len(d) + Len(r) : (d \o r)[i] = IF i <= Len(d) THEN d[i] ELSE r[i - Len(d)]
      BY <3>1, ConcatProperties
    <3>q. QED BY <1>2, <1>12, <2>1, <3>2
  <2>q. QED BY <2>1, <2>2
<1>14. Len(u) = Len(v)
  BY <1>1, <1>2, <1>10, <1>13
<1>15. ASSUME NEW i \in 1 .. (m + k) - 1 PROVE u[i] = v[i]
  <2>1. i \in 1 .. (m - 1) + k /\ i + 1 \in 1 .. m + k /\ u[i] = t[i + 1]
    BY <1>1, <1>2, <1>10
  <2>2. CASE i <= m - 1
    <3>1. i + 1 <= m /\ i \in 1 .. m - 1
      BY <1>1, <2>2
    <3>2. t[i + 1] = b[i + 1] /\ v[i] = d[i] /\ d[i] = b[i + 1]
      BY <1>4, <1>11, <1>13, <2>1, <2>2, <3>1
    <3>q. QED BY <2>1, <3>2
  <2>3. CASE i > m - 1
    <3>1. ~(i + 1 <= m) /\ ~(i <= m - 1) /\ (i + 1) - m = i - (m - 1)
      BY <1>1, <2>3
    <3>2. t[i + 1] = r[(i + 1) - m] /\ v[i] = r[i - (m - 1)]
      BY <1>4, <1>13, <2>1, <3>1
    <3>q. QED BY <2>1, <3>1, <3>2
  <2>q. QED BY <1>1, <2>2, <2>3
<1>16. u = v
  BY <1>10, <1>13, <1>14, <1>15, SeqEqual
<1>q. QED BY <1>3, <1>5, <1>6, <1>7, <1>8, <1>9, <1>11, <1>12, <1>16

\* A step ends with what is owed in order.
LEMMA OrderBy ==
    ASSUME NEW b \in Seq(Actions), owed' = b \o Rest', Matches(b, Way'), ~wrong'
    PROVE  InOrder'
BY DEF InOrder

\* The thread takes an event from the mailbox, which stays on its way.
LEMMA GetOrder ==
    ASSUME OInv, Get
    PROVE  InOrder'
<1>0. Typed /\ Phase /\ InOrder
  BY DEF OInv, GInv, IInv
<1>1. /\ thread.at = "idle" /\ mail # <<>> /\ thread'.at = "handling" /\ thread'.msg = Head(mail)
      /\ mail' = Tail(mail) /\ owed' = owed /\ wrong' = wrong /\ lost' = lost
  BY DEF Get
<1>2. Pending' = Pending /\ finger' = finger
  BY <1>0, ThreadPhase DEF AppThread
<1>3. Way = mail /\ mail \in Seq(Messages)
  BY <1>0, <1>1, WayIs
<1>4. Way' = <<Head(mail)>> \o Tail(mail)
  BY <1>1 DEF Way
<1>5. <<Head(mail)>> \o Tail(mail) = mail
  <2>1. Len(mail) \in Nat /\ Len(mail) >= 1 /\ Head(mail) \in Messages /\ Tail(mail) \in Seq(Messages)
        /\ Len(Tail(mail)) = Len(mail) - 1
        /\ (\A i \in 1 .. Len(Tail(mail)) : Tail(mail)[i] = mail[i + 1]) /\ Head(mail) = mail[1]
    BY <1>1, <1>3, HeadTailProperties, EmptySeq
  <2>2. <<Head(mail)>> \in Seq(Messages) /\ Len(<<Head(mail)>>) = 1 /\ <<Head(mail)>>[1] = Head(mail)
    BY <2>1
  <2>3. PICK t : t = <<Head(mail)>> \o Tail(mail)
    OBVIOUS
  <2>4. PICK n \in Nat : n = Len(mail) /\ n >= 1
    BY <2>1
  <2>5. t \in Seq(Messages) /\ Len(t) = 1 + (n - 1)
        /\ \A i \in 1 .. 1 + (n - 1) : t[i] = IF i <= 1 THEN <<Head(mail)>>[i] ELSE Tail(mail)[i - 1]
    BY <2>1, <2>2, <2>3, <2>4, ConcatProperties
  <2>6. ASSUME NEW i \in 1 .. n PROVE t[i] = mail[i]
    <3>1. CASE i = 1
      BY <2>1, <2>2, <2>4, <2>5, <3>1
    <3>2. CASE i # 1
      <4>1. i \in 1 .. 1 + (n - 1) /\ ~(i <= 1) /\ i - 1 \in 1 .. n - 1 /\ (i - 1) + 1 = i
        BY <2>4, <3>2
      <4>2. t[i] = Tail(mail)[i - 1]
        BY <2>5, <4>1
      <4>3. Tail(mail)[i - 1] = mail[(i - 1) + 1]
        BY <2>1, <2>4, <4>1
      <4>q. QED BY <4>1, <4>2, <4>3
    <3>q. QED BY <3>1, <3>2
  <2>7. Len(t) = Len(mail)
    BY <2>4, <2>5
  <2>8. t = mail
    BY <1>3, <2>4, <2>5, <2>6, <2>7, SeqEqual
  <2>q. QED BY <2>3, <2>8
<1>q. QED BY <1>0, <1>1, <1>2, <1>3, <1>4, <1>5, SameOrder

\* The thread handles an event: the next action that is owed.
LEMMA HandleOrder ==
    ASSUME OInv, HandleProcess
    PROVE  InOrder'
<1>0. Typed /\ Typed' /\ Phase /\ InOrder
  <2>1. IInv'
    BY StepIInv DEF OInv, GInv, Next, AppThread
  <2>q. QED BY <2>1 DEF OInv, GInv, IInv
<1>1. /\ thread.at = "handling" /\ thread'.at = "idle" /\ mail' = mail /\ lost' = lost
  BY DEF HandleProcess
<1>2. Pending' = Pending /\ finger' = finger
  BY <1>0, ThreadPhase DEF AppThread
<1>3. Rest' = Rest
  BY <1>2 DEF Rest, Due, ActionOf
<1>4. Way = <<thread.msg>> \o mail /\ mail \in Seq(Messages) /\ Way \in Seq(Messages)
  BY <1>0, <1>1, WayIs
<1>5. Way' = mail
  <2>1. Way' = mail'
    <3>1. thread'.at = "idle" => Way' = <<>> \o mail'
      BY DEF Way
    <3>2. mail' \in Seq(Messages)
      BY <1>1, <1>4
    <3>q. QED BY <1>1, <3>1, <3>2, ConcatEmptySeq
  <2>q. QED BY <1>1, <2>1
<1>6. Way # <<>> /\ Head(Way) = thread.msg /\ Tail(Way) = mail
  <2>0. thread.msg \in Messages
    BY <1>0, Fields DEF Messages
  <2>1. <<thread.msg>> \in Seq(Messages) /\ Len(<<thread.msg>>) = 1 /\ <<thread.msg>>[1] = thread.msg
    BY <2>0
  <2>2. PICK n \in Nat : n = Len(mail)
    BY <1>4, LenProperties
  <2>3. Len(Way) = 1 + n
        /\ \A i \in 1 .. 1 + n : Way[i] = IF i <= 1 THEN <<thread.msg>>[i] ELSE mail[i - 1]
    BY <1>4, <2>1, <2>2, ConcatProperties
  <2>4. Way # <<>>
    <3>1. Len(<<>>) = 0
      OBVIOUS
    <3>q. QED BY <2>2, <2>3, <3>1
  <2>5. Head(Way) = Way[1]
    BY <1>4, <2>4
  <2>6. Way[1] = thread.msg
    BY <2>1, <2>2, <2>3
  <2>7. PICK t : t = Tail(Way)
    OBVIOUS
  <2>8. t \in Seq(Messages) /\ Len(t) = Len(Way) - 1 /\ \A i \in 1 .. Len(t) : t[i] = Way[i + 1]
    BY <1>4, <2>4, <2>7, HeadTailProperties
  <2>9. Len(t) = n
    BY <2>2, <2>3, <2>8
  <2>10. ASSUME NEW i \in 1 .. n PROVE t[i] = mail[i]
    <3>1. i + 1 \in 1 .. 1 + n /\ ~(i + 1 <= 1) /\ (i + 1) - 1 = i
      BY <2>2
    <3>2. Way[i + 1] = mail[(i + 1) - 1]
      BY <2>3, <3>1
    <3>q. QED BY <2>8, <2>9, <3>1, <3>2
  <2>11. t = mail
    BY <1>4, <2>2, <2>8, <2>9, <2>10, SeqEqual
  <2>q. QED BY <2>4, <2>5, <2>6, <2>7, <2>11
<1>7. SUFFICES ASSUME lost = "no" PROVE InOrder'
  BY <1>1 DEF InOrder
<1>8. PICK b \in Seq(Actions) : owed = b \o Rest /\ Matches(b, Way)
  BY <1>0, <1>7 DEF InOrder
<1>9. ~wrong
  BY <1>0, <1>7 DEF InOrder
<1>10. Rest \in Seq(Actions)
  <2>1. CASE Pending /\ Due(finger.goal) # NoAction
    <3>1. finger.goal \in {"hold"} \cup Gestures
      BY <2>1 DEF Pending, Tapping
    <3>2. Due(finger.goal) \in Actions
      BY <3>1, DueIs
    <3>q. QED BY <2>1, <3>2 DEF Rest
  <2>2. CASE ~(Pending /\ Due(finger.goal) # NoAction)
    BY <2>2 DEF Rest
  <2>q. QED BY <2>1, <2>2
<1>11. CASE ~Acts(thread.msg)
  <2>1. owed' = owed /\ ~wrong'
    BY <1>7, <1>9, <1>11 DEF HandleProcess, Acts
  <2>2. Matches(b, Way')
    BY <1>4, <1>5, <1>6, <1>8, <1>11, MatchSkip
  <2>q. QED BY <1>3, <1>8, <1>9, <2>1, <2>2, OrderBy
<1>12. CASE Acts(thread.msg)
  <2>1. b # <<>> /\ Head(b) = ActionOf(thread.msg) /\ Matches(Tail(b), Way')
    BY <1>4, <1>5, <1>6, <1>8, <1>12, MatchHead
  <2>2. owed # <<>> /\ Head(owed) = Head(b) /\ Tail(owed) = Tail(b) \o Rest /\ Tail(b) \in Seq(Actions)
    BY <1>8, <1>10, <2>1, FirstOf
  <2>3. owed' = Tail(owed)
    BY <1>7, <1>12, <2>2 DEF HandleProcess, Acts
  <2>4. ~wrong'
    BY <1>7, <1>9, <1>12, <2>1, <2>2 DEF HandleProcess, Acts
  <2>q. QED BY <1>3, <2>1, <2>2, <2>3, <2>4, OrderBy
<1>q. QED BY <1>11, <1>12

\* The events that fit are the first ones, and a gesture is not dropped
\* unnoticed.
LEMMA HandlerMail ==
    ASSUME Typed, DebounceHandler, NEW c \in KeyStatus, c = Classify(key, timer.down), lost' = "no"
    PROVE  \E n \in 0 .. Len(c.out) :
              /\ mail' = mail \o SubSeq(c.out, 1, n)
              /\ \A i \in n + 1 .. Len(c.out) : c.out[i] \notin Gestures
              /\ lost = "no" /\ owed' = owed
<1>1. PICK l \in Nat : l = Len(c.out)
  BY LenProperties DEF KeyStatus
<1>2. PICK n : n = Room(l)
  OBVIOUS
<1>3. n \in 0 .. l
  <2>1. cnt \in Nat /\ CntLimit \in Nat
    <3>1. cnt \in 0 .. 255
      BY DEF Typed
    <3>q. QED BY <3>1, Ranges
  <2>q. QED BY <1>1, <1>2, <2>1 DEF Room
<1>4. /\ mail' = mail \o SubSeq(c.out, 1, n)
      /\ lost' = IF {c.out[i] : i \in n + 1 .. l} \cap Gestures # {} THEN "last" ELSE lost
      /\ owed' = IF lost' = "no" THEN owed ELSE <<>>
  BY <1>1, <1>2 DEF DebounceHandler
<1>5. {c.out[i] : i \in n + 1 .. l} \cap Gestures = {} /\ lost = "no" /\ owed' = owed
  BY <1>4
<1>6. \A i \in n + 1 .. l : c.out[i] \notin Gestures
  BY <1>5
<1>q. QED BY <1>1, <1>3, <1>4, <1>5, <1>6

\* The handler sends the event of a gesture that is complete.
LEMMA HandlerOrder ==
    ASSUME OInv, DebounceHandler
    PROVE  InOrder'
<1>0. Typed /\ GInv /\ InOrder /\ key \in KeyStatus /\ timer.down \in BOOLEAN
  BY Fields DEF OInv, GInv, IInv
<1>1. PICK c \in KeyStatus : c = Classify(key, timer.down)
  BY <1>0, ClassifyIs
<1>2. Tells(c) /\ finger' = finger /\ thread' = thread /\ wrong' = wrong
  BY <1>0, <1>1, HandlerPhase, HandlerFields
<1>3. SUFFICES ASSUME lost' = "no" PROVE InOrder'
  BY DEF InOrder
<1>4. PICK n \in 0 .. Len(c.out) :
         /\ mail' = mail \o SubSeq(c.out, 1, n)
         /\ \A i \in n + 1 .. Len(c.out) : c.out[i] \notin Gestures
         /\ lost = "no" /\ owed' = owed
  BY <1>0, <1>1, <1>3, HandlerMail
<1>5. PICK b \in Seq(Actions) : owed = b \o Rest /\ Matches(b, Way)
  BY <1>0, <1>4 DEF InOrder
<1>6. ~wrong'
  BY <1>0, <1>2, <1>4 DEF InOrder
<1>7. PICK u : u = SubSeq(c.out, 1, n)
  OBVIOUS
<1>8. c.out \in Seq(Messages)
  <2>1. c.out \in Seq(KeyMessages)
    BY DEF KeyStatus
  <2>q. QED BY <2>1, SeqMonotonic DEF Messages
<1>9. PICK l \in Nat : l = Len(c.out) /\ n \in 0 .. l
  BY <1>8, LenProperties
<1>10. u \in Seq(Messages) /\ Len(u) = n /\ \A i \in 1 .. n : u[i] = c.out[i]
  <2>1. \A i \in 1 .. n : c.out[i] \in Messages
    BY <1>8, <1>9, ElementOfSeq
  <2>2. /\ SubSeq(c.out, 1, n) \in Seq(Messages)
        /\ Len(SubSeq(c.out, 1, n)) = IF 1 <= n THEN n - 1 + 1 ELSE 0
        /\ \A i \in 1 .. n - 1 + 1 : SubSeq(c.out, 1, n)[i] = c.out[1 + i - 1]
    BY <1>9, <2>1, SubSeqProperties
  <2>q. QED BY <1>7, <1>9, <2>2
<1>11. Way \in Seq(Messages) /\ mail \in Seq(Messages)
       /\ (thread.at = "handling" => Way = <<thread.msg>> \o mail) /\ (thread.at = "idle" => Way = mail)
       /\ thread.at \in {"idle", "handling"} /\ thread.msg \in Messages
  BY <1>0, WayIs, Fields DEF Messages
<1>12. Way' = Way \o u
  <2>1. mail' = mail \o u /\ mail \o u \in Seq(Messages)
    BY <1>4, <1>7, <1>10, <1>11, ConcatProperties
  <2>2. CASE thread.at = "idle"
    <3>1. Way' = <<>> \o mail'
      BY <1>2, <2>2 DEF Way
    <3>2. Way' = mail \o u
      BY <2>1, <3>1, ConcatEmptySeq
    <3>q. QED BY <1>11, <2>2, <3>2
  <2>3. CASE thread.at = "handling"
    <3>1. Way' = <<thread.msg>> \o (mail \o u)
      BY <1>2, <2>1, <2>3 DEF Way
    <3>2. <<thread.msg>> \in Seq(Messages)
      BY <1>11
    <3>3. (<<thread.msg>> \o mail) \o u = <<thread.msg>> \o (mail \o u)
      BY <1>10, <1>11, <3>2, ConcatAssociative
    <3>q. QED BY <1>11, <2>3, <3>1, <3>3
  <2>q. QED BY <1>11, <2>2, <2>3
<1>13. CASE Pending' = Pending /\ Plain(c.out)
  <2>1. \A i \in 1 .. Len(u) : ~Acts(u[i])
    <3>1. \A i \in 1 .. n : c.out[i] \notin Gestures
      BY <1>9, <1>13 DEF Plain
    <3>q. QED BY <1>10, <3>1, OnlyGestures
  <2>2. Matches(b, Way')
    BY <1>5, <1>10, <1>11, <1>12, <2>1, MatchPlain
  <2>3. Rest' = Rest
    BY <1>2, <1>13 DEF Rest, Due, ActionOf
  <2>q. QED BY <1>4, <1>5, <1>6, <2>2, <2>3, OrderBy
<1>14. CASE Pending /\ ~Pending' /\ Emits(c.out, EventOf(finger.goal))
  <2>0. PICK e : e = EventOf(finger.goal)
    OBVIOUS
  <2>1. finger.goal \in {"hold"} \cup Gestures
    BY <1>14 DEF Pending, Tapping
  <2>2. e \in Gestures /\ e \in Messages /\ Due(finger.goal) = ActionOf(e) /\ Due(finger.goal) \in Actions
    BY <2>0, <2>1, DueIs
  <2>3. c.out = <<e>> \/ c.out = <<"UP", e>>
    BY <1>14, <2>0 DEF Emits
  <2>4. l >= 1 /\ c.out[l] = e
    <3>1. CASE c.out = <<e>>
      BY <1>9, <3>1
    <3>2. CASE c.out = <<"UP", e>>
      <4>1. Len(<<"UP", e>>) = 2 /\ <<"UP", e>>[2] = e
        OBVIOUS
      <4>q. QED BY <1>9, <3>2, <4>1
    <3>q. QED BY <2>3, <3>1, <3>2
  <2>5. n = l
    <3>1. n # l => l \in n + 1 .. l
      BY <1>9, <2>4
    <3>2. l \notin n + 1 .. l
      BY <1>4, <1>9, <2>2, <2>4
    <3>q. QED BY <3>1, <3>2
  <2>6. u = c.out
    BY <1>7, <1>8, <1>9, <2>5, SubSeqFull
  <2>7. Rest' = <<>>
    BY <1>14 DEF Rest
  <2>8. PICK s \in Seq(Messages) : Matches(b, s) /\ Way' = s \o <<e>>
    <3>1. CASE c.out = <<e>>
      BY <1>5, <1>11, <1>12, <2>6, <3>1
    <3>2. CASE c.out = <<"UP", e>>
      <4>1. "UP" \in Messages /\ "UP" \notin Gestures
        BY DEF Messages, KeyMessages, Gestures
      <4>2. <<"UP">> \in Seq(Messages) /\ <<e>> \in Seq(Messages) /\ Len(<<"UP">>) = 1 /\ <<"UP">>[1] = "UP"
        BY <2>2, <4>1
      <4>3. \A i \in 1 .. Len(<<"UP">>) : ~Acts(<<"UP">>[i])
        <5>1. ~Acts("UP")
          BY <4>1, OnlyGestures
        <5>q. QED BY <4>2, <5>1
      <4>4. Matches(b, Way \o <<"UP">>) /\ Way \o <<"UP">> \in Seq(Messages)
        BY <1>5, <1>11, <4>2, <4>3, MatchPlain, ConcatProperties
      <4>5. <<"UP", e>> = <<"UP">> \o <<e>>
        <5>1. Append(<<"UP">>, e) = <<"UP", e>>
          BY <2>2, OneTwo DEF KeyMessages
        <5>2. Append(<<"UP">>, e) = <<"UP">> \o <<e>>
          BY <2>2, <4>2, AppendIsConcat
        <5>q. QED BY <5>1, <5>2
      <4>6. (Way \o <<"UP">>) \o <<e>> = Way \o (<<"UP">> \o <<e>>)
        BY <1>11, <4>2, ConcatAssociative
      <4>7. Way' = (Way \o <<"UP">>) \o <<e>>
        BY <1>12, <2>6, <3>2, <4>5, <4>6
      <4>q. QED BY <4>4, <4>7
    <3>q. QED BY <2>3, <3>1, <3>2
  <2>9. CASE Acts(e)
    <3>1. Rest = <<ActionOf(e)>>
      BY <1>14, <2>2, <2>9 DEF Rest, Acts
    <3>2. PICK d : d = b \o <<ActionOf(e)>>
      OBVIOUS
    <3>3. <<ActionOf(e)>> \in Seq(Actions)
      BY <2>2
    <3>4. d \in Seq(Actions) /\ d \o <<>> = d
      BY <3>2, <3>3, ConcatProperties, ConcatEmptySeq
    <3>5. owed' = d \o Rest'
      BY <1>4, <1>5, <2>7, <3>1, <3>2, <3>4
    <3>6. Matches(d, Way')
      BY <2>2, <2>8, <2>9, <3>2, MatchAppend
    <3>q. QED BY <1>6, <3>4, <3>5, <3>6, OrderBy
  <2>10. CASE ~Acts(e)
    <3>1. Rest = <<>>
      BY <2>2, <2>10 DEF Rest, Acts
    <3>2. <<e>> \in Seq(Messages) /\ Len(<<e>>) = 1 /\ <<e>>[1] = e
      BY <2>2
    <3>3. Matches(b, Way')
      <4>1. \A i \in 1 .. Len(<<e>>) : ~Acts(<<e>>[i])
        BY <2>10, <3>2
      <4>q. QED BY <2>8, <3>2, <4>1, MatchPlain
    <3>q. QED BY <1>4, <1>5, <1>6, <2>7, <3>1, <3>3, OrderBy
  <2>q. QED BY <2>9, <2>10
<1>q. QED BY <1>2, <1>13, <1>14 DEF Tells

\* The finger: what is owed grows when a gesture begins.
LEMMA BeginOrder ==
    ASSUME OInv, Timings, ~Hurried, NEW g \in {"hold"} \cup {Clicks[i] : i \in DOMAIN Clicks},
           BeginGesture(g)
    PROVE  InOrder'
<1>0. Typed /\ GInv /\ InOrder
  BY DEF OInv, GInv, IInv
<1>1. ~Pending /\ Pending' /\ finger'.goal = g
  BY <1>0, BeginPhase
<1>2. /\ finger.age > DoubleClick + 1 /\ lost' = (IF lost = "last" THEN "earlier" ELSE lost)
      /\ mail' = mail /\ thread' = thread /\ wrong' = wrong
  BY <1>0, BeginFields
<1>3. owed' = IF Due(g) = NoAction \/ lost # "no" THEN owed ELSE Append(owed, Due(g))
  BY <1>2 DEF BeginGesture, Paused, Due
<1>4. SUFFICES ASSUME lost = "no" PROVE InOrder'
  BY <1>2 DEF InOrder
<1>5. PICK b \in Seq(Actions) : owed = b \o Rest /\ Matches(b, Way)
  BY <1>0, <1>4 DEF InOrder
<1>6. ~wrong'
  BY <1>0, <1>2, <1>4 DEF InOrder
<1>7. owed = b
  <2>1. Rest = <<>>
    BY <1>1 DEF Rest
  <2>q. QED BY <1>5, <2>1, ConcatEmptySeq
<1>8. Matches(b, Way')
  BY <1>2, <1>5 DEF Way
<1>9. Rest' = IF Due(g) # NoAction THEN <<Due(g)>> ELSE <<>>
  BY <1>1 DEF Rest, Due
<1>10. owed' = b \o Rest'
  <2>1. g \in {"hold"} \cup Gestures
    <3>1. ASSUME NEW i \in DOMAIN Clicks PROVE Clicks[i] \in Gestures
      <4>1. i - 1 \in 0 .. 4 /\ (i - 1) + 1 = i
        BY FiveClicks
      <4>q. QED BY <4>1, FiveClicks
    <3>q. QED BY <3>1
  <2>2. Due(g) \in Actions
    BY <2>1, DueIs
  <2>3. CASE Due(g) = NoAction
    BY <1>3, <1>4, <1>7, <1>9, <2>3, ConcatEmptySeq
  <2>4. CASE Due(g) # NoAction
    BY <1>3, <1>4, <1>7, <1>9, <2>2, <2>4, AppendIsConcat
  <2>q. QED BY <2>3, <2>4
<1>q. QED BY <1>6, <1>8, <1>10, OrderBy

\* Every step keeps what is owed in order.
LEMMA StepOrder ==
    ASSUME OInv, [Next]_vars, ~Hurried, Timings
    PROVE  InOrder'
<1>0. Typed /\ GInv /\ InOrder /\ Phase
  BY DEF OInv, GInv, IInv
<1>1. ASSUME Pending' = Pending, finger'.goal = finger.goal, mail' = mail, thread' = thread,
             owed' = owed, wrong' = wrong, lost' = lost
      PROVE  InOrder'
  <2>1. Way' = Way
    BY <1>1 DEF Way
  <2>q. QED BY <1>0, <1>1, <2>1, SameOrder
<1>2. CASE UNCHANGED vars
  BY <1>0, <1>1, <1>2, ThreadPhase DEF vars
<1>3. CASE Sample
  <2>1. mail' = mail /\ thread' = thread /\ owed' = owed /\ wrong' = wrong /\ lost' = lost
    BY <1>0, <1>3, SampleTime
  <2>2. Pending' = Pending /\ finger'.goal = finger.goal
    BY <1>0, <1>3, SamplePhase
  <2>q. QED BY <1>1, <2>1, <2>2
<1>4. CASE Pass
  <2>1. mail' = mail /\ thread' = thread /\ owed' = owed /\ wrong' = wrong /\ lost' = lost
    BY <1>0, <1>4, PassFields
  <2>2. Pending' = Pending /\ finger'.goal = finger.goal
    BY <1>0, <1>4, PassPhase
  <2>q. QED BY <1>1, <2>1, <2>2
<1>5. CASE TapAgain
  <2>1. mail' = mail /\ thread' = thread /\ owed' = owed /\ wrong' = wrong /\ lost' = lost
    BY <1>0, <1>5, AgainFields
  <2>2. Pending /\ Pending' /\ finger'.goal = finger.goal
    BY <1>0, <1>5, AgainPhase
  <2>3. Pending' = Pending
    BY <2>2 DEF Pending
  <2>q. QED BY <1>1, <2>1, <2>2, <2>3
<1>6. CASE Lift
  <2>1. mail' = mail /\ thread' = thread /\ owed' = owed /\ wrong' = wrong /\ lost' = lost
    BY <1>0, <1>6, LiftFields
  <2>2. Pending' = Pending /\ finger'.goal = finger.goal
    BY <1>0, <1>6, LiftPhase
  <2>q. QED BY <1>1, <2>1, <2>2
<1>7. CASE Glitch
  <2>1. mail' = mail /\ thread' = thread /\ owed' = owed /\ wrong' = wrong /\ lost' = lost
    BY <1>0, <1>7, GlitchFields
  <2>2. ~Pending /\ ~Pending'
    BY <1>0, <1>7, GlitchPhase
  <2>3. Rest' = <<>> /\ Rest = <<>> /\ Way' = Way
    BY <2>1, <2>2 DEF Rest, Way
  <2>4. SUFFICES ASSUME lost = "no" PROVE InOrder'
    BY <2>1 DEF InOrder
  <2>5. PICK b \in Seq(Actions) : owed = b \o Rest /\ Matches(b, Way)
    BY <1>0, <2>4 DEF InOrder
  <2>6. ~wrong'
    BY <1>0, <2>1, <2>4 DEF InOrder
  <2>q. QED BY <2>1, <2>3, <2>5, <2>6, OrderBy
<1>q. QED BY <1>2, <1>3, <1>4, <1>5, <1>6, <1>7, GetOrder, HandleOrder, HandlerOrder, BeginOrder
          DEF Next, Interrupt, AppThread, Finger, Whims

\* At first nothing is owed.
LEMMA InitOrder ==
    ASSUME Init
    PROVE  InOrder
<1>1. owed = <<>> /\ ~wrong /\ thread.at = "idle" /\ mail = <<>>
  BY DEF Init
<1>2. Rest = <<>>
  BY InitPhase DEF Rest
<1>3. Way = <<>>
  BY <1>1 DEF Way
<1>4. <<>> \in Seq(Actions)
  OBVIOUS
<1>5. Matches(<<>>, Way)
  BY <1>3, <1>4, MatchEmpty
<1>6. owed = <<>> \o Rest
  BY <1>1, <1>2
<1>q. QED BY <1>1, <1>4, <1>5, <1>6 DEF InOrder

\* At rest everything owed has been carried out.
LEMMA OrderRecognises ==
    ASSUME OInv
    PROVE  Recognised
<1>0. Typed /\ Line /\ InOrder
  BY DEF OInv, GInv, IInv
<1>1. SUFFICES ASSUME lost = "no" PROVE ~wrong /\ (AtRest => owed = <<>>)
  BY DEF Recognised
<1>2. ~wrong
  BY <1>0, <1>1 DEF InOrder
<1>3. ASSUME AtRest PROVE owed = <<>>
  <2>1. ~finger.down /\ finger.left = 0 /\ finger.age > DoubleClick + 1 /\ mail = <<>> /\ thread.at = "idle"
    BY <1>3 DEF AtRest, Paused
  <2>2. key.event = "NONE" /\ ~timer.down
    BY <1>0, <2>1, PauseEnds
  <2>3. ~Pending
    BY <2>1, <2>2 DEF Pending
  <2>4. PICK b \in Seq(Actions) : owed = b \o Rest /\ Matches(b, Way)
    BY <1>0, <1>1 DEF InOrder
  <2>5. Way = <<>> /\ Rest = <<>>
    BY <2>1, <2>3 DEF Way, Rest
  <2>6. b = <<>>
    BY <2>4, <2>5, MatchEmpty
  <2>q. QED BY <2>4, <2>5, <2>6
<1>q. QED BY <1>2, <1>3

\* Every gesture is carried out as the action configured for it, in order and
\* once, for every configuration, any intervals and any number of gestures,
\* unless the finger holds right after a tap (hal_key_debounce_handler,
\* app_key_handle_process).
THEOREM GesturesRecognised ==
    ASSUME ~Hurried, Timings
    PROVE  Spec => []Recognised
<1>1. Init => OInv
  BY InitIInv, InitLine, InitPhase, InitOrder DEF OInv, GInv
<1>2. OInv /\ [Next]_vars => OInv'
  BY StepGInv, StepOrder DEF OInv
<1>3. OInv => Recognised
  BY OrderRecognises
<1>q. QED BY <1>1, <1>2, <1>3, PTL DEF Spec
=============================================================================
