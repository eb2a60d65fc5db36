------------------------------ MODULE KeyEvents ------------------------------
(***************************************************************************)
(* From the touch of a finger to the configured action.                    *)
(*                                                                         *)
(* platform/hal/hal_key.c debounces the power key and tells gestures apart *)
(* in a timer interrupt that runs every KEY_CHECKER_INTERVAL while there   *)
(* is something to watch; otherwise only the edge interrupt of the key is  *)
(* enabled.  apps/key/app_key.cpp counts the events on their way and puts  *)
(* them into the mailbox of apps/common/app_thread.c; the application      *)
(* thread looks up the handler (apps/main/key_handler.cpp), which carries  *)
(* out the action configured for the gesture.                              *)
(*                                                                         *)
(* Time is counted in checker intervals.  A time stamp is kept as its age, *)
(* which grows as long as it makes a difference.  The product has the      *)
(* power key alone, so that code_down is a Boolean and code_ready plays no *)
(* part.                                                                   *)
(***************************************************************************)
EXTENDS Naturals, Sequences

CONSTANTS
    Debounce, Dither,          \* KEY_DEBOUNCE_INTERVAL, KEY_DITHER_INTERVAL
    DoubleClick,               \* KEY_DOUBLECLICK_THRESHOLD
    LongPress, LongLongPress,  \* KEY_LONGPRESS_THRESHOLD and its double
    Repeat,                    \* intervals between two REPEAT events
    CntLimit,                  \* KEY_EVENT_CNT_LIMIT
    Config,                    \* the action configured for each gesture
    NoAction, VolumeDown,      \* OPB_ACTION_NONE, OPB_ACTION_VOLUME_DOWN
    TwsLink,                   \* the other bud is connected
    MaxTouches,                \* bound: gestures, and contacts too short to be one
    Hurried,                   \* the finger may hold right after a tap
    Preempts                   \* the timer may interrupt the decrement

Gestures == {"CLICK", "DOUBLECLICK", "TRIPLECLICK", "ULTRACLICK", "RAMPAGECLICK", "LONGPRESS"}
Configured == {"CLICK", "DOUBLECLICK", "TRIPLECLICK", "LONGPRESS"}

ASSUME KeyAssumption ==
    /\ {Debounce, Dither, Repeat} \subseteq Nat \ {0} /\ Dither <= Debounce
    /\ {DoubleClick, LongPress, LongLongPress, CntLimit} \subseteq Nat
    /\ 2 < DoubleClick /\ 2 < LongPress /\ LongPress < LongLongPress
    /\ DOMAIN Config = Configured
    /\ MaxTouches \in Nat
    /\ {TwsLink, Hurried, Preempts} \subseteq BOOLEAN

VARIABLES
    finger,  \* the finger: touches, for how long, and the gesture it makes
    pwr,     \* pwr_key
    irq,     \* the edge interrupt of the key is enabled
    timer,   \* timer_active, and where the timer interrupt is
    key,     \* key_status
    cnt,     \* key_event_cnt, one byte
    mail,    \* the key events in the application mailbox
    thread,  \* the application thread
    owed,    \* the actions of the gestures made, not yet carried out
    wrong,   \* an action was carried out that was not the next one owed
    lost,    \* a gesture was dropped: "no", the "last" one or an "earlier" one
    fits,    \* the last gesture is one tap or a hold, begun with no event on its way
    touches

vars == <<finger, pwr, irq, timer, key, cnt, mail, thread, owed, wrong, lost, fits, touches>>

Clicks == <<"CLICK", "DOUBLECLICK", "TRIPLECLICK", "ULTRACLICK", "RAMPAGECLICK">>
MAX_KEY_CLICK_COUNT == Len(Clicks) - 1
Older(age, limit) == IF age < limit THEN age + 1 ELSE age
-----------------------------------------------------------------------------
(* The key interrupt, and the power key part of the timer interrupt.       *)

\* hal_pwrkey_handle_irq_state; the key may be up again when it is read.
Edge(stillDown) ==
    /\ irq' = FALSE
    /\ pwr' = IF stillDown THEN [pwr EXCEPT !.pressed = TRUE, !.debounce = TRUE]
              ELSE [pwr EXCEPT !.pressed = FALSE, !.dither = TRUE]
    /\ timer' = [timer EXCEPT !.active = TRUE]

\* What the timer interrupt makes of pwr_key, when it looks at the key.
PwrKey(p, down) ==
    CASE p.debounce /\ down ->
            [p EXCEPT !.pressed = TRUE, !.debounce = p.age < Debounce, !.dither = FALSE]
      [] p.debounce /\ ~down ->
            [p EXCEPT !.pressed = FALSE, !.debounce = FALSE, !.dither = TRUE, !.age = 0]
      [] ~p.debounce /\ p.dither ->
            [p EXCEPT !.pressed = @ /\ p.age < Dither, !.dither = p.age < Dither]
      [] ~p.debounce /\ ~p.dither -> [p EXCEPT !.pressed = @ /\ down]

\* The key counts as down (code_down).
CodeDown(p, down) ==
    /\ down
    /\ \/ p.debounce /\ p.age >= Debounce
       \/ ~p.debounce /\ ~p.dither /\ p.pressed

\* Mutant: the key interrupt stays disabled after a contact that was too short.
DeafAfterDither(p, down) == ~p.debounce /\ ~p.dither /\ p.pressed /\ ~down

\* The key interrupt is enabled again (hal_key_enable_allint).
Enables(p, down) ==
    /\ ~p.debounce
    /\ \/ p.dither /\ p.age >= Dither
       \/ ~p.dither /\ p.pressed /\ ~down

Watched(p) == p.debounce \/ p.dither \/ p.pressed
-----------------------------------------------------------------------------
(* Gestures: the rest of hal_key_debounce_handler, on key_status k whose   *)
(* field out collects the events sent; d says that the key counts as down. *)

Sent(k, e) == [k EXCEPT !.out = Append(@, e)]
LongHeld(k) == k.event \in {"LONGPRESS", "LONGLONGPRESS"}

Released(k, d) ==
    IF ~k.down \/ d THEN k
    ELSE LET u == Sent([k EXCEPT !.updown = 0], "UP")
         IN  CASE LongHeld(k) -> Sent([u EXCEPT !.event = "NONE"], "UP_AFTER_LONGPRESS")
               [] k.event = "DOWN" -> [u EXCEPT !.event = "UP"]
               [] OTHER -> u

\* Mutant: each interval counts as a tap, not only the one of a release.
TapsOn(k, d) ==
    IF k.click THEN [k EXCEPT !.cnt = @ + 1, !.clicked = 0]
    ELSE [k EXCEPT !.click = TRUE, !.cnt = 0, !.clicked = 0]

Tapped(k, d) ==
    CASE ~k.click -> [k EXCEPT !.click = TRUE, !.cnt = 0, !.clicked = 0]
      [] k.click /\ k.down /\ ~d -> [k EXCEPT !.cnt = @ + 1, !.clicked = 0]
      [] OTHER -> k

Clicked(k, d) ==
    LET c == Tapped(k, d)
    IN  CASE k.event # "UP" -> k
          [] k.event = "UP" /\ (c.clicked >= DoubleClick \/ c.cnt >= MAX_KEY_CLICK_COUNT) ->
                Sent([c EXCEPT !.click = FALSE, !.cnt = 0, !.event = "NONE"], Clicks[c.cnt + 1])
          [] OTHER -> c

Pressed(k, wasDown, d) ==
    IF wasDown \/ ~d THEN k
    ELSE Sent(Sent([k EXCEPT !.updown = 0, !.event = IF @ \in {"NONE", "UP"} THEN "DOWN" ELSE @], "DOWN"),
              IF k.event = "NONE" THEN "FIRST_DOWN" ELSE "CONTINUED_DOWN")

\* Mutant: the repeat counter is not reset.
CountsOn(k) ==
    LET r == [k EXCEPT !.repeat = @ + 1]
    IN  IF r.repeat = Repeat THEN Sent(r, "REPEAT") ELSE r

Repeats(k) ==
    LET r == [k EXCEPT !.repeat = @ + 1]
    IN  IF r.repeat = Repeat THEN Sent([r EXCEPT !.repeat = 0], "REPEAT") ELSE r

Held(k) ==
    CASE k.down /\ k.event = "DOWN" /\ k.updown >= LongPress ->
            Sent([k EXCEPT !.repeat = 0, !.event = "LONGPRESS"], "LONGPRESS")
      [] k.down /\ k.event = "LONGPRESS" /\ k.updown >= LongLongPress ->
            Sent([Repeats(k) EXCEPT !.event = "LONGLONGPRESS"], "LONGLONGPRESS")
      [] k.down /\ LongHeld(k) /\ (k.event = "LONGPRESS" => k.updown < LongLongPress) -> Repeats(k)
      [] OTHER -> k

Classify(k, d) ==
    Held(Pressed([Clicked(Released([k EXCEPT !.out = <<>>], d), d) EXCEPT !.down = d], k.down, d))

\* Mutants: the limit taken one too early, and counted although dropped.
StrictRoom(n) == IF cnt >= CntLimit THEN 0 ELSE IF n < CntLimit - cnt THEN n ELSE CntLimit - cnt

\* key_event_process: how many of n events in a row are put into the mailbox.
Room(n) ==
    IF cnt > CntLimit THEN 0 ELSE IF n < CntLimit + 1 - cnt THEN n ELSE CntLimit + 1 - cnt

CountsDropped(out) == cnt' = (cnt + Len(out)) % 256

Counted(out) == cnt' = (cnt + Room(Len(out))) % 256
-----------------------------------------------------------------------------
(* The timer interrupt.  The key interrupt may come in once it is enabled  *)
(* again.                                                                  *)

\* A finger that is tapping does not wait forever.
InTime ==
    /\ finger.down /\ finger.goal # "hold" => finger.age < LongPress - 2
    /\ ~finger.down /\ finger.left > 0 => finger.age < DoubleClick - 2

\* The counter has been loaded for the decrement, not yet stored: a few
\* instructions, in which the timer comes at most once.
MayInterrupt == thread.at = "idle" \/ (Preempts /\ thread.loaded = cnt)

Sample ==
    /\ timer.active /\ timer.at = "idle" /\ InTime /\ MayInterrupt
    /\ LET p == [pwr EXCEPT !.age = Older(@, Debounce)]
       IN  /\ pwr' = PwrKey(p, finger.down)
           /\ irq' = (irq \/ Enables(p, finger.down))
           /\ timer' = [active |-> FALSE, at |-> "classify", down |-> CodeDown(p, finger.down),
                        need |-> Watched(pwr')]
    /\ finger' = [finger EXCEPT !.age = Older(@, LongLongPress)]
    /\ key' = [key EXCEPT !.updown = IF key.event \in {"DOWN", "LONGPRESS"} THEN Older(@, LongLongPress) ELSE @,
                            !.clicked = IF key.event = "UP" THEN Older(@, DoubleClick) ELSE @]
    /\ UNCHANGED <<cnt, mail, thread, owed, wrong, lost, fits, touches>>

\* Mutant: the timer only goes on for the debouncing.
NeedsTimer(k, need) == need

NeedTimer(k, need) == need \/ k.event # "NONE"

DebounceHandler ==
    /\ timer.at = "classify"
    /\ LET k == Classify(key, timer.down)
           n == Room(Len(k.out))
           dropped == {k.out[i] : i \in n + 1 .. Len(k.out)}
       IN  /\ key' = [k EXCEPT !.out = <<>>]
           /\ Counted(k.out)
           /\ mail' = mail \o SubSeq(k.out, 1, n)
           /\ lost' = IF dropped \cap Gestures # {} THEN "last" ELSE lost
           /\ owed' = IF lost' = "no" THEN owed ELSE <<>>
           /\ timer' = [active |-> timer.active \/ NeedTimer(k, timer.need), at |-> "idle",
                        down |-> FALSE, need |-> FALSE]
    /\ UNCHANGED <<finger, pwr, irq, thread, wrong, fits, touches>>

\* Time passes while the timer does not run.
Pass ==
    /\ ~timer.active /\ timer.at = "idle" /\ InTime
    /\ finger' = [finger EXCEPT !.age = Older(@, LongLongPress)]
    /\ pwr' = [pwr EXCEPT !.age = Older(@, Debounce)]
    /\ UNCHANGED <<irq, timer, key, cnt, mail, thread, owed, wrong, lost, fits, touches>>
-----------------------------------------------------------------------------
(* The application thread: osMailGet, the module's handler, osMailFree.    *)
(* It does not run while the interrupt does.                               *)

\* app_key_handle_find and the handler found; four taps act without a link.
ActionOf(e) ==
    CASE e \in Configured -> Config[e]
      [] e = "ULTRACLICK" /\ ~TwsLink -> VolumeDown
      [] OTHER -> NoAction

Get ==
    /\ timer.at = "idle" /\ thread.at = "idle" /\ mail # <<>>
    /\ thread' = [at |-> "handling", msg |-> Head(mail), loaded |-> cnt]
    /\ mail' = Tail(mail)
    /\ UNCHANGED <<finger, pwr, irq, timer, key, cnt, owed, wrong, lost, fits, touches>>

\* app_key_handle_process stores the decremented counter and acts.
HandleProcess ==
    /\ timer.at = "idle" /\ thread.at = "handling"
    /\ cnt' = (thread.loaded + 255) % 256
    /\ LET a == IF lost = "no" THEN ActionOf(thread.msg) ELSE NoAction
       IN  /\ owed' = IF a # NoAction /\ owed # <<>> THEN Tail(owed) ELSE owed
           /\ wrong' = (wrong \/ (a # NoAction /\ (owed = <<>> \/ a # Head(owed))))
    /\ thread' = [at |-> "idle", msg |-> "NONE", loaded |-> 0]
    /\ UNCHANGED <<finger, pwr, irq, timer, key, mail, lost, fits, touches>>
-----------------------------------------------------------------------------
(* The finger.  Taps of one gesture follow each other within DoubleClick,  *)
(* gestures do not; each touch and each pause lasts at least one interval. *)

Touch ==
    IF irq THEN Edge(TRUE) ELSE UNCHANGED <<pwr, irq, timer>>

Paused == finger.age > DoubleClick + 1

OnTheirWay == Len(mail) + (IF thread.at = "handling" THEN 1 ELSE 0)

\* A hold right after a tap takes its place.
BeginGesture(g) ==
    /\ ~finger.down /\ finger.left = 0 /\ touches < MaxTouches
    /\ Paused \/ (Hurried /\ g = "hold" /\ finger.goal = "CLICK" /\ finger.age \in 1 .. DoubleClick - 2)
    /\ finger' = [down |-> TRUE, age |-> 0, goal |-> g,
                  left |-> IF g = "hold" THEN 0 ELSE (CHOOSE i \in DOMAIN Clicks : Clicks[i] = g) - 1]
    /\ touches' = touches + 1
    /\ LET a == ActionOf(IF g = "hold" THEN "LONGPRESS" ELSE g)
           before == IF Paused THEN owed ELSE SubSeq(owed, 1, Len(owed) - 1)
       IN  owed' = IF a = NoAction \/ lost # "no" THEN owed ELSE Append(before, a)
    /\ fits' = (OnTheirWay = 0 /\ g \in {"hold", "CLICK"})
    /\ lost' = IF lost = "last" THEN "earlier" ELSE lost
    /\ Touch
    /\ UNCHANGED <<key, cnt, mail, thread, wrong>>

TapAgain ==
    /\ ~finger.down /\ finger.left > 0 /\ finger.age >= 1
    /\ finger' = [finger EXCEPT !.down = TRUE, !.age = 0, !.left = @ - 1]
    /\ Touch
    /\ UNCHANGED <<key, cnt, mail, thread, owed, wrong, lost, fits, touches>>

Lift ==
    /\ finger.down
    /\ finger.age >= IF finger.goal = "hold" THEN LongPress + 2 ELSE 1
    /\ finger' = [finger EXCEPT !.down = FALSE, !.age = 0]
    /\ UNCHANGED <<pwr, irq, timer, key, cnt, mail, thread, owed, wrong, lost, fits, touches>>

\* A contact shorter than an interval, or than the interrupt takes.
Glitch ==
    /\ touches < MaxTouches /\ touches' = touches + 1
    /\ ~finger.down /\ finger.left = 0 /\ Paused /\ irq
    /\ finger' = [finger EXCEPT !.age = 0, !.goal = "none"]
    /\ \E stillDown \in BOOLEAN : Edge(stillDown)
    /\ UNCHANGED <<key, cnt, mail, thread, owed, wrong, lost, fits>>
-----------------------------------------------------------------------------
Init ==
    /\ finger = [down |-> FALSE, age |-> LongLongPress, goal |-> "none", left |-> 0]
    /\ pwr = [debounce |-> FALSE, dither |-> FALSE, pressed |-> FALSE, age |-> Debounce]
    /\ irq = TRUE
    /\ timer = [active |-> FALSE, at |-> "idle", down |-> FALSE, need |-> FALSE]
    /\ key = [down |-> FALSE, click |-> FALSE, cnt |-> 0, event |-> "NONE",
              updown |-> 0, clicked |-> 0, repeat |-> 0, out |-> <<>>]
    /\ cnt = 0 /\ mail = <<>>
    /\ thread = [at |-> "idle", msg |-> "NONE", loaded |-> 0]
    /\ owed = <<>> /\ wrong = FALSE /\ lost = "no" /\ fits = FALSE
    /\ touches = 0

Interrupt == Sample \/ DebounceHandler
AppThread == Get \/ HandleProcess
Finger == Pass \/ TapAgain \/ Lift
Whims == Glitch \/ \E g \in {"hold"} \cup {Clicks[i] : i \in DOMAIN Clicks} : BeginGesture(g)

Next == Interrupt \/ AppThread \/ Finger \/ Whims

\* The timer fires, the thread of high priority runs, time passes, and the
\* finger ends the gesture it began.
Spec ==
    /\ Init /\ [][Next]_vars
    /\ WF_vars(Interrupt) /\ WF_vars(AppThread)
    /\ WF_vars(Pass) /\ WF_vars(TapAgain) /\ WF_vars(Lift)
-----------------------------------------------------------------------------
\* The type invariant: the click and repeat counters stay within their ranges.
TypeOK ==
    /\ finger.age \in 0 .. LongLongPress /\ finger.left \in 0 .. MAX_KEY_CLICK_COUNT
    /\ pwr.age \in 0 .. Debounce /\ {pwr.debounce, pwr.dither, pwr.pressed, irq} \subseteq BOOLEAN
    /\ key.event \in {"NONE", "DOWN", "UP", "LONGPRESS", "LONGLONGPRESS"}
    /\ key.cnt \in 0 .. MAX_KEY_CLICK_COUNT /\ key.repeat \in 0 .. Repeat - 1
    /\ cnt \in 0 .. 255 /\ thread.loaded \in 0 .. 255

\* key_event_cnt is the number of key events put into the mailbox and not
\* yet handled, and so the keys never take more than CntLimit + 1 of its places
\* (key_event_process, app_key_handle_process).
CountAgrees ==
    /\ cnt = OnTheirWay
    /\ cnt <= CntLimit + 1

\* The driver is never deaf: either the key interrupt is enabled or the timer
\* is going to look at the key (hal_key_debounce_timer_restart,
\* hal_key_enable_allint on each way out of debouncing).
NeverDeaf == irq \/ timer.active \/ (timer.at = "classify" /\ timer.need)

\* Nothing is being watched and no message is on its way.
AtRest ==
    /\ ~finger.down /\ finger.left = 0 /\ Paused
    /\ ~timer.active /\ timer.at = "idle" /\ mail = <<>> /\ thread.at = "idle"

\* As many taps as the finger made, and every hold, have been carried out as
\* the action configured for them, in order and once, unless the mailbox was
\* too full for one of them.
Recognised == lost = "no" => ~wrong /\ (AtRest => owed = <<>>)

\* A single tap or a hold that finds no key event on its way is never
\* dropped, however late the application thread is: its events fit into
\* the limit (KEY_EVENT_CNT_LIMIT).
TapFits == fits => lost # "last"

\* When the finger has stopped, the key comes to rest: gestures end, the key
\* interrupt is enabled and the mailbox is emptied.
ComesToRest == <>[](AtRest /\ irq /\ key.event = "NONE")
=============================================================================
