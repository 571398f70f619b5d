------------------------------- MODULE Keyer -------------------------------
(***************************************************************************)
(* The iambic keyer (iambic.c): the thread that turns paddle events into   *)
(* dots and dashes, goes on the air when the first paddle is hit (CW       *)
(* break-in) and leaves it when the hang time is over.                     *)
(*                                                                         *)
(* Paddle events come from the protocol, GPIO or MIDI thread, the MOX      *)
(* requests of the keyer are served by the GTK main thread, which also     *)
(* starts the keyer and stops it by waiting for the thread to end.         *)
(***************************************************************************)
EXTENDS Naturals, FiniteSets

CONSTANTS
  Modes,       \* settings of cw_keyer_mode that are explored
  Spacings,    \* settings of cw_keyer_spacing
  HangTimes,   \* settings of cw_keyer_hang_time
  SdValues,    \* arguments of the CAT command SD
  SpaceTime,   \* loops of a letter space (2 * dot_length)
  MaxPosts,    \* bound: foot switch and CAT post no more while so many requests wait
  MaxSem,      \* bound on the count of the semaphore cw_event
  Sources,     \* where the paddles are connected: "radio", "local" (GPIO, MIDI)
  Hits,        \* the paddles the operator uses
  Others,      \* who else transmits: "foot" switch, "cat" text
  Menu         \* when the CW menu is used: "never", "released" (paddles), "any"

ASSUME KeyerAssumption == /\ Modes \subseteq {"A", "B", "STRAIGHT"}
                          /\ Spacings \subseteq BOOLEAN
                          /\ HangTimes \subseteq Nat
                          /\ SdValues \subseteq Nat
                          /\ SpaceTime \in Nat
                          /\ MaxPosts \in Nat \ {0}
                          /\ MaxSem \in Nat \ {0}
                          /\ Sources \subseteq {"radio", "local"}
                          /\ Hits \subseteq {"dot", "dash"}
                          /\ Others \subseteq {"foot", "cat"}
                          /\ Menu \in {"never", "released", "any"}

Paddles == {"dot", "dash"}
Other(p) == IF p = "dot" THEN "dash" ELSE "dot"

\* The states before and after the element of a paddle.
Pre(p) == IF p = "dot" THEN "PREDOT" ELSE "PREDASH"
Post(p) == IF p = "dot" THEN "AFTERDOT" ELSE "AFTERDASH"

VARIABLES
  set,      \* cw_keyer_mode, cw_keyer_spacing, cw_breakin (in CW mode),
            \* cw_keyer_hang_time, and where the paddles are connected
  pad,      \* the paddles as last reported (*kdot, *kdash)
  mem,      \* dot_memory, dash_memory
  held,     \* dot_held, dash_held
  sem,      \* count of cw_event
  key,      \* key_state, and where else the thread is
  vox,      \* cwvox, moxbefore, enforce_cw_vox and kdelay;
            \* history: nothing in the code will end what the keyer has started
  main,     \* the main thread: "loop", or "join" while it waits for the thread
  running,  \* the flag that keeps the keyer thread alive
  air,      \* mox, the foot switch (hpsdr_ptt), and who has posted mox(1) and
            \* mox(0) for the main thread; history: who went on the air
  cat,      \* CAT CW: its thread, CAT_cw_is_active, cw_key_hit
  tap,      \* history: paddles hit since the last element began
  began,    \* history: the paddles when the last element began
  extra     \* history: elements begun since all paddles were released

vars == <<set, pad, mem, held, sem, key, vox, main, running, air, cat, tap, began, extra>>
history == <<tap, began, extra>>

States == {"start", "wait", "mox", "CHECK", "STRAIGHT", "PREDOT", "AFTERDOT", "PREDASH",
           "AFTERDASH", "LETTERSPACE", "EXITLOOP", "gone", "ended"}

Inner == States \ {"start", "wait", "mox", "gone", "ended"}

Holders == {"keyer", "foot", "cat"}
PaddleFlags == [Paddles -> BOOLEAN]
Neither == [p \in Paddles |-> FALSE]

Settings == [mode : Modes, spacing : Spacings, breakin : BOOLEAN, hang : Nat, source : Sources]

\* The type invariant.
TypeOK == /\ set \in Settings
          /\ pad \in PaddleFlags /\ mem \in PaddleFlags /\ held \in PaddleFlags
          /\ sem \in 0..MaxSem
          /\ key \in States
          /\ vox \in [left : Nat, before : BOOLEAN, enforce : BOOLEAN, space : 0..SpaceTime,
                    lost : BOOLEAN]
          /\ main \in {"loop", "join"}
          /\ running \in BOOLEAN
          /\ air \in [mox : BOOLEAN, inband : BOOLEAN, foot : BOOLEAN,
                    on : SUBSET Holders, off : SUBSET Holders, by : Holders \cup {"none"}]
          /\ cat \in [pc : {"idle", "asks", "tests", "sends", "ends"}, active : BOOLEAN, hit : BOOLEAN]
          /\ tap \subseteq Paddles /\ began \in PaddleFlags /\ extra \in Nat

Init == /\ set \in [mode : Modes, spacing : Spacings, breakin : BOOLEAN, hang : HangTimes,
                   source : Sources]
        /\ pad = Neither /\ mem = Neither /\ held = Neither
        /\ sem = 0
        /\ key = "start"
        /\ vox = [left |-> 0, before |-> FALSE, enforce |-> FALSE, space |-> 0,
                  lost |-> FALSE]
        /\ main = "loop"
        /\ running = TRUE
        /\ air \in [mox : {FALSE}, inband : BOOLEAN, foot : {FALSE}, on : {{}}, off : {{}},
                  by : {"none"}]
        /\ cat = [pc |-> "idle", active |-> FALSE, hit |-> FALSE]
        /\ tap = {} /\ began = Neither /\ extra = 0
-----------------------------------------------------------------------------
(* Paddle events, and the main thread *)

\* A paddle connected to the radio ends CAT CW before its event is processed.
CatActive == cat.active /\ set.source = "local"

HitFirstOnly(p) ==
  /\ running /\ ~pad[p]
  /\ pad' = [pad EXCEPT ![p] = TRUE]
  /\ mem' = [mem EXCEPT ![p] = TRUE]
  /\ sem < MaxSem /\ sem' = IF pad = Neither THEN sem + 1 ELSE sem
  /\ cat' = [cat EXCEPT !.active = CatActive, !.hit = TRUE]
  /\ vox' = [vox EXCEPT !.enforce = vox.enforce \/ CatActive]
  /\ tap' = tap \cup {p}
  /\ extra' = 0
  /\ UNCHANGED <<set, held, key, main, running, air, began>>

\* keyer_event() for a paddle that is hit: remembered, and it wakes the thread.
Hit(p) == /\ running /\ ~pad[p]
          /\ pad' = [pad EXCEPT ![p] = TRUE]
          /\ mem' = [mem EXCEPT ![p] = TRUE]
          /\ sem < MaxSem /\ sem' = sem + 1
          /\ cat' = [cat EXCEPT !.active = CatActive, !.hit = TRUE]
          /\ vox' = [vox EXCEPT !.enforce = vox.enforce \/ CatActive]
          /\ tap' = tap \cup {p}
          /\ extra' = 0
          /\ UNCHANGED <<set, held, key, main, running, air, began>>

\* keyer_event() for a paddle that is released; lost when the keyer is off.
Release(p) == /\ running /\ pad[p]
              /\ pad' = [pad EXCEPT ![p] = FALSE]
              /\ UNCHANGED <<set, mem, held, sem, key, vox, main, running, air, cat, history>>

\* The radio reports a paddle that is still held.
ReportHeld == /\ set.source = "radio" /\ pad # Neither
              /\ cat' = [cat EXCEPT !.active = FALSE, !.hit = TRUE]
              /\ UNCHANGED <<set, pad, mem, held, sem, key, vox, main, running, air, history>>

\* MOX is set or removed. The foot switch takes a transmission over, keyer and
\* CAT join it.
SetMox(a, on, who) ==
  [a EXCEPT !.mox = on,
            !.by = IF ~on THEN "none" ELSE IF a.mox /\ who # "foot" THEN a.by ELSE who]

\* g_idle_add and g_timeout_add: two waiting requests of the same kind and origin
\* count as one.
PostOn(a, who) == [a EXCEPT !.on = a.on \cup {who}]
PostOff(a, who) == [a EXCEPT !.off = a.off \cup {who}]

Waiting == Cardinality(air.on) + Cardinality(air.off)

\* The keyer thread still has to see the end of the hang time, and will remove
\* the MOX it has asked for.
Attended == /\ ~vox.before
            /\ key = "mox" \/ (key \in Inner /\ vox.left > 0)

\* The callbacks and timers are served, in any order: a timer that is due goes
\* first, one that is not goes later. Out of band there is no MOX.
ServeOn(who) ==
  /\ main = "loop" /\ who \in air.on
  /\ air' = SetMox([air EXCEPT !.on = air.on \ {who}], air.inband, who)
  /\ vox' = IF who = "keyer" /\ ~air.mox THEN [vox EXCEPT !.lost = ~Attended] ELSE vox
  /\ UNCHANGED <<set, pad, mem, held, sem, key, main, running, cat, history>>

ServeOff(who) ==
  /\ main = "loop" /\ who \in air.off
  /\ air' = SetMox([air EXCEPT !.off = air.off \ {who}], FALSE, who)
  /\ vox' = [vox EXCEPT !.lost = FALSE]
  /\ UNCHANGED <<set, pad, mem, held, sem, key, main, running, cat, history>>

\* The radio reports that the operator's foot switch is pressed or released.
FootSwitch ==
  /\ "foot" \in Others /\ Waiting < MaxPosts
  /\ LET a == [air EXCEPT !.foot = ~air.foot] IN
       air' = IF a.foot THEN PostOn(a, "foot") ELSE PostOff(a, "foot")
  /\ UNCHANGED <<set, pad, mem, held, sem, key, vox, main, running, cat, history>>

\* The thread that sends CW texts. Without a text it forgets that a paddle was hit.
CatIdle == /\ cat.pc = "idle" /\ cat.hit
           /\ cat' = [cat EXCEPT !.hit = FALSE]
           /\ UNCHANGED <<set, pad, mem, held, sem, key, vox, main, running, air, history>>

\* It takes the first or the next character, and goes on the air if need be.
CatSend == /\ "cat" \in Others /\ cat.pc \in {"idle", "sends"} /\ Waiting < MaxPosts
           /\ cat' = [cat EXCEPT !.active = TRUE, !.pc = IF air.mox THEN "tests" ELSE "asks"]
           /\ air' = IF air.mox THEN air ELSE PostOn(air, "cat")
           /\ UNCHANGED <<set, pad, mem, held, sem, key, vox, main, running, history>>

\* The wait for MOX is over: it came, or 200 ms have passed.
CatOnAir == /\ cat.pc = "asks"
            /\ cat' = IF air.mox THEN [cat EXCEPT !.pc = "tests"]
                      ELSE [cat EXCEPT !.pc = "idle", !.active = FALSE]
            /\ UNCHANGED <<set, pad, mem, held, sem, key, vox, main, running, air, history>>

\* If a paddle was hit, the text is dropped and MOX left to the keyer.
CatTest == /\ cat.pc = "tests"
           /\ cat' = IF cat.hit THEN [cat EXCEPT !.pc = "idle", !.active = FALSE]
                     ELSE [cat EXCEPT !.pc = "sends"]
           /\ UNCHANGED <<set, pad, mem, held, sem, key, vox, main, running, air, history>>

\* The text is at its end.
CatEnd == /\ cat.pc = "sends"
          /\ cat' = [cat EXCEPT !.pc = "ends", !.active = FALSE]
          /\ UNCHANGED <<set, pad, mem, held, sem, key, vox, main, running, air, history>>

\* MOX is removed, unless a paddle was hit meanwhile or the foot switch is pressed.
CatStop == /\ cat.pc = "ends" /\ Waiting < MaxPosts
           /\ cat' = [cat EXCEPT !.pc = "idle"]
           /\ air' = IF cat.hit \/ air.foot THEN air ELSE PostOff(air, "cat")
           /\ UNCHANGED <<set, pad, mem, held, sem, key, vox, main, running, history>>

\* The CAT command SD.
CatSd(b) == /\ main = "loop"
            /\ set' = [set EXCEPT !.breakin = (b = 0), !.hang = b]
            /\ UNCHANGED <<pad, mem, held, sem, key, vox, main, running, air, cat, history>>

\* The CW menu is used at this moment.
InMenu == /\ Menu = "any" \/ (Menu = "released" /\ pad = Neither)
          /\ main = "loop"

\* The keyer mode and the letter space are changed.
ChangeKeyer(mode, spacing) ==
  /\ InMenu
  /\ set' = [set EXCEPT !.mode = mode, !.spacing = spacing]
  /\ UNCHANGED <<pad, mem, held, sem, key, vox, main, running, air, cat, history>>

CloseNoPost == /\ InMenu /\ running
               /\ running' = FALSE
               /\ main' = "join"
               /\ UNCHANGED <<set, pad, mem, held, sem, key, vox, air, cat, history>>

\* keyer_close(): stop the thread and wait for it.
KeyerClose == /\ InMenu /\ running
              /\ running' = FALSE
              /\ sem < MaxSem /\ sem' = sem + 1
              /\ main' = "join"
              /\ UNCHANGED <<set, pad, mem, held, key, vox, air, cat, history>>

Joined == /\ main = "join" /\ key = "ended"
          /\ main' = "loop"
          /\ UNCHANGED <<set, pad, mem, held, sem, key, vox, running, air, cat, history>>

\* keyer_init(): a new semaphore and a new thread.
KeyerInit == /\ main = "loop" /\ ~running
             /\ running' = TRUE
             /\ sem' = 0
             /\ key' = "start"
             /\ UNCHANGED <<set, pad, mem, held, vox, main, air, cat, history>>
-----------------------------------------------------------------------------
(* The keyer thread outside its inner loop *)

Start == /\ key = "start"
         /\ \/ /\ running /\ key' = "wait"
               /\ vox' = [vox EXCEPT !.enforce = FALSE]
            \/ ~running /\ key' = "ended" /\ UNCHANGED vox
         /\ UNCHANGED <<set, pad, mem, held, sem, main, running, air, cat, history>>

\* sem_wait() returns: events of the last hang time are swallowed, otherwise
\* go on the air if break-in is on.
Wake == /\ key = "wait" /\ sem > 0
        /\ sem' = sem - 1
        /\ \/ pad = Neither /\ key' = "start" /\ UNCHANGED <<vox, air>>
           \/ /\ pad # Neither /\ set.breakin
              /\ key' = "mox"
              /\ vox' = [vox EXCEPT !.left = 0, !.before = air.mox /\ ~vox.enforce]
              /\ air' = PostOn(air, "keyer")
           \/ /\ pad # Neither /\ ~set.breakin
              /\ key' = "CHECK"
              /\ vox' = [vox EXCEPT !.left = 0, !.before = air.mox /\ ~vox.enforce]
              /\ UNCHANGED air
        /\ UNCHANGED <<set, pad, mem, held, main, running, cat, history>>

\* The hang time is started; a hang time of zero never ends.
StartHang(v) == [v EXCEPT !.left = set.hang, !.lost = v.lost \/ set.hang = 0]

\* The wait for MOX is over: it came, or 200 ms have passed.
OnAir == /\ key = "mox"
         /\ key' = "CHECK"
         /\ vox' = StartHang(vox)
         /\ UNCHANGED <<set, pad, mem, held, sem, main, running, air, cat, history>>

\* The wait for the end of MOX is over: it ended, or 250 ms have passed.
OffAir == /\ key = "gone"
          /\ key' = "start"
          /\ UNCHANGED <<set, pad, mem, held, sem, vox, main, running, air, cat, history>>
-----------------------------------------------------------------------------
(* The inner loop: key_state *)

\* All states but CHECK and EXITLOOP re-trigger the hang time.
Retrigger(v) == IF v.left > 0 THEN StartHang(v) ELSE v

\* EXITLOOP: the hang time runs out, and with it the loop, or check again. After
\* the loop moxbefore means nothing.
ExitLoop ==
  /\ key = "EXITLOOP"
  /\ \/ /\ vox.left = 0
        /\ vox' = [vox EXCEPT !.before = FALSE]
        /\ key' = "start"
        /\ UNCHANGED air
     \/ /\ vox.left = 1 /\ ~vox.before
        /\ vox' = [vox EXCEPT !.left = 0]
        /\ air' = PostOff(air, "keyer")
        /\ key' = "gone"
     \/ /\ vox.left = 1 /\ vox.before
        /\ vox' = [vox EXCEPT !.left = 0, !.before = FALSE]
        /\ key' = "start"
        /\ UNCHANGED air
     \/ /\ vox.left > 1
        /\ vox' = [vox EXCEPT !.left = vox.left - 1]
        /\ key' = "CHECK"
        /\ UNCHANGED air
  /\ UNCHANGED <<set, pad, mem, held, sem, main, running, cat, history>>

\* CHECK looks which paddle is pressed.
Pressed == IF set.mode = "STRAIGHT" /\ pad["dash"] THEN "STRAIGHT"
           ELSE IF pad["dot"] THEN "PREDOT"
           ELSE IF pad["dash"] THEN "PREDASH"
           ELSE "EXITLOOP"

CheckToZero == /\ key = "CHECK"
               /\ vox' = IF vox.left > 0 THEN [vox EXCEPT !.left = vox.left - 1] ELSE vox
               /\ key' = Pressed
               /\ UNCHANGED <<set, pad, mem, held, sem, main, running, air, cat, history>>

Check == /\ key = "CHECK"
         /\ vox' = IF vox.left > 1 THEN [vox EXCEPT !.left = vox.left - 1] ELSE vox
         /\ key' = Pressed
         /\ UNCHANGED <<set, pad, mem, held, sem, main, running, air, cat, history>>

\* STRAIGHT: the key is down until the dash paddle is released.
Straight == /\ key = "STRAIGHT"
            /\ vox' = Retrigger(vox)
            /\ \/ pad["dash"] /\ UNCHANGED key
               \/ ~pad["dash"] /\ key' = "CHECK"
            /\ UNCHANGED <<set, pad, mem, held, sem, main, running, air, cat, history>>

BeginKeepsHeld(p) ==
  /\ key = Pre(p)
  /\ key' = Post(p)
  /\ mem' = [mem EXCEPT ![Other(p)] = FALSE]
  /\ held' = [held EXCEPT ![Other(p)] = held[Other(p)] \/ pad[Other(p)]]
  /\ vox' = Retrigger(vox)
  /\ tap' = {} /\ began' = pad
  /\ extra' = IF pad = Neither THEN extra + 1 ELSE 0
  /\ UNCHANGED <<set, pad, sem, main, running, air, cat>>

BeginClearsOwn(p) ==
  /\ key = Pre(p)
  /\ key' = Post(p)
  /\ mem' = [mem EXCEPT ![p] = FALSE]
  /\ held' = [held EXCEPT ![Other(p)] = pad[Other(p)]]
  /\ vox' = Retrigger(vox)
  /\ tap' = {} /\ began' = pad
  /\ extra' = IF pad = Neither THEN extra + 1 ELSE 0
  /\ UNCHANGED <<set, pad, sem, main, running, air, cat>>

\* PREDOT and PREDASH: send the element and wait for the end of the pause;
\* from now on watch for the other paddle.
Begin(p) ==
  /\ key = Pre(p)
  /\ key' = Post(p)
  /\ mem' = [mem EXCEPT ![Other(p)] = FALSE]
  /\ held' = [held EXCEPT ![Other(p)] = pad[Other(p)]]
  /\ vox' = Retrigger(vox)
  /\ tap' = {} /\ began' = pad
  /\ extra' = IF pad = Neither THEN extra + 1 ELSE 0
  /\ UNCHANGED <<set, pad, sem, main, running, air, cat>>

\* AFTERDOT in bug mode.
AfterBugDot == /\ key = "AFTERDOT" /\ set.mode = "STRAIGHT"
               /\ key' = IF pad["dot"] THEN "PREDOT" ELSE "EXITLOOP"
               /\ vox' = Retrigger(vox)
               /\ UNCHANGED <<set, pad, mem, held, sem, main, running, air, cat, history>>

\* AFTERDOT and AFTERDASH: the other element, the same one, or none.
After(p) ==
  LET o == Other(p)
      h == IF set.mode = "A" /\ pad = Neither THEN FALSE ELSE held[o]
      stop == ~(mem[o] \/ pad[o] \/ h) /\ ~pad[p]
  IN
  /\ key = Post(p)
  /\ p = "dot" => set.mode # "STRAIGHT"
  /\ held' = [held EXCEPT ![o] = h]
  /\ key' = IF mem[o] \/ pad[o] \/ h THEN Pre(o)
            ELSE IF pad[p] THEN Pre(p)
            ELSE IF set.spacing THEN "LETTERSPACE"
            ELSE "EXITLOOP"
  /\ mem' = IF stop /\ set.spacing THEN Neither ELSE mem
  /\ vox' = IF stop /\ set.spacing THEN [Retrigger(vox) EXCEPT !.space = 0] ELSE Retrigger(vox)
  /\ UNCHANGED <<set, pad, sem, main, running, air, cat, history>>

\* LETTERSPACE: wait, then send what was hit meanwhile.
LetterSpace ==
  /\ key = "LETTERSPACE"
  /\ \/ /\ vox.space < SpaceTime
        /\ vox' = [Retrigger(vox) EXCEPT !.space = vox.space + 1]
        /\ UNCHANGED key
     \/ /\ vox.space = SpaceTime
        /\ vox' = Retrigger(vox)
        /\ key' = IF mem["dot"] THEN "PREDOT" ELSE IF mem["dash"] THEN "PREDASH" ELSE "EXITLOOP"
  /\ UNCHANGED <<set, pad, mem, held, sem, main, running, air, cat, history>>

Thread == \/ Start \/ Wake \/ OnAir \/ OffAir
          \/ ExitLoop \/ Check \/ Straight \/ AfterBugDot \/ LetterSpace
          \/ \E p \in Paddles : Begin(p) \/ After(p)

Operator == \/ \E p \in Hits : Hit(p) \/ Release(p)
            \/ ReportHeld \/ FootSwitch \/ KeyerClose \/ KeyerInit
            \/ \E mode \in Modes, spacing \in Spacings : ChangeKeyer(mode, spacing)
            \/ \E b \in SdValues : CatSd(b)

CatThread == CatIdle \/ CatSend \/ CatOnAir \/ CatTest \/ CatEnd \/ CatStop

Serve == \E who \in Holders : ServeOn(who) \/ ServeOff(who)

Next == Thread \/ Operator \/ CatThread \/ Serve \/ Joined

Spec == Init /\ [][Next]_vars

\* The keyer thread runs, and the main loop serves its sources.
FairSpec == Spec /\ WF_vars(Thread) /\ WF_vars(Serve) /\ WF_vars(Joined)
-----------------------------------------------------------------------------
(* Properties *)

\* A paddle that is pressed never finds the thread asleep for good: each hit
\* that the inner loop has not seen is still counted by the semaphore
\* (keyer_event() posts it, keyer_thread() waits for it only between loops).
NoLostWakeup == key \in {"start", "wait"} /\ running /\ pad # Neither => sem > 0

\* At most one element begins after the paddles have been released: the one
\* already decided, the remembered one, or the last one of mode B.
NoRunaway == extra <= 1

\* The rule at the end of the pause that follows an element.
IambicStep ==
  \A p \in Paddles :
    LET o == Other(p) IN
    key = Post(p) /\ set.mode # "STRAIGHT" /\ key' # key
      => (key' = Pre(o) <=> \/ pad[o] \/ o \in tap
                            \/ began[o] /\ (set.mode = "B" \/ pad # Neither))

\* The iambic rule, as the comment at the head of iambic.c gives it: the other
\* element follows if its paddle is held, or was hit during the element, or
\* was held when the element began (in mode A only if not both paddles are
\* released now).
IambicRule == [][IambicStep]_vars

\* All who may hold the transmitter have let it go for good.
AllQuiet == running /\ pad = Neither /\ ~air.foot /\ cat.pc = "idle"

\* A transmission the keyer has started by itself (break-in) ends once the
\* paddles, the foot switch and CAT are quiet, whatever happened before and
\* however the requests of the three overtake each other. Three gaps (lost):
\* the transmission that moxbefore remembers ended before the keyer's own
\* mox(1) was served; that came so late that the hang time was over; the hang
\* time is zero.
BreakInEnds == <>[]AllQuiet => []<>(~air.mox \/ air.by # "keyer" \/ vox.lost)

\* A paddle that interrupts a CW text sent by CAT makes the keyer return to
\* RX afterwards: keyer_event() tells keyer_thread() not to take the running
\* transmission for one the operator has started.
TextCutReturns ==
  [][cat.pc = "sends" /\ (\E p \in Paddles : pad'[p] /\ ~pad[p]) => vox'.enforce]_vars

\* The main thread that stops the keyer is not kept waiting for ever.
CloseEnds == main = "join" ~> main = "loop"
=============================================================================
