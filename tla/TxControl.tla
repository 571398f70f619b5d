----------------------------- MODULE TxControl -----------------------------
(***************************************************************************)
(* Who may put the radio on the air, and who takes it off again.           *)
(*                                                                         *)
(* All changes of the transmit state are made by the GTK main thread: by   *)
(* the handler of a user action, by a callback queued with g_idle_add()    *)
(* from any thread (served in order), or by a g_timeout_add() timer (which *)
(* has the higher priority and so may overtake the queue).  The protocol   *)
(* thread watches the radio's PTT, TX-inhibit and auto-tune lines, the     *)
(* microphone thread watches the sound level for VOX, and the auto-tune    *)
(* thread tunes for as long as its line asks for it.                       *)
(*                                                                         *)
(* A call that puts the radio on the air tests TxInhibit first and sets    *)
(* the flag at its end, after the TX/RX transitions, which take their time *)
(* (rxtx() waits for channels to slew down).  The protocol thread may      *)
(* change TxInhibit in between, so such a call takes two steps here.       *)
(***************************************************************************)
EXTENDS Radio, Sequences

CONSTANTS
  Sources,     \* the event sources that are active in this instance
  HangTime,    \* samples of silence after which VOX falls back (vox_hang)
  MaxIdle,     \* bound on the callbacks waiting in the idle queue
  MaxTimers    \* bound on the pending mox(0) timers

AllSources == {"mox", "tune", "twotone", "duplex", "recall", "mode", "modetune",
               "band", "ptt", "inhibit", "vox", "voxmenu", "keyer", "auto"}

ASSUME TxAssumption == /\ Sources \subseteq AllSources
                       /\ HangTime \in Nat \ {0}
                       /\ MaxIdle \in Nat \ {0}
                       /\ MaxTimers \in Nat

VARIABLES
  radio,    \* the globals of radio.c and transmitter.c
  idle,     \* callbacks added with g_idle_add(), oldest first
  timers,   \* number of pending g_timeout_add(.., ext_radio_set_mox, 0)
  ptt,      \* hpsdr_ptt
  voxen,    \* vox_enabled
  menu,     \* the VOX menu: "closed", or the vox_enabled it will restore
  sound,    \* the microphone sees a level above vox_threshold
  mic,      \* the microphone thread is between its two writes for VOX
  auto,     \* the auto-tune thread and its two flags
  setter,   \* the main thread is in radio_set_<setter>(1), past the tests
  cancelled \* history: vox_cancel() cut off the last trigger or hang time

threadvars == <<ptt, voxen, menu, sound, mic, auto>>
envvars == <<threadvars, cancelled>>
vars == <<radio, idle, timers, threadvars, setter, cancelled>>

Request == [call : {"mox", "vox", "tune", "duplex"}, on : BOOLEAN]

AutoState == [pc : {"none", "begin", "poll", "debounce"},
              flag : BOOLEAN, end : BOOLEAN, late : BOOLEAN]

TypeOK == /\ radio \in RadioState
          /\ idle \in Seq(Request)
          /\ timers \in Nat
          /\ ptt \in BOOLEAN
          /\ voxen \in BOOLEAN
          /\ menu \in {"closed", "on", "off"}
          /\ sound \in BOOLEAN
          /\ mic \in {"sample", "hang"}
          /\ auto \in AutoState
          /\ setter \in {"none", "mox", "vox", "tune"}
          /\ cancelled \in BOOLEAN

Init == /\ radio \in {RadioOff(m) : m \in Modes}
        /\ idle = << >>
        /\ timers = 0
        /\ ptt = FALSE
        /\ voxen = FALSE
        /\ menu = "closed"
        /\ sound = FALSE
        /\ mic = "sample"
        /\ auto = [pc |-> "none", flag |-> FALSE, end |-> TRUE, late |-> FALSE]
        /\ setter = "none"
        /\ cancelled = FALSE

Post(c, on) == /\ Len(idle) < MaxIdle
                  /\ idle' = Append(idle, [call |-> c, on |-> on])

StartTimer == timers < MaxTimers /\ timers' = timers + 1
-----------------------------------------------------------------------------
(* The GTK main thread *)

Passes(f) == CASE f = "mox"  -> MoxPasses(radio, TRUE)
               [] f = "vox"  -> VoxPasses(radio, TRUE)
               [] f = "tune" -> TunePasses(radio, TRUE)

\* radio_set_<f>(1) is called, and returns at once unless it passes its tests.
Enter(f) == setter = "none" /\ setter' = IF Passes(f) THEN f ELSE "none"

\* A handler that comes and goes without such a call.
NoCall == setter = "none" /\ UNCHANGED setter

\* vox_cancel() is called while the microphone thread still counts, or is
\* about to, so that it will not end VOX by itself any more.
Counting(r) == r.trig \/ r.hang > 0

NoteCancel == cancelled' = (cancelled \/ (Counting(radio) /\ ~Counting(radio')))

\* The rest of the call, with the transmit flag set at the end.
Perform == /\ setter # "none"
           /\ setter' = "none"
           /\ radio' = CASE setter = "mox"  -> ApplyMox(radio, radio.inband)
                         [] setter = "vox"  -> ApplyVox(radio, TRUE)
                         [] setter = "tune" -> ApplyTune(radio, TRUE)
           /\ NoteCancel
           /\ UNCHANGED <<idle, timers, threadvars>>

\* What the ext_radio_set_xxx() wrappers of ext.c call, apart from the calls
\* that may put the radio on the air.
Handle(r, q) == CASE q.call = "mox"    -> SetMox(r, FALSE)
                  [] q.call = "vox"    -> SetVox(r, FALSE)
                  [] q.call = "tune"   -> SetTune(r, FALSE)
                  [] q.call = "duplex" -> SetDuplex(r, q.on)

KeysUp(q) == q.on /\ q.call # "duplex"

DispatchIdle == /\ idle # << >>
                /\ idle' = Tail(idle)
                /\ LET q == Head(idle) IN
                   \/ KeysUp(q) /\ Enter(q.call) /\ UNCHANGED radio
                   \/ ~KeysUp(q) /\ NoCall /\ radio' = Handle(radio, q)
                /\ NoteCancel
                /\ UNCHANGED <<timers, threadvars>>

FireTimer == /\ timers > 0
             /\ timers' = timers - 1
             /\ NoCall
             /\ radio' = SetMox(radio, FALSE)
             /\ NoteCancel
             /\ UNCHANGED <<idle, threadvars>>

\* MOX button, space bar: toggle, with the PTT delay before going RX.
ToggleMox == /\ "mox" \in Sources
             /\ \/ radio.mox /\ StartTimer /\ NoCall
                \/ ~radio.mox /\ Enter("mox") /\ UNCHANGED timers
             /\ UNCHANGED <<radio, idle, envvars>>

\* PTT button and the CAT commands TX and RX.
PttAction(on) == /\ "mox" \in Sources
                 /\ \/ on /\ Enter("mox") /\ UNCHANGED timers
                    \/ ~on /\ StartTimer /\ NoCall
                 /\ UNCHANGED <<radio, idle, envvars>>

\* CW_KEYER_PTT: an external keyer's PTT, which goes RX at once but leaves
\* the radio on the air while the radio reports its own PTT.
KeyerPtt(on) == /\ "keyer" \in Sources
                /\ \/ on /\ Enter("mox") /\ UNCHANGED radio
                   \/ ~on /\ ptt /\ NoCall /\ UNCHANGED radio
                   \/ ~on /\ ~ptt /\ NoCall /\ radio' = SetMox(radio, FALSE)
                /\ NoteCancel
                /\ UNCHANGED <<idle, timers, threadvars>>

ToggleTune == /\ "tune" \in Sources
              /\ \/ radio.tune /\ NoCall /\ radio' = SetTune(radio, FALSE)
                 \/ ~radio.tune /\ Enter("tune") /\ UNCHANGED radio
              /\ NoteCancel
              /\ UNCHANGED <<idle, timers, threadvars>>

ToggleTwotone == /\ "twotone" \in Sources
                 /\ radio' = SetTwotone(radio, ~radio.twotone)
                 /\ Post("mox", ~radio.twotone)
                 /\ NoCall
                 /\ UNCHANGED <<timers, envvars>>

ToggleDuplexOnAir == /\ "duplex" \in Sources
                     /\ radio' = SetDuplex(radio, ~radio.duplex)
                     /\ NoCall
                     /\ UNCHANGED <<idle, timers, envvars>>

\* The DUPLEX action and the check boxes in the menus.
ToggleDuplex == /\ "duplex" \in Sources
                /\ ~Transmitting(radio)
                /\ radio' = SetDuplex(radio, ~radio.duplex)
                /\ NoCall
                /\ UNCHANGED <<idle, timers, envvars>>

\* Recalling a satellite memory slot queues its duplex setting.
RecallMemory(dup) == /\ "recall" \in Sources
                     /\ ~Transmitting(radio)
                     /\ Post("duplex", dup)
                     /\ NoCall
                     /\ UNCHANGED <<radio, timers, envvars>>

ChangeMode(m) == /\ "mode" \in Sources
                 /\ radio.tune => "modetune" \in Sources
                 /\ m # radio.mode
                 /\ radio' = SetMode(radio, m)
                 /\ NoCall
                 /\ UNCHANGED <<idle, timers, envvars>>

\* The TX frequency moves into or out of the band.
Retune == /\ "band" \in Sources
          /\ radio' = [radio EXCEPT !.inband = ~radio.inband]
          /\ NoCall
          /\ UNCHANGED <<idle, timers, envvars>>

ToggleVox == /\ "vox" \in Sources
             /\ voxen' = ~voxen
             /\ NoCall
             /\ UNCHANGED <<radio, idle, timers, ptt, menu, sound, mic, auto, cancelled>>

OpenVoxMenu == /\ "voxmenu" \in Sources
               /\ menu = "closed"
               /\ menu' = IF voxen THEN "on" ELSE "off"
               /\ voxen' = FALSE
               /\ NoCall
               /\ UNCHANGED <<radio, idle, timers, ptt, sound, mic, auto, cancelled>>

\* The "VOX Enable" check box of the menu.
SetVoxInMenu == /\ menu # "closed"
                /\ menu' = IF menu = "on" THEN "off" ELSE "on"
                /\ NoCall
                /\ UNCHANGED <<radio, idle, timers, ptt, voxen, sound, mic, auto, cancelled>>

CloseVoxMenu == /\ menu # "closed"
                /\ menu' = "closed"
                /\ voxen' = (menu = "on")
                /\ NoCall
                /\ UNCHANGED <<radio, idle, timers, ptt, sound, mic, auto, cancelled>>

Gtk == \/ DispatchIdle \/ FireTimer \/ Perform
       \/ ToggleMox \/ ToggleTune \/ ToggleTwotone \/ ToggleDuplex
       \/ Retune \/ ToggleVox \/ OpenVoxMenu \/ SetVoxInMenu \/ CloseVoxMenu
       \/ \E on \in BOOLEAN : PttAction(on) \/ KeyerPtt(on) \/ RecallMemory(on)
       \/ \E m \in Modes : ChangeMode(m)
-----------------------------------------------------------------------------
(* The protocol thread: process_control_bytes(), process_high_priority() *)

PttEdge == /\ "ptt" \in Sources
           /\ ptt' = ~ptt
           /\ \/ ~ptt /\ Post("mox", TRUE) /\ UNCHANGED timers
              \/ ptt /\ StartTimer /\ UNCHANGED idle
           /\ UNCHANGED <<radio, voxen, menu, sound, mic, auto, setter, cancelled>>

InhibitOnSilent == /\ "inhibit" \in Sources
                   /\ ~radio.inhibit
                   /\ radio' = [radio EXCEPT !.inhibit = TRUE]
                   /\ UNCHANGED <<idle, timers, envvars, setter>>

InhibitOn == /\ "inhibit" \in Sources
             /\ ~radio.inhibit
             /\ radio' = [radio EXCEPT !.inhibit = TRUE]
             /\ Post("mox", FALSE)
             /\ UNCHANGED <<timers, envvars, setter>>

InhibitOff == /\ radio.inhibit
              /\ radio' = [radio EXCEPT !.inhibit = FALSE]
              /\ UNCHANGED <<idle, timers, envvars, setter>>

\* The auto-tune line is read: raised (end) or pulled low, which starts the
\* thread unless it is running.  A thread that ran before has cleared the
\* flag as its last act, so joining it does not block.
AutoTuneLine(end) ==
  /\ "auto" \in Sources
  /\ auto' = IF ~end /\ ~auto.flag
             THEN [pc |-> "begin", flag |-> TRUE, end |-> FALSE, late |-> FALSE]
             ELSE [auto EXCEPT !.end = end]
  /\ UNCHANGED <<radio, idle, timers, ptt, voxen, menu, sound, mic, setter, cancelled>>

Protocol == \/ PttEdge \/ InhibitOn \/ InhibitOff
            \/ \E end \in BOOLEAN : AutoTuneLine(end)
-----------------------------------------------------------------------------
(* The auto-tune thread *)

AutoBegin == /\ auto.pc = "begin"
             /\ Post("tune", TRUE)
             /\ auto' = [auto EXCEPT !.pc = "poll"]
             /\ UNCHANGED <<radio, timers, ptt, voxen, menu, sound, mic, setter, cancelled>>

\* auto_tune_end is seen at one of the 50 ms polls.
AutoEnd == /\ auto.pc = "poll"
           /\ auto.end
           /\ Post("tune", FALSE)
           /\ auto' = [auto EXCEPT !.pc = "debounce"]
           /\ UNCHANGED <<radio, timers, ptt, voxen, menu, sound, mic, setter, cancelled>>

AutoLateForgotten == /\ auto.pc = "poll"
                     /\ ~auto.end /\ ~auto.late
                     /\ auto' = [auto EXCEPT !.late = TRUE]
                     /\ UNCHANGED <<radio, idle, timers, ptt, voxen, menu, sound, mic, setter, cancelled>>

\* The 200th poll: stop tuning although the line is still low.
AutoLate == /\ auto.pc = "poll"
            /\ ~auto.end /\ ~auto.late
            /\ Post("tune", FALSE)
            /\ auto' = [auto EXCEPT !.late = TRUE]
            /\ UNCHANGED <<radio, timers, ptt, voxen, menu, sound, mic, setter, cancelled>>

AutoExit == /\ auto.pc = "debounce"
            /\ auto' = [auto EXCEPT !.pc = "none", !.flag = FALSE]
            /\ UNCHANGED <<radio, idle, timers, ptt, voxen, menu, sound, mic, setter, cancelled>>

AutoTune == AutoBegin \/ AutoEnd \/ AutoLate \/ AutoExit
-----------------------------------------------------------------------------
(* The microphone thread: the VOX part of tx_add_mic_sample() *)

Silenced == radio.tune \/ radio.mode = "CW"

MicSilenced == /\ mic = "sample" /\ Silenced
               /\ radio' = VoxCancel(radio)
               /\ NoteCancel
               /\ UNCHANGED <<idle, timers, threadvars, setter>>

\* A loud sample triggers VOX.  The hang time is set by a second write, and
\* vox_cancel() on the main thread may come between the two.
MicTrigger == /\ mic = "sample" /\ ~Silenced /\ voxen /\ sound /\ ~radio.trig
              /\ radio' = [radio EXCEPT !.trig = TRUE]
              /\ Post("vox", TRUE)
              /\ mic' = "hang"
              /\ cancelled' = FALSE
              /\ UNCHANGED <<timers, ptt, voxen, menu, sound, auto, setter>>

MicHang == /\ mic = "hang" \/ (~Silenced /\ voxen /\ sound /\ radio.trig)
           /\ radio' = [radio EXCEPT !.hang = HangTime]
           /\ mic' = "sample"
           /\ cancelled' = FALSE
           /\ UNCHANGED <<idle, timers, ptt, voxen, menu, sound, auto, setter>>

MicQuietForgotten ==
  /\ mic = "sample" /\ ~Silenced /\ voxen /\ ~sound /\ radio.hang > 0
  /\ radio' = IF radio.hang > 1 THEN [radio EXCEPT !.hang = radio.hang - 1]
              ELSE VoxCancel(radio)
  /\ UNCHANGED <<idle, timers, envvars, setter>>

\* One sample of silence; the last one of the hang time ends VOX.
MicQuiet == /\ mic = "sample" /\ ~Silenced /\ voxen /\ ~sound /\ radio.hang > 0
            /\ \/ /\ radio.hang > 1
                  /\ radio' = [radio EXCEPT !.hang = radio.hang - 1]
                  /\ UNCHANGED idle
               \/ /\ radio.hang = 1
                  /\ radio' = VoxCancel(radio)
                  /\ Post("vox", FALSE)
            /\ UNCHANGED <<timers, envvars, setter>>

Mic == MicSilenced \/ MicTrigger \/ MicHang \/ MicQuiet

\* The operator starts or stops to speak.
Speak == /\ "vox" \in Sources
         /\ sound' = ~sound
         /\ UNCHANGED <<radio, idle, timers, ptt, voxen, menu, mic, auto, setter, cancelled>>

Next == Gtk \/ Protocol \/ AutoTune \/ Mic \/ Speak

Spec == Init /\ [][Next]_vars

\* A call returns, the main loop comes back to its queue and its timers however
\* many events the user makes in between, and no thread stops.
Fairness == /\ WF_vars(Perform)
            /\ SF_vars(DispatchIdle)
            /\ SF_vars(FireTimer)
            /\ WF_vars(AutoTune)
            /\ WF_vars(Mic)

FairSpec == Spec /\ Fairness
-----------------------------------------------------------------------------
(* Properties *)

\* The radio is on the air for one reason at a time: radio_set_mox(),
\* radio_set_vox() and radio_set_tune() clear each other's flag on every path,
\* also when one of them calls another.
OneReason == /\ ~(radio.mox /\ radio.vox)
             /\ ~(radio.mox /\ radio.tune)
             /\ ~(radio.vox /\ radio.tune)

\* The TX channel runs exactly while radio_is_transmitting(), and rxtx() is
\* never called for the state the radio is in already (it would take a panel
\* out of the window twice).
TxFollowsFlags == (radio.tx <=> Transmitting(radio)) /\ ~radio.redo

\* The receivers run when the radio does not transmit, and in duplex mode
\* always, as long as nothing but the guarded DUPLEX handlers changes duplex.
RxFollowsFlags ==
  "recall" \notin Sources => (radio.rx <=> radio.duplex \/ ~Transmitting(radio))

\* When TUNE is over, however it ended, the operator's keyer setting is back,
\* and the transmitter is back in the mode of the VFO, unless the mode was
\* changed while tuning.  The tone generator never outlives the TUNE or two-tone
\* test it runs for.
TuneRestores ==
  /\ ~radio.tune => /\ radio.keyint = KeyerInternal
                    /\ "modetune" \notin Sources => radio.txmode = radio.mode
  /\ radio.gen = "single" => radio.tune
  /\ radio.gen = "two" => radio.twotone

\* The reason the call under way will put the radio on the air for: out of
\* band, MOX on has become MOX off, which passes the test in any case.
Granted == IF setter = "mox" /\ ~radio.inband THEN "none" ELSE setter

\* While TX inhibit is active the radio is off the air and no call that passed
\* its test before will put it there, or else the callback that takes it off
\* the air is already queued.
InhibitPending ==
  radio.inhibit /\ (Transmitting(radio) \/ Granted # "none") =>
     \E i \in 1..Len(idle) : idle[i] = [call |-> "mox", on |-> FALSE]

\* The abstract specification the transmit control implements.
Reason == CASE radio.mox  -> "mox"
            [] radio.vox  -> "vox"
            [] radio.tune -> "tune"
            [] OTHER      -> "none"

K == INSTANCE Keying WITH Reasons <- {"mox", "vox", "tune"}, reason <- Reason,
                          inhibit <- radio.inhibit, granted <- Granted

ImplementsKeying == K!FairSpec

\* A tune started through the auto-tune line ends, also if the line stays low
\* for ever: the thread gives up after 200 polls.
AutoTuneEnds == []<>~radio.tune

\* Once the operator stays silent, VOX ends: the microphone thread's request
\* follows its last sample of the hang time, and nothing that happens to the
\* request or to the counters in between loses it.  The exception is a
\* vox_cancel() that cut the count off (a MOX or TUNE served before the queued
\* request that switches VOX on, or CW in between): VOX may then stay on
\* until the microphone thread is triggered again.
VoxEnds ==
  <>[](voxen /\ ~sound /\ radio.mode = "SSB") => []<>(~radio.vox \/ cancelled)

\* The radio ends a transmission that its PTT line started by releasing it.
PttReleaseEnds == <>[]~ptt => <>[]~radio.mox
=============================================================================
