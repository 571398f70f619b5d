------------------------------- MODULE Radio -------------------------------
(***************************************************************************)
(* The transmit/receive globals of radio.c and transmitter.c, kept in one  *)
(* record, and the functions of radio.c that change them.  Those functions *)
(* run on the GTK main thread only, one after the other, so each is one    *)
(* operator from the record before the call to the record after it.        *)
(*                                                                         *)
(*   mox, vox, tune   the three reasons to be on the air                   *)
(*   twotone          transmitter->twotone                                 *)
(*   gen              the TX post generator (off, single tone, two tones)  *)
(*   tx, rx           the TX and RX channels are running and displayed     *)
(*   redo             rxtx() was once called for the state it was in       *)
(*   duplex           receivers keep running during TX                     *)
(*   mode, txmode     mode of the TX VFO, mode set in the TX channel       *)
(*   premode, preint  pre_tune_mode, pre_tune_cw_internal                  *)
(*   keyint           cw_keyer_internal                                    *)
(*   inhibit, inband  TxInhibit, the result of TransmitAllowed()           *)
(*   trig, hang       vox_triggered, vox_count                             *)
(*   cap, presses     capture_state and the CAPTURE/REPLAY presses that    *)
(*                    are scheduled but not yet processed                  *)
(*                                                                         *)
(* There is a transmitter (transmitter # NULL), and this is the radio's    *)
(* own program, not a remote client (radio_is_remote = 0).                 *)
(***************************************************************************)
EXTENDS Naturals

CONSTANT KeyerInternal  \* the operator's setting of cw_keyer_internal

ASSUME KeyerAssumption == KeyerInternal \in BOOLEAN

\* The modes a property tells apart: CWL/CWU, and all the others.
Modes == {"CW", "SSB"}

CapStates == {"INIT", "AVAIL", "RECORDING", "RECORD_DONE", "XMIT", "XMIT_DONE",
              "REPLAY", "REPLAY_DONE", "GOTOSLEEP", "SLEEPING"}

RadioState ==
  [mox : BOOLEAN, vox : BOOLEAN, tune : BOOLEAN, twotone : BOOLEAN,
   gen : {"off", "single", "two"}, tx : BOOLEAN, rx : BOOLEAN, redo : BOOLEAN,
   duplex : BOOLEAN, mode : Modes, txmode : Modes, premode : Modes,
   preint : BOOLEAN, keyint : BOOLEAN, inhibit : BOOLEAN, inband : BOOLEAN,
   trig : BOOLEAN, hang : Nat, cap : CapStates, presses : Nat]

\* Receiving, nothing ever captured, in mode m.
RadioOff(m) ==
  [mox |-> FALSE, vox |-> FALSE, tune |-> FALSE, twotone |-> FALSE,
   gen |-> "off", tx |-> FALSE, rx |-> TRUE, redo |-> FALSE,
   duplex |-> FALSE, mode |-> m, txmode |-> m, premode |-> "SSB",
   preint |-> FALSE, keyint |-> KeyerInternal, inhibit |-> FALSE, inband |-> TRUE,
   trig |-> FALSE, hang |-> 0, cap |-> "INIT", presses |-> 0]

Transmitting(r) == r.mox \/ r.vox \/ r.tune

\* rxtx() stops a running capture, transmission or replay of audio: it marks
\* it as done and schedules the CAPTURE press that will end it.
Aborted(c) == CASE c = "RECORDING" -> "RECORD_DONE"
                [] c = "XMIT"      -> "XMIT_DONE"
                [] c = "REPLAY"    -> "REPLAY_DONE"
                [] OTHER           -> c

AbortReceiveOnly(r) ==
  IF r.cap \in {"RECORDING", "REPLAY"}
  THEN [r EXCEPT !.cap = Aborted(r.cap), !.presses = r.presses + 1]
  ELSE r

AbortCapture(r) ==
  IF r.cap \in {"RECORDING", "XMIT", "REPLAY"}
  THEN [r EXCEPT !.cap = Aborted(r.cap), !.presses = r.presses + 1]
  ELSE r

\* The RX/TX (on) or TX/RX (~on) transition itself.
Rxtx(r, on) ==
  [AbortCapture(r) EXCEPT !.tx = on,
                          !.rx = IF r.duplex THEN r.rx ELSE ~on,
                          !.redo = r.redo \/ r.tx = on]

\* vox_cancel()
VoxCancel(r) == [r EXCEPT !.trig = FALSE, !.hang = 0]

DropMoxVoxOnAir(r) == [VoxCancel(r) EXCEPT !.mox = FALSE, !.vox = FALSE]

\* Leaving MOX or VOX, the first thing a change of TUNE does.
DropMoxVox(r) ==
  IF r.mox \/ r.vox
  THEN [Rxtx(VoxCancel(r), FALSE) EXCEPT !.mox = FALSE, !.vox = FALSE]
  ELSE VoxCancel(r)

StartTune(r) ==
  Rxtx([r EXCEPT !.premode = r.mode, !.preint = r.keyint, !.gen = "single",
                 !.keyint = IF r.mode = "CW" THEN FALSE ELSE r.keyint,
                 !.txmode = IF r.mode = "CW" THEN "SSB" ELSE r.txmode,
                 !.tune = TRUE], TRUE)

EndTuneKeepMode(r) == [Rxtx([r EXCEPT !.gen = "off"], FALSE) EXCEPT !.tune = FALSE]

EndTune(r) ==
  [Rxtx([r EXCEPT !.gen = "off"], FALSE)
     EXCEPT !.txmode = IF r.premode = "CW" THEN "CW" ELSE r.txmode,
            !.keyint = IF r.premode = "CW" THEN r.preint ELSE r.keyint,
            !.tune = FALSE]

\* radio_set_tune() and radio_set_mox() start with a test of TxInhibit, and
\* so does radio_set_vox() unless MOX or TUNE keep the radio on the air: a
\* call that does not pass it returns.
TunePasses(r, on) == ~(on /\ r.inhibit)

MoxPasses(r, on) == ~(on /\ r.inband /\ r.inhibit)

VoxPassesOverMox(r, on) == ~r.tune /\ ~(on /\ r.inhibit)

VoxPassesInhibited(r, on) == ~r.mox /\ ~r.tune

VoxPasses(r, on) == ~r.mox /\ ~r.tune /\ ~(on /\ r.inhibit)

\* The part of radio_set_tune() behind the test: out of band, a request to
\* tune becomes one to stop.
ApplyTune(r, on) ==
  LET want == on /\ r.inband IN
  IF want = r.tune THEN r
  ELSE IF want THEN StartTune(DropMoxVox(r)) ELSE EndTune(DropMoxVox(r))

\* The whole call.  The SetXxx() operators are for the modules in which it
\* makes no difference that TxInhibit may change between the test and the
\* rest of the call, which does not read it; TxControl keeps the two apart.
SetTune(r, on) == IF TunePasses(r, on) THEN ApplyTune(r, on) ELSE r

\* radio_toggle_tune()
TuneToggled(r) == SetTune(r, ~r.tune)

\* The part of radio_set_mox() behind the test.
ApplyMox(r, on) ==
  LET s == VoxCancel(IF r.tune THEN SetTune(r, FALSE) ELSE r)
      t == IF on # Transmitting(s) THEN Rxtx(s, on) ELSE s
  IN  [t EXCEPT !.mox = on, !.tune = FALSE, !.vox = FALSE]

\* radio_set_mox(): out of band, MOX on becomes MOX off.
SetMox(r, on) == IF MoxPasses(r, on) THEN ApplyMox(r, on /\ r.inband) ELSE r

\* The part of radio_set_vox() behind the tests, and the whole call.
ApplyVox(r, on) == IF r.vox = on THEN r ELSE [Rxtx(r, on) EXCEPT !.vox = on]

SetVox(r, on) == IF VoxPasses(r, on) THEN ApplyVox(r, on) ELSE r

\* radio_set_duplex()
SetDuplex(r, on) == [r EXCEPT !.duplex = on]

\* tx_set_twotone() without the mox request it posts.
SetTwotone(r, on) == [r EXCEPT !.twotone = on, !.gen = IF on THEN "two" ELSE "off"]

\* vfo_id_mode_changed() for the VFO that controls the transmitter.
SetMode(r, m) == [r EXCEPT !.mode = m, !.txmode = m]
=============================================================================
