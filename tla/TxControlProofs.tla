-------------------------- MODULE TxControlProofs --------------------------
(***************************************************************************)
(* Proofs about the transmit control, for every set of event sources and   *)
(* every bound.  Each function of radio.c gets one lemma: it keeps the     *)
(* record well-formed (Sound) and it respects TX inhibit (Obeys).  The     *)
(* steps of TxControl then follow one by one.                              *)
(***************************************************************************)
EXTENDS TxControl, TLAPS

\* The inductive strengthening of the properties that are about the record
\* alone: what premode, preint and txmode hold while tuning.
TuneMemory(r) ==
  /\ r.tune /\ r.premode = "CW" => r.preint = KeyerInternal
  /\ ~(r.tune /\ r.premode = "CW") => r.keyint = KeyerInternal
  /\ "modetune" \notin Sources =>
        /\ r.tune => r.premode = r.mode /\ r.txmode = "SSB"
        /\ ~r.tune => r.txmode = r.mode

Sound(r) ==
  /\ r \in RadioState
  /\ ~(r.mox /\ r.vox) /\ ~(r.mox /\ r.tune) /\ ~(r.vox /\ r.tune)
  /\ (r.tx <=> Transmitting(r)) /\ ~r.redo
  /\ "recall" \notin Sources => (r.rx <=> r.duplex \/ ~Transmitting(r))
  /\ r.gen = "single" => r.tune
  /\ r.gen = "two" => r.twotone
  /\ TuneMemory(r)

\* From r to s the inhibit line keeps its value, and the radio goes on the
\* air for no other reason than f, for VOX only from off the air.
Moves(r, s, f) ==
  /\ s.inhibit = r.inhibit
  /\ s.mox => r.mox \/ f = "mox"
  /\ s.vox => r.vox \/ (f = "vox" /\ ~Transmitting(r))
  /\ s.tune => r.tune \/ f = "tune"

\* A transmission can only end.
Obeys(r, s) == Moves(r, s, "none")
-----------------------------------------------------------------------------
(* The record *)

\* Every field has its type; stated field by field for the provers.
LEMMA FieldTypes ==
  ASSUME NEW r \in RadioState
  PROVE  /\ r.mox \in BOOLEAN /\ r.vox \in BOOLEAN /\ r.tune \in BOOLEAN
         /\ r.twotone \in BOOLEAN /\ r.gen \in {"off", "single", "two"}
         /\ r.tx \in BOOLEAN /\ r.rx \in BOOLEAN /\ r.redo \in BOOLEAN
         /\ r.duplex \in BOOLEAN /\ r.mode \in Modes /\ r.txmode \in Modes
         /\ r.premode \in Modes /\ r.preint \in BOOLEAN /\ r.keyint \in BOOLEAN
         /\ r.inhibit \in BOOLEAN /\ r.inband \in BOOLEAN /\ r.trig \in BOOLEAN
         /\ r.hang \in Nat /\ r.cap \in CapStates /\ r.presses \in Nat
  BY Zenon DEF RadioState

\* Aborting a capture changes the capture fields only.
LEMMA AbortCaptureEffect ==
  ASSUME NEW r \in RadioState
  PROVE  \E c \in CapStates, p \in Nat :
            AbortCapture(r) = [r EXCEPT !.cap = c, !.presses = p]
<1>1. r.cap \in CapStates /\ r.presses \in Nat
  BY FieldTypes
<1>2. r.presses + 1 \in Nat
  BY <1>1
<1>3. Aborted(r.cap) \in CapStates
  BY <1>1 DEF Aborted, CapStates
<1>4. r = [r EXCEPT !.cap = r.cap, !.presses = r.presses]
  BY DEF RadioState
<1>5. CASE r.cap \in {"RECORDING", "XMIT", "REPLAY"}
  <2>1. AbortCapture(r) = [r EXCEPT !.cap = Aborted(r.cap), !.presses = r.presses + 1]
    BY <1>5 DEF AbortCapture
  <2> QED BY <2>1, <1>2, <1>3
<1>6. CASE r.cap \notin {"RECORDING", "XMIT", "REPLAY"}
  BY <1>6, <1>1, <1>4 DEF AbortCapture
<1> QED BY <1>5, <1>6

\* rxtx() changes nothing but the channels and the capture state.
LEMMA RxtxEffect ==
  ASSUME NEW r \in RadioState, NEW on \in BOOLEAN
  PROVE  LET s == Rxtx(r, on) IN
         /\ s \in RadioState
         /\ s.mox = r.mox /\ s.vox = r.vox /\ s.tune = r.tune
         /\ s.twotone = r.twotone /\ s.gen = r.gen
         /\ s.tx = on
         /\ s.rx <=> IF r.duplex THEN r.rx ELSE ~on
         /\ s.redo <=> r.redo \/ (r.tx <=> on)
         /\ s.duplex = r.duplex /\ s.mode = r.mode /\ s.txmode = r.txmode
         /\ s.premode = r.premode /\ s.preint = r.preint /\ s.keyint = r.keyint
         /\ s.inhibit = r.inhibit /\ s.inband = r.inband
<1> DEFINE a == IF r.duplex THEN r.rx ELSE ~on
           b == r.redo \/ r.tx = on
           s == Rxtx(r, on)
<1>1. PICK c \in CapStates, p \in Nat :
         AbortCapture(r) = [r EXCEPT !.cap = c, !.presses = p]
  BY AbortCaptureEffect
<1>2. s = [[r EXCEPT !.cap = c, !.presses = p] EXCEPT !.tx = on, !.rx = a, !.redo = b]
  BY <1>1, Zenon DEF Rxtx
<1>3. a \in BOOLEAN /\ b \in BOOLEAN /\ (b <=> r.redo \/ (r.tx <=> on))
  <2>1. r.rx \in BOOLEAN /\ r.duplex \in BOOLEAN /\ r.tx \in BOOLEAN
    BY FieldTypes
  <2>2. a \in BOOLEAN
    BY <2>1, Zenon
  <2>3. (r.tx = on) <=> (r.tx <=> on)
    BY <2>1, Zenon
  <2>4. b <=> r.redo \/ (r.tx <=> on)
    BY <2>3, Zenon
  <2>5. b \in BOOLEAN
    BY Zenon
  <2> HIDE DEF a, b
  <2> QED BY <2>2, <2>4, <2>5
<1>4. s \in RadioState
  <2>1. a \in BOOLEAN /\ b \in BOOLEAN
    BY <1>3
  <2> DEFINE q == [r EXCEPT !.cap = c, !.presses = p]
  <2>2. q \in RadioState
    BY Zenon DEF RadioState
  <2> DEFINE q1 == [q EXCEPT !.tx = on]
             q2 == [q1 EXCEPT !.rx = a]
  <2>3. s = [q2 EXCEPT !.redo = b]
    BY <1>2, Zenon
  <2> HIDE DEF a, b, s, q
  <2>4. q1 \in RadioState
    BY <2>2, Zenon DEF RadioState
  <2> HIDE DEF q1
  <2>5. q2 \in RadioState
    BY <2>1, <2>4, Zenon DEF RadioState
  <2> HIDE DEF q2
  <2> QED BY <2>1, <2>3, <2>5, Zenon DEF RadioState
<1> HIDE DEF a, b, s
<1>5. /\ s.mox = r.mox /\ s.vox = r.vox /\ s.tune = r.tune
      /\ s.twotone = r.twotone /\ s.gen = r.gen
      /\ s.tx = on /\ s.rx = a /\ s.redo = b
  BY <1>2, Zenon DEF RadioState
<1>6. /\ s.duplex = r.duplex /\ s.mode = r.mode /\ s.txmode = r.txmode
      /\ s.premode = r.premode /\ s.preint = r.preint /\ s.keyint = r.keyint
      /\ s.inhibit = r.inhibit /\ s.inband = r.inband
  BY <1>2, Zenon DEF RadioState
<1>7. s.rx <=> IF r.duplex THEN r.rx ELSE ~on
  BY <1>5 DEF a
<1> QED BY <1>3, <1>4, <1>5, <1>6, <1>7 DEF s

\* vox_cancel() is invisible to everything but the VOX counters.
LEMMA VoxCancelEffect ==
  ASSUME NEW r \in RadioState
  PROVE  LET s == VoxCancel(r) IN
         /\ s \in RadioState
         /\ s.mox = r.mox /\ s.vox = r.vox /\ s.tune = r.tune
         /\ s.twotone = r.twotone /\ s.gen = r.gen
         /\ s.tx = r.tx /\ s.rx = r.rx /\ s.redo = r.redo
         /\ s.duplex = r.duplex /\ s.mode = r.mode /\ s.txmode = r.txmode
         /\ s.premode = r.premode /\ s.preint = r.preint /\ s.keyint = r.keyint
         /\ s.inhibit = r.inhibit /\ s.inband = r.inband
<1>1. 0 \in Nat
  OBVIOUS
<1> QED BY <1>1, Zenon DEF VoxCancel, RadioState

\* vox_cancel() keeps the record sound.
LEMMA VoxCancelSound ==
  ASSUME NEW r, Sound(r)
  PROVE  Sound(VoxCancel(r)) /\ Obeys(r, VoxCancel(r))
<1>1. r \in RadioState
  BY DEF Sound
<1> QED BY <1>1, VoxCancelEffect, FieldTypes DEF Sound, Obeys, Moves, TuneMemory, Transmitting

\* The start of radio_set_tune(): MOX and VOX are dropped with one TX/RX
\* transition, and TUNE, mode and duplex stay as they were.
LEMMA DropMoxVoxSound ==
  ASSUME NEW r, Sound(r)
  PROVE  LET d == DropMoxVox(r) IN
         /\ Sound(d) /\ Obeys(r, d)
         /\ ~d.mox /\ ~d.vox
         /\ d.tune = r.tune /\ d.mode = r.mode /\ d.duplex = r.duplex
<1> DEFINE v == VoxCancel(r)
           s == Rxtx(v, FALSE)
           d == DropMoxVox(r)
<1>1. r \in RadioState
  BY DEF Sound
<1>2. /\ v \in RadioState /\ Sound(v) /\ Obeys(r, v)
      /\ v.mox = r.mox /\ v.vox = r.vox /\ v.tune = r.tune
      /\ v.mode = r.mode /\ v.duplex = r.duplex
  BY <1>1, VoxCancelEffect, VoxCancelSound
<1>3. CASE r.mox \/ r.vox
  <2>1. d = [s EXCEPT !.mox = FALSE, !.vox = FALSE]
    BY <1>3 DEF DropMoxVox
  <2>2. /\ s \in RadioState /\ s.tune = v.tune /\ s.twotone = v.twotone /\ s.gen = v.gen
        /\ s.tx = FALSE
        /\ s.rx <=> IF v.duplex THEN v.rx ELSE ~FALSE
        /\ s.redo <=> v.redo \/ (v.tx <=> FALSE)
        /\ s.duplex = v.duplex /\ s.mode = v.mode /\ s.txmode = v.txmode
        /\ s.premode = v.premode /\ s.preint = v.preint /\ s.keyint = v.keyint
        /\ s.inhibit = v.inhibit
    BY <1>2, RxtxEffect
  <2> HIDE DEF v, s, d
  <2>3. /\ d \in RadioState /\ d.tune = s.tune /\ d.twotone = s.twotone /\ d.gen = s.gen
        /\ ~d.mox /\ ~d.vox /\ d.tx = s.tx /\ d.rx = s.rx /\ d.redo = s.redo
        /\ d.duplex = s.duplex /\ d.mode = s.mode /\ d.txmode = s.txmode
        /\ d.premode = s.premode /\ d.preint = s.preint /\ d.keyint = s.keyint
        /\ d.inhibit = s.inhibit
    BY <2>1, <2>2, Zenon DEF RadioState
  <2>4. Sound(d)
    BY <2>2, <2>3, <1>2, <1>3, FieldTypes DEF Sound, TuneMemory, Transmitting
  <2>5. Obeys(r, d)
    BY <2>2, <2>3, <1>2, <1>3 DEF Obeys, Moves, Transmitting
  <2> QED BY <2>2, <2>3, <2>4, <2>5, <1>2 DEF d
<1>4. CASE ~(r.mox \/ r.vox)
  <2>1. d = v
    BY <1>4 DEF DropMoxVox
  <2> QED BY <2>1, <1>2, <1>4
<1> QED BY <1>3, <1>4

\* Starting to tune, off the air, remembers the mode and the
\* keyer setting that the end of TUNE needs.
LEMMA StartTuneSound ==
  ASSUME NEW r, Sound(r), ~Transmitting(r)
  PROVE  /\ Sound(StartTune(r)) /\ Moves(r, StartTune(r), "tune")
         /\ StartTune(r).tune
<1> DEFINE k == IF r.mode = "CW" THEN FALSE ELSE r.keyint
           m == IF r.mode = "CW" THEN "SSB" ELSE r.txmode
           q == [r EXCEPT !.premode = r.mode, !.preint = r.keyint, !.gen = "single",
                          !.keyint = k, !.txmode = m, !.tune = TRUE]
           s == StartTune(r)
<1>1. r \in RadioState
  BY DEF Sound
<1>2. s = Rxtx(q, TRUE)
  BY DEF StartTune
<1>3. k \in BOOLEAN /\ m \in Modes /\ r.mode \in Modes /\ r.keyint \in BOOLEAN
  BY <1>1, FieldTypes DEF Modes
<1> HIDE DEF k, m
<1>4. /\ q \in RadioState /\ q.tune /\ q.twotone = r.twotone /\ q.gen = "single"
      /\ q.mox = r.mox /\ q.vox = r.vox /\ q.tx = r.tx /\ q.rx = r.rx /\ q.redo = r.redo
      /\ q.duplex = r.duplex /\ q.mode = r.mode /\ q.txmode = m
      /\ q.premode = r.mode /\ q.preint = r.keyint /\ q.keyint = k
      /\ q.inhibit = r.inhibit
  BY <1>1, <1>3, Zenon DEF RadioState
<1> HIDE DEF q, s
<1>5. /\ s \in RadioState /\ s.tune = q.tune /\ s.twotone = q.twotone /\ s.gen = q.gen
      /\ s.mox = q.mox /\ s.vox = q.vox /\ s.tx = TRUE
      /\ s.rx <=> IF q.duplex THEN q.rx ELSE ~TRUE
      /\ s.redo <=> q.redo \/ (q.tx <=> TRUE)
      /\ s.duplex = q.duplex /\ s.mode = q.mode /\ s.txmode = q.txmode
      /\ s.premode = q.premode /\ s.preint = q.preint /\ s.keyint = q.keyint
      /\ s.inhibit = q.inhibit
  BY <1>2, <1>4, RxtxEffect
<1>6. m = "SSB" \/ "modetune" \in Sources
  BY <1>1, FieldTypes DEF m, Sound, TuneMemory, Transmitting, Modes
<1>7. r.mode # "CW" => k = r.keyint
  BY DEF k
<1>8. Sound(s)
  BY <1>1, <1>4, <1>5, <1>6, <1>7, FieldTypes DEF Sound, TuneMemory, Transmitting
<1> QED BY <1>4, <1>5, <1>8 DEF Obeys, Moves, Transmitting, s

\* Ending TUNE leaves the air and restores keyer setting and transmitter mode.
LEMMA EndTuneSound ==
  ASSUME NEW r, Sound(r), r.tune
  PROVE  Sound(EndTune(r)) /\ Obeys(r, EndTune(r)) /\ ~Transmitting(EndTune(r))
<1> DEFINE k == IF r.premode = "CW" THEN r.preint ELSE r.keyint
           m == IF r.premode = "CW" THEN "CW" ELSE r.txmode
           q == [r EXCEPT !.gen = "off"]
           s == Rxtx(q, FALSE)
           d == EndTune(r)
<1>1. r \in RadioState
  BY DEF Sound
<1>2. d = [s EXCEPT !.txmode = m, !.keyint = k, !.tune = FALSE]
  BY DEF EndTune
<1>3. k \in BOOLEAN /\ m \in Modes
  BY <1>1, FieldTypes DEF Modes
<1> HIDE DEF k, m
<1>4. /\ q \in RadioState /\ q.tune = r.tune /\ q.twotone = r.twotone /\ q.gen = "off"
      /\ q.mox = r.mox /\ q.vox = r.vox /\ q.tx = r.tx /\ q.rx = r.rx /\ q.redo = r.redo
      /\ q.duplex = r.duplex /\ q.mode = r.mode /\ q.inhibit = r.inhibit
  BY <1>1, Zenon DEF RadioState
<1> HIDE DEF q, d
<1>5. /\ s \in RadioState /\ s.twotone = q.twotone /\ s.gen = q.gen
      /\ s.mox = q.mox /\ s.vox = q.vox /\ s.tx = FALSE
      /\ s.rx <=> IF q.duplex THEN q.rx ELSE ~FALSE
      /\ s.redo <=> q.redo \/ (q.tx <=> FALSE)
      /\ s.duplex = q.duplex /\ s.mode = q.mode /\ s.inhibit = q.inhibit
  BY <1>4, RxtxEffect
<1> HIDE DEF s
<1>6. /\ d \in RadioState /\ ~d.tune /\ d.twotone = s.twotone /\ d.gen = s.gen
      /\ d.mox = s.mox /\ d.vox = s.vox /\ d.tx = s.tx /\ d.rx = s.rx /\ d.redo = s.redo
      /\ d.duplex = s.duplex /\ d.mode = s.mode /\ d.inhibit = s.inhibit
      /\ d.txmode = m /\ d.keyint = k
  BY <1>2, <1>3, <1>5, Zenon DEF RadioState
<1>7. m = r.mode \/ "modetune" \in Sources
  BY <1>1, FieldTypes DEF m, Sound, TuneMemory, Modes
<1>8. k = KeyerInternal
  BY DEF k, Sound, TuneMemory
<1>9. ~Transmitting(d)
  BY <1>4, <1>5, <1>6 DEF Sound, Transmitting
<1>10. Sound(d)
  BY <1>1, <1>4, <1>5, <1>6, <1>7, <1>8, <1>9, FieldTypes DEF Sound, TuneMemory, Transmitting
<1> QED BY <1>4, <1>5, <1>6, <1>9, <1>10 DEF Obeys, Moves, Transmitting, d

\* radio_set_tune() behind its test; TUNE off takes the radio off the air.
LEMMA ApplyTuneSound ==
  ASSUME NEW r, Sound(r), NEW on \in BOOLEAN
  PROVE  LET s == ApplyTune(r, on) IN
         /\ Sound(s) /\ Moves(r, s, IF on THEN "tune" ELSE "none")
         /\ ~on /\ r.tune => ~Transmitting(s)
<1> DEFINE d == DropMoxVox(r)
           f == IF on THEN "tune" ELSE "none"
<1>1. r \in RadioState /\ r.tune \in BOOLEAN /\ r.inband \in BOOLEAN
  BY FieldTypes DEF Sound
<1>2. Sound(d) /\ Obeys(r, d) /\ ~d.mox /\ ~d.vox /\ d.tune = r.tune /\ d.inhibit = r.inhibit
  BY DropMoxVoxSound DEF Obeys, Moves
<1>3. Sound(r) /\ Moves(r, r, f)
  BY DEF Moves
<1>4. CASE (on /\ r.inband) = r.tune
  <2>1. ApplyTune(r, on) = r
    BY <1>4 DEF ApplyTune
  <2>2. ~(~on /\ r.tune)
    BY <1>1, <1>4, Zenon
  <2> QED BY <2>1, <2>2, <1>3
<1>5. CASE (on /\ r.inband) # r.tune /\ on /\ r.inband
  <2>1. ApplyTune(r, on) = StartTune(d)
    BY <1>5 DEF ApplyTune
  <2>2. ~r.tune
    BY <1>1, <1>5, Zenon
  <2>3. ~Transmitting(d)
    BY <2>2, <1>2, <1>5 DEF Transmitting
  <2>4. Sound(StartTune(d)) /\ Moves(d, StartTune(d), "tune") /\ StartTune(d).tune
    BY <1>2, <2>3, StartTuneSound
  <2>5. Moves(r, StartTune(d), f)
    BY <2>4, <1>2, <1>5, <2>3 DEF Moves, Sound
  <2> QED BY <2>1, <2>2, <2>4, <2>5
<1>6. CASE (on /\ r.inband) # r.tune /\ ~(on /\ r.inband)
  <2>1. ApplyTune(r, on) = EndTune(d)
    BY <1>6 DEF ApplyTune
  <2>2. r.tune
    BY <1>1, <1>6, Zenon
  <2>3. Sound(EndTune(d)) /\ Obeys(d, EndTune(d)) /\ ~Transmitting(EndTune(d))
    BY <1>2, <2>2, EndTuneSound
  <2>4. Moves(r, EndTune(d), f)
    BY <2>3, <1>2 DEF Obeys, Moves, Transmitting
  <2> QED BY <2>1, <2>3, <2>4
<1> QED BY <1>4, <1>5, <1>6

\* radio_set_tune(0) as a whole.
LEMMA SetTuneOffSound ==
  ASSUME NEW r, Sound(r)
  PROVE  LET s == SetTune(r, FALSE) IN
         Sound(s) /\ Obeys(r, s) /\ (r.tune => ~Transmitting(s))
<1>1. SetTune(r, FALSE) = ApplyTune(r, FALSE)
  BY DEF SetTune, TunePasses
<1> QED BY <1>1, ApplyTuneSound DEF Obeys

\* radio_set_mox() behind its test: afterwards the radio is on the
\* air exactly if MOX was asked for, with no rxtx() call too many.
LEMMA ApplyMoxSound ==
  ASSUME NEW r, Sound(r), NEW on \in BOOLEAN
  PROVE  /\ Sound(ApplyMox(r, on))
         /\ Moves(r, ApplyMox(r, on), IF on THEN "mox" ELSE "none")
         /\ Transmitting(ApplyMox(r, on)) <=> on
<1> DEFINE u == IF r.tune THEN SetTune(r, FALSE) ELSE r
           s == VoxCancel(u)
           t == IF on # Transmitting(s) THEN Rxtx(s, on) ELSE s
           d == ApplyMox(r, on)
<1>1. Sound(u) /\ Obeys(r, u) /\ ~u.tune
  <2>1. CASE r.tune
    BY <2>1, SetTuneOffSound DEF Transmitting
  <2>2. CASE ~r.tune
    BY <2>2 DEF Obeys, Moves
  <2> QED BY <2>1, <2>2
<1> HIDE DEF u
<1>2. u \in RadioState
  BY <1>1 DEF Sound
<1>3. /\ s \in RadioState /\ Sound(s) /\ ~s.tune /\ s.inhibit = r.inhibit
  BY <1>1, <1>2, VoxCancelEffect, VoxCancelSound DEF Obeys, Moves
<1> HIDE DEF s
<1>4. on # Transmitting(s) <=> ~(on <=> Transmitting(s))
  <2>1. Transmitting(s) \in BOOLEAN
    BY Zenon DEF Transmitting
  <2> QED BY <2>1, Zenon
<1>5. /\ t \in RadioState /\ t.twotone = s.twotone /\ t.gen = s.gen
      /\ (t.tx <=> on) /\ ~t.redo
      /\ "recall" \notin Sources => (t.rx <=> s.duplex \/ ~on)
      /\ t.duplex = s.duplex /\ t.mode = s.mode /\ t.txmode = s.txmode
      /\ t.premode = s.premode /\ t.preint = s.preint /\ t.keyint = s.keyint
      /\ t.inhibit = s.inhibit
  <2>1. CASE on # Transmitting(s)
    <3>1. t = Rxtx(s, on)
      BY <2>1
    <3>2. /\ t \in RadioState /\ t.twotone = s.twotone /\ t.gen = s.gen
          /\ t.tx = on
          /\ t.rx <=> IF s.duplex THEN s.rx ELSE ~on
          /\ t.redo <=> s.redo \/ (s.tx <=> on)
          /\ t.duplex = s.duplex /\ t.mode = s.mode /\ t.txmode = s.txmode
          /\ t.premode = s.premode /\ t.preint = s.preint /\ t.keyint = s.keyint
          /\ t.inhibit = s.inhibit
      BY <3>1, <1>3, RxtxEffect
    <3> HIDE DEF t
    <3>3. ~(on <=> Transmitting(s))
      BY <2>1, <1>4
    <3> QED BY <3>2, <3>3, <1>3 DEF Sound
  <2>2. CASE ~(on # Transmitting(s))
    <3>1. t = s
      BY <2>2
    <3> QED BY <3>1, <2>2, <1>3, <1>4, FieldTypes DEF Sound
  <2> QED BY <2>1, <2>2
<1>6. d = [t EXCEPT !.mox = on, !.tune = FALSE, !.vox = FALSE]
  BY DEF ApplyMox, u, s
<1> HIDE DEF t, d
<1>7. /\ d \in RadioState /\ d.mox = on /\ ~d.tune /\ ~d.vox
      /\ d.twotone = t.twotone /\ d.gen = t.gen
      /\ d.tx = t.tx /\ d.rx = t.rx /\ d.redo = t.redo
      /\ d.duplex = t.duplex /\ d.mode = t.mode /\ d.txmode = t.txmode
      /\ d.premode = t.premode /\ d.preint = t.preint /\ d.keyint = t.keyint
      /\ d.inhibit = t.inhibit
  BY <1>5, <1>6, Zenon DEF RadioState
<1>8. Transmitting(d) <=> on
  BY <1>7 DEF Transmitting
<1>9. Sound(d)
  BY <1>3, <1>5, <1>7, <1>8, FieldTypes DEF Sound, TuneMemory, Transmitting
<1>10. Moves(r, d, IF on THEN "mox" ELSE "none")
  BY <1>3, <1>5, <1>7 DEF Moves
<1> QED BY <1>8, <1>9, <1>10 DEF d

\* radio_set_mox(0) as a whole always takes the radio off the air.
LEMMA SetMoxOffSound ==
  ASSUME NEW r, Sound(r)
  PROVE  LET s == SetMox(r, FALSE) IN Sound(s) /\ Obeys(r, s) /\ ~Transmitting(s)
<1>1. SetMox(r, FALSE) = ApplyMox(r, FALSE)
  BY Zenon DEF SetMox, MoxPasses
<1> QED BY <1>1, ApplyMoxSound DEF Obeys

\* radio_set_vox() behind its tests, with neither MOX nor TUNE set.
LEMMA ApplyVoxSound ==
  ASSUME NEW r, Sound(r), NEW on \in BOOLEAN, ~r.mox, ~r.tune
  PROVE  LET s == ApplyVox(r, on) IN
         Sound(s) /\ Moves(r, s, IF on THEN "vox" ELSE "none")
<1> DEFINE s == Rxtx(r, on)
           d == ApplyVox(r, on)
           f == IF on THEN "vox" ELSE "none"
<1>1. r \in RadioState /\ r.vox \in BOOLEAN /\ r.tx \in BOOLEAN
  BY FieldTypes DEF Sound
<1>2. CASE r.vox = on
  <2>1. d = r
    BY <1>2 DEF ApplyVox
  <2> QED BY <2>1 DEF Moves
<1>3. CASE r.vox # on
  <2>1. d = [s EXCEPT !.vox = on]
    BY <1>3 DEF ApplyVox
  <2>2. /\ s \in RadioState /\ s.mox = r.mox /\ s.tune = r.tune
        /\ s.twotone = r.twotone /\ s.gen = r.gen
        /\ s.tx = on
        /\ s.rx <=> IF r.duplex THEN r.rx ELSE ~on
        /\ s.redo <=> r.redo \/ (r.tx <=> on)
        /\ s.duplex = r.duplex /\ s.mode = r.mode /\ s.txmode = r.txmode
        /\ s.premode = r.premode /\ s.preint = r.preint /\ s.keyint = r.keyint
        /\ s.inhibit = r.inhibit
    BY <1>1, RxtxEffect
  <2>3. ~(r.vox <=> on)
    BY <1>1, <1>3, Zenon
  <2> HIDE DEF s, d
  <2>4. /\ d \in RadioState /\ d.vox = on /\ d.mox = s.mox /\ d.tune = s.tune
        /\ d.twotone = s.twotone /\ d.gen = s.gen
        /\ d.tx = s.tx /\ d.rx = s.rx /\ d.redo = s.redo
        /\ d.duplex = s.duplex /\ d.mode = s.mode /\ d.txmode = s.txmode
        /\ d.premode = s.premode /\ d.preint = s.preint /\ d.keyint = s.keyint
        /\ d.inhibit = s.inhibit
    BY <2>1, <2>2, Zenon DEF RadioState
  <2>5. Sound(d)
    BY <1>1, <2>2, <2>3, <2>4, FieldTypes DEF Sound, TuneMemory, Transmitting
  <2>6. Moves(r, d, f)
    BY <2>2, <2>3, <2>4 DEF Moves, Transmitting
  <2> QED BY <2>5, <2>6 DEF d
<1> QED BY <1>2, <1>3

\* radio_set_vox(0) as a whole.
LEMMA SetVoxOffSound ==
  ASSUME NEW r, Sound(r)
  PROVE  Sound(SetVox(r, FALSE)) /\ Obeys(r, SetVox(r, FALSE))
<1>1. CASE r.mox \/ r.tune
  <2>1. SetVox(r, FALSE) = r
    BY <1>1 DEF SetVox, VoxPasses
  <2> QED BY <2>1 DEF Obeys, Moves
<1>2. CASE ~r.mox /\ ~r.tune
  <2>1. SetVox(r, FALSE) = ApplyVox(r, FALSE)
    BY <1>2 DEF SetVox, VoxPasses
  <2> QED BY <1>2, <2>1, ApplyVoxSound DEF Obeys
<1> QED BY <1>1, <1>2

\* The two-tone test owns the generator it switches on.
LEMMA SetTwotoneSound ==
  ASSUME NEW r, Sound(r), NEW on \in BOOLEAN
  PROVE  Sound(SetTwotone(r, on)) /\ Obeys(r, SetTwotone(r, on))
<1> DEFINE g == IF on THEN "two" ELSE "off"
           d == SetTwotone(r, on)
<1>1. r \in RadioState
  BY DEF Sound
<1>2. g \in {"off", "single", "two"} /\ g # "single" /\ (g = "two" => on)
  OBVIOUS
<1>3. d = [r EXCEPT !.twotone = on, !.gen = g]
  BY DEF SetTwotone
<1> HIDE DEF g, d
<1>4. /\ d \in RadioState /\ d.mox = r.mox /\ d.vox = r.vox /\ d.tune = r.tune
      /\ d.twotone = on /\ d.gen = g
      /\ d.tx = r.tx /\ d.rx = r.rx /\ d.redo = r.redo
      /\ d.duplex = r.duplex /\ d.mode = r.mode /\ d.txmode = r.txmode
      /\ d.premode = r.premode /\ d.preint = r.preint /\ d.keyint = r.keyint
      /\ d.inhibit = r.inhibit
  BY <1>1, <1>2, <1>3, Zenon DEF RadioState
<1>5. Sound(d) /\ Obeys(r, d)
  BY <1>2, <1>4, FieldTypes DEF Sound, Obeys, Moves, TuneMemory, Transmitting
<1> QED BY <1>5 DEF d

\* radio_set_duplex() is harmless off the air.
LEMMA SetDuplexSound ==
  ASSUME NEW r, Sound(r), NEW on \in BOOLEAN,
         ~Transmitting(r) \/ "recall" \in Sources
  PROVE  Sound(SetDuplex(r, on)) /\ Obeys(r, SetDuplex(r, on))
<1> DEFINE d == SetDuplex(r, on)
<1>1. r \in RadioState
  BY DEF Sound
<1>2. /\ d \in RadioState /\ d.mox = r.mox /\ d.vox = r.vox /\ d.tune = r.tune
      /\ d.twotone = r.twotone /\ d.gen = r.gen
      /\ d.tx = r.tx /\ d.rx = r.rx /\ d.redo = r.redo
      /\ d.duplex = on /\ d.mode = r.mode /\ d.txmode = r.txmode
      /\ d.premode = r.premode /\ d.preint = r.preint /\ d.keyint = r.keyint
      /\ d.inhibit = r.inhibit
  BY <1>1, Zenon DEF RadioState, SetDuplex
<1> HIDE DEF d
<1>3. Sound(d) /\ Obeys(r, d)
  BY <1>1, <1>2, FieldTypes DEF Sound, Obeys, Moves, TuneMemory, Transmitting
<1> QED BY <1>3 DEF d

\* A change of mode is harmless outside TUNE.
LEMMA SetModeSound ==
  ASSUME NEW r, Sound(r), NEW m \in Modes,
         ~r.tune \/ "modetune" \in Sources
  PROVE  Sound(SetMode(r, m)) /\ Obeys(r, SetMode(r, m))
<1> DEFINE d == SetMode(r, m)
<1>1. r \in RadioState
  BY DEF Sound
<1>2. /\ d \in RadioState /\ d.mox = r.mox /\ d.vox = r.vox /\ d.tune = r.tune
      /\ d.twotone = r.twotone /\ d.gen = r.gen
      /\ d.tx = r.tx /\ d.rx = r.rx /\ d.redo = r.redo
      /\ d.duplex = r.duplex /\ d.mode = m /\ d.txmode = m
      /\ d.premode = r.premode /\ d.preint = r.preint /\ d.keyint = r.keyint
      /\ d.inhibit = r.inhibit
  BY <1>1, Zenon DEF RadioState, SetMode
<1> HIDE DEF d
<1>3. Sound(d) /\ Obeys(r, d)
  BY <1>1, <1>2, FieldTypes DEF Sound, Obeys, Moves, TuneMemory, Transmitting
<1> QED BY <1>3 DEF d

\* Two records that differ only in fields no property mentions.
SameCore(r, d) ==
  /\ d.mox = r.mox /\ d.vox = r.vox /\ d.tune = r.tune
  /\ d.twotone = r.twotone /\ d.gen = r.gen
  /\ d.tx = r.tx /\ d.rx = r.rx /\ d.redo = r.redo
  /\ d.duplex = r.duplex /\ d.mode = r.mode /\ d.txmode = r.txmode
  /\ d.premode = r.premode /\ d.preint = r.preint /\ d.keyint = r.keyint
  /\ d.inhibit = r.inhibit

\* Fields no property mentions may change freely.
LEMMA SameCoreSound ==
  ASSUME NEW r, Sound(r), NEW d \in RadioState, SameCore(r, d)
  PROVE  Sound(d) /\ Obeys(r, d)
  BY FieldTypes DEF SameCore, Sound, Obeys, Moves, TuneMemory, Transmitting

\* The band check and the VOX counters are such fields.
LEMMA NeutralSound ==
  ASSUME NEW r, Sound(r), NEW b \in BOOLEAN, NEW n \in Nat
  PROVE  /\ Sound([r EXCEPT !.inband = b]) /\ Obeys(r, [r EXCEPT !.inband = b])
         /\ Sound([r EXCEPT !.trig = b]) /\ Obeys(r, [r EXCEPT !.trig = b])
         /\ Sound([r EXCEPT !.hang = n]) /\ Obeys(r, [r EXCEPT !.hang = n])
<1>1. r \in RadioState
  BY DEF Sound
<1>2. [r EXCEPT !.inband = b] \in RadioState /\ SameCore(r, [r EXCEPT !.inband = b])
  BY <1>1, Zenon DEF RadioState, SameCore
<1>3. [r EXCEPT !.trig = b] \in RadioState /\ SameCore(r, [r EXCEPT !.trig = b])
  BY <1>1, Zenon DEF RadioState, SameCore
<1>4. [r EXCEPT !.hang = n] \in RadioState /\ SameCore(r, [r EXCEPT !.hang = n])
  BY <1>1, Zenon DEF RadioState, SameCore
<1> QED BY <1>2, <1>3, <1>4, SameCoreSound

\* The inhibit line may change at any time.
LEMMA InhibitLineSound ==
  ASSUME NEW r, Sound(r), NEW b \in BOOLEAN
  PROVE  LET d == [r EXCEPT !.inhibit = b] IN
         Sound(d) /\ d.inhibit = b /\ d.mox = r.mox /\ d.vox = r.vox /\ d.tune = r.tune
<1> DEFINE d == [r EXCEPT !.inhibit = b]
<1>1. r \in RadioState
  BY DEF Sound
<1>2. /\ d \in RadioState /\ d.mox = r.mox /\ d.vox = r.vox /\ d.tune = r.tune
      /\ d.twotone = r.twotone /\ d.gen = r.gen
      /\ d.tx = r.tx /\ d.rx = r.rx /\ d.redo = r.redo
      /\ d.duplex = r.duplex /\ d.mode = r.mode /\ d.txmode = r.txmode
      /\ d.premode = r.premode /\ d.preint = r.preint /\ d.keyint = r.keyint
      /\ d.inhibit = b
  BY <1>1, Zenon DEF RadioState
<1> HIDE DEF d
<1>3. Sound(d)
  BY <1>1, <1>2, FieldTypes DEF Sound, TuneMemory, Transmitting
<1> QED BY <1>2, <1>3 DEF d
-----------------------------------------------------------------------------
(* The invariant *)

\* Without memory recalls no duplex request is ever queued.
NoDuplexQueued ==
  "recall" \notin Sources => \A i \in 1..Len(idle) : idle[i].call # "duplex"

\* radio_set_vox(1) is past its tests only without MOX and TUNE.
VoxAlone == setter = "vox" => ~radio.mox /\ ~radio.tune

IInv == /\ TypeOK /\ Sound(radio)
        /\ InhibitPending /\ NoDuplexQueued /\ VoxAlone

\* A step puts nothing on the air and leaves the call under way alone, or
\* radio_set_xxx(1) does its test, or the rest of such a call is done.
Quiet == /\ Obeys(radio, radio')
         /\ setter' = setter
         /\ setter # "none" => radio'.inband = radio.inband /\ Reason' = Reason

Granting == /\ radio' = radio
            /\ setter = "none"
            /\ Granted' # "none" => ~radio.inhibit
            /\ VoxAlone'

Doing == setter' = "none" /\ Moves(radio, radio', Granted)

\* Such a step keeps the record sound and at most appends to the queue.
Orderly ==
  /\ Sound(radio')
  /\ Quiet \/ Granting \/ Doing
  /\ \/ idle' = idle
     \/ \E q \in Request : /\ idle' = Append(idle, q)
                           /\ q.call = "duplex" => "recall" \in Sources

\* Granted depends on nothing a quiet step changes.
LEMMA QuietGrants == ASSUME Quiet PROVE Granted' = Granted
  BY DEF Quiet, Granted

\* An active inhibit line finds nothing new on the air after such a step.
LEMMA NothingNew ==
  ASSUME IInv, Quiet \/ Granting \/ Doing,
         radio'.inhibit, Transmitting(radio') \/ Granted' # "none"
  PROVE  radio.inhibit /\ (Transmitting(radio) \/ Granted # "none")
<1>1. CASE Quiet
  BY <1>1, QuietGrants DEF Quiet, Obeys, Moves, Transmitting
<1>2. CASE Granting
  BY <1>2 DEF Granting
<1>3. CASE Doing
  <2>1. Granted' = "none"
    BY <1>3 DEF Doing, Granted
  <2> QED BY <1>3, <2>1 DEF Doing, Moves, Transmitting
<1> QED BY <1>1, <1>2, <1>3

\* None of these steps sets MOX or TUNE under radio_set_vox(1).
LEMMA VoxStaysAlone ==
  ASSUME IInv, Quiet \/ Granting \/ Doing
  PROVE  VoxAlone'
<1>1. CASE Quiet
  BY <1>1 DEF IInv, Quiet, VoxAlone, Obeys, Moves
<1>2. CASE Granting
  BY <1>2 DEF Granting
<1>3. CASE Doing
  BY <1>3 DEF Doing, VoxAlone
<1> QED BY <1>1, <1>2, <1>3

\* An orderly step keeps the parts of the invariant that concern the queue.
LEMMA OrderlyKeeps ==
  ASSUME IInv, Orderly
  PROVE  idle' \in Seq(Request) /\ InhibitPending' /\ NoDuplexQueued' /\ VoxAlone'
<1>1. idle \in Seq(Request) /\ VoxAlone'
  BY VoxStaysAlone DEF IInv, TypeOK, Orderly
<1>2. radio'.inhibit /\ (Transmitting(radio') \/ Granted' # "none") =>
        \E i \in 1..Len(idle) : idle[i] = [call |-> "mox", on |-> FALSE]
  BY NothingNew DEF IInv, Orderly, InhibitPending
<1>3. CASE idle' = idle
  BY <1>1, <1>2, <1>3 DEF IInv, InhibitPending, NoDuplexQueued, Transmitting
<1>4. CASE idle' # idle
  <2>1. PICK q \in Request : /\ idle' = Append(idle, q)
                             /\ q.call = "duplex" => "recall" \in Sources
    BY <1>4 DEF Orderly
  <2>2. /\ idle' \in Seq(Request) /\ Len(idle') = Len(idle) + 1
        /\ idle'[Len(idle) + 1] = q
        /\ \A i \in 1..Len(idle) : idle'[i] = idle[i]
    BY <1>1, <2>1
  <2>3. Len(idle) \in Nat /\ 1..Len(idle) \subseteq 1..Len(idle')
    BY <1>1, <2>2
  <2>4. InhibitPending'
    BY <1>2, <2>2, <2>3 DEF InhibitPending, Transmitting
  <2>5. NoDuplexQueued'
    BY <2>1, <2>2, <2>3 DEF IInv, NoDuplexQueued
  <2> QED BY <1>1, <2>2, <2>4, <2>5
<1> QED BY <1>3, <1>4

\* The start of radio_set_xxx(1).
LEMMA EnterGrants ==
  ASSUME NEW f \in {"mox", "vox", "tune"}, Enter(f), UNCHANGED radio
  PROVE  Granting /\ setter' \in {"none", "mox", "vox", "tune"}
<1>1. setter = "none" /\ setter' \in {f, "none"} /\ (setter' # "none" => Passes(f))
  BY DEF Enter
<1>2. Granted' # "none" => ~radio.inhibit
  BY <1>1 DEF Granted, Passes, MoxPasses, VoxPasses, TunePasses
<1>3. VoxAlone'
  BY <1>1 DEF VoxAlone, Passes, VoxPasses
<1> QED BY <1>1, <1>2, <1>3 DEF Granting

\* The rest of radio_set_xxx(1).
LEMMA PerformDoes ==
  ASSUME IInv, Perform
  PROVE  Sound(radio') /\ Doing
<1>1. /\ Sound(radio) /\ setter \in {"mox", "vox", "tune"} /\ radio.inband \in BOOLEAN
      /\ setter' = "none" /\ TRUE \in BOOLEAN
  BY FieldTypes DEF IInv, TypeOK, Perform
<1>2. CASE setter = "mox"
  <2>1. radio' = ApplyMox(radio, radio.inband)
    BY <1>2 DEF Perform
  <2>2. Granted = IF radio.inband THEN "mox" ELSE "none"
    BY <1>1, <1>2 DEF Granted
  <2> QED BY <1>1, <2>1, <2>2, ApplyMoxSound DEF Doing
<1>3. CASE setter = "vox"
  <2>1. radio' = ApplyVox(radio, TRUE) /\ ~radio.mox /\ ~radio.tune /\ Granted = "vox"
    BY <1>3 DEF Perform, IInv, VoxAlone, Granted
  <2> QED BY <1>1, <2>1, ApplyVoxSound DEF Doing
<1>4. CASE setter = "tune"
  <2>1. radio' = ApplyTune(radio, TRUE) /\ Granted = "tune"
    BY <1>4 DEF Perform, Granted
  <2> QED BY <1>1, <2>1, ApplyTuneSound DEF Doing
<1> QED BY <1>1, <1>2, <1>3, <1>4

\* A request served from the queue that cannot put the radio on the air.
LEMMA HandleSound ==
  ASSUME NEW r, Sound(r), NEW q \in Request, ~KeysUp(q),
         q.call = "duplex" => "recall" \in Sources
  PROVE  /\ Sound(Handle(r, q)) /\ Obeys(r, Handle(r, q))
         /\ q = [call |-> "mox", on |-> FALSE] => ~Transmitting(Handle(r, q))
<1>1. q.on \in BOOLEAN /\ q.call \in {"mox", "vox", "tune", "duplex"}
  BY DEF Request
<1>2. CASE q.call = "mox"
  <2>1. Handle(r, q) = SetMox(r, FALSE)
    BY <1>2 DEF Handle
  <2> QED BY <2>1, <1>1, SetMoxOffSound
<1>3. CASE q.call = "vox"
  <2>1. Handle(r, q) = SetVox(r, FALSE) /\ q # [call |-> "mox", on |-> FALSE]
    BY <1>3 DEF Handle
  <2> QED BY <2>1, SetVoxOffSound
<1>4. CASE q.call = "tune"
  <2>1. Handle(r, q) = SetTune(r, FALSE) /\ q # [call |-> "mox", on |-> FALSE]
    BY <1>4 DEF Handle
  <2> QED BY <2>1, SetTuneOffSound
<1>5. CASE q.call = "duplex"
  <2>1. Handle(r, q) = SetDuplex(r, q.on)
    BY <1>5 DEF Handle
  <2> QED BY <2>1, <1>1, <1>5, SetDuplexSound
<1> QED BY <1>1, <1>2, <1>3, <1>4, <1>5

\* Taking a callback from the queue: if it was the one that InhibitPending
\* relies on, the radio is off the air now, and otherwise it is still queued.
LEMMA DispatchKeeps ==
  ASSUME IInv, DispatchIdle
  PROVE  /\ Sound(radio') /\ (Quiet \/ Granting)
         /\ setter' \in {"none", "mox", "vox", "tune"}
         /\ idle' \in Seq(Request) /\ InhibitPending' /\ NoDuplexQueued' /\ VoxAlone'
<1> DEFINE q == Head(idle)
<1>1. idle \in Seq(Request) /\ idle # << >> /\ idle' = Tail(idle) /\ setter = "none"
  BY DEF IInv, TypeOK, DispatchIdle, Enter, NoCall
<1>2. /\ q \in Request /\ q = idle[1] /\ Len(idle) \in Nat /\ Len(idle) >= 1
      /\ idle' \in Seq(Request) /\ Len(idle') = Len(idle) - 1
      /\ \A i \in 1..Len(idle') : idle'[i] = idle[i + 1]
  BY <1>1
<1>3. q.call = "duplex" => "recall" \in Sources
  BY <1>2 DEF IInv, NoDuplexQueued
<1>4. /\ Sound(radio') /\ (Quiet \/ Granting)
      /\ setter' \in {"none", "mox", "vox", "tune"}
      /\ q = [call |-> "mox", on |-> FALSE] => (~Transmitting(radio') /\ Granted' = "none")
  <2>1. CASE KeysUp(q)
    <3>1. Enter(q.call) /\ UNCHANGED radio
      BY <2>1 DEF DispatchIdle
    <3>2. q.call \in {"mox", "vox", "tune"} /\ q # [call |-> "mox", on |-> FALSE]
      BY <1>2, <2>1 DEF Request, KeysUp
    <3> QED BY <3>1, <3>2, EnterGrants DEF IInv
  <2>2. CASE ~KeysUp(q)
    <3>1. NoCall /\ radio' = Handle(radio, q)
      BY <2>2 DEF DispatchIdle
    <3>2. Granted' = "none"
      BY <1>1, <3>1 DEF NoCall, Granted
    <3> QED BY <1>1, <1>2, <1>3, <2>2, <3>1, <3>2, HandleSound DEF IInv, NoCall, Quiet
  <2> QED BY <2>1, <2>2
<1> HIDE DEF q
<1>5. NoDuplexQueued'
  BY <1>2 DEF IInv, NoDuplexQueued
<1>6. InhibitPending'
  <2> SUFFICES ASSUME radio'.inhibit, Transmitting(radio') \/ Granted' # "none"
               PROVE  \E i \in 1..Len(idle') : idle'[i] = [call |-> "mox", on |-> FALSE]
    BY DEF InhibitPending, Transmitting
  <2>1. radio.inhibit /\ (Transmitting(radio) \/ Granted # "none")
    BY <1>4, NothingNew
  <2>2. PICK i \in 1..Len(idle) : idle[i] = [call |-> "mox", on |-> FALSE]
    BY <2>1 DEF IInv, InhibitPending
  <2>3. i # 1
    BY <2>2, <1>2, <1>4
  <2>4. i - 1 \in 1..Len(idle') /\ idle'[i - 1] = idle[i]
    BY <2>3, <1>2
  <2> QED BY <2>2, <2>4
<1>7. VoxAlone'
  BY <1>4, VoxStaysAlone
<1> QED BY <1>2, <1>4, <1>5, <1>6, <1>7

\* The invariant holds when the radio starts.
LEMMA InitIInv == Init => IInv
<1> SUFFICES ASSUME Init PROVE IInv
  OBVIOUS
<1>1. PICK m \in Modes : radio = RadioOff(m)
  BY DEF Init
<1>2. /\ radio \in RadioState /\ radio.tune = FALSE /\ radio.mox = FALSE
      /\ radio.vox = FALSE /\ radio.tx = FALSE /\ radio.rx = TRUE
      /\ radio.redo = FALSE /\ radio.gen = "off" /\ radio.keyint = KeyerInternal
      /\ radio.mode = m /\ radio.txmode = m /\ radio.inhibit = FALSE
  <2>1. 0 \in Nat /\ "INIT" \in CapStates /\ "SSB" \in Modes
    BY DEF CapStates, Modes
  <2>2. radio \in RadioState
    BY <1>1, <2>1, KeyerAssumption, Zenon DEF RadioOff, RadioState
  <2> QED BY <1>1, <2>2, Zenon DEF RadioOff
<1>3. Sound(radio)
  BY <1>2 DEF Sound, TuneMemory, Transmitting
<1>4. InhibitPending /\ VoxAlone
  BY <1>2 DEF InhibitPending, VoxAlone, Init
<1>5. idle \in Seq(Request) /\ Len(idle) = 0 /\ timers \in Nat
  BY DEF Init
<1>6. NoDuplexQueued
  BY <1>5 DEF NoDuplexQueued
<1>7. TypeOK
  <2>1. auto \in AutoState
    BY Zenon DEF Init, AutoState
  <2> QED BY <1>2, <1>5, <2>1, Zenon DEF Init, TypeOK
<1> QED BY <1>3, <1>4, <1>6, <1>7 DEF IInv

\* The microphone and protocol threads change nothing of the record that a
\* call under way depends on.
LEMMA ThreadQuiet ==
  ASSUME Obeys(radio, radio'), setter' = setter, radio'.inband = radio.inband,
         radio'.mox = radio.mox, radio'.vox = radio.vox, radio'.tune = radio.tune
  PROVE  Quiet
  BY DEF Quiet, Reason

\* Every step keeps the invariant, and is orderly or a change of the line.
LEMMA NextIInv ==
  ASSUME IInv, [Next]_vars
  PROVE  /\ IInv'
         /\ \/ Quiet \/ Granting \/ Doing
            \/ radio' = [radio EXCEPT !.inhibit = ~radio.inhibit] /\ setter' = setter
<1> DEFINE Typed == /\ timers' \in Nat /\ ptt' \in BOOLEAN /\ voxen' \in BOOLEAN
                    /\ menu' \in {"closed", "on", "off"} /\ sound' \in BOOLEAN
                    /\ mic' \in {"sample", "hang"} /\ auto' \in AutoState
                    /\ setter' \in {"none", "mox", "vox", "tune"}
                    /\ cancelled' \in BOOLEAN
           Kept == /\ radio'.inband = radio.inband /\ radio'.mox = radio.mox
                   /\ radio'.vox = radio.vox /\ radio'.tune = radio.tune
           Fine == IInv' /\ (Quiet \/ Granting \/ Doing)
<1>t. /\ radio \in RadioState /\ idle \in Seq(Request) /\ timers \in Nat
      /\ auto \in AutoState /\ auto.pc \in {"none", "begin", "poll", "debounce"}
      /\ auto.flag \in BOOLEAN /\ auto.end \in BOOLEAN /\ auto.late \in BOOLEAN
      /\ ptt \in BOOLEAN /\ voxen \in BOOLEAN /\ menu \in {"closed", "on", "off"}
      /\ sound \in BOOLEAN /\ mic \in {"sample", "hang"}
      /\ setter \in {"none", "mox", "vox", "tune"} /\ cancelled \in BOOLEAN
  BY DEF IInv, TypeOK, AutoState
<1>s. Sound(radio) /\ Obeys(radio, radio)
  BY DEF IInv, Obeys, Moves
<1>p. \A c \in {"mox", "vox", "tune", "duplex"}, on \in BOOLEAN :
         [call |-> c, on |-> on] \in Request
  BY DEF Request
<1>q. /\ radio.tune \in BOOLEAN /\ radio.twotone \in BOOLEAN /\ radio.duplex \in BOOLEAN
      /\ radio.inband \in BOOLEAN /\ radio.hang \in Nat /\ radio.inhibit \in BOOLEAN
  BY <1>t, FieldTypes
<1>c. NoteCancel => cancelled' \in BOOLEAN
  BY Zenon DEF NoteCancel
\* What remains to be shown once a step is known to be orderly.
<1>o. ASSUME Orderly, Typed
      PROVE  Fine
  <2>1. idle' \in Seq(Request) /\ InhibitPending' /\ NoDuplexQueued' /\ VoxAlone'
    BY <1>o, OrderlyKeeps
  <2>2. radio' \in RadioState /\ Sound(radio') /\ (Quiet \/ Granting \/ Doing)
    BY <1>o DEF Orderly, Sound
  <2> QED BY <1>o, <2>1, <2>2 DEF TypeOK, IInv
\* A handler of the main thread that calls no radio_set_xxx(1).
<1>n. ASSUME NoCall, Obeys(radio, radio')
      PROVE  Quiet /\ setter' = setter
  BY <1>n DEF NoCall, Quiet
<1> HIDE DEF Fine
<1>1. CASE DispatchIdle
  <2>1. /\ Sound(radio') /\ (Quiet \/ Granting)
        /\ setter' \in {"none", "mox", "vox", "tune"}
        /\ idle' \in Seq(Request) /\ InhibitPending' /\ NoDuplexQueued' /\ VoxAlone'
    BY <1>1, DispatchKeeps
  <2>2. radio' \in RadioState
    BY <2>1 DEF Sound
  <2>3. cancelled' \in BOOLEAN
    BY <1>1, <1>c DEF DispatchIdle
  <2> QED BY <1>1, <1>t, <2>1, <2>2, <2>3 DEF DispatchIdle, TypeOK, threadvars, IInv, Fine
<1>2. CASE FireTimer
  <2>1. Orderly
    BY <1>2, <1>n, SetMoxOffSound DEF FireTimer, Orderly, IInv
  <2>2. timers' \in Nat
    BY <1>2, <1>t DEF FireTimer
  <2>3. cancelled' \in BOOLEAN
    BY <1>2, <1>c DEF FireTimer
  <2> QED BY <1>2, <1>o, <1>t, <2>1, <2>2, <2>3 DEF FireTimer, threadvars, NoCall, Fine
<1>3. CASE Perform
  <2>1. Sound(radio') /\ Doing /\ idle' = idle
    BY <1>3, PerformDoes DEF Perform
  <2>2. Orderly
    BY <2>1 DEF Orderly
  <2>3. cancelled' \in BOOLEAN
    BY <1>3, <1>c DEF Perform
  <2> QED BY <1>3, <1>o, <1>t, <2>2, <2>3 DEF Perform, threadvars, Fine
<1>4. ASSUME UNCHANGED <<radio, idle, ptt, voxen, menu, sound, mic, auto, cancelled>>,
             \/ NoCall /\ (UNCHANGED timers \/ timers' = timers + 1)
             \/ Enter("mox") /\ UNCHANGED timers
      PROVE  Fine
  <2>1. CASE NoCall
    <3>1. Orderly
      BY <1>4, <1>s, <1>n, <2>1 DEF Orderly
    <3>2. timers' \in Nat
      BY <1>4, <1>t, <2>1
    <3> QED BY <1>4, <1>o, <1>t, <2>1, <3>1, <3>2 DEF NoCall
  <2>2. CASE Enter("mox") /\ UNCHANGED timers
    <3>1. Granting /\ setter' \in {"none", "mox", "vox", "tune"}
      BY <1>4, <2>2, EnterGrants
    <3>2. Orderly
      BY <1>4, <1>s, <3>1 DEF Orderly
    <3> QED BY <1>4, <1>o, <1>t, <2>2, <3>1, <3>2
  <2> QED BY <1>4, <2>1, <2>2
<1>5. CASE ToggleMox
  BY <1>4, <1>5 DEF ToggleMox, StartTimer, envvars, threadvars, Fine
<1>6. ASSUME NEW on \in BOOLEAN, PttAction(on)
      PROVE  Fine
  BY <1>4, <1>6 DEF PttAction, StartTimer, envvars, threadvars
\* A handler that switches off at once or starts to switch on.
<1>7. ASSUME NEW f \in {"mox", "tune"}, idle' = idle, timers' = timers,
             UNCHANGED threadvars, NoteCancel,
             \/ Enter(f) /\ UNCHANGED radio
             \/ NoCall /\ UNCHANGED radio
             \/ NoCall /\ Sound(radio') /\ Obeys(radio, radio')
      PROVE  Fine
  <2>1. Orderly /\ setter' \in {"none", "mox", "vox", "tune"}
    <3>1. CASE Enter(f) /\ UNCHANGED radio
      BY <1>7, <1>s, <3>1, EnterGrants DEF Orderly
    <3>2. CASE NoCall /\ UNCHANGED radio
      BY <1>7, <1>s, <1>t, <1>n, <3>2 DEF Orderly, NoCall
    <3>3. CASE NoCall /\ Sound(radio') /\ Obeys(radio, radio')
      BY <1>7, <1>t, <1>n, <3>3 DEF Orderly, NoCall
    <3> QED BY <1>7, <3>1, <3>2, <3>3
  <2>2. cancelled' \in BOOLEAN
    BY <1>7, <1>c
  <2> QED BY <1>7, <1>o, <1>t, <2>1, <2>2 DEF threadvars
<1>8. ASSUME NEW on \in BOOLEAN, KeyerPtt(on)
      PROVE  Fine
  <2>1. radio' = SetMox(radio, FALSE) => Sound(radio') /\ Obeys(radio, radio')
    BY <1>s, SetMoxOffSound
  <2> QED BY <1>7, <1>8, <2>1 DEF KeyerPtt
<1>9. CASE ToggleTune
  <2>1. radio' = SetTune(radio, FALSE) => Sound(radio') /\ Obeys(radio, radio')
    BY <1>s, SetTuneOffSound
  <2> QED BY <1>7, <1>9, <2>1 DEF ToggleTune, Fine
<1>10. CASE ToggleTwotone
  <2>1. (~radio.twotone) \in BOOLEAN
    BY <1>q
  <2>2. Sound(radio') /\ Obeys(radio, radio') /\ NoCall
    BY <1>10, <1>s, <2>1, SetTwotoneSound DEF ToggleTwotone
  <2>3. \E q \in Request : idle' = Append(idle, q) /\ q.call # "duplex"
    BY <1>10, <2>1, <1>p DEF ToggleTwotone, Post
  <2>4. Orderly
    BY <1>n, <2>2, <2>3 DEF Orderly
  <2> QED BY <1>10, <1>o, <2>4, <1>t DEF ToggleTwotone, envvars, threadvars, NoCall, Fine
<1>11. CASE ToggleDuplex
  <2>1. (~radio.duplex) \in BOOLEAN
    BY <1>q
  <2>2. Sound(radio') /\ Obeys(radio, radio') /\ NoCall
    BY <1>11, <1>s, <2>1, SetDuplexSound DEF ToggleDuplex
  <2>3. Orderly
    BY <1>11, <1>n, <2>2 DEF ToggleDuplex, Orderly
  <2> QED BY <1>11, <1>o, <2>3, <1>t DEF ToggleDuplex, envvars, threadvars, NoCall, Fine
<1>12. ASSUME NEW on \in BOOLEAN, RecallMemory(on)
      PROVE  Fine
  <2>1. \E q \in Request : idle' = Append(idle, q) /\ "recall" \in Sources
    BY <1>12, <1>p DEF RecallMemory, Post
  <2>2. Orderly
    BY <1>12, <1>n, <1>s, <2>1 DEF RecallMemory, Orderly
  <2> QED BY <1>12, <1>o, <2>2, <1>t DEF RecallMemory, envvars, threadvars, NoCall
<1>13. ASSUME NEW m \in Modes, ChangeMode(m)
       PROVE  Fine
  <2>1. Sound(radio') /\ Obeys(radio, radio') /\ NoCall
    BY <1>13, <1>s, SetModeSound DEF ChangeMode
  <2>2. Orderly
    BY <1>13, <1>n, <2>1 DEF ChangeMode, Orderly
  <2> QED BY <1>13, <1>o, <2>2, <1>t DEF ChangeMode, envvars, threadvars, NoCall
<1>14. CASE Retune
  <2>1. (~radio.inband) \in BOOLEAN /\ 0 \in Nat
    BY <1>q
  <2>2. Sound(radio') /\ Obeys(radio, radio') /\ NoCall
    BY <1>14, <1>s, <2>1, NeutralSound DEF Retune
  <2>3. Orderly
    BY <1>14, <1>n, <2>2 DEF Retune, Orderly
  <2> QED BY <1>14, <1>o, <2>3, <1>t DEF Retune, envvars, threadvars, NoCall, Fine
\* A step of another thread that leaves the record alone.
<1>r. ASSUME radio' = radio, setter' = setter
      PROVE  Quiet /\ Sound(radio')
  BY <1>r, <1>s DEF Quiet, Reason
<1>15. CASE ToggleVox \/ OpenVoxMenu \/ SetVoxInMenu \/ CloseVoxMenu \/ Speak
  <2>1. /\ radio' = radio /\ idle' = idle /\ setter' = setter /\ timers' = timers
        /\ cancelled' = cancelled
    BY <1>15 DEF ToggleVox, OpenVoxMenu, SetVoxInMenu, CloseVoxMenu, Speak, NoCall
  <2>2. Orderly
    BY <2>1, <1>r DEF Orderly
  <2>3. /\ ptt' \in BOOLEAN /\ voxen' \in BOOLEAN
        /\ menu' \in {"closed", "on", "off"} /\ sound' \in BOOLEAN
        /\ mic' \in {"sample", "hang"} /\ auto' \in AutoState
    BY <1>15, <1>t DEF ToggleVox, OpenVoxMenu, SetVoxInMenu, CloseVoxMenu, Speak
  <2> QED BY <1>o, <1>t, <2>1, <2>2, <2>3 DEF Fine
<1>16. CASE PttEdge
  <2>1. idle' = idle \/ \E q \in Request : idle' = Append(idle, q) /\ q.call # "duplex"
    BY <1>16, <1>p DEF PttEdge, Post
  <2>2. Orderly
    BY <1>16, <1>r, <2>1 DEF PttEdge, Orderly
  <2>3. timers' \in Nat
    <3>1. timers' = timers \/ timers' = timers + 1
      BY <1>16, Zenon DEF PttEdge, StartTimer
    <3> QED BY <3>1, <1>t
  <2> QED BY <1>16, <1>o, <2>2, <2>3, <1>t DEF PttEdge, Fine
<1>17. CASE InhibitOn
  <2> DEFINE q == [call |-> "mox", on |-> FALSE]
  <2>1. q \in Request /\ q.call # "duplex"
    BY <1>p
  <2>2. /\ radio' = [radio EXCEPT !.inhibit = TRUE] /\ ~radio.inhibit
        /\ idle' = Append(idle, q) /\ setter' = setter
    BY <1>17 DEF InhibitOn, Post
  <2>3. /\ Sound(radio') /\ radio' \in RadioState
        /\ radio'.mox = radio.mox /\ radio'.tune = radio.tune
    BY <1>s, <2>2, InhibitLineSound DEF Sound
  <2> HIDE DEF q
  <2>4. /\ idle' \in Seq(Request) /\ Len(idle') = Len(idle) + 1 /\ Len(idle) \in Nat
        /\ idle'[Len(idle) + 1] = q
        /\ \A i \in 1..Len(idle) : idle'[i] = idle[i]
    BY <1>t, <2>1, <2>2
  <2>5. InhibitPending'
    BY <2>4 DEF InhibitPending, q
  <2>6. NoDuplexQueued' /\ VoxAlone'
    BY <2>1, <2>2, <2>3, <2>4 DEF NoDuplexQueued, VoxAlone, IInv
  <2>7. radio' = [radio EXCEPT !.inhibit = ~radio.inhibit]
    <3>1. (~radio.inhibit) = TRUE
      BY <2>2
    <3> QED BY <3>1, <2>2
  <2>8. IInv'
    BY <1>17, <1>t, <2>2, <2>3, <2>4, <2>5, <2>6 DEF InhibitOn, TypeOK, envvars, threadvars, IInv
  <2> QED BY <2>2, <2>7, <2>8
<1>18. CASE InhibitOff
  <2>1. /\ radio' = [radio EXCEPT !.inhibit = FALSE] /\ radio.inhibit
        /\ idle' = idle /\ setter' = setter
    BY <1>18 DEF InhibitOff
  <2>2. /\ Sound(radio') /\ radio' \in RadioState /\ ~radio'.inhibit
        /\ radio'.mox = radio.mox /\ radio'.tune = radio.tune
    BY <1>s, <2>1, InhibitLineSound DEF Sound
  <2>3. radio' = [radio EXCEPT !.inhibit = ~radio.inhibit]
    <3>1. (~radio.inhibit) = FALSE
      BY <2>1
    <3> QED BY <3>1, <2>1
  <2>4. InhibitPending' /\ NoDuplexQueued' /\ VoxAlone'
    BY <2>1, <2>2 DEF InhibitPending, NoDuplexQueued, VoxAlone, IInv
  <2>5. IInv'
    BY <1>18, <1>t, <2>1, <2>2, <2>4 DEF InhibitOff, TypeOK, envvars, threadvars, IInv
  <2> QED BY <2>1, <2>3, <2>5
<1>19. ASSUME NEW end \in BOOLEAN, AutoTuneLine(end)
       PROVE  Fine
  <2>1. Orderly
    BY <1>19, <1>r DEF AutoTuneLine, Orderly
  <2>2. auto' \in AutoState
    BY <1>19, <1>t DEF AutoTuneLine, AutoState
  <2> QED BY <1>19, <1>o, <2>1, <2>2, <1>t DEF AutoTuneLine
<1>20. CASE AutoTune
  <2>1. idle' = idle \/ \E q \in Request : idle' = Append(idle, q) /\ q.call # "duplex"
    BY <1>20, <1>p DEF AutoTune, AutoBegin, AutoEnd, AutoLate, AutoExit, Post
  <2>2. auto' \in AutoState
    BY <1>20, <1>t DEF AutoTune, AutoBegin, AutoEnd, AutoLate, AutoExit, AutoState
  <2>3. UNCHANGED <<radio, timers, ptt, voxen, menu, sound, mic, setter, cancelled>>
    BY <1>20 DEF AutoTune, AutoBegin, AutoEnd, AutoLate, AutoExit
  <2>4. Orderly
    BY <1>r, <2>1, <2>3 DEF Orderly
  <2> QED BY <1>o, <1>t, <2>2, <2>3, <2>4 DEF Fine
<1>21. CASE MicSilenced
  <2>1. Sound(radio') /\ Obeys(radio, radio') /\ Kept
    BY <1>21, <1>s, <1>t, VoxCancelSound, VoxCancelEffect DEF MicSilenced
  <2>2. Orderly
    BY <1>21, <2>1, ThreadQuiet DEF MicSilenced, Orderly
  <2>3. cancelled' \in BOOLEAN
    BY <1>21, <1>c DEF MicSilenced
  <2> QED BY <1>21, <1>o, <2>2, <2>3, <1>t DEF MicSilenced, threadvars, Fine
<1>22. CASE MicTrigger
  <2>1. TRUE \in BOOLEAN /\ 0 \in Nat
    OBVIOUS
  <2>2. Sound(radio') /\ Obeys(radio, radio')
    BY <1>22, <1>s, <2>1, NeutralSound DEF MicTrigger
  <2>3. Kept
    BY <1>22, <1>t, Zenon DEF MicTrigger, RadioState
  <2>4. \E q \in Request : idle' = Append(idle, q) /\ q.call # "duplex"
    BY <1>22, <1>p, <2>1 DEF MicTrigger, Post
  <2>5. Orderly
    BY <1>22, <2>2, <2>3, <2>4, ThreadQuiet DEF MicTrigger, Orderly
  <2> QED BY <1>22, <1>o, <2>5, <1>t DEF MicTrigger, Fine
<1>23. CASE MicHang
  <2>1. HangTime \in Nat /\ TRUE \in BOOLEAN
    BY TxAssumption
  <2>2. Sound(radio') /\ Obeys(radio, radio')
    BY <1>23, <1>s, <2>1, NeutralSound DEF MicHang
  <2>3. Kept
    BY <1>23, <1>t, Zenon DEF MicHang, RadioState
  <2>4. Orderly
    BY <1>23, <2>2, <2>3, ThreadQuiet DEF MicHang, Orderly
  <2> QED BY <1>23, <1>o, <2>4, <1>t DEF MicHang, Fine
<1>24. CASE MicQuiet
  <2>1. CASE radio.hang > 1
    <3>1. radio.hang - 1 \in Nat /\ TRUE \in BOOLEAN /\ radio.hang # 1
      BY <1>q, <2>1
    <3>2. radio' = [radio EXCEPT !.hang = radio.hang - 1] /\ idle' = idle
      BY <1>24, <3>1, Zenon DEF MicQuiet
    <3>3. Kept
      BY <1>t, <3>2, Zenon DEF RadioState
    <3>4. Orderly
      BY <1>24, <1>s, <3>1, <3>2, <3>3, NeutralSound, ThreadQuiet DEF MicQuiet, Orderly
    <3> QED BY <1>24, <1>o, <1>t, <3>4 DEF MicQuiet, envvars, threadvars, Fine
  <2>2. CASE ~(radio.hang > 1)
    <3>1. radio' = VoxCancel(radio) /\ setter' = setter
      BY <1>24, <2>2 DEF MicQuiet
    <3>2. \E q \in Request : idle' = Append(idle, q) /\ q.call # "duplex"
      BY <1>24, <2>2, <1>p DEF MicQuiet, Post
    <3>3. Sound(radio') /\ Obeys(radio, radio') /\ Kept
      BY <1>s, <1>t, <3>1, VoxCancelSound, VoxCancelEffect
    <3>4. Orderly
      BY <3>1, <3>2, <3>3, ThreadQuiet DEF Orderly
    <3> QED BY <3>4, <1>24, <1>o, <1>t DEF MicQuiet, envvars, threadvars, Fine
  <2> QED BY <2>1, <2>2
<1>25. CASE UNCHANGED vars
  <2>1. Orderly
    BY <1>25, <1>r DEF vars, threadvars, Orderly
  <2> QED BY <1>25, <1>o, <1>t, <2>1 DEF vars, threadvars, Fine
<1> QED
  BY <1>1, <1>2, <1>3, <1>5, <1>6, <1>8, <1>9, <1>10, <1>11, <1>12, <1>13, <1>14,
     <1>15, <1>16, <1>17, <1>18, <1>19, <1>20, <1>21, <1>22, <1>23, <1>24, <1>25
  DEF Next, Gtk, Protocol, Mic, Fine
-----------------------------------------------------------------------------
(* The theorems *)

\* The inductive invariant holds in every state of every behaviour.
THEOREM Invariance == Spec => []IInv
<1>1. Init => IInv
  BY InitIInv
<1>2. IInv /\ [Next]_vars => IInv'
  BY NextIInv
<1> QED BY <1>1, <1>2, PTL DEF Spec

\* Every variable keeps its type whatever the threads and the user do.
THEOREM TypeCorrect == Spec => []TypeOK
<1>1. IInv => TypeOK
  BY DEF IInv
<1> QED BY <1>1, Invariance, PTL

\* radio_set_mox(), radio_set_vox() and radio_set_tune() never leave two
\* reasons to transmit set at once.
THEOREM OneReasonHolds == Spec => []OneReason
<1>1. IInv => OneReason
  BY DEF IInv, Sound, OneReason
<1> QED BY <1>1, Invariance, PTL

\* The TX channel runs exactly while one of the flags is set, and rxtx() is
\* never called twice in a row for the same direction.
THEOREM ChannelsFollowFlags == Spec => []TxFollowsFlags
<1>1. IInv => TxFollowsFlags
  BY DEF IInv, Sound, TxFollowsFlags
<1> QED BY <1>1, Invariance, PTL

\* Without memory recall, rxtx() leaves the receivers on exactly when they are
\* wanted, since the duplex flag cannot change on the air.
THEOREM ReceiversFollowFlags == Spec => []RxFollowsFlags
<1>1. IInv => RxFollowsFlags
  BY DEF IInv, Sound, RxFollowsFlags
<1> QED BY <1>1, Invariance, PTL

\* radio_set_tune(0), radio_set_mox() and every other way out of TUNE restore
\* the keyer setting and the transmitter mode, and switch the generator off.
THEOREM TuneLeavesNoTrace == Spec => []TuneRestores
<1>1. IInv => TuneRestores
  BY DEF IInv, Sound, TuneMemory, TuneRestores
<1> QED BY <1>1, Invariance, PTL

\* An active TX inhibit line finds the radio off the air, or with the
\* callback that ends the transmission already queued.
THEOREM InhibitIsPending == Spec => []InhibitPending
<1>1. IInv => InhibitPending
  BY DEF IInv
<1> QED BY <1>1, Invariance, PTL

\* The transmit control implements the abstract keying specification, where a
\* call is granted when it passes its test of TxInhibit.
THEOREM RefinesKeying == Spec => K!Spec
<1>1. Init => K!Init
  <2> SUFFICES ASSUME Init PROVE K!Init
    OBVIOUS
  <2>1. PICK m \in Modes : radio = RadioOff(m)
    BY DEF Init
  <2>2. /\ radio.mox = FALSE /\ radio.vox = FALSE /\ radio.tune = FALSE
        /\ radio.inhibit = FALSE
    BY <2>1, Zenon DEF RadioOff
  <2> QED BY <2>2 DEF K!Init, Reason, Granted, Init
<1>2. IInv /\ IInv' /\ [Next]_vars => [K!Next]_K!vars
  <2> SUFFICES ASSUME IInv, IInv', [Next]_vars PROVE [K!Next]_K!vars
    OBVIOUS
  <2>1. \/ Quiet \/ Granting \/ Doing
        \/ radio' = [radio EXCEPT !.inhibit = ~radio.inhibit] /\ setter' = setter
    BY NextIInv
  <2>2. /\ radio \in RadioState /\ radio' \in RadioState
        /\ setter \in {"none", "mox", "vox", "tune"}
        /\ setter' \in {"none", "mox", "vox", "tune"}
        /\ ~(radio.mox /\ radio.vox) /\ ~(radio.mox /\ radio.tune) /\ ~(radio.vox /\ radio.tune)
        /\ ~(radio'.mox /\ radio'.vox) /\ ~(radio'.mox /\ radio'.tune) /\ ~(radio'.vox /\ radio'.tune)
    BY DEF IInv, Sound, TypeOK
  \* The radio keeps its reason to be on the air, gets a granted one or leaves.
  <2>3. ASSUME Moves(radio, radio', Granted), Granted' = "none"
        PROVE  K!Next \/ UNCHANGED K!vars
    <3>1. radio'.inhibit = radio.inhibit
      BY <2>3 DEF Moves
    <3>2. CASE Reason' = Reason
      BY <2>3, <3>1, <3>2 DEF K!vars, K!Next, K!Withdraw
    <3>3. CASE Reason' # Reason /\ Reason' = "none"
      <4>1. K!Unkey
        BY <2>3, <3>1, <3>3 DEF K!Unkey
      <4> QED BY <4>1 DEF K!Next
    <3>4. CASE Reason' # Reason /\ Reason' # "none"
      <4>1. Reason' \in {"mox", "vox", "tune"}
        BY <3>4 DEF Reason
      <4>2. Granted = Reason'
        BY <2>2, <2>3, <3>4 DEF Moves, Reason
      <4>3. Reason' = "vox" => Reason = "none"
        BY <2>2, <2>3, <3>4 DEF Moves, Reason, Transmitting
      <4>4. K!Key(Reason')
        BY <2>3, <3>1, <3>4, <4>2, <4>3 DEF K!Key
      <4> QED BY <4>1, <4>4 DEF K!Next
    <3> QED BY <3>2, <3>3, <3>4
  <2>4. CASE Quiet
    <3>1. Granted' = Granted /\ Obeys(radio, radio') /\ radio'.inhibit = radio.inhibit
      BY <2>4, QuietGrants DEF Quiet, Obeys, Moves
    <3>2. CASE Granted = "none"
      <4>1. Moves(radio, radio', Granted)
        BY <3>1, <3>2 DEF Obeys
      <4> QED BY <2>3, <3>1, <3>2, <4>1
    <3>3. CASE Granted # "none"
      BY <2>4, <3>1, <3>3 DEF K!vars, Quiet, Granted
    <3> QED BY <3>2, <3>3
  <2>5. CASE Granting
    <3>1. Granted = "none" /\ Reason' = Reason /\ radio'.inhibit = radio.inhibit
      BY <2>5 DEF Granting, Granted, Reason
    <3>2. CASE Granted' = "none"
      BY <3>1, <3>2 DEF K!vars
    <3>3. CASE Granted' # "none"
      <4>1. Granted' \in {"mox", "vox", "tune"}
        BY <2>2, <3>3 DEF Granted
      <4>2. K!Grant(Granted')
        BY <2>5, <3>1, <3>3 DEF Granting, K!Grant
      <4> QED BY <4>1, <4>2 DEF K!Next
    <3> QED BY <3>2, <3>3
  <2>6. CASE Doing
    <3>1. Granted' = "none" /\ Moves(radio, radio', Granted)
      BY <2>6 DEF Doing, Granted
    <3> QED BY <2>3, <3>1
  <2>7. CASE radio' = [radio EXCEPT !.inhibit = ~radio.inhibit] /\ setter' = setter
    <3>1. /\ radio'.mox = radio.mox /\ radio'.vox = radio.vox /\ radio'.tune = radio.tune
          /\ radio'.inhibit = ~radio.inhibit /\ radio'.inband = radio.inband
      BY <2>2, <2>7, Zenon DEF RadioState
    <3>2. Reason' = Reason /\ Granted' = Granted
      BY <2>7, <3>1 DEF Reason, Granted
    <3>3. K!Line
      BY <3>1, <3>2 DEF K!Line
    <3> QED BY <3>3 DEF K!Next
  <2> QED BY <2>1, <2>4, <2>5, <2>6, <2>7
<1> QED BY <1>1, <1>2, Invariance, PTL DEF Spec, K!Spec
=============================================================================
