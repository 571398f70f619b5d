--------------------------- MODULE CaptureProofs ---------------------------
(***************************************************************************)
(* Proofs about Capture, for a buffer of any size and any number of        *)
(* presses in the queue.                                                   *)
(*                                                                         *)
(* No lock protects the pointers, and still a thread stays in the buffer:  *)
(* whatever moves the pointer between the comparison and the sample either *)
(* sets it to zero, which is the main thread, or is the other audio        *)
(* thread.  Only the receiver thread moves the record pointer, so for that *)
(* one there is no gap.  And the direction changes in rxtx() only, which   *)
(* aborts whatever is running.                                             *)
(***************************************************************************)
EXTENDS Capture, TLAPS

\* What the record of the radio promises: MOX is the only reason to transmit
\* here, and what is running fits the direction.
Directed(r) ==
  /\ r \in RadioState
  /\ ~r.vox /\ ~r.tune
  /\ r.cap = "XMIT" => r.mox
  /\ r.cap \in {"RECORDING", "REPLAY"} => ~r.mox

\* What an audio thread may rely on between its comparison and its sample.
Held(t) ==
  /\ thread[t] \in Work
  /\ thread[t].task = "RECORDING" => t = "rx"
  /\ thread[t].task = "RECORDING" \/ t \notin crossed =>
       /\ thread[t].pc \in {"fits", "taken"} => thread[t].at < CaptureMax
       /\ thread[t].pc \in {"tested", "fits"} => Pointer(thread[t].task) \in {thread[t].at, 0}

Pointers == rec \in 0..CaptureMax /\ play \in Nat
Samples  == /\ thread \in [Threads -> Work] /\ crossed \subseteq Threads
            /\ \A t \in Threads : Held(t)
Switch   == queue \in Seq(Press)
Settings == dsp \in [rxeq : BOOLEAN, comp : BOOLEAN, dexp : BOOLEAN]

Inv == Directed(radio) /\ Switch /\ Pointers /\ Samples /\ Settings
-----------------------------------------------------------------------------
(* The record *)

LEMMA FieldTypes ==
  ASSUME NEW r \in RadioState
  PROVE  /\ r.mox \in BOOLEAN /\ r.vox \in BOOLEAN /\ r.tune \in BOOLEAN
         /\ r.tx \in BOOLEAN /\ r.rx \in BOOLEAN /\ r.redo \in BOOLEAN
         /\ r.duplex \in BOOLEAN /\ r.inband \in BOOLEAN
         /\ r.cap \in CapStates /\ r.presses \in Nat
  BY Zenon DEF RadioState

\* A change of capture_state.
LEMMA SetCapFacts ==
  ASSUME NEW r \in RadioState, NEW c \in CapStates
  PROVE  LET s == [r EXCEPT !.cap = c] IN
         /\ s \in RadioState /\ s.cap = c
         /\ s.mox = r.mox /\ s.vox = r.vox /\ s.tune = r.tune
  BY Zenon DEF RadioState

LEMMA SetCapDirected ==
  ASSUME NEW r, Directed(r), NEW c \in CapStates,
         c = "XMIT" => r.mox, c \in {"RECORDING", "REPLAY"} => ~r.mox
  PROVE  Directed([r EXCEPT !.cap = c])
<1> DEFINE s == [r EXCEPT !.cap = c]
<1>1. /\ s \in RadioState /\ s.cap = c
      /\ s.mox = r.mox /\ s.vox = r.vox /\ s.tune = r.tune
  BY SetCapFacts DEF Directed
<1> HIDE DEF s
<1>2. Directed(s)
  BY <1>1 DEF Directed
<1> QED BY <1>2 DEF s

\* rxtx() leaves nothing running.
LEMMA AbortFacts ==
  ASSUME NEW r \in RadioState
  PROVE  LET s == AbortCapture(r) IN
         /\ s \in RadioState
         /\ s.mox = r.mox /\ s.vox = r.vox /\ s.tune = r.tune
         /\ s.tx = r.tx /\ s.rx = r.rx /\ s.redo = r.redo /\ s.duplex = r.duplex
         /\ s.cap \notin {"RECORDING", "XMIT", "REPLAY"}
<1> DEFINE s == AbortCapture(r)
           c == Aborted(r.cap)
           p == r.presses + 1
<1>1. CASE r.cap \in {"RECORDING", "XMIT", "REPLAY"}
  <2>1. s = [r EXCEPT !.cap = c, !.presses = p]
    BY <1>1 DEF AbortCapture
  <2>2. p \in Nat
    BY FieldTypes
  <2>3. c \in CapStates /\ c \notin {"RECORDING", "XMIT", "REPLAY"}
    BY <1>1 DEF Aborted, CapStates
  <2> HIDE DEF s, c, p
  <2>4. /\ s \in RadioState /\ s.cap = c
        /\ s.mox = r.mox /\ s.vox = r.vox /\ s.tune = r.tune
        /\ s.tx = r.tx /\ s.rx = r.rx /\ s.redo = r.redo /\ s.duplex = r.duplex
    BY <2>1, <2>2, <2>3, Zenon DEF RadioState
  <2> QED BY <2>3, <2>4 DEF s
<1>2. CASE r.cap \notin {"RECORDING", "XMIT", "REPLAY"}
  BY <1>2 DEF AbortCapture
<1> QED BY <1>1, <1>2

LEMMA RxtxFacts ==
  ASSUME NEW r \in RadioState, NEW on \in BOOLEAN
  PROVE  LET s == Rxtx(r, on) IN
         /\ s \in RadioState
         /\ s.mox = r.mox /\ s.vox = r.vox /\ s.tune = r.tune
         /\ s.cap \notin {"RECORDING", "XMIT", "REPLAY"}
<1> DEFINE q == AbortCapture(r)
           a == IF r.duplex THEN r.rx ELSE ~on
           b == r.redo \/ r.tx = on
           s == Rxtx(r, on)
<1>1. /\ q \in RadioState
      /\ q.mox = r.mox /\ q.vox = r.vox /\ q.tune = r.tune
      /\ q.cap \notin {"RECORDING", "XMIT", "REPLAY"}
  BY AbortFacts
<1>2. s = [q EXCEPT !.tx = on, !.rx = a, !.redo = b]
  BY Zenon DEF Rxtx
<1>3. a \in BOOLEAN /\ b \in BOOLEAN
  <2>1. r.rx \in BOOLEAN
    BY FieldTypes
  <2>2. a \in BOOLEAN
    BY <2>1, Zenon
  <2>3. b \in BOOLEAN
    BY Zenon
  <2> HIDE DEF a, b
  <2> QED BY <2>2, <2>3
<1> HIDE DEF q, a, b, s
<1>4. s \in RadioState
  <2> DEFINE q1 == [q EXCEPT !.tx = on]
             q2 == [q1 EXCEPT !.rx = a]
  <2>1. s = [q2 EXCEPT !.redo = b]
    BY <1>2, Zenon
  <2>2. q1 \in RadioState
    BY <1>1, Zenon DEF RadioState
  <2> HIDE DEF q1
  <2>3. q2 \in RadioState
    BY <1>3, <2>2, Zenon DEF RadioState
  <2> HIDE DEF q2
  <2> QED BY <1>3, <2>1, <2>3, Zenon DEF RadioState
<1>5. s.mox = q.mox /\ s.vox = q.vox /\ s.tune = q.tune /\ s.cap = q.cap
  BY <1>1, <1>2, Zenon DEF RadioState
<1> QED BY <1>1, <1>4, <1>5 DEF s

\* radio_set_mox(): the direction changes in rxtx() or not at all.
LEMMA SetMoxDirected ==
  ASSUME NEW r, Directed(r), NEW on \in BOOLEAN
  PROVE  Directed(SetMox(r, on))
<1> DEFINE want == on /\ r.inband
           v == VoxCancel(r)
           t == IF want # Transmitting(v) THEN Rxtx(v, want) ELSE v
           s == [t EXCEPT !.mox = want, !.tune = FALSE, !.vox = FALSE]
<1>1. r \in RadioState /\ ~r.tune
  BY DEF Directed
<1>2. SetMox(r, on) \in {r, s}
  BY <1>1, Zenon DEF SetMox, MoxPasses, ApplyMox
<1>3. want \in BOOLEAN
  BY Zenon
<1> HIDE DEF want
<1>4. /\ v \in RadioState /\ v.mox = r.mox /\ ~v.vox /\ ~v.tune /\ v.cap = r.cap
  <2>1. 0 \in Nat /\ FALSE \in BOOLEAN
    OBVIOUS
  <2>2. /\ v \in RadioState /\ v.mox = r.mox /\ v.vox = r.vox
        /\ v.tune = r.tune /\ v.cap = r.cap
    BY <1>1, <2>1, Zenon DEF VoxCancel, RadioState
  <2> QED BY <2>2 DEF Directed
<1> HIDE DEF v
<1>5. v.mox \in BOOLEAN /\ Transmitting(v) = v.mox
  BY <1>4, FieldTypes DEF Transmitting
<1>6. /\ t \in RadioState
      /\ \/ t.cap \notin {"RECORDING", "XMIT", "REPLAY"}
         \/ t.cap = r.cap /\ want = r.mox
  <2>1. CASE want # Transmitting(v)
    BY <2>1, <1>3, <1>4, RxtxFacts
  <2>2. CASE ~(want # Transmitting(v))
    BY <2>2, <1>4, <1>5
  <2> QED BY <2>1, <2>2
<1> HIDE DEF t
<1>7. s \in RadioState /\ s.mox = want /\ ~s.vox /\ ~s.tune /\ s.cap = t.cap
  BY <1>3, <1>6, Zenon DEF RadioState
<1> HIDE DEF s
<1>8. Directed(s)
  BY <1>6, <1>7 DEF Directed
<1> QED BY <1>2, <1>8, Zenon

\* The presses are cleared when they are scheduled.
LEMMA PressesDirected ==
  ASSUME NEW r, Directed(r)
  PROVE  Directed([r EXCEPT !.presses = 0])
<1> DEFINE s == [r EXCEPT !.presses = 0]
<1>1. r \in RadioState /\ 0 \in Nat
  BY DEF Directed
<1>2. /\ s \in RadioState /\ s.cap = r.cap
      /\ s.mox = r.mox /\ s.vox = r.vox /\ s.tune = r.tune
  BY <1>1, Zenon DEF RadioState
<1> HIDE DEF s
<1>3. Directed(s)
  BY <1>2 DEF Directed
<1> QED BY <1>3 DEF s
-----------------------------------------------------------------------------
(* The threads *)

\* A press that is scheduled, by the program or the operator.
LEMMA ScheduleKeeps ==
  ASSUME Switch, NEW a \in Press, Schedule(a)
  PROVE  Switch'
  BY DEF Switch, Schedule

\* The main thread only ever sets a pointer to zero.
LEMMA ResetKeeps ==
  ASSUME Inv, UNCHANGED <<thread, crossed>>, rec' \in {rec, 0}, play' \in {play, 0}
  PROVE  (Pointers /\ Samples)'
<1>1. CaptureMax \in Nat \ {0}
  BY CaptureAssumption
<1>2. Pointers'
  BY <1>1 DEF Inv, Pointers
<1>3. ASSUME NEW t \in Threads PROVE Held(t)'
  <2>1. Held(t)
    BY DEF Inv, Samples
  <2>2. \A task : Pointer(task)' \in {Pointer(task), 0}
    BY DEF Pointer
  <2> QED BY <2>1, <2>2 DEF Held
<1> QED BY <1>2, <1>3 DEF Inv, Samples

\* A step of one thread that leaves the pointers alone.
LEMMA LocalKeeps ==
  ASSUME Inv, NEW t \in Threads, NEW w \in Work,
         thread' = [thread EXCEPT ![t] = w],
         crossed' \in {crossed, crossed \ {t}},
         UNCHANGED <<rec, play>>,
         w.task = "RECORDING" => t = "rx",
         w.task = "RECORDING" \/ t \notin crossed' =>
           /\ w.pc \in {"fits", "taken"} => w.at < CaptureMax
           /\ w.pc \in {"tested", "fits"} => Pointer(w.task) \in {w.at, 0}
  PROVE  (Pointers /\ Samples)'
<1>1. thread' \in [Threads -> Work] /\ thread'[t] = w
  BY DEF Inv, Samples
<1>2. \A task : Pointer(task)' = Pointer(task)
  BY DEF Pointer
<1>3. ASSUME NEW u \in Threads PROVE Held(u)'
  <2>1. CASE u = t
    BY <1>1, <1>2, <2>1 DEF Held
  <2>2. CASE u # t
    <3>1. thread'[u] = thread[u] /\ (u \in crossed' <=> u \in crossed)
      BY <2>2 DEF Inv, Samples
    <3>2. Held(u)
      BY DEF Inv, Samples
    <3> QED BY <1>2, <3>1, <3>2 DEF Held
  <2> QED BY <2>1, <2>2
<1>4. crossed' \subseteq Threads
  BY DEF Inv, Samples
<1> QED BY <1>1, <1>3, <1>4 DEF Inv, Samples, Pointers

LEMMA SamplesKept ==
  ASSUME Inv, NEW t \in Threads, Audio(t)
  PROVE  (Pointers /\ Samples)'
<1> DEFINE w == thread[t]
<1>1. CaptureMax \in Nat \ {0} /\ MaxOver \in Nat
  BY CaptureAssumption
<1>2. w \in Work /\ Held(t) /\ thread \in [Threads -> Work]
  BY DEF Inv, Samples
<1>3. rec \in 0..CaptureMax /\ play \in Nat /\ rec \in Nat
  BY <1>1 DEF Inv, Pointers
<1>4. \A task : Pointer(task) \in Nat
  BY <1>3 DEF Pointer
<1>5. Idle \in Work /\ Idle.pc = "idle" /\ Idle.task = "XMIT"
  BY DEF Idle, Work
<1>6. /\ w.pc \in {"idle", "tested", "fits", "taken", "over", "done"}
      /\ w.task \in {"RECORDING", "REPLAY", "XMIT"} /\ w.at \in Nat
  BY <1>2 DEF Work
<1>7. ASSUME NEW task \in Tasks(t), Test(t, task) PROVE (Pointers /\ Samples)'
  <2> DEFINE v == [pc |-> "tested", task |-> task, at |-> Pointer(task)]
  <2>1. v \in Work /\ (task = "RECORDING" => t = "rx")
    BY <1>4, <1>7 DEF Tasks, Work, Threads
  <2> QED BY <1>7, <2>1, LocalKeeps DEF Test
<1>8. CASE Compare(t)
  <2>1. PICK p \in Reread(w) :
          thread' = [thread EXCEPT ![t] = IF Fits(w.task, p) THEN [w EXCEPT !.pc = "fits", !.at = p]
                                          ELSE [w EXCEPT !.pc = "over", !.at = 0]]
    BY <1>8 DEF Compare
  <2>2. p \in Nat
    BY <1>4, <1>6, <2>1 DEF Reread
  <2>3. CASE Fits(w.task, p)
    <3> DEFINE v == [w EXCEPT !.pc = "fits", !.at = p]
    <3>1. v \in Work /\ v.pc = "fits" /\ v.task = w.task /\ v.at = p
      BY <1>2, <2>2 DEF Work
    <3>2. p < CaptureMax
      BY <1>1, <1>3, <2>2, <2>3 DEF Fits
    <3>3. w.task = "RECORDING" \/ t \notin crossed => Pointer(w.task) \in {p, 0}
      BY <1>2, <1>8, <2>1 DEF Held, Compare, Reread
    <3>4. thread' = [thread EXCEPT ![t] = v] /\ UNCHANGED <<rec, play, crossed>>
      BY <1>8, <2>1, <2>3 DEF Compare
    <3>5. w.task = "RECORDING" => t = "rx"
      BY <1>2 DEF Held
    <3> HIDE DEF v, w
    <3> QED BY <3>1, <3>2, <3>3, <3>4, <3>5, LocalKeeps
  <2>4. CASE ~Fits(w.task, p)
    <3> DEFINE v == [w EXCEPT !.pc = "over", !.at = 0]
    <3>1. v \in Work /\ v.pc = "over" /\ v.task = w.task
      BY <1>2 DEF Work
    <3>2. thread' = [thread EXCEPT ![t] = v] /\ UNCHANGED <<rec, play, crossed>>
      BY <1>8, <2>1, <2>4 DEF Compare
    <3>3. w.task = "RECORDING" => t = "rx"
      BY <1>2 DEF Held
    <3> HIDE DEF v, w
    <3> QED BY <3>1, <3>2, <3>3, LocalKeeps
  <2> QED BY <2>3, <2>4
<1>9. CASE Take(t)
  <2>1. PICK p \in Reread(w) : thread' = [thread EXCEPT ![t].pc = "taken", ![t].at = p]
    BY <1>9 DEF Take
  <2> DEFINE v == [w EXCEPT !.pc = "taken", !.at = p]
  <2>2. p \in Nat
    BY <1>4, <1>6, <2>1 DEF Reread
  <2>3. v \in Work /\ v.pc = "taken" /\ v.task = w.task /\ v.at = p
    BY <1>2, <2>2 DEF Work
  <2>4. w.task = "RECORDING" \/ t \notin crossed => p < CaptureMax
    BY <1>1, <1>2, <1>9, <2>1 DEF Held, Take, Reread
  <2>5. thread' = [thread EXCEPT ![t] = v] /\ UNCHANGED <<rec, play, crossed>>
    BY <1>2, <1>9, <2>1 DEF Take
  <2>6. w.task = "RECORDING" => t = "rx"
    BY <1>2 DEF Held
  <2> HIDE DEF v, w
  <2> QED BY <2>3, <2>4, <2>5, <2>6, LocalKeeps
<1>10. CASE Advance(t)
  <2>1. thread' = [thread EXCEPT ![t] = Idle] /\ w.pc = "taken"
    BY <1>10 DEF Advance
  <2>2. thread' \in [Threads -> Work] /\ thread'[t] = Idle
    BY <1>2, <1>5, <2>1
  <2>3. CASE w.task = "RECORDING"
    <3>1. rec' = w.at + 1 /\ UNCHANGED <<play, crossed>>
      BY <1>10, <2>3 DEF Advance
    <3>2. w.at < CaptureMax /\ t = "rx"
      BY <1>2, <2>1, <2>3 DEF Held
    <3>3. rec' \in 0..CaptureMax
      BY <1>1, <1>6, <3>1, <3>2
    <3>4. ASSUME NEW u \in Threads PROVE Held(u)'
      <4>1. CASE u = t
        BY <1>5, <2>2, <4>1 DEF Held
      <4>2. CASE u # t
        <5>1. thread'[u] = thread[u] /\ Held(u)
          BY <1>2, <2>1, <4>2 DEF Inv, Samples
        <5>2. thread[u].task # "RECORDING"
          BY <3>2, <4>2, <5>1 DEF Held
        <5>3. Pointer(thread[u].task)' = Pointer(thread[u].task)
          BY <3>1, <5>1, <5>2 DEF Pointer
        <5> QED BY <3>1, <5>1, <5>2, <5>3 DEF Held
      <4> QED BY <4>1, <4>2
    <3> QED BY <2>2, <3>1, <3>3, <3>4 DEF Inv, Samples, Pointers
  <2>4. CASE w.task # "RECORDING"
    <3>1. /\ play' = w.at + 1 /\ UNCHANGED rec
          /\ crossed' = {u \in Threads \ {t} : Playing(u)}
      BY <1>10, <2>4 DEF Advance
    <3>2. play' \in Nat
      BY <1>6, <3>1
    <3>3. ASSUME NEW u \in Threads PROVE Held(u)'
      <4>1. CASE u = t
        BY <1>5, <2>2, <4>1 DEF Held
      <4>2. CASE u # t
        <5>1. thread'[u] = thread[u] /\ Held(u)
          BY <1>2, <2>1, <4>2 DEF Inv, Samples
        <5>2. CASE thread[u].task = "RECORDING"
          <6>1. Pointer(thread[u].task)' = Pointer(thread[u].task)
            BY <3>1, <5>1, <5>2 DEF Pointer
          <6> QED BY <5>1, <5>2, <6>1 DEF Held
        <5>3. CASE thread[u].task # "RECORDING"
          <6>1. u \in crossed' \/ thread[u].pc \notin {"tested", "fits", "taken"}
            BY <3>1, <4>2, <5>3 DEF Playing
          <6> QED BY <5>1, <5>3, <6>1 DEF Held
        <5> QED BY <5>2, <5>3
      <4> QED BY <4>1, <4>2
    <3> QED BY <2>2, <3>1, <3>2, <3>3 DEF Inv, Samples, Pointers
  <2> QED BY <2>3, <2>4
<1>11. CASE Finish(t)
  <2> DEFINE v == [w EXCEPT !.pc = "done"]
  <2>1. v \in Work /\ v.pc = "done" /\ v.task = w.task
    BY <1>2 DEF Work
  <2>2. thread' = [thread EXCEPT ![t] = v] /\ UNCHANGED <<rec, play>> /\ crossed' = crossed \ {t}
    BY <1>11 DEF Finish
  <2>3. w.task = "RECORDING" => t = "rx"
    BY <1>2 DEF Held
  <2> HIDE DEF v, w
  <2> QED BY <2>1, <2>2, <2>3, LocalKeeps
<1>12. CASE PressSwitch(t)
  BY <1>5, <1>12, LocalKeeps DEF PressSwitch
<1> QED BY <1>7, <1>8, <1>9, <1>10, <1>11, <1>12 DEF Audio

\* An audio thread changes capture_state only to a state in which nothing runs.
LEMMA AudioKeeps == ASSUME Inv, NEW t \in Threads, Audio(t) PROVE Inv'
<1>1. (Pointers /\ Samples)'
  BY SamplesKept
<1>2. Directed(radio) /\ Switch /\ Settings /\ thread[t] \in Work
  BY DEF Inv, Samples
<1>3. CASE Finish(t)
  <2>1. Aborted(thread[t].task) \in {"RECORD_DONE", "XMIT_DONE", "REPLAY_DONE"}
    BY <1>2 DEF Aborted, Work
  <2>2. Directed(radio)'
    BY <1>2, <1>3, <2>1, SetCapDirected DEF Finish, SetCap, CapStates
  <2> QED BY <1>1, <1>2, <1>3, <2>2 DEF Finish, Inv, Switch, Settings
<1>4. CASE PressSwitch(t)
  <2>1. Switch'
    BY <1>2, <1>4, ScheduleKeeps DEF PressSwitch, Press
  <2> QED BY <1>1, <1>2, <1>4, <2>1 DEF PressSwitch, Inv, Settings
<1>5. CASE ~Finish(t) /\ ~PressSwitch(t)
  <2>1. UNCHANGED <<radio, queue, dsp>>
    BY <1>5 DEF Audio, Test, Compare, Take, Advance
  <2> QED BY <1>1, <1>2, <2>1 DEF Inv, Switch, Settings
<1> QED BY <1>3, <1>4, <1>5
-----------------------------------------------------------------------------
(* The main thread *)

\* A press starts what fits the direction, and ends everything else.
LEMMA PressedKeeps ==
  ASSUME Inv, NEW action, Pressed(action)
  PROVE  /\ (Directed(radio) /\ Settings)'
         /\ rec' \in {rec, 0} /\ play' \in {play, 0}
<1>1. Directed(radio) /\ Settings
  BY DEF Inv
<1>2. rec' \in {rec, 0} /\ play' \in {play, 0}
  BY DEF Pressed, StartXmit, StartRecording, StartReplay, EndRecording, EndXmit
<1>3. Settings'
  BY <1>1 DEF Settings, Pressed, StartXmit, StartRecording, StartReplay,
              EndRecording, EndXmit
<1>4. PICK c \in CapStates :
         /\ radio' = [radio EXCEPT !.cap = c]
         /\ c = "XMIT" => radio.mox
         /\ c \in {"RECORDING", "REPLAY"} => ~radio.mox
  BY <1>1 DEF Pressed, StartXmit, StartRecording, StartReplay, EndRecording,
              EndXmit, SetCap, CapStates, Transmitting, Directed
<1>5. Directed(radio)'
  BY <1>1, <1>4, SetCapDirected
<1> QED BY <1>2, <1>3, <1>5

LEMMA MainKeeps ==
  ASSUME Inv,
         Dispatch \/ ToggleMox \/ HideDisplay \/ \E a \in Press : OperatorPress(a)
  PROVE  Inv'
<1>1. CASE Dispatch
  <2>1. Switch'
    BY <1>1 DEF Dispatch, Inv, Switch
  <2>2. (Pointers /\ Samples)'
    BY <1>1, PressedKeeps, ResetKeeps DEF Dispatch
  <2> QED BY <1>1, <2>1, <2>2, PressedKeeps DEF Dispatch, Inv
<1>2. CASE ToggleMox
  <2> DEFINE r == SetMox(radio, ~radio.mox)
  <2>1. radio' = [r EXCEPT !.presses = 0] /\ UNCHANGED <<rec, play, thread, crossed, dsp>>
    BY <1>2 DEF ToggleMox
  <2>2. Schedule("CAPTURE") \/ UNCHANGED queue
    BY <1>2 DEF ToggleMox
  <2>3. Directed(r)
    BY SetMoxDirected, Zenon DEF Inv
  <2>4. Directed(radio)'
    BY <2>1, <2>3, PressesDirected
  <2>5. Switch'
    BY <2>2, ScheduleKeeps DEF Inv, Switch, Press
  <2> QED BY <2>1, <2>4, <2>5, ResetKeeps DEF Inv, Settings
<1>3. CASE HideDisplay
  <2>1. /\ radio' = [radio EXCEPT !.cap = "GOTOSLEEP"]
        /\ Schedule("CAPTURE") /\ UNCHANGED <<rec, play, thread, crossed, dsp>>
    BY <1>3 DEF HideDisplay, SetCap
  <2>2. Directed(radio)'
    BY <2>1, SetCapDirected DEF Inv, CapStates
  <2>3. Switch'
    BY <2>1, ScheduleKeeps DEF Inv, Press
  <2> QED BY <2>1, <2>2, <2>3, ResetKeeps DEF Inv, Settings
<1>4. ASSUME NEW a \in Press, OperatorPress(a) PROVE Inv'
  <2>1. Switch'
    BY <1>4, ScheduleKeeps DEF OperatorPress, Inv
  <2> QED BY <1>4, <2>1, ResetKeeps DEF OperatorPress, Inv, Settings
<1> QED BY <1>1, <1>2, <1>3, <1>4
-----------------------------------------------------------------------------
(* What follows *)

LEMMA InitInv == Init => Inv
<1> SUFFICES ASSUME Init PROVE Inv
  OBVIOUS
<1>1. Directed(radio)
  BY KeyerAssumption DEF Init, Directed, RadioOff, RadioState, Modes, CapStates
<1>2. Idle \in Work /\ Idle.pc = "idle" /\ Idle.task = "XMIT"
  BY DEF Idle, Work
<1>3. Samples
  BY <1>2 DEF Init, Samples, Held
<1> QED BY <1>1, <1>3, CaptureAssumption DEF Init, Inv, Switch, Pointers, Settings

LEMMA StepKeeps == ASSUME Inv, [Next]_vars PROVE Inv'
<1>1. CASE Dispatch \/ ToggleMox \/ HideDisplay \/ \E a \in Press : OperatorPress(a)
  BY <1>1, MainKeeps
<1>2. ASSUME NEW t \in Threads, Audio(t) PROVE Inv'
  BY <1>2, AudioKeeps
<1>3. CASE UNCHANGED vars
  <2>1. (Pointers /\ Samples)'
    BY <1>3, ResetKeeps DEF vars
  <2> QED BY <1>3, <2>1 DEF vars, Inv, Switch, Settings
<1> QED BY <1>1, <1>2, <1>3 DEF Next

LEMMA Invariance == Spec => []Inv
  BY InitInv, StepKeeps, PTL DEF Spec

\* Every variable of the capture machine keeps its type.
THEOREM TypeCorrect == Spec => []TypeOK
<1>1. Inv => TypeOK
  BY DEF Inv, TypeOK, Directed, Switch, Pointers, Samples, Settings
<1> QED BY <1>1, Invariance, PTL

\* process_rx_buffer() and tx_add_mic_sample(): although the main thread may
\* reset the pointer after a thread has compared it, and the thread reads it
\* again, the sample is inside capture_data; except where the other audio
\* thread has moved the replay pointer meanwhile.
THEOREM SamplesInBuffer == Spec => []InBuffer
<1>1. Inv => InBuffer
  BY DEF Inv, InBuffer, Samples, Held
<1> QED BY <1>1, Invariance, PTL

\* rxtx() and schedule_action(CAPTURE): whatever the operator, the timer and the
\* threads do, recording and replay are off the air, transmission is on it.
THEOREM DirectionsFit == Spec => []RightDirection
<1>1. Inv => RightDirection
  BY DEF Inv, RightDirection, Directed, Transmitting
<1> QED BY <1>1, Invariance, PTL
=============================================================================
