------------------------------ MODULE Capture ------------------------------
(***************************************************************************)
(* Recording the received audio, replaying it and transmitting it.         *)
(*                                                                         *)
(* One switch (CAPTURE, or REPLAY) drives the state machine capture_state: *)
(* its presses are served by the main thread from the idle queue.  The     *)
(* receiver thread records and replays, the microphone thread transmits,   *)
(* and when one of them comes to the end of the data it changes the state  *)
(* and presses the switch itself.  rxtx() does the same to abort whatever  *)
(* is running, and so does a timer that hides the display.                 *)
(*                                                                         *)
(* No lock protects capture_state and the two pointers.  An audio thread   *)
(* reads capture_state, then the pointers, then the sample, and writes the *)
(* pointer or the state: the main thread and the other audio thread may    *)
(* come in between any two of these.                                       *)
(***************************************************************************)
EXTENDS Radio, Sequences

CONSTANTS
  CaptureMax,   \* size of capture_data (capture_max)
  MaxQueue,     \* bound on the presses waiting in the idle queue
  MaxOver       \* bound: how far past the buffer the replay pointer is followed

ASSUME CaptureAssumption == /\ CaptureMax \in Nat \ {0}
                            /\ MaxQueue \in Nat \ {0}
                            /\ MaxOver \in Nat

VARIABLES
  radio,    \* of which capture_state is the field cap
  queue,    \* presses of the switch waiting for the main thread
  rec,      \* capture_record_pointer
  play,     \* capture_replay_pointer
  thread,   \* where the two audio threads are
  crossed,  \* history: threads whose replay pointer the other one has moved
  dsp       \* RX equalizer, TX compressor chain and DEXP as set by the operator

vars == <<radio, queue, rec, play, thread, crossed, dsp>>

Press == {"CAPTURE", "REPLAY"}

\* The receiver thread records and replays, the microphone thread transmits.
Threads == {"rx", "mic"}
Tasks(t) == IF t = "rx" THEN {"RECORDING", "REPLAY"} ELSE {"XMIT"}

\* The task a thread found in capture_state, how far it is with one sample,
\* and the pointer as the thread last read it.
Work == [pc : {"idle", "tested", "fits", "taken", "over", "done"},
         task : {"RECORDING", "REPLAY", "XMIT"},
         at : Nat]

Idle == [pc |-> "idle", task |-> "XMIT", at |-> 0]

TypeOK == /\ radio \in RadioState
          /\ queue \in Seq(Press)
          /\ rec \in 0..CaptureMax
          /\ play \in Nat
          /\ thread \in [Threads -> Work]
          /\ crossed \subseteq Threads
          /\ dsp \in [rxeq : BOOLEAN, comp : BOOLEAN, dexp : BOOLEAN]

Init == /\ radio = RadioOff("SSB")
        /\ queue = << >>
        /\ rec = 0
        /\ play = 0
        /\ thread = [t \in Threads |-> Idle]
        /\ crossed = {}
        /\ dsp = [rxeq |-> TRUE, comp |-> TRUE, dexp |-> TRUE]

\* schedule_action(): by the program or the operator.
Schedule(action) ==
  /\ Len(queue) < MaxQueue
  /\ queue' = Append(queue, action)
-----------------------------------------------------------------------------
(* The main thread *)

SetCap(s) == radio' = [radio EXCEPT !.cap = s]

StartXmit == /\ SetCap("XMIT")
             /\ play' = 0
             /\ dsp' = [dsp EXCEPT !.comp = FALSE, !.dexp = FALSE]
             /\ UNCHANGED rec

StartRecording == /\ SetCap("RECORDING")
                  /\ rec' = 0
                  /\ dsp' = [dsp EXCEPT !.rxeq = FALSE]
                  /\ UNCHANGED play

StartReplay == /\ SetCap("REPLAY")
               /\ play' = 0
               /\ UNCHANGED <<rec, dsp>>

EndRecording == /\ SetCap("AVAIL")
                /\ dsp' = [dsp EXCEPT !.rxeq = TRUE]
                /\ UNCHANGED <<rec, play>>

EndXmit == /\ SetCap("AVAIL")
           /\ dsp' = [dsp EXCEPT !.comp = TRUE]
           /\ UNCHANGED <<rec, play>>

\* The press of the switch in the state it is served in.
Pressed(action) ==
  \/ /\ radio.cap = "INIT"
     /\ SetCap("AVAIL") /\ rec' = 0 /\ play' = 0 /\ UNCHANGED dsp
  \/ /\ radio.cap = "AVAIL"
     /\ \/ Transmitting(radio) /\ StartXmit
        \/ ~Transmitting(radio) /\ action = "CAPTURE" /\ StartRecording
        \/ ~Transmitting(radio) /\ action = "REPLAY" /\ StartReplay
  \/ radio.cap \in {"RECORDING", "RECORD_DONE"} /\ EndRecording
  \/ radio.cap \in {"XMIT", "XMIT_DONE"} /\ EndXmit
  \/ /\ radio.cap \in {"REPLAY", "REPLAY_DONE", "SLEEPING"}
     /\ SetCap("AVAIL") /\ UNCHANGED <<rec, play, dsp>>
  \/ /\ radio.cap = "GOTOSLEEP"
     /\ SetCap("SLEEPING") /\ UNCHANGED <<rec, play, dsp>>

Dispatch == /\ queue # << >>
            /\ queue' = Tail(queue)
            /\ Pressed(Head(queue))
            /\ UNCHANGED <<thread, crossed>>

OperatorPress(action) == /\ Schedule(action)
                         /\ UNCHANGED <<radio, rec, play, thread, crossed, dsp>>

\* MOX on and off; what rxtx() aborts is ended by a press it schedules.
ToggleMox == /\ LET r == SetMox(radio, ~radio.mox) IN
                /\ radio' = [r EXCEPT !.presses = 0]
                /\ IF r.presses > 0 THEN Schedule("CAPTURE") ELSE UNCHANGED queue
             /\ UNCHANGED <<rec, play, thread, crossed, dsp>>

\* The panadapter has shown an available recording for 30 seconds.
HideDisplay == /\ radio.cap = "AVAIL" /\ radio.rx
               /\ SetCap("GOTOSLEEP")
               /\ Schedule("CAPTURE")
               /\ UNCHANGED <<rec, play, thread, crossed, dsp>>
-----------------------------------------------------------------------------
(* The two audio threads, one sample at a time *)

Pointer(task) == IF task = "RECORDING" THEN rec ELSE play

\* The pointers are plain variables: the compiler may keep the value of an
\* earlier read or read the pointer again.
Reread(w) == {w.at, Pointer(w.task)}

FitsOneMore(task, p) == IF task = "RECORDING" THEN p <= CaptureMax ELSE p < rec

Fits(task, p) == IF task = "RECORDING" THEN p < CaptureMax ELSE p < rec

\* capture_state == CAP_RECORDING, CAP_REPLAY or CAP_XMIT
Test(t, task) ==
  /\ thread[t].pc = "idle"
  /\ radio.cap = task
  /\ thread' = [thread EXCEPT ![t] = [pc |-> "tested", task |-> task, at |-> Pointer(task)]]
  /\ UNCHANGED <<radio, queue, rec, play, crossed, dsp>>

\* Is there another sample, or room for one?
Compare(t) ==
  /\ thread[t].pc = "tested"
  /\ \E p \in Reread(thread[t]) :
       thread' = [thread EXCEPT
                    ![t] = IF Fits(@.task, p) THEN [@ EXCEPT !.pc = "fits", !.at = p]
                           ELSE [@ EXCEPT !.pc = "over", !.at = 0]]
  /\ UNCHANGED <<radio, queue, rec, play, crossed, dsp>>

\* The sample capture_data[p] itself.
Take(t) ==
  /\ thread[t].pc = "fits"
  /\ \E p \in Reread(thread[t]) :
       /\ p <= CaptureMax + MaxOver
       /\ thread' = [thread EXCEPT ![t].pc = "taken", ![t].at = p]
  /\ UNCHANGED <<radio, queue, rec, play, crossed, dsp>>

Playing(t) == /\ thread[t].task # "RECORDING"
              /\ thread[t].pc \in {"tested", "fits", "taken"}

Advance(t) ==
  /\ thread[t].pc = "taken"
  /\ thread' = [thread EXCEPT ![t] = Idle]
  /\ IF thread[t].task = "RECORDING"
     THEN rec' = thread[t].at + 1 /\ UNCHANGED <<play, crossed>>
     ELSE /\ play' = thread[t].at + 1
          /\ crossed' = {u \in Threads \ {t} : Playing(u)}
          /\ UNCHANGED rec
  /\ UNCHANGED <<radio, queue, dsp>>

FinishSilently(t) ==
  /\ thread[t].pc = "over"
  /\ SetCap(Aborted(thread[t].task))
  /\ thread' = [thread EXCEPT ![t] = Idle]
  /\ crossed' = crossed \ {t}
  /\ UNCHANGED <<queue, rec, play, dsp>>

\* The end of the data, or of the room for it: the new state ...
Finish(t) ==
  /\ thread[t].pc = "over"
  /\ SetCap(Aborted(thread[t].task))
  /\ thread' = [thread EXCEPT ![t].pc = "done"]
  /\ crossed' = crossed \ {t}
  /\ UNCHANGED <<queue, rec, play, dsp>>

\* ... and the press of the switch.
PressSwitch(t) ==
  /\ thread[t].pc = "done"
  /\ Schedule(IF thread[t].task = "REPLAY" THEN "REPLAY" ELSE "CAPTURE")
  /\ thread' = [thread EXCEPT ![t] = Idle]
  /\ UNCHANGED <<radio, rec, play, crossed, dsp>>

Audio(t) == \/ \E task \in Tasks(t) : Test(t, task)
            \/ Compare(t) \/ Take(t) \/ Advance(t)
            \/ Finish(t) \/ PressSwitch(t)

Next == \/ Dispatch \/ ToggleMox \/ HideDisplay
        \/ \E a \in Press : OperatorPress(a)
        \/ \E t \in Threads : Audio(t)

Spec == Init /\ [][Next]_vars

FairSpec == Spec /\ WF_vars(Dispatch) /\ \A t \in Threads : WF_vars(Audio(t))
-----------------------------------------------------------------------------
(* Properties *)

\* No thread reads or writes a sample outside capture_data although the pointer
\* it compared may be reset before it takes the sample, by an abort, a new
\* start, or both.  The one gap: an audio thread that has been held up since
\* its test until the other one plays as well, where both move one pointer.
InBuffer == \A t \in Threads :
              thread[t].pc = "taken" => thread[t].at < CaptureMax \/ t \in crossed

\* Captured audio goes on the air only during a transmission, and nothing is
\* recorded or replayed during one.
RightDirection == /\ radio.cap = "XMIT" => Transmitting(radio)
                  /\ radio.cap \in {"RECORDING", "REPLAY"} => ~Transmitting(radio)

\* Whatever came to its end is ended for the operator as well, so the switch
\* never sticks in one of the DONE states.
DoneEnds == radio.cap \in {"RECORD_DONE", "XMIT_DONE", "REPLAY_DONE", "GOTOSLEEP"}
              ~> radio.cap \in {"AVAIL", "SLEEPING"}

\* The change of settings is temporary: while nothing is recorded or
\* transmitted, equalizer, compressor and DEXP are as the operator set them.
SettingsRestored ==
  radio.cap \in {"AVAIL", "SLEEPING"} => dsp.rxeq /\ dsp.comp /\ dsp.dexp
=============================================================================
