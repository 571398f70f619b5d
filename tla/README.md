# piHPSDR in TLA+: who transmits, when, where, and how it ends

piHPSDR is the control program of a software defined radio: it receives and
sends samples over the network, runs the signal processing (the external
library WDSP) and gives the operator a screen, buttons, CAT, TCI, MIDI and GPIO.
A fault that matters most to its users is a radio that transmits when it should
not, does not stop, or is tuned to something other than what the dial shows.
This project models the parts of the program that decide that, with the threads
that take part in it.

Paths below are relative to `src/src/`.

## 1. Inventory

| Component | State it keeps | Operations | Who calls it |
|---|---|---|---|
| Transmit/receive control (`radio.c`, `transmitter.c`) | `mox`, `vox`, `tune`, `twotone`, `duplex`, `TxInhibit`, running channels, `pre_tune_*` | `radio_set_mox/vox/tune/duplex`, `rxtx`, `tx_set_twotone` | main thread only; others queue callbacks (`ext.c`) |
| Radio lines (`new_protocol.c`, `old_protocol.c`) | `hpsdr_ptt`, `TxInhibit`, `auto_tune_*` | edges in status packets | protocol thread |
| VOX (`transmitter.c`, `vox_menu.c`) | `vox_triggered`, `vox_count`, `vox_enabled` | trigger, hang, cancel, menu | microphone thread, main thread |
| Capture/replay (`radio.c`, `receiver.c`, `transmitter.c`, `actions.c`) | `capture_state`, two pointers, temporary settings | press, record, replay, transmit, abort | main, receiver and microphone thread |
| Iambic keyer (`iambic.c`) | paddles, memories, `key_state`, `cwvox`, `moxbefore` | `keyer_event`, thread, start/stop | paddle, keyer and main thread |
| CAT server (`rigctl.c`) | clients, CW text ring | commands, CW text thread | one thread per client, CW thread |
| TCI server (`tci.c`) | clients, TX client, audio ring | commands, streams | one thread per client |
| VFO, bands, memories (`vfo.c`, `band.c`, `store.c`, `receiver.c`) | frequencies, CTUN, RIT, bands, band stacks, SAT mode, shift of the receivers | step, drag, click, enter, swap, band change, recall | main thread |
| Protocol 2 engine (`new_protocol.c`, `buffer.c`) | buffer pool, rings with pointers into it, semaphores, `P2running` | receive, post, process, stop, restart | reading thread, a processing thread per stream, main thread |
| Protocol 1 engine (`old_protocol.c`) | two mutexes, the packet being filled, command round robin, METIS ring, `P1running` | send, receive, decode, stop, run, change of the receivers | sending, receiving, processing and main thread |
| Remote operation (`client_server.c`, `server_thread.c`, `client_thread.c`) | sockets, `remoteclient.running`, settings saved for the session, the client's copy of the flags | accept, take over, execute commands, hand back; send and learn | listening and audio thread, main thread; the client's main and TCP thread |
| Receiver chain, local audio, PureSignal, discovery, properties, drivers, menus | see PROJECT.json | | |

What is hard here is not any single function. It is that

* a request to go on the air or to leave it is a callback in the queue of the
  GTK main loop, served later than the test that led to it; idle callbacks keep
  their order, timers have a higher priority and overtake them;
* three reasons to transmit (MOX, VOX, TUNE) call each other's functions, and
  each has several ways out, all of which have to put back what was saved;
* plain global variables are shared by threads without locks (`capture_state`,
  `vox_triggered`, `dot_memory`, `CAT_cw_is_active`);
* threads wait for each other with time limits (200 ms for MOX to come, 250 ms
  for it to go), and the main thread joins the keyer, the reading and the
  listening thread, while some of these wait for the main thread's queue;
* the protocols are stopped and restarted under threads that never end, with
  packets still in sockets and rings, and sleeps in the place of locks;
* a client of the remote operation may be lost at any moment, with its commands
  still waiting in the queue.

`PROJECT.json` lists these hazards line by line with the properties that cover
them.

What makes each part correct: of the transmit control, one reason at a time,
channels and settings in agreement with it, and off the air under inhibit; of
VOX, auto-tune, capture and keyer, that what they start ends, or exactly when it
does not; of capture, that no sample outside the buffer is used; of the keyer, the iambic rule and no lost paddle; of
the VFOs, that band, stack and receiver shift, all of them derived data, follow
the dial; of remote operation, that the radio is handed back whatever happens to
the client and that both sides know who transmits; of the protocol engines, that
no buffer is in two places and no packet lost unnoticed, and that a restart
neither blocks nor mixes the old with the new.

## 2. Modules

| Module | Models |
|---|---|
| `Radio` | the globals of the transmit state as one record, and the functions that change it, as operators from record to record: `Rxtx`, `SetMox`, `SetVox`, `SetTune`, each of the three also as test (`MoxPasses`) and rest (`ApplyMox`), `TuneToggled`, `SetDuplex`, `SetTwotone`, `SetMode` |
| `TxControl` | `Radio` with the idle queue, the timers, user actions, radio lines, the VOX and auto-tune threads |
| `Keying` | abstract specification: one reason at a time, no request granted under TX inhibit and at most one granted before it goes through, VOX never displaces another reason |
| `TxControlProofs` | TLAPS proofs about `TxControl` |
| `Capture` | capture/replay: the switch, both audio threads, the display timer, `rxtx()` |
| `CaptureProofs` | TLAPS proofs about `Capture` |
| `Keyer` | the iambic keyer, break-in, the CAT text thread and foot switch that share MOX with it |
| `KeyerProofs` | TLAPS proofs about `Keyer` |
| `Vfo` | the two VFOs, their bands and band stacks, a memory slot, and the tuning of the receivers |
| `VfoMC` | `Vfo` with a small band plan, cut after `MaxOps` operations |
| `VfoProofs` | TLAPS proofs about `Vfo` |
| `RemoteServer` | `Radio` with the sessions of `server_thread.c`: listening, audio and main thread, clients that come and are lost |
| `RemoteServerProofs` | TLAPS proofs about `RemoteServer` |
| `RemoteMirror` | `Radio` at the server, the client's copy of its flags, and the commands and messages between them |
| `RemoteMirrorProofs` | TLAPS proofs about `RemoteMirror` |
| `PacketQueue` | abstract specification: a bounded first-in first-out queue per stream, a promise that restarts void and renew |
| `P2Stream` | the receiving side of Protocol 2: rings, buffer pool, semaphores, restarts |
| `P2StreamMC` | `P2Stream` with one stream, a ring of three and four buffers |
| `P2StreamProofs` | TLAPS proofs about `P2Stream` |
| `P1Link` | the link to a Protocol 1 radio: three threads, two mutexes, the radio and the network |
| `P1LinkProofs` | TLAPS proofs about `P1Link` |

### Radio and TxControl

`radio` is a record of C globals; booleans are booleans, the mode is `SSB` or
`CW` (nothing in this code tells other modes apart), `tx`/`rx` say whether the
WDSP channels of transmitter and receivers run, `gen` which tone generator runs.
Each C function is one operator that maps the record before the call to the one
after it, nested calls included: `radio_set_mox()` calling `radio_set_tune()`
calling `rxtx()` is a composition of operators, as in the code. `redo` becomes
true if `rxtx()` is ever called for the direction the radio is in already.

Each user action of `actions.c` and each menu callback is an action of
`TxControl` that runs the whole handler, with one division: a call that may put
the radio on the air tests `TxInhibit` at its beginning (`radio.c:2099`) and sets
the flag at its end (2118), behind `rxtx()` with its waits for the channels, and
the protocol thread may change `TxInhibit` in between (`new_protocol.c:2376`).
`Enter` is the call up to its tests, `Perform` the rest; `setter` says which call
the main thread is in, and until it returns the main thread does nothing else.
Calls that leave the air test nothing and are one step. Threads add to `idle` (a sequence:
`g_idle_add` keeps order) or start a timer. Only `mox(0)` is ever delayed
by a timer, so `timers` is a count. `FireTimer` is not ordered against
`DispatchIdle`: a due timer goes first, one that is not due goes later.
The queue and timers are GLib's, modelled from their use (external).

The microphone thread writes `vox_triggered` and `vox_count` in two steps
(`mic`), since `vox_cancel()` may come in between. `cancelled` is history: a
`vox_cancel()` cleared trigger or counter before they had run their course. The
auto-tune thread is begin, poll, debounce, exit.

`Sources` selects which event sources an instance has, so that runs and proofs
can speak about parts of the environment.

### Capture

`cap` of `radio` is `capture_state`; `rec` and `play` are the pointers. An audio
thread (`thread`) handles a sample in steps, between any of which the main thread
and the other audio thread may go on: test of the state (`Test`), comparison of
the pointer (`Compare`), the sample itself (`Take`), the new value of the pointer
(`Advance`), or at the end of the data the new state (`Finish`) and the press of
the switch (`PressSwitch`). The pointers are plain variables shared by the
threads: at each use a thread has the value it read before or the present one
(`Reread`), as the compiler chooses. `rxtx()` and the display timer press the
switch as well, through the same queue as the operator. `dsp` says which settings
are as the operator has set them. `crossed` is history: the threads whose replay
pointer the other audio thread has moved since they tested the state.

`InBuffer` allows for this one gap. Replay (receiver thread) and transmission
(microphone thread) share a pointer; a thread that is held up between its steps
until the other one plays as well may read behind the data. Abort and restart by
the main thread are no such gap, since they only move a pointer back to the
start. Left out: two receiver threads that feed one capture for the moment in
which the active receiver changes.

### Keyer

One action per state of `keyer_thread()`. A paddle is named by the element it
produces, so `cw_keys_reversed` has been applied already. Element and pause
are one step, during which paddles may be hit and released in any order:
`PREDOT` to `AFTERDOT`. Time is counted where the code counts it: `cwvox`
(`vox.left`) and `kdelay` (`vox.space`). `air.on` and `air.off` are the MOX
requests of keyer, foot switch and CAT that wait for the main thread; they are
callbacks and timers of different priority and age, so the main thread may serve
them in any order (`ServeOn`, `ServeOff`) and as late as it likes. A thread waits
a limited time for MOX, and goes on whether it came or not. `cat` is the thread
that sends CW texts, in the steps between which a paddle or the foot switch may
come; a paddle connected to the radio clears `CAT_cw_is_active` before it calls
`keyer_event()`, one connected to GPIO or MIDI does not (`set.source`).
`tap`, `began`, `extra`, `air.by` and `vox.lost` are history, no action reads them.

`vox.lost` says that nothing in the code will end what the keyer has started, and
`BreakInEnds` excuses exactly that. The run found three ways into it: `moxbefore`
remembers a transmission of foot switch or CAT that ended before the keyer's own
`mox(1)` was served; that was served only when the hang time was over; the hang
time is zero (`SD0`). In each of them the radio stays on the air until something
else removes MOX.

### Vfo

`vfo` holds the fields of the C structure that decide where a receiver listens,
and `offset`, the shift given to WDSP. Each function of `vfo.c` is an operator
from the record of a VFO to the one after the call (`AdjustBand` is
`vfo_id_adjust_band`, `Retuned` the call of `rx_frequency_changed` if there is
such a receiver), and each operation is one action that runs all of them: all
of this is done in the main thread. `vfo_id_step`, `vfo_id_move` and
`vfo_id_move_to` share `Both`: the VFO that is tuned, and the other one which is
taken along in SAT (same direction) and RSAT mode to its `Target`. They differ
in the frequency by which the band of the other VFO is adjusted, as in the code.
A band stack is a set of places (band, index); `current` is `current_entry`.
`direct` is history: the receivers whose VFO was written without telling them
(CAT RIT commands, start of the second receiver).

`filter` are the edges of the receive filter. `rx_frequency_changed()` uses them
to test whether the filter would leave the spectrum (`Beyond`), and re-centres a
VFO in CTUN if so. The filter changes with the mode and on its own:
`vfo_vfos_changed` is run after everything that loads a VFO (band change, recall,
swap), and as in `rx_vfo_changed()` the test is made with the filter of before and
the new one is set afterwards; `vfo_id_filter_changed` sets a filter without any
test. Which filter follows which mode is left open: any of `Filters` may come.
`ReceiverTuned` says that the shift given to WDSP accounts for CTUN offset and
RIT; it does not say that the filter lies inside the spectrum, which the code does
not ensure (the TODO at `receiver.c:1069`).

Left out: mode and deviation, which are saved and loaded with the frequency; XIT;
the change of region and the editing of transverter bands; packets to the radio;
the change of the sample rate, which is a constant and the same for both receivers.

### RemoteServer

`listen` is where `listen_thread()` is; its blocking calls (`accept`, `recvfrom`,
`g_thread_join`, the two loops that wait for `radio_reconfigure_screen_done`) are
places it cannot leave without what it waits for. Everything it queues with
`g_idle_add` goes to `idle`, in order, together with the client's commands, and
`Dispatch` serves one with the operators of `Radio`. `gtk` is where the main
thread is: in its loop, or in one of the two joins of `destroy_hpsdr_server()`.
Any send may find that the client is dead and clear `remoteclient.running`
(`AfterSend`). `by` is history: for whom the radio transmits. What the client has
sent is read before its loss is noticed, so a command in flight and the loss are
ordered by `ClientLost`.

Merged: the steps of the handshake before the UDP test packet are one
(`Authenticate`), the settings of the screen are one flag (`custom`), the steps
between two callbacks queued one after the other are one. Left out: the audio,
the periodic data, the two-tone and screen commands in run `session` (section 5),
and the ANDROMEDA console's button that stops the protocol during a session.

### RemoteMirror

`up`, `idle` and `down` are the three queues between the client's button and the
client's flag: the connection to the server, the server's main loop, and the way
back with the client's main loop. `Told` is what the client is told and when:
three handlers announce their result by three different rules. `gap` is history:
the last event that left the client uninformed; `MirrorAgrees` says that there are
no others.

### P2Stream and PacketQueue

A ring holds pointers into the pool, `free` is the flag of a buffer, `data` its
contents. The reading thread takes the first free buffer of a list (`Get`), reads
a packet into it (`Arrive`), and posts it or gives the buffer back; a processing
thread does `Take`, `Advance`, `Check` (the test of `mybuf->free`) and `Finish`,
each one step. The eight sibling lists of the pool are `Lists`; a list that would
grow is full in the model, and `PoolSuffices` says that it never has to.
`Streams` are the DDCs, the microphone and the high-priority packets, which have
the same code up to what follows an overflow (`Skip`: a quarter of the ring, or
nothing). `new_protocol_menu_stop()` and `_start()` are the main thread's
`MenuStop`, `Join`, `Reset`, `Mark`. `Reset` comes whatever the processing threads
are doing: the code joins the reading thread, sleeps and drains the socket, but
waits for no ring to run empty (the comment at `new_protocol.c:1527`, "no mutex
needed since no threads yet spawned off", overlooks these threads; the one at 2030
expects a packet that was overtaken). After such a restart a semaphore may count
more than the ring holds, and the thread takes slots that were never written or
not again: the model lets it find any buffer there (in the code a slot never written
is a null pointer). `clean` is history: since the
last restart that found all threads asleep (`Settled`) and the rings empty, there
was none that did not. What the rings promise is stated while `clean` is TRUE, so the
runs and proofs say which restart breaks it, that nothing else does, and that the
next restart at rest mends everything.

`PacketQueue` is what the rings promise. Under the refinement mapping its queue
is the contents of the buffers between the two pointers, in order, and its current
packet what the processing thread holds; overflow, skipping and restarts at rest are
stutters. A restart in the middle of the work is `Void`, the first one at rest
after it `Renew`; in between nothing is promised (`valid`).

### P1Link

A packet from the radio is the number of receivers it was made for, all that
matters for its decoding; a packet to the radio is the number in its lower half,
and the step of the command round robin in its upper half. `main.at` follows
`old_protocol_stop()`, `old_protocol_run()` and the callers that change the number
of receivers in between (`radio_change_receivers`, `radio_set_diversity`,
`tx_ps_onoff`); `running` is `P1running`, `flag` is `radio_protocol_running`. The
two mutexes have owners. Each packet in either direction may be lost
(`arrives`), and packets of the old format stay in the socket (`air`) and in the
ring while the number changes. The samples of the sending thread are one flag:
`audio`, a block waits.

Merged: the two halves written by the main thread (it holds both mutexes), and
test, lock and second test of the receiving thread. Left out: TCP, USB, the
extra commands of the Hermes Lite, sample contents, sequence numbers, the pool.

## 3. Runs

| Run | Checks | Instance |
|---|---|---|
| `keying` | `OneReason`, `TxFollowsFlags`, `RxFollowsFlags`, `TuneRestores`, `InhibitPending` | all sources but auto-tune and memory recall; queue of 2, 1 timer |
| `onair` | `ImplementsKeying`, `AutoTuneEnds`, `VoxEnds` under fairness | threads, inhibit, recall, keyer PTT |
| `ptt_release` | violated: `PttReleaseEnds` | the PTT line alone |
| `capture` | `InBuffer`, `RightDirection`, `DoneEnds` | buffer of 2, queue of 2, threads interrupted anywhere |
| `keyer` | `NoLostWakeup`, `NoRunaway`, `IambicRule` | all modes, both paddles, letter space |
| `break_in` | `BreakInEnds`, `CloseEnds` under fairness | one paddle, foot switch, CW texts, `SD0`, requests for MOX in any order, keyer restarted |
| `vfo` | `StackIndex`, `BandFollowsDial`, `StackInBand`, `ReceiverTuned`, `SatTracks`, `CtunNailed` | an amateur band with 2 entries, WWV, general, a transverter; two filters; 4 operations |
| `session` | `OrphanPending`, `NoStaleCommand`, `ServedRadioRuns`, `HandedBack`, `LossEndsAir`, `NobodyStuck` | any number of sessions, 2 commands waiting; server switched off between sessions |
| `server_stop` | violated: `LossEndsAir` | server switched off at any time |
| `mirror` | `MirrorAgrees`, `PanelFollows` | all commands, MOX, TUNE, inhibit and band edge at the server |
| `p2_stream` | `SemCounts`, `OneOwner`, `PoolSuffices`, `ImplementsQueue`, `QueueServed`, `RestartEnds` | one DDC, two packet contents, restarts at any moment |
| `p1_link` | `HalvesPaired`, `RoundRobinInRange`, `RestartEnds`, `DecodeSettles` | 1 or 2 receivers, 3 commands, 2 tries, packets lost |

What the passing runs show: in whatever order buttons, lines, threads and timers
come, flags and channels agree, one reason is set at a time, TUNE leaves nothing
behind, inhibit takes the radio off the air, though a call that was
granted just before may still put it there for the moment until the queued
`mox(0)` is served; VOX ends unless a `vox_cancel()` overtook its request;
no thread leaves the capture buffer, but for the one that was held up while the other
began to play; the keyer follows the iambic rule, and leaves the air but for the three
cases of `vox.lost`; whatever is
done to the VFOs, bands, stacks and the shifts of the receivers follow them; the loss of a client
takes the radio off the air and hands it back; the client's flags agree with the
server's up to three gaps that `MirrorAgrees` names; the rings of Protocol 2 are
queues and their buffers have one owner, through overflows and restarts, except
from a restart in the middle of the work to the next one at rest; a
restart of Protocol 1 mixes no packets, blocks nobody, and the decoding agrees
with the radio again afterwards.

What the violated ones show (quotes in `PROJECT.json`, findings):

* a PTT release is a timer and its press an idle callback: a press shorter than
  the delay of a busy main loop is served release first, and the radio stays on
  the air;
* switching the server off during a session blocks: the main thread joins the
  listening thread, which waits for the main thread's queue. The callback that
  goes RX is in that queue, so the radio stays on the air.

Six expectations are stated in the modules and not met by the code; they are
checked where they hold, and the first three by no run:

* `SettingsRestored` (`Capture`): CFC equalizer and downward expander stay off
  after captured audio was transmitted.
* `TextCutReturns` (`Keyer`): a paddle of the radio that interrupts a CW text finds
  `CAT_cw_is_active` cleared by its own packet, and MOX stays on.
* `LoFollowsBand` (`Vfo`): a jump into or out of a transverter band by anything but
  the band menu leaves the LO offset of the old band in place, although `vfo.c:222`
  says that it is lost.
* `CloseEnds` (`Keyer`) with `Menu = "any"`: stopping the keyer with a paddle held
  blocks the main thread for ever.
* `BandFollowsDial` (`Vfo`) with `"SAT_MODE"` in `Clicks`: a click adjusts the band of
  the other VFO to the CTUN frequency of the VFO that was clicked (`vfo.c:837`).
* `HandedBack` (`RemoteServer`) with `"CW"` in `StartModes`: a client that is lost while
  it tunes in CW takes the operator's keyer setting with it. TUNE has saved the
  setting of the session (`radio.c:2456`); the operator's is restored
  (`server_thread.c:1142`), and then the queued `mox(0)` ends TUNE and writes the
  saved one back (`radio.c:2501`).

### Bounds, and why they are enough

* `MaxIdle = 2`, `MaxQueue = 2`: what matters is one callback overtaken by or
  queued behind another of any kind. `MaxTimers = 1`: a second timer does what
  the first one did. A source whose request would not fit does nothing, so
  a bound removes behaviours and never invents them; the safety properties of
  `TxControl` are proved without these bounds.
* `HangTime = 1`: counting down, at zero, and re-triggered are all reached.
* `CaptureMax = 2`: empty, partly filled, full.
* `HangTimes = {2}` (`{3}` in `break_in`): the hang time runs out in `EXITLOOP`, in
  `CHECK` it stops at 1. `SdValues = {0}` in `break_in` sets it to zero at any time; a
  value above zero does what the initial one did. `SpaceTime = 1`: in the space, at
  its end. `MaxSem = 2` in `keyer`: one hit being served, one more waiting; a hit
  beyond is not explored. In `break_in` `MaxSem = 1` and one paddle: events of
  several paddles are the subject of the other run. `MaxPosts = 2`: foot switch and CAT
  post no more while two requests wait, the keyer always may; two requests that wait are
  enough to be served in the wrong order, a third one may be the keyer's.
* `Menu = "released"` keeps the CW menu away from held paddles (see above).
* `MaxOver = 1`: a thread that has left the buffer takes one sample behind it; with more
  of them nothing new happens.
* `MaxOps = 4`: enough for a mutated operation to break each property of `Vfo`;
  the proofs need no bound. `SmallPlan` is on a scale where
  `Margin = 1` and `Half = 4`, so that inside a band, in its margin and outside of both are
  neighbours; bands that overlap in their margins, a transverter band beyond the
  radio's range and a WWV spot are there. `Filters` has a narrow and a wide one, so that
  a VFO in CTUN may be inside with one and outside with the other.
* `Snap = {FALSE}` (drags are not rounded to the step size) is needed by
  `CtunNailed` alone: the code tests the CTUN window before it rounds.
  `Clicks` without `SAT_MODE` is needed by `BandFollowsDial` and `StackInBand`
  alone.
* Run `session`: `MaxCalls = 2` commands wait, so that one can be overtaken by a
  loss behind another; `MaxLeft = 2` callbacks may be left from a server that was
  just switched off when it is switched on again. `StopAt` says where the
  listening thread may be when the server is switched off: at the top of its
  loop, in `accept`, in the handshake, or ended. During a session the main thread
  blocks (`server_stop`); between the top of the loop and `accept` it would join a
  thread that has yet to create the socket it then waits at (section 5).
* Run `mirror`: one command on its way and one waiting at the server, two
  messages on the way back: a message crosses a command, and two messages of
  different handlers follow each other.
* Run `p2_stream`: a ring of 3 is empty, half and full, and wraps; 4 buffers are one
  more than its slots, where `PoolSuffices` begins to say something; `Skip = 2` is
  counted down past a restart. A restart in the middle of the work leaves at most
  `MaxSem = 2` of each semaphore (the protocol is not stopped before the thread has
  run down to that), and `MaxLate = 1` packet arrives before the next restart at rest: one
  that finds pointers and semaphore apart. Streams share nothing but the pool: that they do
  not disturb each other there is proved for any number (`BuffersOwned`).
* Run `p1_link`: `Commands = 3` has the TX frequency, the RX frequencies and one
  more; `RingLen = 2` is empty or full; `Tries = 2` fails once and for good;
  `MaxAir = 1` packet waits in the socket while another is decoded and a third
  one is in the ring.

No run checks a type invariant: those of `TxControl`, `Capture`, `Vfo`,
`RemoteServer`, `RemoteMirror` and `P2Stream` are proved, the others were checked
with the same instances when the modules were written.

### Fairness

Weak fairness of the dispatcher (GLib serves its sources; strong in `onair`, where the
main thread may be inside a call whenever a thread looks), of the main thread's return from
such a call, of the auto-tune, microphone and keyer threads (each loops with bounded sleeps, the
microphone thread as long as the radio sends packets), and of the return from
`pthread_join` once the thread has ended. In `session` strong fairness of `Dispatch`: the main loop returns to its queue
between the operator's presses. In `p2_stream` `recvfrom` has a time-out and a
packet that has come is processed. In `p1_link` strong fairness of the three
blocking `pthread_mutex_lock` calls, which compete with threads that only try the
lock and release it within 100 ms, and of the delivery of packets that are sent
again and again; the number of receivers is announced in every one of them.
None for operators, clients, radio lines, CAT
or sound: they may stop at any time. Progress properties are stated
relative to an operator who has become quiet.

## 4. Proofs

`TxControlProofs` proves, for every set of sources, every bound and every hang
time: `TypeCorrect`, `OneReasonHolds`, `ChannelsFollowFlags`,
`ReceiversFollowFlags`, `TuneLeavesNoTrace`, `InhibitIsPending`, and `RefinesKeying` (the safety part of
the refinement). Assumptions: `TxAssumption` and the one on `KeyerInternal`.

The inductive invariant `IInv` has five parts. `TypeOK`. `Sound(radio)`: one
reason, channels as the flags say, no repeated `rxtx()`, settings and generator
as TUNE requires; it is a predicate of the record, so each operator of `Radio`
has one lemma (`SetMoxSound`, ...), and the lemmas compose as the C calls do.
`InhibitPending`: `Sound` says nothing about the queue. `VoxAlone`: a VOX call that
has passed its tests still finds neither MOX nor TUNE at its end, since the main
thread does nothing in between. `NoDuplexQueued`: without
memory recall no duplex callback is ever queued; without this part
`RxFollowsFlags` is not inductive, since a queued change could be served on the
air. `InhibitPending` needs one more argument: the head of the queue leaves it
exactly when it is served, and serving `mox(0)` takes the radio off the air
(`DispatchKeeps`), while as long as the line is active no call is granted. A call that was
granted before is covered by the invariant, which counts it (`Granted`) as if it were
on the air; the abstract specification `Keying` has the same variable, and each step of
the program is one of three kinds for it: `Quiet`, `Granting`, `Doing`.

`KeyerProofs` proves, for every set of modes, hang times and bounds:

* `RunawayExcluded` (`NoRunaway`) and `RuleFollowed` (`IambicRule`) from `RInv`.
  Its part `Remembers` ties what the thread keeps to what the paddles did:
  after an element `dash_memory` is set exactly if the dash was hit since the
  element began, `dash_held` exactly if it was held then. Its part `Spent`
  says that an element that began with both paddles released leaves neither
  memory nor held flag behind, also not in the letter space. `RuleFollowed` also
  needs `Stopped`: a new thread never starts while the old one is still
  between two elements.
* `WakeupsKept` (`NoLostWakeup`), if the CW menu is used with the paddles released
  only. `NoLostWakeup` is not inductive: that a pressed paddle is counted when
  the thread sleeps follows from what happened inside the loop. `Counted` says
  that all pressed paddles but one are counted there, that all are in the states
  that look at the paddles no more, and that, if nothing is counted, nothing
  makes the thread turn to the other element. The assumption is necessary: a
  keyer that was stopped while a paddle was held starts with a count of zero.

`VfoProofs` proves, for every band plan that satisfies `VfoAssumption` and
`PlanAssumption` (the entries a stack starts with lie in their band), every
set of filters, all steps and all frequencies, and any number
of operations: `TypeCorrect`, `StacksBounded`, `ReceiversFollow`, `DialsTrack`
without further assumptions; `BandsFollow` (`BandFollowsDial`) and `StacksInBand`
without clicks in SAT mode; `SpectrumNailed` without rounding. One inductive
invariant `Inv` serves all. It adds to the properties that the memory slot, too,
fits its band: `recall_memory_slot()` adjusts no band. The argument is in the
lemmas on the operators: `AdjustFacts` (after adjusting to f, the band fits f and
the index its stack), `RxFacts` (`rx_frequency_changed` keeps the dial and leaves the shift that CTUN and RIT
ask for, whatever the filter is) and
`TuneBoth`, on which steps, drags and clicks rest.

`P2StreamProofs` proves, for any set of streams, rings of any length from two on, any
pool, any packets and restarts at any moment: `StreamTypes`, `SemaphoreCounts`,
`BuffersOwned`, `PoolStopsGrowing` (`PoolSuffices`) and `RingsAreQueues`, the safety part of the
refinement. They build on each other.
`SemCounts` speaks of positions only, and needs that the main thread's place
says what the reading thread can be doing (`Places`) and that a thread between
`Take` and `Advance` has its pointer one behind the one it will write (`Taken`).
`OneOwner` needs `SemCounts`: `Take` finds a full slot because the semaphore was not
zero. Its inductive form `Owned` speaks of slots and threads one by one. The
refinement needs `OneOwner`: a step that writes a buffer leaves the queues of all
streams as they are, because no other place holds it. `PoolStopsGrowing` needs it too:
each buffer in use has a slot of its own, the one it waits in or, while it is
processed, the slot its ring would write next, which is never in use; so a list
without a free buffer would put two of its buffers in one slot. The lemmas on `Span`, `Dist`
and `Succ` are the arithmetic of a ring; each step of the code has one lemma per
theorem. All of this is an invariant of the states with `clean` only, and there each
step has the two cases that `clean` stays or ends. That a restart at rest makes it all
true again, whatever the state before, is one lemma (`Fresh`) with a consequence for
each part of the invariant. The condition is necessary: without it TLC finds a restart
after which semaphore and ring disagree.

`P1LinkProofs` proves, for all numbers of receivers (at least one), commands and
tries, every length of the ring and any loss of packets, `PacketsPaired`
(`HalvesPaired`) and `ReceiversAddressed` (`RoundRobinInRange`). Neither is inductive.
The invariant `Inv` adds `Owned`, who holds `send_mutex` at which place of the main
and the sending thread: the indices have one writer at a time. `Halted` says
that the number of receivers changes with `P1running` cleared only, and `InRange`
extends the claim from the first packets to the moment `P1running` is set again;
between the change and `Reset` the index may well be too large, and a sender that had
seen `P1running` set before the stop may even send one packet with it, to a radio that
has been stopped; `Reset` comes after it, since it needs the mutex. `AdvanceFacts` is
the arithmetic of one turn.

`CaptureProofs` proves `TypeCorrect`, `SamplesInBuffer` (`InBuffer`) and `DirectionsFit`
(`RightDirection`) for buffers and queues of any size. `InBuffer` is not inductive: a
thread takes a sample by a test that may be old, at a pointer that may have been
reset since. Its part `Held` says of each thread that what it has compared lies inside
the buffer and that the shared pointer still has this value or is zero, or that the
other thread has moved the replay pointer since. A recording has one thread only.
Direction and capture state change together, in `rxtx()` and nowhere else.

`RemoteServerProofs` is about order in the idle queue, where listening and main thread
meet. `ScreenLast` says that the callback the listening thread waits for is queued,
and that nothing but the `mox` callbacks of commands comes behind it;
`CommandsInSession` that commands wait in a session or before that callback;
`Running` that a served radio runs and nothing queued stops it, or that what
starts it is queued before the callback the thread waits for. `NoStaleCommands`
and `ServedRuns` follow for any commands and wherever the server is switched off.
Two results have assumptions, each necessary:

* `OrphansEnd` (`OrphanPending`) from `LostInv`, after a session the callback that goes
  RX is queued with no command behind it, without two-tone commands: the
  `mox(1)` that they post may come behind it.
* `SettingsHandedBack` (`HandedBack`) from `KeyerInv`, without screen commands and
  without clients that tune in CW. Proving the keyer's half without the last
  assumption failed, which is how the loss of the setting (section 3) was found.

`RemoteMirrorProofs` proves `MirrorFollows` (`MirrorAgrees`) and `PanelTrue`
(`PanelFollows`) for queues of any length. `MirrorAgrees` speaks of the moment when all
is said; the invariant has to speak of every other one. `Leads(m, d, e)` says that a
client with mirror `m` has mirror `e` when it has heard the messages `d`, and
`Informed` that this `e` agrees with the radio, or is one of the named gaps, or that
`radio_set_mox()` is still queued, whose message sets all flags. A message at either
end of the way back extends or shortens the chain. A callback that is refused
leaves the client wrong unless the radio is off the air: `InhibitSafe`. That the
panel follows is a part of `Leads`: each link of the chain has it.

Only model-checked: the liveness properties (all that end in `Ends`, and
`NobodyStuck`, `QueueServed`, `DecodeSettles`) and the fairness part of `ImplementsKeying`:
fairness and ENABLED are out of the provers' reach. Every invariant and action
property that a passing run checks is proved.

## 5. Not modelled

Sample data, WDSP, packet layouts, menus without effect on the modelled state,
file formats, drivers, simulators; reasons per component are in
`PROJECT.json`. In the modelled parts: a mode change during TUNE is overwritten
by the saved mode (accepted by the code, excluded from `TuneRestores`); swapping
the paddles while one is held; a CW text that starts within the hang time of the
keyer; the VOX request queued before the VOX menu opens; a press of CAPTURE by
the operator queued ahead of the one by which the program ends a transmission of
captured audio (one press too many); the band stack menu left open
across a band change by CAT; a VOX transmission whose ending branch is no longer
reached because VOX was disabled or the mode changed to CW.

In remote operation: the two-tone command, whose `mox(1)` is queued by its own
callback and may come behind the one that goes RX when the client is lost (with
`CMD_TWOTONE` among the commands of `session`, `OrphanPending` and `LossEndsAir` fail);
a server switched off while the listening thread is about to create its socket:
`accept` then waits for a client, and the main thread for it; a screen command
that waits when the client is lost (with `CMD_SCREEN`, `HandedBack`
fails); CW in run `session` (section 3); the two-tone flag and the CW state of the client.

In the protocol engines: outgoing sample rings; the METIS buffer that is not marked
free when the ring of Protocol 1 overflows (`old_protocol.c:828`); TCP, where a packet
sent between the stop packet and the closing of the socket is an error; a change
of the number of receivers while the protocol counts as stopped, which starts it
(`radio.c:1758`; in `P1Link`, with no property that forbids it); the XDMA variant of
Protocol 2, whose reading threads are in `saturnmain.c`.

## 6. Plan

1. The type invariants of `Keyer` and `P1Link` as listed theorems.
2. `CwRing`: the ring between keyer/CAT and the transmitter
   (`tx_queue_cw_event`, its rule for a nearly full ring) and the CAT text
   buffer; `Keyer` composed with it.
3. `Tci`: the exclusive TX client and its audio ring.
4. The outgoing rings of both protocols: samples in groups, the overflow that
   counts back, the reset at a change of direction, and the restart.
5. `Vfo`: the region change that shrinks the 60 m stack, the band stack menu left
   open across a band change, XIT and split, and CAT's swap command `ZZVS`,
   which copies.
