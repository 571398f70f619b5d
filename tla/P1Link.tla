------------------------------- MODULE P1Link -------------------------------
(***************************************************************************)
(* The link to a radio that speaks protocol 1 (old_protocol.c, UDP).       *)
(*                                                                         *)
(* Three threads that never end share the link with the GTK main thread,   *)
(* which stops and starts the protocol: to change the number of receivers, *)
(* or at the operator's wish.  The receiving thread reads METIS packets    *)
(* into a ring, the processing thread decodes them, and what it makes of   *)
(* them, the outgoing audio and TX samples, is sent by the third thread.   *)
(*                                                                         *)
(* A METIS packet to the radio has two halves with five bytes of command   *)
(* each.  The lower half carries the general command, with the number of   *)
(* receivers; the upper one goes round the other commands: 1 the TX        *)
(* frequency, 2 the RX frequencies, one receiver after the other, and so   *)
(* on.  How many samples a packet from the radio holds, and whose, depends *)
(* on the number of receivers the radio was told: a packet is modelled by  *)
(* that number.  UDP packets may be lost in both directions.               *)
(***************************************************************************)
EXTENDS Naturals, Sequences

CONSTANTS
  Counts,     \* the numbers of HPSDR receivers, how_many_receivers()
  Commands,   \* the last command of the round robin (10 in the code)
  Tries,      \* start sequences sent before giving up (10 in the code)
  RingLen,    \* slots of metis_ringbuf (512 in the code)
  Skip,       \* packets dropped after an overflow (256 in the code)
  MaxAir      \* bound: packets on the network and in the socket

ASSUME LinkAssumption == /\ Counts \subseteq Nat \ {0} /\ Counts # {}
                         /\ Commands \in Nat /\ Commands > 2
                         /\ {Tries, RingLen, Skip, MaxAir} \subseteq Nat \ {0}

VARIABLES
  running,     \* P1running
  flag,        \* radio_protocol_running
  nrx,         \* what how_many_receivers() returns
  send_mutex,  \* who holds it
  recv_mutex,
  link,        \* metis_offset, p1_command_loop, current_rx, the lower half
  main,        \* the main thread: where it is, why, frames and tries so far
  out,         \* the sending thread: where it is
  in,          \* the receiving thread: where it is
  proc,        \* the processing thread: packet, and st_num_hpsdr_receivers
  ring,        \* metis_ringbuf, oldest first
  skip,        \* - metis_skip_count
  audio,       \* a block of samples waits in the ring of the sending thread
  radio,       \* the radio: streaming or not, the number of receivers it knows
  air          \* packets from the radio not yet read

vars == <<running, flag, nrx, send_mutex, recv_mutex, link, main, out, in, proc,
          ring, skip, audio, radio, air>>

mainvars == <<flag, nrx, main>>
invars   == <<recv_mutex, in, ring, skip>>
procvars == <<proc, audio>>

None == 0          \* no packet
MaxCount == CHOOSE n \in Counts : \A k \in Counts : k <= n

TypeOK ==
  /\ running \in BOOLEAN /\ flag \in BOOLEAN /\ audio \in BOOLEAN
  /\ nrx \in Counts
  /\ send_mutex \in {"none", "main", "out"}
  /\ recv_mutex \in {"none", "main", "in"}
  /\ link \in [offset : {8, 520}, cmd : 1..Commands, rx : 0..MaxCount,
               low : Counts \cup {None}]
  /\ main \in [at : {"idle", "stop", "stopping", "change", "lock", "lock2",
                     "reset", "frames", "start", "read", "up"},
               op : {"stop", "run", "change"}, frame : 0..1, try : 0..Tries]
  /\ out \in {"wait", "block", "tested", "high"}
  /\ in \in {"top", "read"}
  /\ proc \in [pkt : Counts \cup {None}, st : Counts \cup {None}]
  /\ ring \in Seq(Counts) /\ Len(ring) < RingLen
  /\ skip \in 0..Skip
  /\ radio \in [on : BOOLEAN, nrx : Counts]
  /\ air \in Seq(Counts) /\ Len(air) <= MaxAir

\* old_protocol_init() has started the threads and calls old_protocol_run();
\* the radio is idle, with any number of receivers left from before.
Init ==
  /\ running = FALSE /\ flag = FALSE /\ audio = FALSE
  /\ nrx \in Counts
  /\ send_mutex = "none" /\ recv_mutex = "none"
  /\ link = [offset |-> 8, cmd |-> 1, rx |-> 0, low |-> None]
  /\ main = [at |-> "lock", op |-> "run", frame |-> 0, try |-> 0]
  /\ out = "wait"
  /\ in = "top"
  /\ proc = [pkt |-> None, st |-> None]
  /\ ring = << >> /\ skip = 0
  /\ radio \in [on : {FALSE}, nrx : Counts]
  /\ air = << >>
-----------------------------------------------------------------------------
(* Packets to the radio: ozy_send_buffer() and metis_write() *)

\* Command 2 is repeated for each receiver.  If there is none left (their number
\* has shrunk) the frame has the C0 of an earlier one.
NextRx(n) == IF n < nrx THEN n + 1 ELSE n

\* The round robin.
Advance(l) ==
  LET rx   == IF l.cmd = 2 THEN NextRx(l.rx) ELSE l.rx
      last == l.cmd = 2 /\ rx >= nrx
  IN  [l EXCEPT !.rx  = IF last THEN 0 ELSE rx,
                !.cmd = IF l.cmd = 2 /\ ~last THEN 2 ELSE (l.cmd % Commands) + 1]

\* Mutant: the radio is told the number of receivers when it is started, only.
TellAtStart(n, arrives) ==
  radio' = IF arrives /\ ~running THEN [radio EXCEPT !.nrx = n] ELSE radio

\* The packet with number n in its lower half is sent, and may be lost.
Tell(n, arrives) ==
  radio' = IF arrives THEN [radio EXCEPT !.nrx = n] ELSE radio

\* The lower half: the general command.
Low == /\ link.offset = 8
       /\ link' = [link EXCEPT !.offset = 520, !.low = nrx]

\* The upper half, and the packet is complete.
High(arrives) ==
  /\ link.offset = 520
  /\ link' = [Advance(link) EXCEPT !.offset = 8, !.low = None]
  /\ Tell(link.low, arrives)
-----------------------------------------------------------------------------
(* The main thread *)

Goto(from, to) == main.at = from /\ main' = [main EXCEPT !.at = to]

\* The main thread in its loop.
Idle == [at |-> "idle", op |-> "stop", frame |-> 0, try |-> 0]

\* radio_change_receivers(), radio_set_diversity(), tx_ps_onoff(): the protocol
\* is stopped for the change, whether it was running or not.
Change ==
  /\ main.at = "idle"
  /\ main' = [main EXCEPT !.at = "stop", !.op = "change"]
  /\ running' = FALSE
  /\ UNCHANGED <<flag, nrx, send_mutex, link, out, invars, procvars, radio, air>>

\* radio_protocol_stop()
ProtocolStop ==
  /\ main.at = "idle" /\ flag
  /\ main' = [main EXCEPT !.at = "stop", !.op = "stop"]
  /\ running' = FALSE
  /\ UNCHANGED <<flag, nrx, send_mutex, link, out, invars, procvars, radio, air>>

\* radio_protocol_run()
ProtocolRun ==
  /\ main.at = "idle" /\ ~flag
  /\ main' = [main EXCEPT !.at = "lock", !.op = "run"]
  /\ UNCHANGED <<running, flag, nrx, send_mutex, link, out, invars, procvars,
                 radio, air>>

\* old_protocol_stop()
StopLock ==
  /\ Goto("stop", "stopping")
  /\ send_mutex = "none"
  /\ send_mutex' = "main"
  /\ UNCHANGED <<running, flag, nrx, link, out, invars, procvars, radio, air>>

StopPacket(arrives) ==
  /\ main.at = "stopping"
  /\ main' = IF main.op = "stop" THEN Idle ELSE [main EXCEPT !.at = "change"]
  /\ radio' = [radio EXCEPT !.on = radio.on /\ ~arrives]
  /\ send_mutex' = "none"
  /\ flag' = (flag /\ main.op # "stop")
  /\ UNCHANGED <<running, nrx, link, out, invars, procvars, air>>

Changed(n) ==
  /\ Goto("change", "lock")
  /\ nrx' = n
  /\ UNCHANGED <<running, flag, send_mutex, link, out, invars, procvars, radio, air>>

\* old_protocol_run()
RunLock ==
  /\ Goto("lock", "lock2")
  /\ send_mutex = "none"
  /\ send_mutex' = "main"
  /\ UNCHANGED <<running, flag, nrx, link, out, invars, procvars, radio, air>>

RunLock2 ==
  /\ main.at = "lock2"
  /\ main' = [main EXCEPT !.at = "reset", !.try = 0]
  /\ recv_mutex = "none"
  /\ recv_mutex' = "main"
  /\ UNCHANGED <<running, flag, nrx, send_mutex, link, out, in, ring, skip,
                 procvars, radio, air>>

\* Mutant: the receiver whose turn it is is not reset.
ResetKeepsRx ==
  /\ main.at = "reset"
  /\ main' = [main EXCEPT !.at = "frames", !.frame = 0]
  /\ link' = [link EXCEPT !.offset = 8, !.cmd = 1]
  /\ UNCHANGED <<running, flag, nrx, send_mutex, out, invars, procvars, radio, air>>

Reset ==
  /\ main.at = "reset"
  /\ main' = [main EXCEPT !.at = "frames", !.frame = 0]
  /\ link' = [link EXCEPT !.offset = 8, !.cmd = 1, !.rx = 0]
  /\ UNCHANGED <<running, flag, nrx, send_mutex, out, invars, procvars, radio, air>>

\* Two packets: with the TX frequency, and with the first RX frequency.  The
\* main thread holds both mutexes, so a packet is one step.
Frame(arrives) ==
  /\ main.at = "frames"
  /\ main' = IF main.frame = 1 THEN [main EXCEPT !.at = "start", !.frame = 0]
             ELSE [main EXCEPT !.frame = 1]
  /\ link.offset = 8 /\ link' = Advance(link)
  /\ Tell(nrx, arrives)
  /\ UNCHANGED <<running, flag, nrx, send_mutex, out, invars, procvars, air>>

StartPacket(arrives) ==
  /\ Goto("start", "read")
  /\ radio' = [radio EXCEPT !.on = radio.on \/ arrives]
  /\ UNCHANGED <<running, flag, nrx, send_mutex, link, out, invars, procvars, air>>

\* A packet arrived, whatever it is: the radio sends.
Answer ==
  /\ Goto("read", "up")
  /\ air # << >>
  /\ air' = Tail(air)
  /\ UNCHANGED <<running, flag, nrx, send_mutex, link, out, invars, procvars, radio>>

NoAnswer ==
  /\ main.at = "read" /\ air = << >>
  /\ main' = [main EXCEPT !.try = @ + 1,
                          !.at = IF main.try + 1 < Tries THEN "reset" ELSE "up"]
  /\ UNCHANGED <<running, flag, nrx, send_mutex, link, out, invars, procvars,
                 radio, air>>

\* The mutexes are released, and the threads may work.
Up ==
  /\ main.at = "up" /\ main' = Idle
  /\ send_mutex' = "none" /\ recv_mutex' = "none"
  /\ running' = TRUE
  /\ flag' = (flag \/ main.op = "run")
  /\ UNCHANGED <<nrx, link, out, in, ring, skip, procvars, radio, air>>

Restart == \/ StopLock \/ RunLock \/ RunLock2 \/ Reset
           \/ Answer \/ NoAnswer \/ Up
           \/ \E n \in Counts \ {nrx} : Changed(n)
           \/ \E arrives \in BOOLEAN :
                StopPacket(arrives) \/ Frame(arrives) \/ StartPacket(arrives)

Main == Change \/ ProtocolStop \/ ProtocolRun \/ Restart
-----------------------------------------------------------------------------
(* The sending thread: old_protocol_txiq_thread() *)

\* A block is taken from the ring, or forgotten while the protocol is stopped.
OutTake ==
  /\ out = "wait" /\ audio
  /\ audio' = FALSE
  /\ out' = IF running THEN "block" ELSE "wait"
  /\ UNCHANGED <<running, mainvars, send_mutex, link, invars, proc, radio, air>>

OutTest ==
  /\ out = "block"
  /\ out' = IF running THEN "tested" ELSE "wait"
  /\ UNCHANGED <<running, mainvars, send_mutex, link, invars, procvars, radio, air>>

\* Mutant: the mutex is not looked at.
OutTryAnyway ==
  /\ out = "tested"
  /\ out' = "high" /\ Low
  /\ UNCHANGED <<running, mainvars, send_mutex, invars, procvars, radio, air>>

\* pthread_mutex_trylock(): without the lock the block is not sent; with it, the
\* first half goes into the packet.
OutTry ==
  /\ out = "tested"
  /\ IF send_mutex = "none"
     THEN send_mutex' = "out" /\ out' = "high" /\ Low
     ELSE out' = "wait" /\ UNCHANGED <<send_mutex, link>>
  /\ UNCHANGED <<running, mainvars, invars, procvars, radio, air>>

OutHigh(arrives) ==
  /\ out = "high" /\ High(arrives)
  /\ out' = "wait"
  /\ send_mutex' = "none"
  /\ UNCHANGED <<running, mainvars, invars, procvars, air>>

Out == \/ OutTake \/ OutTest \/ OutTry
       \/ \E arrives \in BOOLEAN : OutHigh(arrives)
-----------------------------------------------------------------------------
(* The receiving thread: metis_receive_thread() *)

outvars == <<link, out, send_mutex, radio>>

\* P1running is tested before and after pthread_mutex_trylock().
InLock ==
  /\ in = "top" /\ running /\ recv_mutex = "none"
  /\ recv_mutex' = "in"
  /\ in' = "read"
  /\ UNCHANGED <<running, mainvars, outvars, procvars, ring, skip, air>>

\* queue_metis_buffer(): after an overflow packets are dropped for a while.
Queue(pkt) ==
  \/ /\ skip > 0
     /\ skip' = skip - 1 /\ UNCHANGED ring
  \/ /\ skip = 0 /\ Len(ring) + 1 < RingLen
     /\ ring' = Append(ring, pkt) /\ UNCHANGED skip
  \/ /\ skip = 0 /\ Len(ring) + 1 >= RingLen
     /\ skip' = Skip /\ UNCHANGED ring

\* A packet is read and, the mutex released, queued.
InRead ==
  /\ in = "read" /\ air # << >>
  /\ in' = "top"
  /\ air' = Tail(air)
  /\ recv_mutex' = "none"
  /\ Queue(Head(air))
  /\ UNCHANGED <<running, mainvars, outvars, procvars>>

\* Mutant: the mutex is not released on the error path.
InTimeoutKeepsLock ==
  /\ in = "read" /\ air = << >>
  /\ in' = "top"
  /\ UNCHANGED <<running, mainvars, outvars, procvars, recv_mutex, ring, skip, air>>

\* The read ends after 100 msec.
InTimeout ==
  /\ in = "read" /\ air = << >>
  /\ in' = "top"
  /\ recv_mutex' = "none"
  /\ UNCHANGED <<running, mainvars, outvars, procvars, ring, skip, air>>

In == InLock \/ InRead \/ InTimeout
-----------------------------------------------------------------------------
(* The processing thread: process_ozy_input_buffer_thread() *)

ProcTake ==
  /\ proc.pkt = None /\ ring # << >>
  /\ proc' = [pkt |-> Head(ring), st |-> nrx]
  /\ UNCHANGED <<running, mainvars, outvars, invars, audio, air>>

\* The samples go to the receivers, which produce audio.  The out pointer moves
\* when all is done.
ProcDone ==
  /\ proc.pkt # None
  /\ proc' = [pkt |-> None, st |-> None]
  /\ ring' = Tail(ring)
  /\ audio' = TRUE
  /\ UNCHANGED <<running, mainvars, outvars, recv_mutex, in, skip, air>>

Proc == ProcTake \/ ProcDone
-----------------------------------------------------------------------------
\* The radio streams as long as it is not stopped.
RadioSends ==
  /\ radio.on /\ Len(air) < MaxAir
  /\ air' = Append(air, radio.nrx)
  /\ UNCHANGED <<running, mainvars, outvars, invars, procvars>>

Next == Main \/ Out \/ In \/ Proc \/ RadioSends

Spec == Init /\ [][Next]_vars

\* The threads run, a mutex that is free again and again is obtained by a thread
\* that waits for it, and a packet that is sent again and again arrives once.
Fairness == /\ WF_vars(Restart)
            /\ SF_vars(StopLock \/ RunLock \/ RunLock2)
            /\ WF_vars(Out)
            /\ SF_vars(OutHigh(TRUE))
            /\ WF_vars(In)
            /\ WF_vars(Proc)
            /\ WF_vars(RadioSends)

FairSpec == Spec /\ Fairness
-----------------------------------------------------------------------------
(* Properties *)

\* A METIS packet is never put together from halves of two senders: while the
\* lower half is filled, the thread that filled it holds the mutex.
HalvesPaired ==
  link.offset = 520 <=> send_mutex = "out" /\ out = "high"

\* While the protocol is started and while it runs, the round robin never arrives
\* at a receiver that does not exist any more: it would send the data of one
\* command under the address of another.
RoundRobinInRange == running \/ main.at = "frames" => link.rx < nrx

\* A stop or restart by the main thread ends, and a protocol that counts as
\* running runs.
RestartEnds == (main.at # "idle") ~> (main.at = "idle" /\ (flag => running))

\* When the number of receivers does not change any more, packets are decoded
\* with the number they were made with, sooner or later for good, although
\* packets of the old format are on the way when the number changes and the
\* commands that announce the new number may be lost.
DecodeSettles ==
  <>[](running /\ main.at = "idle")
     => <>[](proc.pkt # None => proc.pkt = proc.st)
=============================================================================
