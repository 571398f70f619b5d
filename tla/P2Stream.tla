------------------------------ MODULE P2Stream ------------------------------
(***************************************************************************)
(* How Protocol 2 data comes in: new_protocol.c and buffer.c.              *)
(*                                                                         *)
(* One thread reads the socket and puts each packet, by its source port,   *)
(* in the ring buffer of a DDC, of the microphone or of the high-priority  *)
(* packets.  Each ring has its own thread that processes the packets.  The *)
(* rings hold pointers to buffers of one pool; a buffer has a flag that    *)
(* says whether it is free, and there is no lock.                          *)
(*                                                                         *)
(* Stopping the protocol ends the reading thread.  The processing threads  *)
(* never end, and their semaphores are made once; restarting the protocol  *)
(* resets the rings and frees all buffers under them, without looking      *)
(* whether a packet waits or is processed.  After a restart that found one *)
(* (not Settled) pointers and semaphores no longer fit, until a restart    *)
(* that finds none: the history variable clean tells the two apart.        *)
(***************************************************************************)
EXTENDS Naturals, Sequences, FiniteSets

CONSTANTS
  Streams,   \* the DDCs, the microphone, the high-priority packets
  Ddc,       \* those of them that are DDCs
  Lists,     \* the sibling lists of the pool, after they have grown
  Packets,   \* what a packet may contain
  Size,      \* the length of a stream's ring (512, 64, 64)
  Longest,   \* no ring is longer
  Skip,      \* how many packets a stream skips after an overflow
  MaxSem,    \* bound: the protocol is not restarted while a semaphore is higher
  MaxLate,   \* bound: packets that arrive while clean is FALSE
  None

Buffers == UNION {{l[i] : i \in DOMAIN l} : l \in Lists}

ASSUME StreamAssumption ==
  /\ Ddc \subseteq Streams
  /\ \A l \in Lists : l \in Seq(Buffers)
  /\ Longest \in Nat
  /\ Size \in [Streams -> 2..Longest]
  /\ Skip \in [Streams -> Nat]
  /\ MaxSem \in Nat /\ MaxLate \in Nat
  /\ None \notin Buffers \cup Packets

\* There are a fixed number of streams, and malloc() never returns a buffer twice.
ASSUME PoolAssumption ==
  /\ IsFiniteSet(Streams)
  /\ \A l \in Lists : \A i, j \in DOMAIN l : l[i] = l[j] => i = j

Slots == 0..(Longest - 1)

VARIABLES
  running,   \* P2running
  main,      \* the main thread: in its loop, or where in stop/start
  clean,     \* history: since the last restart that found the rings empty and
             \* the threads asleep, there was none that did not
  late,      \* history: packets that arrived since clean is FALSE
  recv,      \* new_protocol_thread: ended, at the loop's top, in recvfrom(),
             \* or with a packet to post
  rbuf,      \* its buffer
  port,      \* the stream of the packet it has read
  free,      \* mybuf->free, for each buffer
  data,      \* mybuf->buffer
  ring, inptr, outptr, count,   \* the rings, iq_count[] and mic_count
  sem,       \* the semaphores
  pc,        \* the processing threads, with their local variables
  mybuf, nptr

recvvars == <<recv, rbuf, port>>
poolvars == <<free, data>>
procvars == <<pc, mybuf, nptr>>
vars == <<running, main, clean, late, recvvars, poolvars, ring, inptr, outptr, count, sem, procvars>>

Buf == Buffers \cup {None}

TypeOK == /\ running \in BOOLEAN
          /\ main \in {"loop", "stop", "sleep", "mark"}
          /\ clean \in BOOLEAN
          /\ late \in Nat
          /\ recv \in {"off", "top", "recv", "post"}
          /\ rbuf \in Buf
          /\ port \in Streams \cup {None}
          /\ free \in [Buffers -> BOOLEAN]
          /\ data \in [Buffers -> Packets \cup {None}]
          /\ ring \in [Streams -> [Slots -> Buf]]
          /\ inptr \in [Streams -> Slots]
          /\ outptr \in [Streams -> Slots]
          /\ count \in [Streams -> Nat]
          /\ sem \in [Streams -> Nat]
          /\ pc \in [Streams -> {"wait", "taken", "check", "busy"}]
          /\ mybuf \in [Streams -> Buf]
          /\ nptr \in [Streams -> Slots]

\* The protocol has been started for the first time.
Init == /\ running = TRUE
        /\ main = "loop"
        /\ clean = TRUE
        /\ late = 0
        /\ recv = "top"
        /\ rbuf = None
        /\ port = None
        /\ free = [b \in Buffers |-> TRUE]
        /\ data = [b \in Buffers |-> None]
        /\ ring = [s \in Streams |-> [i \in Slots |-> None]]
        /\ inptr = [s \in Streams |-> 0]
        /\ outptr = [s \in Streams |-> 0]
        /\ count = [s \in Streams |-> 0]
        /\ sem = [s \in Streams |-> 0]
        /\ pc = [s \in Streams |-> "wait"]
        /\ mybuf = [s \in Streams |-> None]
        /\ nptr = [s \in Streams |-> 0]

\* mybuf->free = 1.  What a free buffer contains is forgotten: recvfrom() writes
\* to it before it is read again.
Release(b) == /\ free' = [free EXCEPT ![b] = TRUE]
              /\ data' = [data EXCEPT ![b] = None]

\* (p + 1) & MASK
Succ(s, p) == IF p + 1 = Size[s] THEN 0 ELSE p + 1
-----------------------------------------------------------------------------
(* new_protocol_thread *)

\* The first free buffer of a list.  A list without one grows.
FirstFree(l, i) == free[l[i]] /\ \A j \in DOMAIN l : j < i => ~free[l[j]]

\* get_p2buffer() uses the lists in turn.
Get == /\ recv = "top" /\ running
       /\ \E l \in Lists : \E i \in DOMAIN l :
             /\ FirstFree(l, i)
             /\ free' = [free EXCEPT ![l[i]] = FALSE]
             /\ rbuf' = l[i]
       /\ recv' = "recv"
       /\ UNCHANGED <<running, main, clean, late, port, data, ring, inptr, outptr, count, sem, procvars>>

Leave == /\ recv = "top" /\ ~running
         /\ recv' = "off"
         /\ UNCHANGED <<running, main, clean, late, rbuf, port, poolvars, ring, inptr, outptr,
                        count, sem, procvars>>

\* recvfrom() returns a packet of a stream.
Arrive(s, p) ==
  /\ recv = "recv"
  /\ running
  /\ late < MaxLate \/ clean
  /\ late' = IF clean THEN 0 ELSE late + 1
  /\ data' = [data EXCEPT ![rbuf] = p]
  /\ recv' = "post"
  /\ port' = s
  /\ UNCHANGED <<running, main, clean, rbuf, free, ring, inptr, outptr, count, sem, procvars>>

NothingNoTimeout ==
  /\ recv = "recv" /\ running
  /\ Release(rbuf)
  /\ rbuf' = None
  /\ recv' = "top"
  /\ UNCHANGED <<running, main, clean, late, port, ring, inptr, outptr, count, sem, procvars>>

\* A time-out, a packet from another port, or the protocol has been stopped.
Nothing ==
  /\ recv = "recv"
  /\ Release(rbuf)
  /\ rbuf' = None
  /\ recv' = IF running THEN "top" ELSE "off"
  /\ UNCHANGED <<running, main, clean, late, port, ring, inptr, outptr, count, sem, procvars>>

\* recvfrom() fails: the thread ends, and keeps its buffer.
RecvFails ==
  /\ recv = "recv" /\ running
  /\ running' = FALSE
  /\ recv' = "off"
  /\ UNCHANGED <<main, clean, late, rbuf, port, poolvars, ring, inptr, outptr, count, sem, procvars>>

\* Back to the loop without passing the buffer on.
Drop == /\ Release(rbuf)
        /\ rbuf' = None
        /\ port' = None
        /\ recv' = "top"
        /\ UNCHANGED <<running, main, clean, late, ring, inptr, outptr, sem, procvars>>

\* saturn_post_iq_data(), saturn_post_micaudio(), saturn_post_high_priority()
PostStopped == recv = "post" /\ ~running /\ Drop /\ UNCHANGED count

PostSkip == /\ recv = "post" /\ running /\ count[port] > 0
            /\ count' = [count EXCEPT ![port] = @ - 1]
            /\ Drop

FullOneMore(s) == inptr[s] = outptr[s] /\ sem[s] > 0

Full(s) == Succ(s, inptr[s]) = outptr[s]

PostOverflowKeeps ==
  /\ recv = "post" /\ running /\ count[port] = 0 /\ Full(port)
  /\ count' = [count EXCEPT ![port] = Skip[port]]
  /\ rbuf' = None
  /\ port' = None
  /\ recv' = "top"
  /\ UNCHANGED <<running, main, clean, late, poolvars, ring, inptr, outptr, sem, procvars>>

PostOverflow == /\ recv = "post" /\ running /\ count[port] = 0 /\ Full(port)
                /\ count' = [count EXCEPT ![port] = Skip[port]]
                /\ Drop

PostSilently ==
  /\ recv = "post" /\ running /\ count[port] = 0 /\ ~Full(port)
  /\ ring' = [ring EXCEPT ![port] = [@ EXCEPT ![inptr[port]] = rbuf]]
  /\ inptr' = [inptr EXCEPT ![port] = Succ(port, @)]
  /\ sem' = IF inptr[port] = outptr[port] THEN [sem EXCEPT ![port] = @ + 1] ELSE sem
  /\ rbuf' = None
  /\ port' = None
  /\ recv' = "top"
  /\ UNCHANGED <<running, main, clean, late, poolvars, outptr, count, procvars>>

Post == /\ recv = "post" /\ running /\ count[port] = 0 /\ ~Full(port)
        /\ ring' = [ring EXCEPT ![port] = [@ EXCEPT ![inptr[port]] = rbuf]]
        /\ inptr' = [inptr EXCEPT ![port] = Succ(port, @)]
        /\ sem' = [sem EXCEPT ![port] = @ + 1]
        /\ rbuf' = None
        /\ port' = None
        /\ recv' = "top"
        /\ UNCHANGED <<running, main, clean, late, poolvars, outptr, count, procvars>>

Handled == PostStopped \/ PostSkip \/ PostOverflow \/ Post
-----------------------------------------------------------------------------
(* iq_thread, mic_line_thread, high_priority_thread *)

\* sem_wait(), and the entry at outptr is read.  The ring keeps an old pointer,
\* which only a thread that was overtaken by a restart can read again.
Take(s) == /\ pc[s] = "wait" /\ sem[s] > 0
           /\ sem' = [sem EXCEPT ![s] = @ - 1]
           /\ nptr' = [nptr EXCEPT ![s] = Succ(s, outptr[s])]
           /\ \E b \in Buffers :
                 /\ ring[s][outptr[s]] \in {b, None}
                 /\ mybuf' = [mybuf EXCEPT ![s] = b]
           /\ ring' = [ring EXCEPT ![s] = [@ EXCEPT ![outptr[s]] = None]]
           /\ pc' = [pc EXCEPT ![s] = "taken"]
           /\ UNCHANGED <<running, main, clean, late, recvvars, poolvars, inptr, outptr, count>>

Advance(s) == /\ pc[s] = "taken"
              /\ outptr' = [outptr EXCEPT ![s] = nptr[s]]
              /\ nptr' = [nptr EXCEPT ![s] = 0]
              /\ pc' = [pc EXCEPT ![s] = "check"]
              /\ UNCHANGED <<running, main, clean, late, recvvars, poolvars, ring, inptr, count,
                             sem, mybuf>>

CheckFreesEarly(s) ==
  /\ pc[s] = "check"
  /\ pc' = [pc EXCEPT ![s] = "busy"]
  /\ free' = [free EXCEPT ![mybuf[s]] = TRUE]
  /\ UNCHANGED <<running, main, clean, late, recvvars, data, ring, inptr, outptr, count,
                 sem, mybuf, nptr>>

\* if (mybuf->free) { continue; }
Check(s) == /\ pc[s] = "check"
            /\ pc' = [pc EXCEPT ![s] = IF free[mybuf[s]] THEN "wait" ELSE "busy"]
            /\ UNCHANGED <<running, main, clean, late, recvvars, poolvars, ring, inptr, outptr,
                           count, sem, mybuf, nptr>>

\* The packet has been processed.
Finish(s) == /\ pc[s] = "busy"
             /\ Release(mybuf[s])
             /\ mybuf' = [mybuf EXCEPT ![s] = None]
             /\ pc' = [pc EXCEPT ![s] = "wait"]
             /\ UNCHANGED <<running, main, clean, late, recvvars, ring, inptr, outptr, count,
                            sem, nptr>>

Proc(s) == Take(s) \/ Advance(s) \/ Check(s) \/ Finish(s)
-----------------------------------------------------------------------------
(* The main thread *)

MenuStop == /\ main = "loop"
            /\ \A s \in Streams : sem[s] <= MaxSem
            /\ main' = "stop"
            /\ running' = FALSE
            /\ UNCHANGED <<clean, late, recvvars, poolvars, ring, inptr, outptr, count, sem, procvars>>

\* g_thread_join(), a last packet to the radio, and the sleep.
Join == /\ main = "stop" /\ recv = "off"
        /\ main' = "sleep"
        /\ UNCHANGED <<running, clean, late, recvvars, poolvars, ring, inptr, outptr, count, sem,
                       procvars>>

\* Thread s sleeps and no packet waits for it; all threads do.
Idle(s) == pc[s] = "wait" /\ sem[s] = 0
Settled == \A s \in Streams : Idle(s)

\* new_protocol_menu_start() resets the rings, whatever is in them; mic_count
\* keeps its value.
Reset == /\ main = "sleep"
         /\ main' = "mark"
         /\ clean' = (clean /\ Settled)
         /\ inptr' = [s \in Streams |-> 0]
         /\ outptr' = [s \in Streams |-> 0]
         /\ count' = [s \in Streams |-> IF s \in Ddc THEN 0 ELSE count[s]]
         /\ UNCHANGED <<running, late, recvvars, poolvars, ring, sem, procvars>>

MarkKeeps == /\ main = "mark"
             /\ main' = "loop"
             /\ running' = TRUE
             /\ clean' = (Settled /\ inptr = outptr)
             /\ late' = IF clean' THEN 0 ELSE late
             /\ recv' = "top"
             /\ rbuf' = None
             /\ UNCHANGED <<port, poolvars, ring, inptr, outptr, count, sem, procvars>>

\* mark_p2buffers_free(), and the reading thread is started.
Mark == /\ main = "mark"
        /\ main' = "loop"
        /\ free' = [b \in Buffers |-> TRUE]
        /\ data' = [b \in Buffers |-> None]
        /\ running' = TRUE
        /\ clean' = (Settled /\ inptr = outptr)
        /\ late' = IF clean' THEN 0 ELSE late
        /\ recv' = "top"
        /\ rbuf' = None
        /\ UNCHANGED <<port, ring, inptr, outptr, count, sem, procvars>>

Main == MenuStop \/ Join \/ Reset \/ Mark

Read == Get \/ Leave \/ Nothing \/ Handled \/ \E s \in Streams, p \in Packets : Arrive(s, p)

Next == Read \/ RecvFails \/ Main \/ \E s \in Streams : Proc(s)

Spec == Init /\ [][Next]_vars

\* The threads run; recvfrom() has a time-out.
Fairness == /\ WF_vars(Read)
            /\ WF_vars(Join) /\ WF_vars(Reset) /\ WF_vars(Mark)
            /\ \A s \in Streams : WF_vars(Proc(s))

FairSpec == Spec /\ Fairness
-----------------------------------------------------------------------------
(* Properties *)

\* The slots from f up to, but without, n in a ring of k slots; their number.
Span(f, n, k) ==
  {i \in 0..(k - 1) : IF f <= n THEN f <= i /\ i < n ELSE f <= i \/ i < n}

Dist(f, n, k) == IF f <= n THEN n - f ELSE n + k - f

\* The slots with a packet that is not yet taken.
First(s) == IF pc[s] = "taken" THEN nptr[s] ELSE outptr[s]
Used(s) == Span(First(s), inptr[s], Size[s])
Length(s) == Dist(First(s), inptr[s], Size[s])

\* A processing thread that is about to sleep has nothing to do: its semaphore
\* counts exactly the packets in its ring, through overflows, errors and the
\* restarts that found everything at rest; one that did not breaks this, and the
\* next one that does mends it.
SemCounts == clean => \A s \in Streams : sem[s] = Length(s)

Processed(s) == IF pc[s] = "wait" THEN {} ELSE {mybuf[s]}
Queued(s) == {ring[s][i] : i \in Used(s)}

\* A buffer is in one place at a time, so the reading thread never writes to a
\* packet that waits or is being processed; and a buffer that is not free is in
\* some place, so none is lost from the pool.  A restart in the middle of the
\* work voids this until one at rest.
OneOwner == clean =>
  /\ \A s \in Streams : /\ Processed(s) \cup Queued(s) \subseteq Buffers
                        /\ rbuf \notin Processed(s) \cup Queued(s)
                        /\ Processed(s) \cap Queued(s) = {}
                        /\ \A i, j \in Used(s) : ring[s][i] = ring[s][j] => i = j
  /\ \A s, t \in Streams :
        s # t => (Processed(s) \cup Queued(s)) \cap (Processed(t) \cup Queued(t)) = {}
  /\ \A b \in Buffers :
        ~free[b] <=> \/ b = rbuf
                     \/ \E s \in Streams : b \in Processed(s) \cup Queued(s)

\* The slots of all rings.
RingSlots == {p \in Streams \X Slots : p[2] < Size[p[1]]}

\* The pool stops growing: a list that has one buffer more than the rings have
\* slots never lacks a free one, since the last restart at rest.
PoolSuffices ==
  clean /\ recv = "top" =>
    \A l \in Lists : Len(l) > Cardinality(RingSlots) => \E i \in DOMAIN l : free[l[i]]

\* The packets waiting in a ring, oldest first, and the one that is processed.
Slot(f, i, k) == IF f + i <= k THEN f + i - 1 ELSE f + i - 1 - k
Waiting(s) == [i \in 1..Length(s) |-> data[ring[s][Slot(First(s), i, Size[s])]]]
Current(s) == IF pc[s] = "wait" THEN None ELSE data[mybuf[s]]

Queue == INSTANCE PacketQueue WITH
  Room <- [s \in Streams |-> Size[s] - 1],
  valid <- clean,
  queue <- [s \in Streams |-> IF clean THEN Waiting(s) ELSE << >>],
  current <- [s \in Streams |-> IF clean THEN Current(s) ELSE None]

\* The rings, the buffers and the restarts implement first-in first-out queues:
\* no packet is repeated, overtaken or changed before it has been processed.  The
\* promise is void from a restart in the middle of the work to one at rest.
ImplementsQueue == Queue!Spec

\* No packet stays in a ring: the threads are woken for all of them, as long as
\* the promise is valid.
QueueServed == Queue!Fairness

\* A restart of the protocol ends, whatever arrives or fails meanwhile.
RestartEnds == main # "loop" ~> main = "loop"
=============================================================================
