---------------------------- MODULE P1LinkProofs ----------------------------
(***************************************************************************)
(* Proofs about P1Link: METIS packets are never mixed from two senders,    *)
(* and the round robin never addresses a receiver that is gone.            *)
(*                                                                         *)
(* Both rest on who holds send_mutex where.  The sending thread holds it   *)
(* exactly between the halves of a packet, the main thread exactly from    *)
(* the moment a restart has it to its end; so the command indices are      *)
(* changed by one thread at a time, and are reset before P1running is set  *)
(* again after the number of receivers has changed.                        *)
(***************************************************************************)
EXTENDS P1Link, TLAPS

Link == [offset : {8, 520}, cmd : Nat, rx : Nat, low : Nat]

MainAt == {"idle", "stop", "stopping", "change", "lock", "lock2",
           "reset", "frames", "start", "read", "up"}

Place == [at : MainAt, op : {"stop", "run", "change"}, frame : Nat, try : Nat]

Types == /\ running \in BOOLEAN
         /\ nrx \in Counts
         /\ send_mutex \in {"none", "main", "out"}
         /\ link \in Link
         /\ main \in Place
         /\ out \in {"wait", "block", "tested", "high"}

\* Where the main thread holds send_mutex.
Restarting == {"lock2", "reset", "frames", "start", "read", "up"}

Owned == /\ send_mutex = "out" <=> out = "high"
         /\ send_mutex = "main" <=> main.at \in Restarting \cup {"stopping"}

\* A stop and a change of the receivers find P1running cleared.
Halted == main.at \in {"stop", "stopping", "change"} => ~running

\* The indices fit the number of receivers once they are reset.
InRange == running \/ main.at \in {"frames", "start", "read", "up"}
             => link.rx < nrx

Inv == Types /\ Owned /\ HalvesPaired /\ Halted /\ InRange
-----------------------------------------------------------------------------
(* The round robin *)

LEMMA CountsFacts == ASSUME nrx \in Counts PROVE nrx \in Nat /\ 0 < nrx
  BY LinkAssumption

LEMMA LinkReset ==
  ASSUME NEW l \in Link
  PROVE  /\ [l EXCEPT !.offset = 8, !.cmd = 1, !.rx = 0] \in Link
         /\ [l EXCEPT !.offset = 8, !.cmd = 1, !.rx = 0].offset = 8
         /\ [l EXCEPT !.offset = 8, !.cmd = 1, !.rx = 0].rx = 0
<1>1. [l EXCEPT !.offset = 8, !.cmd = 1, !.rx = 0] \in Link
  BY DEF Link
<1>2. [l EXCEPT !.offset = 8, !.cmd = 1, !.rx = 0].offset = 8
  BY DEF Link
<1>3. [l EXCEPT !.offset = 8, !.cmd = 1, !.rx = 0].rx = 0
  BY DEF Link
<1> QED BY <1>1, <1>2, <1>3

\* One turn of the round robin keeps the types and stays within the receivers.
LEMMA AdvanceFacts ==
  ASSUME NEW l \in Link, nrx \in Counts
  PROVE  /\ Advance(l) \in Link
         /\ Advance(l).offset = l.offset
         /\ l.rx < nrx => Advance(l).rx < nrx
<1> DEFINE rx   == IF l.cmd = 2 THEN NextRx(l.rx) ELSE l.rx
           last == l.cmd = 2 /\ rx >= nrx
           new  == IF last THEN 0 ELSE rx
           cmd  == IF l.cmd = 2 /\ ~last THEN 2 ELSE (l.cmd % Commands) + 1
           turn == [l EXCEPT !.rx = new, !.cmd = cmd]
<1>1. nrx \in Nat /\ 0 < nrx
  BY CountsFacts
<1>2. l.rx \in Nat /\ l.cmd \in Nat
  BY DEF Link
<1>3. new \in Nat /\ (l.rx < nrx => new < nrx)
  BY <1>1, <1>2 DEF NextRx
<1>4. cmd \in Nat
  <2>1. Commands \in Nat /\ Commands > 2
    BY LinkAssumption
  <2>2. (l.cmd % Commands) \in Nat
    BY <1>2, <2>1
  <2> QED BY <2>2
<1>5. Advance(l) = turn
  BY DEF Advance
<1> HIDE DEF new, cmd
<1>6. turn \in Link /\ turn.offset = l.offset /\ turn.rx = new
  BY <1>3, <1>4 DEF Link
<1> HIDE DEF turn
<1> QED BY <1>3, <1>5, <1>6
-----------------------------------------------------------------------------
(* Every step keeps the invariant *)

LEMMA InitInv == Init => Inv
<1> SUFFICES ASSUME Init PROVE Inv
  OBVIOUS
<1>1. Types
  BY LinkAssumption DEF Init, Types, Link, Place, MainAt, None
<1> QED BY <1>1 DEF Init, Inv, Owned, HalvesPaired, Halted, InRange, Restarting

LEMMA ThreadsKeep ==
  ASSUME Inv, In \/ Proc \/ RadioSends
  PROVE  Inv'
<1>1. UNCHANGED <<running, nrx, send_mutex, link, main, out>>
  BY DEF In, InLock, InRead, InTimeout, Proc, ProcTake, ProcDone, RadioSends,
         mainvars, outvars
<1> QED BY <1>1 DEF Inv, Types, Owned, HalvesPaired, Halted, InRange

\* One half of a packet is done.
LEMMA LowLink ==
  ASSUME NEW l \in Link, NEW n \in Nat
  PROVE  [l EXCEPT !.offset = 520, !.low = n] \in Link
<1> DEFINE o == 520
<1>1. o \in {8, 520}
  OBVIOUS
<1> HIDE DEF o
<1>2. [l EXCEPT !.offset = o, !.low = n] \in Link
  BY <1>1 DEF Link
<1> QED BY <1>2 DEF o

LEMMA HighLink ==
  ASSUME NEW l \in Link, NEW n \in Nat
  PROVE  [l EXCEPT !.offset = 8, !.low = n] \in Link
<1> DEFINE o == 8
<1>1. o \in {8, 520}
  OBVIOUS
<1> HIDE DEF o
<1>2. [l EXCEPT !.offset = o, !.low = n] \in Link
  BY <1>1 DEF Link
<1> QED BY <1>2 DEF o

LEMMA LowFacts ==
  ASSUME link \in Link, nrx \in Nat, Low
  PROVE  link' \in Link /\ link'.offset = 520 /\ link'.rx = link.rx
<1> DEFINE low == [link EXCEPT !.offset = 520, !.low = nrx]
<1>1. low \in Link
  BY LowLink, Zenon
<1>2. low.offset = 520 /\ low.rx = link.rx
  BY Zenon DEF Link
<1>3. link' = low
  BY DEF Low
<1> HIDE DEF low
<1> QED BY <1>1, <1>2, <1>3

LEMMA HighFacts ==
  ASSUME link \in Link, nrx \in Counts, NEW arrives \in BOOLEAN, High(arrives)
  PROVE  /\ link' \in Link /\ link'.offset = 8
         /\ link.rx < nrx => link'.rx < nrx
<1> DEFINE turn == Advance(link)
           high == [turn EXCEPT !.offset = 8, !.low = None]
<1>1. turn \in Link /\ (link.rx < nrx => turn.rx < nrx)
  BY AdvanceFacts
<1>2. link' = high
  BY DEF High
<1> HIDE DEF turn
<1>3. None \in Nat
  BY DEF None
<1>4. high \in Link
  BY <1>1, <1>3, HighLink, Zenon
<1>5. high.offset = 8 /\ high.rx = turn.rx
  BY <1>1, Zenon DEF Link
<1> HIDE DEF high
<1> QED BY <1>1, <1>2, <1>4, <1>5

LEMMA OutKeeps == ASSUME Inv, Out PROVE Inv'
<1> USE DEF Inv, Owned, HalvesPaired, Halted, InRange
<1>1. UNCHANGED <<running, nrx, main>>
  BY DEF Out, OutTake, OutTest, OutTry, OutHigh, mainvars
<1>2. CASE OutTake \/ OutTest
  <2>1. /\ out' \in {"wait", "block", "tested"} /\ out # "high"
        /\ UNCHANGED <<send_mutex, link>>
    BY <1>2 DEF OutTake, OutTest
  <2> QED BY <1>1, <2>1 DEF Types
<1>3. CASE OutTry
  <2>1. CASE send_mutex = "none"
    <3>1. out' = "high" /\ send_mutex' = "out"
      BY <1>3, <2>1 DEF OutTry
    <3>2. link \in Link /\ nrx \in Nat /\ Low
      BY <1>3, <2>1, CountsFacts DEF OutTry, Types
    <3>3. link' \in Link /\ link'.offset = 520 /\ link'.rx = link.rx
      BY <3>2, LowFacts
    <3> QED BY <1>1, <2>1, <3>1, <3>3 DEF Types
  <2>2. CASE send_mutex # "none"
    BY <1>1, <1>3, <2>2 DEF OutTry, Types
  <2> QED BY <2>1, <2>2
<1>4. ASSUME NEW arrives \in BOOLEAN, OutHigh(arrives) PROVE Inv'
  <2>1. out = "high" /\ out' = "wait" /\ send_mutex' = "none" /\ High(arrives)
    BY <1>4 DEF OutHigh
  <2>2. link \in Link /\ nrx \in Counts
    BY DEF Types
  <2>3. /\ link' \in Link /\ link'.offset = 8
        /\ link.rx < nrx => link'.rx < nrx
    BY <2>1, <2>2, HighFacts
  <2>4. main.at \notin Restarting
    BY <2>1 DEF Types
  <2> QED BY <1>1, <2>1, <2>3, <2>4 DEF Types, Restarting
<1> QED BY <1>2, <1>3, <1>4 DEF Out

\* The main thread leaves its loop.
LEMMA LeavesKeep ==
  ASSUME Inv, Change \/ ProtocolStop \/ ProtocolRun
  PROVE  Inv'
<1> USE DEF Owned, HalvesPaired, Halted, InRange, Restarting
<1>0. main \in Place
  BY DEF Inv, Types
<1>1. CASE Change \/ ProtocolStop
  <2>1. /\ main.at = "idle" /\ main' \in Place /\ main'.at = "stop"
        /\ running' = FALSE
        /\ UNCHANGED <<nrx, send_mutex, link, out>>
    BY <1>0, <1>1 DEF Place, MainAt, Change, ProtocolStop
  <2> QED BY <2>1 DEF Inv, Types
<1>2. CASE ProtocolRun
  <2>1. /\ main.at = "idle" /\ main' \in Place /\ main'.at = "lock"
        /\ UNCHANGED <<running, nrx, send_mutex, link, out>>
    BY <1>0, <1>2 DEF Place, MainAt, ProtocolRun
  <2> QED BY <2>1 DEF Inv, Types
<1> QED BY <1>1, <1>2

\* It stops the protocol, and changes the number of receivers.
LEMMA StopKeeps ==
  ASSUME Inv,
         \/ StopLock \/ \E n \in Counts \ {nrx} : Changed(n)
         \/ \E arrives \in BOOLEAN : StopPacket(arrives)
  PROVE  Inv'
<1> USE DEF Owned, HalvesPaired, Halted, InRange, Restarting
<1>0. main \in Place
  BY DEF Inv, Types
<1>1. CASE StopLock
  <2>1. /\ main.at = "stop" /\ main' \in Place /\ main'.at = "stopping"
        /\ send_mutex = "none" /\ send_mutex' = "main"
        /\ UNCHANGED <<running, nrx, link, out>>
    BY <1>0, <1>1 DEF Place, StopLock, Goto, MainAt
  <2> QED BY <2>1 DEF Inv, Types
<1>2. ASSUME NEW n \in Counts \ {nrx}, Changed(n) PROVE Inv'
  <2>1. /\ main.at = "change" /\ main' \in Place /\ main'.at = "lock"
        /\ nrx' \in Counts
        /\ UNCHANGED <<running, send_mutex, link, out>>
    BY <1>0, <1>2 DEF Place, Changed, Goto, MainAt
  <2> QED BY <2>1 DEF Inv, Types
<1>3. ASSUME NEW arrives \in BOOLEAN, StopPacket(arrives) PROVE Inv'
  <2>1. /\ main.at = "stopping" /\ send_mutex' = "none"
        /\ UNCHANGED <<running, nrx, link, out>>
    BY <1>3 DEF StopPacket
  <2>2. main' \in Place /\ main'.at \in {"idle", "change"}
    BY <1>0, <1>3 DEF StopPacket, Idle, Place, MainAt
  <2> QED BY <2>1, <2>2 DEF Inv, Types
<1> QED BY <1>1, <1>2, <1>3

\* It takes the mutexes, and resets the indices.
LEMMA LockKeeps == ASSUME Inv, RunLock \/ RunLock2 \/ Reset PROVE Inv'
<1> USE DEF Owned, HalvesPaired, Halted, InRange, Restarting
<1>0. main \in Place
  BY DEF Inv, Types
<1>1. CASE RunLock
  <2>1. /\ main.at = "lock" /\ main' \in Place /\ main'.at = "lock2"
        /\ send_mutex = "none" /\ send_mutex' = "main"
        /\ UNCHANGED <<running, nrx, link, out>>
    BY <1>0, <1>1 DEF Place, RunLock, Goto, MainAt
  <2> QED BY <2>1 DEF Inv, Types
<1>2. CASE RunLock2
  <2>1. /\ main.at = "lock2" /\ main' \in Place /\ main'.at = "reset"
        /\ UNCHANGED <<running, nrx, send_mutex, link, out>>
    BY <1>0, <1>2 DEF Place, RunLock2, MainAt
  <2> QED BY <2>1 DEF Inv, Types
<1>3. CASE Reset
  <2>1. /\ main.at = "reset" /\ main' \in Place /\ main'.at = "frames"
        /\ UNCHANGED <<running, nrx, send_mutex, out>>
    BY <1>0, <1>3 DEF Place, Reset, MainAt
  <2>2. link' \in Link /\ link'.offset = 8 /\ link'.rx = 0
    BY <1>3, LinkReset DEF Reset, Inv, Types
  <2>3. 0 < nrx
    BY CountsFacts DEF Inv, Types
  <2> QED BY <2>1, <2>2, <2>3 DEF Inv, Types
<1> QED BY <1>1, <1>2, <1>3

\* It sends the first packets, starts the radio, and waits for an answer.
LEMMA StartKeeps ==
  ASSUME Inv,
         \/ Answer \/ NoAnswer \/ Up
         \/ \E arrives \in BOOLEAN : Frame(arrives) \/ StartPacket(arrives)
  PROVE  Inv'
<1> USE DEF Owned, HalvesPaired, Halted, InRange, Restarting
<1>0. main \in Place
  BY DEF Inv, Types
<1>1. CASE Answer
  <2>1. /\ main.at = "read" /\ main' \in Place /\ main'.at = "up"
        /\ UNCHANGED <<running, nrx, send_mutex, link, out>>
    BY <1>0, <1>1 DEF Place, Answer, Goto, MainAt
  <2> QED BY <2>1 DEF Inv, Types
<1>2. CASE NoAnswer
  <2>1. main.try + 1 \in Nat
    BY <1>0 DEF Place
  <2>2. /\ main.at = "read" /\ main' \in Place /\ main'.at \in {"reset", "up"}
    BY <1>0, <1>2, <2>1 DEF Place, NoAnswer, MainAt
  <2>3. UNCHANGED <<running, nrx, send_mutex, link, out>>
    BY <1>2 DEF NoAnswer
  <2> QED BY <2>2, <2>3 DEF Inv, Types
<1>3. CASE Up
  <2>1. /\ main.at = "up" /\ main' \in Place /\ main'.at = "idle"
        /\ send_mutex' = "none" /\ running'
        /\ UNCHANGED <<nrx, link, out>>
    BY <1>3 DEF Up, Idle, Place, MainAt
  <2> QED BY <2>1 DEF Inv, Types
<1>4. ASSUME NEW arrives \in BOOLEAN, Frame(arrives) PROVE Inv'
  <2>1. /\ main.at = "frames" /\ link' = Advance(link)
        /\ UNCHANGED <<running, nrx, send_mutex, out>>
    BY <1>4 DEF Frame
  <2>2. /\ main' \in Place
        /\ main'.at \in {"frames", "start"}
    BY <1>0, <1>4 DEF Place, Frame, MainAt
  <2>3. link' \in Link /\ link'.offset = link.offset /\ link'.rx < nrx
    BY <2>1, AdvanceFacts DEF Inv, Types
  <2> QED BY <2>1, <2>2, <2>3 DEF Inv, Types
<1>5. ASSUME NEW arrives \in BOOLEAN, StartPacket(arrives) PROVE Inv'
  <2>1. /\ main.at = "start" /\ main' \in Place /\ main'.at = "read"
        /\ UNCHANGED <<running, nrx, send_mutex, link, out>>
    BY <1>0, <1>5 DEF Place, StartPacket, Goto, MainAt
  <2> QED BY <2>1 DEF Inv, Types
<1> QED BY <1>1, <1>2, <1>3, <1>4, <1>5

LEMMA StepKeeps == ASSUME Inv, [Next]_vars PROVE Inv'
<1>1. CASE Main
  BY <1>1, LeavesKeep, StopKeeps, LockKeeps, StartKeeps DEF Main, Restart
<1>2. CASE Out
  BY <1>2, OutKeeps
<1>3. CASE In \/ Proc \/ RadioSends
  BY <1>3, ThreadsKeep
<1>4. CASE UNCHANGED vars
  BY <1>4 DEF vars, Inv, Types, Owned, HalvesPaired, Halted, InRange
<1> QED BY <1>1, <1>2, <1>3, <1>4 DEF Next

LEMMA Invariance == Spec => []Inv
  BY InitInv, StepKeeps, PTL DEF Spec
-----------------------------------------------------------------------------
(* What follows *)

\* old_protocol_txiq_thread() and old_protocol_run(): for any number of
\* receivers, commands and tries, a packet has one sender.
THEOREM PacketsPaired == Spec => []HalvesPaired
<1>1. Inv => HalvesPaired
  BY DEF Inv
<1> QED BY <1>1, Invariance, PTL

\* ozy_send_buffer(): however often and between whichever steps the number of
\* receivers changes, the round robin stays within it.
THEOREM ReceiversAddressed == Spec => []RoundRobinInRange
<1>1. Inv => RoundRobinInRange
  BY DEF Inv, InRange, RoundRobinInRange
<1> QED BY <1>1, Invariance, PTL
=============================================================================
