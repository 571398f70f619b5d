--------------------------- MODULE P2StreamProofs ---------------------------
(***************************************************************************)
(* Proofs about P2Stream, for any number of streams, rings of any length   *)
(* and any pool.                                                           *)
(***************************************************************************)
EXTENDS P2Stream, SequenceTheorems, FiniteSetTheorems, TLAPS

-----------------------------------------------------------------------------
(* Positions in a ring *)

After(p, k) == IF p + 1 = k THEN 0 ELSE p + 1

\* One more entry: the slot at n is added, unless the ring would look empty.
LEMMA SpanGrows ==
  ASSUME NEW k \in Nat, NEW f \in 0..(k - 1), NEW n \in 0..(k - 1), After(n, k) # f
  PROVE  /\ n \notin Span(f, n, k)
         /\ Span(f, After(n, k), k) = Span(f, n, k) \cup {n}
         /\ Dist(f, After(n, k), k) = Dist(f, n, k) + 1
BY DEF After, Span, Dist

\* One entry less: the slot at f is removed.
LEMMA SpanShrinks ==
  ASSUME NEW k \in Nat, NEW f \in 0..(k - 1), NEW n \in 0..(k - 1), f # n
  PROVE  /\ f \in Span(f, n, k)
         /\ Span(After(f, k), n, k) = Span(f, n, k) \ {f}
         /\ Dist(After(f, k), n, k) = Dist(f, n, k) - 1
BY DEF After, Span, Dist

\* A ring is empty when its pointers are equal, and only then.
LEMMA SpanEmpty ==
  ASSUME NEW k \in Nat, NEW f \in 0..(k - 1), NEW n \in 0..(k - 1)
  PROVE  /\ Dist(f, n, k) \in Nat
         /\ Dist(f, n, k) = 0 <=> f = n
         /\ Span(f, f, k) = {}
         /\ Span(f, n, k) \subseteq 0..(k - 1)
BY DEF Span, Dist
-----------------------------------------------------------------------------
(* Type correctness *)

LEMMA SuccInSlots ==
  ASSUME NEW s \in Streams, NEW p \in Slots, p < Size[s]
  PROVE  /\ Succ(s, p) \in Slots
         /\ Succ(s, p) < Size[s]
         /\ Succ(s, p) = After(p, Size[s])
BY StreamAssumption DEF Succ, Slots, After

\* Where the pointers are, and what the threads hold at each place.
Places ==
  /\ \A s \in Streams : inptr[s] < Size[s] /\ outptr[s] < Size[s] /\ nptr[s] < Size[s]
  /\ recv \in {"recv", "post"} => rbuf \in Buffers
  /\ recv = "post" => port \in Streams
  /\ recv = "top" => rbuf = None
  /\ \A s \in Streams : pc[s] # "wait" => mybuf[s] \in Buffers
  /\ main \in {"sleep", "mark"} => recv = "off"

LEMMA TypeInit == Init => TypeOK /\ Places
BY StreamAssumption DEF Init, TypeOK, Places, Slots, Buf

LEMMA TypeStep == TypeOK /\ Places /\ [Next]_vars => TypeOK' /\ Places'
<1> SUFFICES ASSUME TypeOK, Places, [Next]_vars PROVE TypeOK' /\ Places'
  OBVIOUS
<1> USE StreamAssumption
<1>1. CASE Get
  <2>1. PICK l \in Lists : \E i \in DOMAIN l :
           free' = [free EXCEPT ![l[i]] = FALSE] /\ rbuf' = l[i]
    BY <1>1 DEF Get
  <2>2. PICK i \in DOMAIN l : free' = [free EXCEPT ![l[i]] = FALSE] /\ rbuf' = l[i]
    BY <2>1
  <2>3. l[i] \in Buffers
    BY <2>2 DEF Buffers
  <2>4. free' \in [Buffers -> BOOLEAN] /\ rbuf' \in Buffers
    BY <2>2, <2>3 DEF TypeOK
  <2> QED
    BY <1>1, <2>4 DEF Get, TypeOK, Places, procvars, Buf
<1>2. CASE Leave
  BY <1>2 DEF Leave, TypeOK, Places, procvars, poolvars
<1>3. CASE Nothing
  BY <1>3 DEF Nothing, Release, TypeOK, Places, procvars, Buf
<1>4. ASSUME NEW s \in Streams, NEW p \in Packets, Arrive(s, p) PROVE TypeOK' /\ Places'
  BY <1>4 DEF Arrive, TypeOK, Places, procvars, Buf
<1>5. CASE PostStopped
  BY <1>5 DEF PostStopped, Drop, Release, TypeOK, Places, procvars, Buf
<1>6. CASE PostSkip
  BY <1>6 DEF PostSkip, Drop, Release, TypeOK, Places, procvars, Buf
<1>7. CASE PostOverflow
  BY <1>7 DEF PostOverflow, Drop, Release, TypeOK, Places, procvars, Buf
<1>8. CASE Post
  <2>1. port \in Streams /\ rbuf \in Buffers
    BY <1>8 DEF Post, Places
  <2>2. Succ(port, inptr[port]) \in Slots /\ Succ(port, inptr[port]) < Size[port]
    BY <2>1, SuccInSlots DEF TypeOK, Places
  <2>3. ring' \in [Streams -> [Slots -> Buf]]
    BY <1>8, <2>1 DEF Post, TypeOK, Buf
  <2> QED
    BY <1>8, <2>1, <2>2, <2>3 DEF Post, TypeOK, Places, procvars, poolvars, Buf
<1>9. CASE RecvFails
  BY <1>9 DEF RecvFails, TypeOK, Places, procvars, poolvars
<1>10. CASE MenuStop
  BY <1>10 DEF MenuStop, TypeOK, Places, procvars, poolvars, recvvars
<1>11. CASE Join
  BY <1>11 DEF Join, TypeOK, Places, procvars, poolvars, recvvars
<1>12. CASE Reset
  <2>1. inptr' \in [Streams -> Slots] /\ outptr' \in [Streams -> Slots]
        /\ \A s \in Streams : inptr'[s] < Size[s] /\ outptr'[s] < Size[s]
    BY <1>12 DEF Reset, Slots, TypeOK
  <2> QED
    BY <1>12, <2>1 DEF Reset, TypeOK, Places, procvars, poolvars, recvvars
<1>13. CASE Mark
  BY <1>13 DEF Mark, TypeOK, Places, procvars, Buf
<1>14. ASSUME NEW s \in Streams, Take(s) PROVE TypeOK' /\ Places'
  <2>1. PICK b \in Buffers : mybuf' = [mybuf EXCEPT ![s] = b]
    BY <1>14 DEF Take
  <2>2. Succ(s, outptr[s]) \in Slots /\ Succ(s, outptr[s]) < Size[s]
    BY SuccInSlots DEF TypeOK, Places
  <2>3. ring' \in [Streams -> [Slots -> Buf]]
    BY <1>14 DEF Take, TypeOK, Buf
  <2>4. sem' \in [Streams -> Nat]
    BY <1>14 DEF Take, TypeOK
  <2> QED
    BY <1>14, <2>1, <2>2, <2>3, <2>4 DEF Take, TypeOK, Places, poolvars, recvvars, Buf
<1>15. ASSUME NEW s \in Streams, Advance(s) PROVE TypeOK' /\ Places'
  <2>1. 0 \in Slots /\ 0 < Size[s]
    BY DEF Slots
  <2>2. nptr' \in [Streams -> Slots] /\ outptr' \in [Streams -> Slots]
    BY <1>15, <2>1 DEF Advance, TypeOK
  <2>3. \A t \in Streams : outptr'[t] < Size[t] /\ nptr'[t] < Size[t]
    BY <1>15, <2>1 DEF Advance, TypeOK, Places
  <2> QED
    BY <1>15, <2>2, <2>3 DEF Advance, TypeOK, Places, poolvars, recvvars
<1>16. ASSUME NEW s \in Streams, Check(s) PROVE TypeOK' /\ Places'
  BY <1>16 DEF Check, TypeOK, Places, poolvars, recvvars
<1>17. ASSUME NEW s \in Streams, Finish(s) PROVE TypeOK' /\ Places'
  BY <1>17 DEF Finish, Release, TypeOK, Places, recvvars, Buf
<1>18. CASE UNCHANGED vars
  BY <1>18 DEF vars, TypeOK, Places, procvars, poolvars, recvvars
<1> QED
  BY <1>1, <1>2, <1>3, <1>4, <1>5, <1>6, <1>7, <1>8, <1>9, <1>10, <1>11, <1>12, <1>13,
     <1>14, <1>15, <1>16, <1>17, <1>18 DEF Next, Read, Handled, Main, Proc

\* Every index stays inside its ring, and no thread uses a buffer it does not have.
THEOREM StreamTypes == Spec => []TypeOK
<1>1. Spec => [](TypeOK /\ Places)
  BY TypeInit, TypeStep, PTL DEF Spec
<1> QED
  BY <1>1, PTL
-----------------------------------------------------------------------------
(* The semaphores count the packets *)

\* What holds while clean is TRUE: the semaphores count; a thread that has taken an
\* entry has not yet moved outptr past it; when the rings have been reset no thread
\* is between two packets.
Counted == \A s \in Streams : sem[s] = Length(s)

Taken ==
  /\ \A s \in Streams :
        pc[s] = "taken" => nptr[s] = Succ(s, outptr[s]) /\ inptr[s] # outptr[s]
  /\ main = "mark" => \A s \in Streams : Idle(s)

LEMMA SameRing ==
  ASSUME NEW s \in Streams, inptr'[s] = inptr[s], First(s)' = First(s)
  PROVE  Used(s)' = Used(s) /\ Length(s)' = Length(s)
BY DEF Used, Length

LEMMA Ends ==
  ASSUME TypeOK, Places, NEW s \in Streams
  PROVE  /\ Size[s] \in Nat
         /\ inptr[s] \in 0..(Size[s] - 1)
         /\ outptr[s] \in 0..(Size[s] - 1)
         /\ First(s) \in 0..(Size[s] - 1)
<1>1. Size[s] \in Nat
  BY StreamAssumption
<1>2. \A p \in Slots : p < Size[s] => p \in 0..(Size[s] - 1)
  BY <1>1, StreamAssumption DEF Slots
<1>3. inptr[s] \in Slots /\ outptr[s] \in Slots /\ nptr[s] \in Slots
  BY DEF TypeOK
<1>4. inptr[s] < Size[s] /\ outptr[s] < Size[s] /\ nptr[s] < Size[s]
  BY DEF Places
<1> QED
  BY <1>1, <1>2, <1>3, <1>4 DEF First

LEMMA UsedSlots ==
  ASSUME TypeOK, Places, NEW s \in Streams
  PROVE  Used(s) \subseteq Slots
<1>1. Used(s) \subseteq 0..(Size[s] - 1)
  BY Ends, SpanEmpty DEF Used
<1>2. 0..(Size[s] - 1) \subseteq Slots
  BY StreamAssumption DEF Slots
<1> QED
  BY <1>1, <1>2

\* Post adds one slot to the ring of its stream.
LEMMA PostRing ==
  ASSUME TypeOK, Places, Taken, Post, NEW q \in Streams, q = port
  PROVE  /\ inptr[q] \notin Used(q)
         /\ inptr[q] \in Slots
         /\ Used(q)' = Used(q) \cup {inptr[q]}
         /\ Length(q)' = Length(q) + 1
         /\ \A t \in Streams \ {q} : Used(t)' = Used(t) /\ Length(t)' = Length(t)
<1>2. q \in Streams
  OBVIOUS
<1>3. inptr[q] \in Slots /\ inptr[q] < Size[q] /\ outptr[q] \in Slots /\ outptr[q] < Size[q]
  BY <1>2 DEF TypeOK, Places
<1>4. Succ(q, inptr[q]) = After(inptr[q], Size[q])
  BY <1>2, <1>3, SuccInSlots
<1>5. Succ(q, outptr[q]) = After(outptr[q], Size[q])
  BY <1>2, <1>3, SuccInSlots
<1>6. After(inptr[q], Size[q]) # First(q)
  <2>1. CASE pc[q] = "taken"
    <3>1. inptr[q] # outptr[q] /\ First(q) = After(outptr[q], Size[q])
      BY <2>1, <1>2, <1>5 DEF Taken, First
    <3> QED
      BY <3>1, <1>2, <1>3, Ends DEF After
  <2>2. CASE pc[q] # "taken"
    BY <2>2, <1>4 DEF Post, Full, First
  <2> QED
    BY <2>1, <2>2
<1>7. \A t \in Streams : First(t)' = First(t)
  BY DEF First, Post, procvars
<1>8. inptr' = [inptr EXCEPT ![q] = After(inptr[q], Size[q])]
  BY <1>4 DEF Post
<1>9. inptr'[q] = After(inptr[q], Size[q])
  BY <1>2, <1>8 DEF TypeOK
<1>10. /\ inptr[q] \notin Span(First(q), inptr[q], Size[q])
       /\ Span(First(q), inptr'[q], Size[q]) = Span(First(q), inptr[q], Size[q]) \cup {inptr[q]}
       /\ Dist(First(q), inptr'[q], Size[q]) = Dist(First(q), inptr[q], Size[q]) + 1
  BY <1>2, <1>6, <1>9, Ends, SpanGrows
<1>11. \A t \in Streams \ {q} : inptr'[t] = inptr[t]
  BY <1>2, <1>8 DEF TypeOK
<1> QED
  BY <1>2, <1>3, <1>7, <1>10, <1>11, SameRing DEF Used, Length

\* Take removes the slot at outptr.
LEMMA TakeRing ==
  ASSUME TypeOK, Places, Counted, NEW s \in Streams, Take(s)
  PROVE  /\ outptr[s] \in Used(s)
         /\ inptr[s] # outptr[s]
         /\ Used(s)' = Used(s) \ {outptr[s]}
         /\ Length(s)' = Length(s) - 1
         /\ \A t \in Streams \ {s} : Used(t)' = Used(t) /\ Length(t)' = Length(t)
<1>1. First(s) = outptr[s] /\ First(s)' = Succ(s, outptr[s])
  BY DEF First, Take, TypeOK
<1>2. Succ(s, outptr[s]) = After(outptr[s], Size[s])
  BY SuccInSlots DEF TypeOK, Places
<1>3. Length(s) > 0
  BY DEF Counted, Take, TypeOK
<1>4. outptr[s] # inptr[s]
  BY <1>1, <1>3, Ends, SpanEmpty DEF Length
<1>5. /\ outptr[s] \in Span(outptr[s], inptr[s], Size[s])
      /\ Span(After(outptr[s], Size[s]), inptr[s], Size[s])
           = Span(outptr[s], inptr[s], Size[s]) \ {outptr[s]}
      /\ Dist(After(outptr[s], Size[s]), inptr[s], Size[s])
           = Dist(outptr[s], inptr[s], Size[s]) - 1
  BY <1>4, Ends, SpanShrinks
<1>6. inptr' = inptr
  BY DEF Take
<1>7. \A t \in Streams \ {s} : First(t)' = First(t)
  BY DEF First, Take, TypeOK
<1> QED
  BY <1>1, <1>2, <1>4, <1>5, <1>6, <1>7, SameRing DEF Used, Length

\* The other steps leave the rings alone, but for a reset of empty ones.
Still == \A s \in Streams : Used(s)' = Used(s) /\ Length(s)' = Length(s)

LEMMA OtherRings ==
  ASSUME TypeOK, Places, Taken, Counted, clean', Next, ~Post,
         \A s \in Streams : ~Take(s)
  PROVE  Still
<1>1. CASE Reset
  <2>1. SUFFICES ASSUME NEW s \in Streams PROVE Used(s)' = Used(s) /\ Length(s)' = Length(s)
    BY DEF Still
  <2>2. sem[s] = 0 /\ pc[s] = "wait" /\ pc' = pc
    BY <1>1, <2>1 DEF Reset, Settled, Idle, procvars
  <2>3. Length(s) = 0 /\ First(s) = outptr[s]
    BY <2>1, <2>2 DEF Counted, First
  <2>4. outptr[s] = inptr[s]
    BY <2>1, <2>3, Ends, SpanEmpty DEF Length
  <2>5. inptr'[s] = 0 /\ First(s)' = 0
    BY <1>1, <2>1, <2>2 DEF Reset, First
  <2>6. 0 \in 0..(Size[s] - 1) /\ Size[s] \in Nat
    BY <2>1, StreamAssumption
  <2>7. Used(s) = {} /\ Length(s) = 0
    BY <2>1, <2>3, <2>4, Ends, SpanEmpty DEF Used, Length
  <2>8. Span(0, 0, Size[s]) = {} /\ Dist(0, 0, Size[s]) = 0
    BY <2>6, SpanEmpty
  <2> QED
    BY <2>5, <2>7, <2>8 DEF Used, Length
<1>2. ASSUME NEW s \in Streams, Advance(s) PROVE Still
  <2>1. \A t \in Streams : First(t)' = First(t)
    BY <1>2 DEF Advance, First, TypeOK
  <2> QED
    BY <1>2, <2>1, SameRing DEF Advance, Still
<1>3. ASSUME NEW s \in Streams, Check(s) \/ Finish(s) PROVE Still
  <2>1. \A t \in Streams : First(t)' = First(t)
    BY <1>3 DEF Check, Finish, First, TypeOK
  <2>2. inptr' = inptr
    BY <1>3 DEF Check, Finish
  <2> QED
    BY <2>1, <2>2, SameRing DEF Still
<1>4. ASSUME UNCHANGED <<inptr, outptr, pc, nptr>> PROVE Still
  BY <1>4, SameRing DEF Still, First
<1>5. CASE Read
  BY <1>4, <1>5 DEF Read, Get, Leave, Nothing, Handled, PostStopped, PostSkip,
                    PostOverflow, Drop, Arrive, procvars
<1>6. CASE RecvFails \/ MenuStop \/ Join \/ Mark
  BY <1>4, <1>6 DEF RecvFails, MenuStop, Join, Mark, procvars
<1> QED
  BY <1>1, <1>2, <1>3, <1>5, <1>6 DEF Next, Main, Proc

LEMMA CountInit == Init => Counted /\ Taken
<1> SUFFICES ASSUME Init PROVE Counted /\ Taken
  OBVIOUS
<1>1. \A s \in Streams : 0 \in 0..(Size[s] - 1) /\ Size[s] \in Nat
  BY StreamAssumption
<1>2. \A s \in Streams : Dist(0, 0, Size[s]) = 0
  BY <1>1, SpanEmpty
<1> QED
  BY <1>2 DEF Init, Counted, Taken, Length, First

LEMMA CountStep ==
  ASSUME TypeOK, Places, Counted, Taken, clean', [Next]_vars
  PROVE  Counted' /\ Taken'
<1>1. CASE Post
  <2>1. PICK q \in Streams : q = port
    BY <1>1 DEF Post, Places
  <2>2. /\ Length(q)' = Length(q) + 1
        /\ \A t \in Streams \ {q} : Length(t)' = Length(t)
    BY <1>1, <2>1, PostRing
  <2>3. sem'[q] = sem[q] + 1 /\ \A t \in Streams \ {q} : sem'[t] = sem[t]
    BY <1>1, <2>1 DEF Post, TypeOK
  <2>4. Counted'
    BY <2>2, <2>3 DEF Counted
  <2>5. /\ inptr'[q] = Succ(q, inptr[q]) /\ Succ(q, inptr[q]) # outptr[q]
        /\ \A t \in Streams \ {q} : inptr'[t] = inptr[t]
        /\ outptr' = outptr /\ pc' = pc /\ nptr' = nptr
    BY <1>1, <2>1 DEF Post, Full, TypeOK, procvars
  <2>6. main' # "mark"
    BY <1>1 DEF Post, Places
  <2> QED
    BY <2>4, <2>5, <2>6 DEF Taken, Succ
<1>2. ASSUME NEW s \in Streams, Take(s) PROVE Counted' /\ Taken'
  <2>1. /\ Length(s)' = Length(s) - 1 /\ inptr[s] # outptr[s]
        /\ \A t \in Streams \ {s} : Length(t)' = Length(t)
    BY <1>2, TakeRing
  <2>2. sem'[s] = sem[s] - 1 /\ \A t \in Streams \ {s} : sem'[t] = sem[t]
    BY <1>2 DEF Take, TypeOK
  <2>3. Counted'
    BY <2>1, <2>2 DEF Counted
  <2>4. main' # "mark"
    BY <1>2 DEF Take, Taken, Idle
  <2>5. /\ nptr'[s] = Succ(s, outptr[s])
        /\ \A t \in Streams \ {s} : pc'[t] = pc[t] /\ nptr'[t] = nptr[t]
        /\ inptr' = inptr /\ outptr' = outptr
    BY <1>2 DEF Take, TypeOK
  <2> QED
    BY <2>1, <2>3, <2>4, <2>5 DEF Taken, Succ
<1>3. ASSUME Next, ~Post, \A s \in Streams : ~Take(s) PROVE Counted' /\ Taken'
  <2>1. Still
    BY <1>3, OtherRings
  <2>2. sem' = sem
    BY <1>3 DEF Next, Read, RecvFails, Main, Proc, Get, Leave, Nothing, Arrive, Handled,
       PostStopped, PostSkip, PostOverflow, Drop, MenuStop, Join, Reset, Mark,
       Advance, Check, Finish
  <2>3. Counted'
    BY <2>1, <2>2 DEF Still, Counted
  <2>4. CASE Reset
    BY <2>3, <2>4 DEF Reset, Taken, Settled, Idle, procvars
  <2>5. ASSUME NEW s \in Streams, Advance(s) PROVE Taken'
    <3>1. \A t \in Streams : pc'[t] = "taken" => /\ pc[t] = "taken" /\ t # s
                                               /\ nptr'[t] = nptr[t]
                                               /\ outptr'[t] = outptr[t]
      BY <2>5 DEF Advance, TypeOK
    <3>2. main' # "mark" /\ inptr' = inptr
      BY <2>5 DEF Advance, Taken, Idle
    <3> QED
      BY <3>1, <3>2 DEF Taken, Succ
  <2>6. ASSUME NEW s \in Streams, Check(s) \/ Finish(s) PROVE Taken'
    <3>1. \A t \in Streams : pc'[t] = "taken" => pc[t] = "taken"
      BY <2>6 DEF Check, Finish, TypeOK
    <3>2. main' # "mark" /\ inptr' = inptr /\ outptr' = outptr /\ nptr' = nptr
      BY <2>6 DEF Check, Finish, Taken, Idle
    <3> QED
      BY <3>1, <3>2 DEF Taken, Succ
  <2>7. ASSUME UNCHANGED <<inptr, outptr, pc, nptr, sem>>, main' = "mark" => main = "mark"
        PROVE  Taken'
    BY <2>7 DEF Taken, Idle, Succ
  <2>8. CASE Read \/ RecvFails \/ MenuStop \/ Join \/ Mark
    BY <1>3, <2>3, <2>7, <2>8 DEF Read, Get, Leave, Nothing, Handled, PostStopped, PostSkip,
       PostOverflow, Drop, Arrive, RecvFails, MenuStop, Join, Mark, procvars
  <2> QED
    BY <1>3, <2>3, <2>4, <2>5, <2>6, <2>8 DEF Next, Main, Proc
<1>4. CASE UNCHANGED vars
  BY <1>4 DEF vars, recvvars, poolvars, procvars, Counted, Taken, Length, First, Idle, Succ
<1> QED
  BY <1>1, <1>2, <1>3, <1>4

\* The only step that makes clean TRUE: a restart at rest, with empty rings.
LEMMA Fresh ==
  ASSUME TypeOK, Places, [Next]_vars, ~clean, clean'
  PROVE  /\ Mark
         /\ \A s \in Streams : /\ Used(s)' = {} /\ Length(s)' = 0
                              /\ pc'[s] = "wait" /\ sem'[s] = 0
<1>1. Mark
  BY DEF Next, Read, RecvFails, Main, Proc, Get, Leave, Nothing, Arrive, Handled,
     PostStopped, PostSkip, PostOverflow, Post, Drop, MenuStop, Join, Reset,
     Take, Advance, Check, Finish, vars
<1>2. \A s \in Streams : inptr'[s] = outptr'[s] /\ pc'[s] = "wait" /\ sem'[s] = 0
  BY <1>1 DEF Mark, Settled, Idle, procvars
<1>3. TypeOK' /\ Places'
  BY TypeStep
<1>4. \A s \in Streams : /\ Size[s] \in Nat /\ First(s)' = outptr'[s]
                         /\ inptr'[s] \in 0..(Size[s] - 1)
  <2> TAKE s \in Streams
  <2>1. inptr'[s] \in Slots /\ inptr'[s] < Size[s]
    BY <1>3 DEF TypeOK, Places
  <2>2. First(s)' = outptr'[s]
    BY <1>2 DEF First
  <2> QED
    BY <2>1, <2>2, StreamAssumption DEF Slots
<1>5. \A s \in Streams : Used(s)' = {} /\ Length(s)' = 0
  BY <1>2, <1>4, SpanEmpty DEF Used, Length
<1> QED
  BY <1>1, <1>2, <1>5

CountInv == TypeOK /\ Places /\ (clean => Counted /\ Taken)

LEMMA CountInvStep == CountInv /\ [Next]_vars => CountInv'
<1> SUFFICES ASSUME CountInv, [Next]_vars PROVE CountInv'
  OBVIOUS
<1>1. TypeOK /\ Places /\ TypeOK' /\ Places'
  BY TypeStep DEF CountInv
<1>2. ASSUME clean, clean' PROVE Counted' /\ Taken'
  BY <1>2, CountStep DEF CountInv
<1>3. ASSUME ~clean, clean' PROVE Counted' /\ Taken'
  <2>1. /\ main' = "loop"
        /\ \A s \in Streams : Length(s)' = 0 /\ pc'[s] = "wait" /\ sem'[s] = 0
    BY <1>1, <1>3, Fresh DEF Mark
  <2> QED
    BY <2>1 DEF Counted, Taken
<1> QED
  BY <1>1, <1>2, <1>3 DEF CountInv

\* No wake-up is lost and none is left over: a semaphore counts exactly what is in
\* its ring, through overflows, errors and the restarts that find the threads at
\* rest.  A restart that finds a packet breaks this, the next one at rest mends it.
THEOREM SemaphoreCounts == Spec => []SemCounts
<1>1. Init => CountInv
  BY TypeInit, CountInit DEF CountInv
<1>2. CountInv => SemCounts
  BY DEF CountInv, Counted, SemCounts
<1> QED
  BY <1>1, <1>2, CountInvStep, PTL DEF Spec
-----------------------------------------------------------------------------
(* Every buffer has one owner *)

\* OneOwner, place by place.
BusyOwned == \A s \in Streams :
  pc[s] # "wait" => ~free[mybuf[s]] /\ mybuf[s] # rbuf

RingOwned == \A s \in Streams : \A i \in Used(s) :
  ring[s][i] \in Buffers /\ ~free[ring[s][i]] /\ ring[s][i] # rbuf

RingDistinct == \A s, t \in Streams : \A i \in Used(s), j \in Used(t) :
  ring[s][i] = ring[t][j] => s = t /\ i = j

RingNotBusy == \A s, t \in Streams : \A i \in Used(s) :
  pc[t] # "wait" => ring[s][i] # mybuf[t]

BusyDistinct == \A s, t \in Streams :
  pc[s] # "wait" /\ pc[t] # "wait" /\ mybuf[s] = mybuf[t] => s = t

ReaderOwned == rbuf \in Buffers => ~free[rbuf]

InRing(b) == \E s \in Streams : \E i \in Used(s) : ring[s][i] = b
InWork(b) == \E s \in Streams : pc[s] # "wait" /\ mybuf[s] = b

NoneLost == \A b \in Buffers : ~free[b] => b = rbuf \/ InRing(b) \/ InWork(b)

Owned == BusyOwned /\ RingOwned /\ RingDistinct /\ RingNotBusy /\ BusyDistinct
         /\ ReaderOwned /\ NoneLost

LEMMA OwnedIsOneOwner == TypeOK /\ Places /\ Owned => OneOwner
<1> SUFFICES ASSUME TypeOK, Places, Owned PROVE OneOwner
  OBVIOUS
<1> USE DEF Owned
<1>1. \A s \in Streams : /\ Processed(s) \cup Queued(s) \subseteq Buffers
                        /\ rbuf \notin Processed(s) \cup Queued(s)
                        /\ Processed(s) \cap Queued(s) = {}
                        /\ \A i, j \in Used(s) : ring[s][i] = ring[s][j] => i = j
  BY DEF Processed, Queued, Places, BusyOwned, RingOwned, RingNotBusy, RingDistinct
<1>2. \A s, t \in Streams :
        s # t => (Processed(s) \cup Queued(s)) \cap (Processed(t) \cup Queued(t)) = {}
  BY DEF Processed, Queued, BusyDistinct, RingNotBusy, RingDistinct
<1>3. ASSUME NEW b \in Buffers
      PROVE  ~free[b] <=> \/ b = rbuf
                          \/ \E s \in Streams : b \in Processed(s) \cup Queued(s)
  <2>1. (\E s \in Streams : b \in Processed(s) \cup Queued(s)) <=> InRing(b) \/ InWork(b)
    BY DEF Processed, Queued, InRing, InWork
  <2>2. InRing(b) => ~free[b]
    BY DEF InRing, RingOwned
  <2>3. InWork(b) => ~free[b]
    BY DEF InWork, BusyOwned
  <2>4. b = rbuf => ~free[b]
    BY DEF ReaderOwned
  <2>5. ~free[b] => b = rbuf \/ InRing(b) \/ InWork(b)
    BY DEF NoneLost
  <2> QED
    BY <2>1, <2>2, <2>3, <2>4, <2>5
<1> QED
  BY <1>1, <1>2, <1>3 DEF OneOwner

\* A step that leaves the rings and the processing threads alone, gives up the
\* reader's buffer, and marks it free.
LEMMA DropOwned ==
  ASSUME TypeOK, Places, Owned, Still, rbuf \in Buffers, Release(rbuf), rbuf' = None,
         ring' = ring, pc' = pc, mybuf' = mybuf
  PROVE  Owned'
<1>1. \A b \in Buffers : free'[b] <=> free[b] \/ b = rbuf
  BY DEF Release, TypeOK
<1>2. rbuf' \notin Buffers
  BY StreamAssumption
<1>3. \A s \in Streams : Used(s)' = Used(s)
  BY DEF Still
<1>4. BusyOwned' /\ BusyDistinct'
  BY <1>1, <1>2 DEF Owned, BusyOwned, BusyDistinct, Places
<1>5. RingOwned' /\ RingDistinct' /\ RingNotBusy'
  BY <1>1, <1>2, <1>3 DEF Owned, RingOwned, RingDistinct, RingNotBusy
<1>6. \A b \in Buffers : (InRing(b)' <=> InRing(b)) /\ (InWork(b)' <=> InWork(b))
  BY <1>3 DEF InRing, InWork
<1>7. NoneLost'
  BY <1>1, <1>6 DEF Owned, NoneLost
<1> QED
  BY <1>2, <1>4, <1>5, <1>7 DEF Owned, ReaderOwned

\* A step that changes none of this.
LEMMA SameOwned ==
  ASSUME Owned, Still, ring' = ring, pc' = pc, mybuf' = mybuf, free' = free, rbuf' = rbuf
  PROVE  Owned'
<1>1. \A s \in Streams : Used(s)' = Used(s)
  BY DEF Still
<1>2. BusyOwned' /\ BusyDistinct' /\ ReaderOwned'
  BY DEF Owned, BusyOwned, BusyDistinct, ReaderOwned
<1>3. RingOwned' /\ RingDistinct' /\ RingNotBusy'
  BY <1>1 DEF Owned, RingOwned, RingDistinct, RingNotBusy
<1>4. NoneLost'
  BY <1>1 DEF Owned, NoneLost, InRing, InWork
<1> QED
  BY <1>2, <1>3, <1>4 DEF Owned

LEMMA GetOwned ==
  ASSUME TypeOK, Places, Owned, Still, Get
  PROVE  Owned'
<1>1. PICK b \in Buffers : free[b] /\ free' = [free EXCEPT ![b] = FALSE] /\ rbuf' = b
  <2>1. PICK l \in Lists : \E i \in DOMAIN l :
           free[l[i]] /\ free' = [free EXCEPT ![l[i]] = FALSE] /\ rbuf' = l[i]
    BY DEF Get, FirstFree
  <2>2. PICK i \in DOMAIN l : free[l[i]] /\ free' = [free EXCEPT ![l[i]] = FALSE] /\ rbuf' = l[i]
    BY <2>1
  <2>3. l[i] \in Buffers
    BY <2>2 DEF Buffers
  <2> QED
    BY <2>2, <2>3
<1>2. \A c \in Buffers : free'[c] <=> free[c] /\ c # b
  BY <1>1 DEF TypeOK
<1>3. \A s \in Streams : Used(s)' = Used(s)
  BY DEF Still
<1>4. ring' = ring /\ pc' = pc /\ mybuf' = mybuf /\ rbuf = None
  BY DEF Get, procvars, Places
<1>5. BusyOwned' /\ BusyDistinct'
  BY <1>1, <1>2, <1>4 DEF Owned, BusyOwned, BusyDistinct, Places
<1>6. RingOwned' /\ RingDistinct' /\ RingNotBusy'
  BY <1>1, <1>2, <1>3, <1>4 DEF Owned, RingOwned, RingDistinct, RingNotBusy
<1>7. \A c \in Buffers : (InRing(c)' <=> InRing(c)) /\ (InWork(c)' <=> InWork(c))
  BY <1>3, <1>4 DEF InRing, InWork
<1>8. NoneLost'
  BY <1>1, <1>2, <1>4, <1>7, StreamAssumption DEF Owned, NoneLost
<1> QED
  BY <1>1, <1>2, <1>5, <1>6, <1>8 DEF Owned, ReaderOwned

LEMMA PostOwned ==
  ASSUME TypeOK, Places, Taken, Owned, Post
  PROVE  Owned'
<1>1. PICK q \in Streams : q = port
  BY DEF Post, Places
<1>2. /\ inptr[q] \notin Used(q) /\ inptr[q] \in Slots
      /\ Used(q)' = Used(q) \cup {inptr[q]}
      /\ \A t \in Streams \ {q} : Used(t)' = Used(t)
  BY <1>1, PostRing
<1>3. /\ ring'[q][inptr[q]] = rbuf
      /\ \A i \in Slots \ {inptr[q]} : ring'[q][i] = ring[q][i]
      /\ \A t \in Streams \ {q} : ring'[t] = ring[t]
  BY <1>1, <1>2 DEF Post, TypeOK
<1>4. rbuf \in Buffers /\ rbuf' \notin Buffers /\ free' = free /\ pc' = pc /\ mybuf' = mybuf
  BY StreamAssumption DEF Post, Places, procvars, poolvars
<1>5. \A t \in Streams : Used(t) \subseteq Slots
  BY UsedSlots
<1>6. \A t \in Streams : \A i \in Used(t) : ring'[t][i] = ring[t][i]
  BY <1>2, <1>3, <1>5
<1>7. \A t \in Streams : \A i \in Used(t)' :
         \/ i \in Used(t) /\ ring'[t][i] = ring[t][i]
         \/ t = q /\ i = inptr[q] /\ ring'[t][i] = rbuf
  BY <1>2, <1>3, <1>6
<1>8. BusyOwned' /\ BusyDistinct'
  BY <1>4 DEF Owned, BusyOwned, BusyDistinct, Places
<1>9. RingOwned'
  BY <1>4, <1>7 DEF Owned, RingOwned, ReaderOwned
<1>10. RingDistinct'
  BY <1>4, <1>7 DEF Owned, RingDistinct, RingOwned
<1>11. RingNotBusy'
  BY <1>4, <1>7 DEF Owned, RingNotBusy, BusyOwned
<1>12. \A b \in Buffers : InWork(b)' <=> InWork(b)
  BY <1>4 DEF InWork
<1>13. \A b \in Buffers : InRing(b) \/ b = rbuf => InRing(b)'
  BY <1>2, <1>3, <1>6 DEF InRing
<1>14. NoneLost'
  BY <1>4, <1>12, <1>13 DEF Owned, NoneLost
<1> QED
  BY <1>4, <1>8, <1>9, <1>10, <1>11, <1>14 DEF Owned, ReaderOwned

LEMMA TakeOwned ==
  ASSUME TypeOK, Places, Counted, Owned, NEW s \in Streams, Take(s)
  PROVE  Owned'
<1>1. /\ outptr[s] \in Used(s)
      /\ Used(s)' = Used(s) \ {outptr[s]}
      /\ \A t \in Streams \ {s} : Used(t)' = Used(t)
  BY TakeRing
<1>2. PICK e \in Buffers : e = ring[s][outptr[s]] /\ ~free[e] /\ e # rbuf
  BY <1>1 DEF Owned, RingOwned
<1>3. mybuf' = [mybuf EXCEPT ![s] = e]
  BY <1>2, StreamAssumption DEF Take
<1>4. /\ mybuf'[s] = e /\ \A t \in Streams \ {s} : mybuf'[t] = mybuf[t]
      /\ pc[s] = "wait" /\ pc'[s] = "taken" /\ \A t \in Streams \ {s} : pc'[t] = pc[t]
      /\ rbuf' = rbuf /\ free' = free
  BY <1>3 DEF Take, TypeOK, recvvars, poolvars
<1>5. \A t \in Streams : Used(t) \subseteq Slots
  BY UsedSlots
<1>6. \A t \in Streams : \A i \in Used(t)' : i \in Used(t) /\ ring'[t][i] = ring[t][i]
  BY <1>1, <1>5 DEF Take, TypeOK
<1>7. \A t \in Streams : \A i \in Used(t)' : ring[t][i] # e
  BY <1>1, <1>2 DEF Owned, RingDistinct
<1>8. BusyOwned'
  BY <1>2, <1>4 DEF Owned, BusyOwned
<1>9. \A t \in Streams : pc[t] # "wait" => mybuf[t] # e
  BY <1>1, <1>2 DEF Owned, RingNotBusy
<1>10. BusyDistinct'
  BY <1>4, <1>9 DEF Owned, BusyDistinct
<1>11. RingOwned' /\ RingDistinct'
  BY <1>4, <1>6 DEF Owned, RingOwned, RingDistinct
<1>12. RingNotBusy'
  BY <1>4, <1>6, <1>7 DEF Owned, RingNotBusy
<1>13. \A b \in Buffers : InWork(b) => InWork(b)'
  BY <1>4 DEF InWork
<1>14. InWork(e)'
  BY <1>4 DEF InWork
<1>15. \A b \in Buffers : InRing(b) => b = e \/ InRing(b)'
  <2> SUFFICES ASSUME NEW b \in Buffers, NEW t \in Streams, NEW i \in Used(t),
                      ring[t][i] = b, b # e
               PROVE  InRing(b)'
    BY DEF InRing
  <2>1. i \in Used(t)'
    BY <1>1, <1>2
  <2> QED
    BY <2>1, <1>6 DEF InRing
<1>16. NoneLost'
  <2> SUFFICES ASSUME NEW b \in Buffers, ~free'[b]
               PROVE  b = rbuf' \/ InRing(b)' \/ InWork(b)'
    BY DEF NoneLost
  <2>1. b = rbuf \/ InRing(b) \/ InWork(b)
    BY <1>4 DEF Owned, NoneLost
  <2> QED
    BY <2>1, <1>4, <1>13, <1>14, <1>15
<1> QED
  BY <1>4, <1>8, <1>10, <1>11, <1>12, <1>16 DEF Owned, ReaderOwned

\* Moving outptr, or going on to process the packet: the thread keeps the buffer.
LEMMA KeepOwned ==
  ASSUME TypeOK, Owned, Still, NEW s \in Streams, Advance(s) \/ Check(s)
  PROVE  Owned'
<1>1. /\ pc[s] # "wait" /\ pc'[s] # "wait" /\ \A t \in Streams \ {s} : pc'[t] = pc[t]
      /\ mybuf' = mybuf /\ ring' = ring /\ free' = free /\ rbuf' = rbuf
  <2>1. CASE Advance(s)
    BY <2>1 DEF Advance, TypeOK, recvvars, poolvars
  <2>2. CASE Check(s)
    <3>1. ~free[mybuf[s]]
      BY <2>2 DEF Check, Owned, BusyOwned
    <3> QED
      BY <2>2, <3>1 DEF Check, TypeOK, recvvars, poolvars
  <2> QED
    BY <2>1, <2>2
<1>2. \A t \in Streams : pc'[t] # "wait" <=> pc[t] # "wait"
  BY <1>1
<1>3. \A t \in Streams : Used(t)' = Used(t)
  BY DEF Still
<1>4. BusyOwned' /\ BusyDistinct' /\ ReaderOwned'
  BY <1>1, <1>2 DEF Owned, BusyOwned, BusyDistinct, ReaderOwned
<1>5. RingOwned' /\ RingDistinct' /\ RingNotBusy'
  BY <1>1, <1>2, <1>3 DEF Owned, RingOwned, RingDistinct, RingNotBusy
<1>6. \A b \in Buffers : (InRing(b)' <=> InRing(b)) /\ (InWork(b)' <=> InWork(b))
  BY <1>1, <1>2, <1>3 DEF InRing, InWork
<1>7. NoneLost'
  BY <1>1, <1>6 DEF Owned, NoneLost
<1> QED
  BY <1>4, <1>5, <1>7 DEF Owned

LEMMA FinishOwned ==
  ASSUME TypeOK, Places, Owned, Still, NEW s \in Streams, Finish(s)
  PROVE  Owned'
<1> DEFINE e == mybuf[s]
<1>1. e \in Buffers /\ e # rbuf
  BY DEF Finish, Places, Owned, BusyOwned
<1>2. \A b \in Buffers : free'[b] <=> free[b] \/ b = e
  BY <1>1 DEF Finish, Release, TypeOK
<1>3. /\ pc[s] # "wait" /\ pc'[s] = "wait"
      /\ \A t \in Streams \ {s} : pc'[t] = pc[t] /\ mybuf'[t] = mybuf[t]
      /\ ring' = ring /\ rbuf' = rbuf
  BY DEF Finish, TypeOK, recvvars
<1>4. \A t \in Streams : Used(t)' = Used(t)
  BY DEF Still
<1>5. \A t \in Streams \ {s} : pc[t] # "wait" => mybuf[t] # e
  BY <1>3 DEF Owned, BusyDistinct
<1>6. \A t \in Streams : \A i \in Used(t) : ring[t][i] # e
  BY <1>3 DEF Owned, RingNotBusy
<1> HIDE DEF e
<1>7. BusyOwned' /\ BusyDistinct'
  BY <1>2, <1>3, <1>5 DEF Owned, BusyOwned, BusyDistinct, Places
<1>8. RingOwned' /\ RingDistinct' /\ RingNotBusy'
  BY <1>2, <1>3, <1>4, <1>6 DEF Owned, RingOwned, RingDistinct, RingNotBusy
<1>9. \A b \in Buffers : InRing(b)' <=> InRing(b)
  BY <1>3, <1>4 DEF InRing
<1>10. \A b \in Buffers : InWork(b) => b = e \/ InWork(b)'
  BY <1>3 DEF InWork, e
<1>11. NoneLost'
  BY <1>2, <1>3, <1>9, <1>10 DEF Owned, NoneLost
<1>12. ReaderOwned'
  BY <1>1, <1>2, <1>3 DEF Owned, ReaderOwned
<1> QED
  BY <1>7, <1>8, <1>11, <1>12 DEF Owned

LEMMA MarkOwned ==
  ASSUME TypeOK, Places, Taken, Counted, Still, Mark
  PROVE  Owned'
<1>1. \A s \in Streams : pc[s] = "wait" /\ sem[s] = 0
  BY DEF Mark, Taken, Idle
<1>2. \A s \in Streams : Used(s) = {}
  <2> TAKE s \in Streams
  <2>1. Dist(First(s), inptr[s], Size[s]) = 0
    BY <1>1 DEF Counted, Length
  <2> QED
    BY <2>1, Ends, SpanEmpty DEF Used
<1>3. \A s \in Streams : Used(s)' = {} /\ pc'[s] = "wait"
  BY <1>1, <1>2 DEF Still, Mark, procvars
<1>4. rbuf' \notin Buffers /\ \A b \in Buffers : free'[b]
  BY StreamAssumption DEF Mark
<1> QED
  BY <1>3, <1>4 DEF Owned, BusyOwned, RingOwned, RingDistinct, RingNotBusy, BusyDistinct,
                    ReaderOwned, NoneLost

LEMMA OwnedInit == Init => Owned
<1> SUFFICES ASSUME Init PROVE Owned
  OBVIOUS
<1>1. \A s \in Streams : Used(s) = {} /\ pc[s] = "wait"
  <2> TAKE s \in Streams
  <2>1. 0 \in 0..(Size[s] - 1) /\ Size[s] \in Nat
    BY StreamAssumption
  <2> QED
    BY <2>1, SpanEmpty DEF Init, Used, First
<1>2. rbuf \notin Buffers /\ \A b \in Buffers : free[b]
  BY StreamAssumption DEF Init
<1> QED
  BY <1>1, <1>2 DEF Owned, BusyOwned, RingOwned, RingDistinct, RingNotBusy, BusyDistinct,
                    ReaderOwned, NoneLost

LEMMA OwnedStep ==
  ASSUME TypeOK, Places, Counted, Taken, clean', Owned, [Next]_vars
  PROVE  Owned'
<1>1. CASE Post
  BY <1>1, PostOwned
<1>2. ASSUME NEW s \in Streams, Take(s) PROVE Owned'
  BY <1>2, TakeOwned
<1>3. ASSUME Next, ~Post, \A s \in Streams : ~Take(s) PROVE Owned'
  <2>1. Still
    BY <1>3, OtherRings
  <2>2. CASE Get
    BY <2>1, <2>2, GetOwned
  <2>3. CASE Nothing \/ PostStopped \/ PostSkip \/ PostOverflow
    <3>1. rbuf \in Buffers /\ Release(rbuf) /\ rbuf' = None /\ ring' = ring
          /\ pc' = pc /\ mybuf' = mybuf
      BY <2>3 DEF Nothing, PostStopped, PostSkip, PostOverflow, Drop, Places, procvars
    <3> QED
      BY <2>1, <3>1, DropOwned
  <2>4. ASSUME ring' = ring, pc' = pc, mybuf' = mybuf, free' = free, rbuf' = rbuf
        PROVE  Owned'
    BY <2>1, <2>4, SameOwned
  <2>5. CASE Leave \/ (\E s \in Streams, p \in Packets : Arrive(s, p)) \/ RecvFails
             \/ MenuStop \/ Join \/ Reset
    BY <2>4, <2>5 DEF Leave, Arrive, RecvFails, MenuStop, Join, Reset,
                      procvars, poolvars, recvvars
  <2>6. CASE Mark
    BY <2>1, <2>6, MarkOwned
  <2>7. ASSUME NEW s \in Streams, Advance(s) \/ Check(s) PROVE Owned'
    BY <2>1, <2>7, KeepOwned
  <2>8. ASSUME NEW s \in Streams, Finish(s) PROVE Owned'
    BY <2>1, <2>8, FinishOwned
  <2> QED
    BY <1>3, <2>2, <2>3, <2>5, <2>6, <2>7, <2>8 DEF Next, Read, Handled, Main, Proc
<1>4. CASE UNCHANGED vars
  <2>1. UNCHANGED <<ring, pc, mybuf, free, rbuf, inptr, outptr, nptr>>
    BY <1>4 DEF vars, recvvars, poolvars, procvars
  <2>2. Still
    BY <2>1, SameRing DEF Still, First
  <2> QED
    BY <2>1, <2>2, SameOwned
<1> QED
  BY <1>1, <1>2, <1>3, <1>4

LEMMA FreshOwned ==
  ASSUME TypeOK, Places, [Next]_vars, ~clean, clean'
  PROVE  Owned'
<1>1. Mark /\ \A s \in Streams : Used(s)' = {} /\ pc'[s] = "wait"
  BY Fresh
<1>2. rbuf' \notin Buffers /\ \A b \in Buffers : free'[b]
  BY <1>1, StreamAssumption DEF Mark
<1> QED
  BY <1>1, <1>2 DEF Owned, BusyOwned, RingOwned, RingDistinct, RingNotBusy, BusyDistinct,
                    ReaderOwned, NoneLost

OwnedInv == CountInv /\ (clean => Owned)

LEMMA OwnedInvStep == OwnedInv /\ [Next]_vars => OwnedInv'
<1> SUFFICES ASSUME OwnedInv, [Next]_vars PROVE OwnedInv'
  OBVIOUS
<1>1. CountInv'
  BY CountInvStep DEF OwnedInv
<1>2. ASSUME clean, clean' PROVE Owned'
  BY <1>2, OwnedStep DEF OwnedInv, CountInv
<1>3. ASSUME ~clean, clean' PROVE Owned'
  BY <1>3, FreshOwned DEF OwnedInv, CountInv
<1> QED
  BY <1>1, <1>2, <1>3 DEF OwnedInv

\* The reading thread never writes to a packet that waits or is processed, no
\* packet is processed by two threads, and no buffer is lost from the pool, for any
\* streams, rings and pool, unless the protocol was restarted in the middle of the
\* work and not yet at rest.
THEOREM BuffersOwned == Spec => []OneOwner
<1>1. Init => OwnedInv
  BY TypeInit, CountInit, OwnedInit DEF OwnedInv, CountInv
<1>2. OwnedInv => OneOwner
  <2>1. clean /\ OwnedInv => OneOwner
    BY OwnedIsOneOwner DEF OwnedInv, CountInv
  <2>2. ~clean => OneOwner
    BY DEF OneOwner
  <2> QED
    BY <2>1, <2>2
<1> QED
  BY <1>1, <1>2, OwnedInvStep, PTL DEF Spec
-----------------------------------------------------------------------------
(* The pool *)

LEMMA FiniteSlots == IsFiniteSet(RingSlots)
<1>1. IsFiniteSet(Slots)
  BY StreamAssumption, FS_Interval DEF Slots
<1>2. IsFiniteSet(Streams \X Slots)
  BY <1>1, PoolAssumption, FS_Product
<1> QED
  BY <1>2, FS_Subset DEF RingSlots

\* The buffer for which a slot counts: the one it holds, or, at the slot that is
\* written next, the one that is processed.  Such a slot is never in use.
Serves(p, b) ==
  LET s == p[1]
      i == p[2]
  IN  IF i \in Used(s) THEN ring[s][i] = b ELSE i = inptr[s] /\ mybuf[s] = b

LEMMA OneBufferPerSlot ==
  ASSUME NEW p, NEW b, NEW c, Serves(p, b), Serves(p, c)
  PROVE  b = c
BY DEF Serves

\* A buffer that is not free has a slot while the reading thread holds none.
LEMMA SlotOfBuffer ==
  ASSUME TypeOK, Places, clean, OneOwner, recv = "top", NEW b \in Buffers, ~free[b]
  PROVE  \E p \in RingSlots : Serves(p, b)
<1> USE StreamAssumption
<1>1. b # rbuf
  BY DEF Places
<1>2. PICK s \in Streams : b \in Processed(s) \cup Queued(s)
  BY <1>1 DEF OneOwner
<1>3. CASE b \in Queued(s)
  <2>1. PICK i \in Used(s) : ring[s][i] = b
    BY <1>3 DEF Queued
  <2>2. i \in Slots /\ i < Size[s]
    BY <2>1 DEF Used, Span, Slots
  <2>3. <<s, i>> \in RingSlots
    BY <2>2 DEF RingSlots
  <2> QED
    BY <2>1, <2>3 DEF Serves
<1>4. CASE b \in Processed(s)
  <2>1. mybuf[s] = b
    BY <1>4 DEF Processed
  <2>2. inptr[s] \in Slots /\ inptr[s] < Size[s]
    BY DEF TypeOK, Places
  <2>3. inptr[s] \notin Used(s)
    BY <2>2 DEF Used, Span, Slots
  <2>4. <<s, inptr[s]>> \in RingSlots
    BY <2>2 DEF RingSlots
  <2> QED
    BY <2>1, <2>3, <2>4 DEF Serves
<1> QED
  BY <1>2, <1>3, <1>4

\* A list without a free buffer has no more buffers than the rings have slots.
LEMMA SlotsBound ==
  ASSUME TypeOK, Places, OneOwner
  PROVE  PoolSuffices
<1> SUFFICES ASSUME NEW l \in Lists, Len(l) > Cardinality(RingSlots), clean, recv = "top",
                    \A i \in DOMAIN l : ~free[l[i]]
             PROVE  FALSE
  BY StreamAssumption DEF PoolSuffices
<1> DEFINE f == [i \in 1..Len(l) |-> CHOOSE p \in RingSlots : Serves(p, l[i])]
<1>1. Len(l) \in Nat /\ DOMAIN l = 1..Len(l) /\ \A i \in 1..Len(l) : l[i] \in Buffers
  BY StreamAssumption
<1>2. \A i \in 1..Len(l) : f[i] \in RingSlots /\ Serves(f[i], l[i])
  BY <1>1, SlotOfBuffer
<1>3. IsFiniteSet(1..Len(l)) /\ Cardinality(1..Len(l)) = Len(l)
  <2> DEFINE n == Len(l)
  <2>1. n \in Nat
    BY <1>1
  <2> HIDE DEF n
  <2>2. IsFiniteSet(1..n) /\ Cardinality(1..n) = IF 1 > n THEN 0 ELSE n - 1 + 1
    BY <2>1, FS_Interval
  <2>3. Cardinality(1..n) = n
    BY <2>1, <2>2
  <2> QED
    BY <2>2, <2>3 DEF n
<1>4. Cardinality(RingSlots) < Cardinality(1..Len(l))
  BY <1>1, <1>3, FiniteSlots, FS_CardinalityType
<1>5. f \in [1..Len(l) -> RingSlots]
  BY <1>2
<1> HIDE DEF f
<1>6. PICK x, y \in 1..Len(l) : x # y /\ f[x] = f[y]
  BY <1>3, <1>4, <1>5, FiniteSlots, FS_PigeonHole
<1>7. l[x] = l[y]
  BY <1>2, <1>6, OneBufferPerSlot
<1> QED
  BY <1>1, <1>6, <1>7, PoolAssumption

\* The reading thread finds a free buffer: the sibling lists of buffer.c grow to
\* one buffer more than the rings of all streams have slots, and no further, since
\* the last restart at rest.
THEOREM PoolStopsGrowing == Spec => []PoolSuffices
<1>1. TypeOK /\ Places /\ OneOwner => PoolSuffices
  BY SlotsBound
<1>2. Init => TypeOK /\ Places
  BY TypeInit
<1>3. TypeOK /\ Places /\ [Next]_vars => TypeOK' /\ Places'
  BY TypeStep
<1> QED
  BY <1>1, <1>2, <1>3, BuffersOwned, PTL DEF Spec
-----------------------------------------------------------------------------
(* The rings implement the queues *)

\* The i-th waiting packet is in a used slot; a new one is put behind the last,
\* and without the first all the others move up.
LEMMA SlotsInOrder ==
  ASSUME NEW k \in Nat, NEW f \in 0..(k - 1), NEW n \in 0..(k - 1)
  PROVE  /\ \A i \in 1..Dist(f, n, k) : Slot(f, i, k) \in Span(f, n, k)
         /\ Slot(f, Dist(f, n, k) + 1, k) = n
         /\ \A i \in 1..(Dist(f, n, k) - 1) : Slot(After(f, k), i, k) = Slot(f, i + 1, k)
         /\ Dist(f, n, k) <= k - 1
         /\ Slot(f, 1, k) = f
<1>1. \A i \in 1..Dist(f, n, k) : Slot(f, i, k) \in Span(f, n, k)
  BY DEF Slot, Span, Dist
<1>2. Slot(f, Dist(f, n, k) + 1, k) = n
  BY DEF Slot, Dist
<1>3. \A i \in 1..(Dist(f, n, k) - 1) : Slot(After(f, k), i, k) = Slot(f, i + 1, k)
  BY DEF Slot, Dist, After
<1>4. Dist(f, n, k) <= k - 1 /\ Slot(f, 1, k) = f
  BY DEF Dist, Slot
<1> QED
  BY <1>1, <1>2, <1>3, <1>4

\* Whatever is queued or processed has been received.
Received ==
  /\ recv = "post" => data[rbuf] \in Packets
  /\ \A s \in Streams : \A i \in Used(s) : data[ring[s][i]] \in Packets
  /\ \A s \in Streams : pc[s] # "wait" => data[mybuf[s]] \in Packets

Inv == TypeOK /\ Places /\ Counted /\ Taken /\ Owned /\ Received

IInv == OwnedInv /\ (clean => Received)

LEMMA InvWhileClean == IInv /\ clean => Inv
BY DEF IInv, OwnedInv, CountInv, Inv

\* What a step does to the queue of a stream depends on its ring only.
LEMMA WaitingSame ==
  ASSUME TypeOK, Places, NEW s \in Streams, First(s)' = First(s), Length(s)' = Length(s),
         \A i \in Used(s) : data'[ring'[s][i]] = data[ring[s][i]]
  PROVE  Waiting(s)' = Waiting(s)
<1>1. \A i \in 1..Length(s) : Slot(First(s), i, Size[s]) \in Used(s)
  BY Ends, SlotsInOrder DEF Used, Length
<1> QED
  BY <1>1 DEF Waiting

LEMMA WaitingTyped ==
  ASSUME Inv, NEW s \in Streams
  PROVE  /\ Waiting(s) \in Seq(Packets)
         /\ Length(s) \in Nat
         /\ Len(Waiting(s)) = Length(s)
<1>1. \A i \in 1..Length(s) : Slot(First(s), i, Size[s]) \in Used(s)
  BY Ends, SlotsInOrder DEF Used, Length, Inv
<1>2. \A i \in 1..Length(s) : data[ring[s][Slot(First(s), i, Size[s])]] \in Packets
  BY <1>1 DEF Inv, Received
<1>3. Length(s) \in Nat
  BY Ends, SpanEmpty DEF Length, Inv
<1>4. Waiting(s) \in [1..Length(s) -> Packets]
  BY <1>2 DEF Waiting
<1> QED
  BY <1>3, <1>4

\* Post appends the packet that was read.
LEMMA PostAppends ==
  ASSUME Inv, Post, NEW q \in Streams, q = port
  PROVE  /\ Waiting(q)' = Append(Waiting(q), data[rbuf])
         /\ Len(Waiting(q)) < Size[q] - 1
         /\ \A t \in Streams \ {q} : Waiting(t)' = Waiting(t)
         /\ \A t \in Streams : Current(t)' = Current(t)
<1> USE DEF Inv
<1>1. /\ inptr[q] \notin Used(q) /\ inptr[q] \in Slots
      /\ Length(q)' = Length(q) + 1
      /\ \A t \in Streams \ {q} : Used(t)' = Used(t) /\ Length(t)' = Length(t)
  BY PostRing
<1>2. /\ ring'[q][inptr[q]] = rbuf
      /\ \A i \in Slots \ {inptr[q]} : ring'[q][i] = ring[q][i]
      /\ \A t \in Streams \ {q} : ring'[t] = ring[t]
      /\ data' = data
  BY <1>1 DEF Post, TypeOK, poolvars
<1>3. \A t \in Streams : First(t)' = First(t)
  BY DEF First, Post, procvars
<1>4. Used(q) \subseteq Slots
  BY UsedSlots
<1>5. \A i \in 1..Length(q) : Slot(First(q), i, Size[q]) \in Used(q)
  BY Ends, SlotsInOrder DEF Used, Length
<1>6. Slot(First(q), Length(q) + 1, Size[q]) = inptr[q]
  BY Ends, SlotsInOrder DEF Length
<1>7. Length(q) \in Nat /\ Len(Waiting(q)) = Length(q) /\ Waiting(q) \in Seq(Packets)
  BY WaitingTyped
<1>8. Waiting(q)' = [i \in 1..(Length(q) + 1) |-> data[ring'[q][Slot(First(q), i, Size[q])]]]
  BY <1>1, <1>2, <1>3 DEF Waiting
<1>9. Append(Waiting(q), data[rbuf])
        = [i \in 1..(Length(q) + 1) |-> IF i <= Length(q) THEN Waiting(q)[i] ELSE data[rbuf]]
  BY <1>7
<1>10. \A i \in 1..(Length(q) + 1) :
         data[ring'[q][Slot(First(q), i, Size[q])]]
           = IF i <= Length(q) THEN Waiting(q)[i] ELSE data[rbuf]
  <2> TAKE i \in 1..(Length(q) + 1)
  <2>1. CASE i <= Length(q)
    <3>1. i \in 1..Length(q)
      BY <2>1, <1>7
    <3>2. ring'[q][Slot(First(q), i, Size[q])] = ring[q][Slot(First(q), i, Size[q])]
      BY <3>1, <1>1, <1>2, <1>4, <1>5
    <3> QED
      BY <2>1, <3>1, <3>2 DEF Waiting
  <2>2. CASE ~(i <= Length(q))
    <3>1. i = Length(q) + 1
      BY <2>2, <1>7
    <3> QED
      BY <2>2, <3>1, <1>2, <1>6
  <2> QED
    BY <2>1, <2>2
<1>11. Waiting(q)' = Append(Waiting(q), data[rbuf])
  BY <1>8, <1>9, <1>10
<1>12. Len(Waiting(q)) < Size[q] - 1
  <2>1. Length(q)' <= Size[q] - 1
    <3>1. TypeOK' /\ Places'
      BY TypeStep DEF Next, Read, Handled
    <3>2. Size[q] \in Nat /\ inptr'[q] \in 0..(Size[q] - 1) /\ First(q)' \in 0..(Size[q] - 1)
      <4>1. inptr'[q] \in Slots /\ inptr'[q] < Size[q]
        BY <3>1 DEF TypeOK, Places
      <4> QED
        BY <4>1, <1>3, Ends DEF Slots
    <3> QED
      BY <3>2, SlotsInOrder DEF Length
  <2> QED
    BY <2>1, <1>1, <1>7, Ends
<1>13. \A t \in Streams \ {q} : Waiting(t)' = Waiting(t)
  BY <1>1, <1>2, <1>3, WaitingSame
<1>14. \A t \in Streams : Current(t)' = Current(t)
  BY <1>2 DEF Current, Post, procvars
<1> QED
  BY <1>11, <1>12, <1>13, <1>14

\* Take removes the oldest packet.
LEMMA TakeRemoves ==
  ASSUME Inv, NEW s \in Streams, Take(s)
  PROVE  /\ Waiting(s) # << >>
         /\ Waiting(s)' = Tail(Waiting(s))
         /\ Current(s) = None
         /\ Current(s)' = Head(Waiting(s))
         /\ \A t \in Streams \ {s} : Waiting(t)' = Waiting(t) /\ Current(t)' = Current(t)
<1> USE DEF Inv
<1>1. /\ outptr[s] \in Used(s)
      /\ Used(s)' = Used(s) \ {outptr[s]}
      /\ Length(s)' = Length(s) - 1
      /\ \A t \in Streams \ {s} : Used(t)' = Used(t) /\ Length(t)' = Length(t)
  BY TakeRing
<1>2. First(s) = outptr[s] /\ First(s)' = After(outptr[s], Size[s])
  <2>1. First(s) = outptr[s] /\ First(s)' = Succ(s, outptr[s])
    BY DEF First, Take, TypeOK
  <2> QED
    BY <2>1, SuccInSlots DEF TypeOK, Places
<1>3. /\ \A t \in Streams \ {s} : ring'[t] = ring[t] /\ First(t)' = First(t)
      /\ \A i \in Slots \ {outptr[s]} : ring'[s][i] = ring[s][i]
      /\ data' = data
  BY DEF Take, TypeOK, First, poolvars
<1>4. Length(s) \in Nat /\ Length(s) > 0 /\ Len(Waiting(s)) = Length(s) /\ Waiting(s) \in Seq(Packets)
  BY WaitingTyped DEF Counted, Take
<1>5. \A i \in 1..(Length(s) - 1) :
        Slot(After(outptr[s], Size[s]), i, Size[s]) = Slot(outptr[s], i + 1, Size[s])
  BY <1>2, Ends, SlotsInOrder DEF Length
<1>6. \A i \in 1..(Length(s) - 1) :
        Slot(After(outptr[s], Size[s]), i, Size[s]) \in Slots \ {outptr[s]}
  <2> TAKE i \in 1..(Length(s) - 1)
  <2>1. i + 1 \in 1..Length(s) /\ i + 1 # 1
    BY <1>4
  <2>2. Slot(outptr[s], i + 1, Size[s]) \in Used(s)
    BY <2>1, <1>2, Ends, SlotsInOrder DEF Used, Length
  <2>3. Slot(outptr[s], i + 1, Size[s]) # outptr[s]
    <3>1. Length(s) <= Size[s] - 1
      BY Ends, SlotsInOrder DEF Length
    <3> QED
      BY <3>1, <2>1, <1>4, Ends DEF Slot
  <2> QED
    BY <2>2, <2>3, <1>5, UsedSlots
<1>7. Waiting(s)' = [i \in 1..(Length(s) - 1) |->
                       data[ring[s][Slot(outptr[s], i + 1, Size[s])]]]
  <2>1. Waiting(s)' = [i \in 1..(Length(s) - 1) |->
                         data[ring'[s][Slot(After(outptr[s], Size[s]), i, Size[s])]]]
    BY <1>1, <1>2, <1>3 DEF Waiting
  <2>2. \A i \in 1..(Length(s) - 1) :
          ring'[s][Slot(After(outptr[s], Size[s]), i, Size[s])]
            = ring[s][Slot(outptr[s], i + 1, Size[s])]
    BY <1>3, <1>5, <1>6
  <2> QED
    BY <2>1, <2>2
<1>8. Tail(Waiting(s)) = [i \in 1..(Length(s) - 1) |-> Waiting(s)[i + 1]]
  <2>1. Waiting(s) # << >>
    BY <1>4
  <2>2. /\ Tail(Waiting(s)) \in Seq(Packets)
        /\ Len(Tail(Waiting(s))) = Length(s) - 1
    BY <2>1, <1>4
  <2>3. \A i \in 1..(Length(s) - 1) : Tail(Waiting(s))[i] = Waiting(s)[i + 1]
    BY <2>1, <2>2, <1>4
  <2>4. Tail(Waiting(s)) \in [1..(Length(s) - 1) -> Packets]
    BY <2>2, LenProperties
  <2> QED
    BY <2>3, <2>4
<1>9. \A i \in 1..(Length(s) - 1) :
        Waiting(s)[i + 1] = data[ring[s][Slot(outptr[s], i + 1, Size[s])]]
  BY <1>2, <1>4 DEF Waiting
<1>10. Waiting(s)' = Tail(Waiting(s))
  BY <1>7, <1>8, <1>9
<1>11. mybuf'[s] = ring[s][outptr[s]] /\ \A t \in Streams \ {s} : mybuf'[t] = mybuf[t] /\ pc'[t] = pc[t]
  <2>1. ring[s][outptr[s]] \in Buffers
    BY <1>1 DEF Owned, RingOwned
  <2> QED
    BY <2>1, StreamAssumption DEF Take, TypeOK
<1>12. Slot(outptr[s], 1, Size[s]) = outptr[s]
  BY Ends, SlotsInOrder
<1>13. Head(Waiting(s)) = data[ring[s][outptr[s]]] /\ Waiting(s) # << >>
  BY <1>2, <1>4, <1>12 DEF Waiting
<1>14. Current(s) = None /\ Current(s)' = data[ring[s][outptr[s]]]
  BY <1>3, <1>11 DEF Current, Take, TypeOK
<1>15. \A t \in Streams \ {s} : Waiting(t)' = Waiting(t) /\ Current(t)' = Current(t)
  BY <1>1, <1>3, <1>11, WaitingSame DEF Current
<1> QED
  BY <1>10, <1>13, <1>14, <1>15

\* In the other steps no packet that is queued or processed is touched.
Untouched == \A s \in Streams : Waiting(s)' = Waiting(s) /\ Current(s)' = Current(s)

LEMMA ReaderTouchesNone ==
  ASSUME Inv, Still, NEW b, b \notin Buffers \/ b = rbuf \/ free[b],
         NEW x, data' = [data EXCEPT ![b] = x],
         ring' = ring, pc' = pc, mybuf' = mybuf, nptr' = nptr, outptr' = outptr
  PROVE  Untouched
<1> USE DEF Inv
<1>1. \A c \in Buffers : c # b => data'[c] = data[c]
  BY DEF TypeOK
<1>2. \A s \in Streams : \A i \in Used(s) : data'[ring[s][i]] = data[ring[s][i]]
  BY <1>1 DEF Owned, RingOwned
<1>3. \A s \in Streams : pc[s] # "wait" => data'[mybuf[s]] = data[mybuf[s]]
  BY <1>1 DEF Owned, BusyOwned, Places
<1>4. \A s \in Streams : First(s)' = First(s) /\ Length(s)' = Length(s)
  BY DEF Still, First
<1>5. \A s \in Streams : Waiting(s)' = Waiting(s)
  BY <1>2, <1>4, WaitingSame
<1> QED
  BY <1>3, <1>5 DEF Untouched, Current

\* An empty ring holds the empty sequence, wherever its pointers are.
LEMMA EmptyWaiting ==
  ASSUME NEW s \in Streams, Length(s) = 0
  PROVE  Waiting(s) = << >>
BY DEF Waiting

LEMMA IdleWaiting ==
  ASSUME Inv, Still, pc' = pc, \A s \in Streams : Idle(s)
  PROVE  Untouched
<1>1. \A s \in Streams : Length(s) = 0 /\ Length(s)' = 0 /\ pc[s] = "wait"
  BY DEF Inv, Counted, Idle, Still
<1>2. \A s \in Streams : Waiting(s) = << >> /\ Waiting(s)' = << >>
  BY <1>1 DEF Waiting
<1> QED
  BY <1>1, <1>2 DEF Untouched, Current

LEMMA FinishEnds ==
  ASSUME Inv, Still, NEW s \in Streams, Finish(s)
  PROVE  /\ \A t \in Streams : Waiting(t)' = Waiting(t)
         /\ Current(s) # None /\ Current(s)' = None
         /\ \A t \in Streams \ {s} : Current(t)' = Current(t)
<1> USE DEF Inv
<1>1. mybuf[s] \in Buffers /\ pc[s] = "busy" /\ data[mybuf[s]] \in Packets
  BY DEF Finish, Places, Received
<1>2. \A c \in Buffers : c # mybuf[s] => data'[c] = data[c]
  BY DEF Finish, Release, TypeOK
<1>3. /\ \A t \in Streams \ {s} : pc'[t] = pc[t] /\ mybuf'[t] = mybuf[t]
      /\ pc'[s] = "wait" /\ ring' = ring /\ nptr' = nptr /\ outptr' = outptr
  BY DEF Finish, TypeOK
<1>4. \A t \in Streams : \A i \in Used(t) : data'[ring[t][i]] = data[ring[t][i]]
  BY <1>1, <1>2 DEF Owned, RingOwned, RingNotBusy
<1>5. \A t \in Streams : First(t)' = First(t) /\ Length(t)' = Length(t)
  BY <1>1, <1>3 DEF Still, First
<1>6. \A t \in Streams : Waiting(t)' = Waiting(t)
  BY <1>3, <1>4, <1>5, WaitingSame
<1>7. \A t \in Streams \ {s} : pc[t] # "wait" => mybuf[t] \in Buffers /\ mybuf[t] # mybuf[s]
  BY <1>1 DEF Owned, BusyDistinct, Places
<1>8. \A t \in Streams \ {s} : Current(t)' = Current(t)
  BY <1>2, <1>3, <1>7 DEF Current
<1>9. Current(s) # None /\ Current(s)' = None
  BY <1>1, <1>3, StreamAssumption DEF Current
<1> QED
  BY <1>6, <1>8, <1>9

LEMMA ThreadGoesOn ==
  ASSUME Inv, Still, NEW s \in Streams, Advance(s) \/ Check(s)
  PROVE  Untouched
<1> USE DEF Inv
<1>1. /\ pc[s] # "wait" /\ pc'[s] # "wait" /\ \A t \in Streams \ {s} : pc'[t] = pc[t]
      /\ mybuf' = mybuf /\ ring' = ring /\ data' = data
      /\ \A t \in Streams : First(t)' = First(t)
  <2>1. CASE Advance(s)
    BY <2>1 DEF Advance, TypeOK, poolvars, First
  <2>2. CASE Check(s)
    <3>1. ~free[mybuf[s]]
      BY <2>2 DEF Check, Owned, BusyOwned
    <3> QED
      BY <2>2, <3>1 DEF Check, TypeOK, poolvars, First
  <2> QED
    BY <2>1, <2>2
<1>2. \A t \in Streams : Waiting(t)' = Waiting(t)
  BY <1>1, WaitingSame DEF Still
<1>3. \A t \in Streams : Current(t)' = Current(t)
  BY <1>1 DEF Current
<1> QED
  BY <1>2, <1>3 DEF Untouched

LEMMA ReceivedSame ==
  ASSUME TypeOK, Places, Owned, Received, Still, NEW b, b \notin Buffers \/ b = rbuf \/ free[b],
         NEW x, data' = [data EXCEPT ![b] = x], ring' = ring, pc' = pc, mybuf' = mybuf,
         recv' = "post" => data'[rbuf'] \in Packets
  PROVE  Received'
<1>1. \A c \in Buffers : c # b => data'[c] = data[c]
  BY DEF TypeOK
<1>2. \A s \in Streams : \A i \in Used(s) : data'[ring[s][i]] = data[ring[s][i]]
  BY <1>1 DEF Owned, RingOwned
<1>3. \A s \in Streams : pc[s] # "wait" => data'[mybuf[s]] = data[mybuf[s]]
  BY <1>1 DEF Owned, BusyOwned, Places
<1> QED
  BY <1>2, <1>3 DEF Received, Still

\* A step that leaves the contents of the buffers alone.
LEMMA ReceivedStill ==
  ASSUME Received, Still, data' = data, ring' = ring,
         \A s \in Streams : pc'[s] # "wait" => pc[s] # "wait" /\ mybuf'[s] = mybuf[s],
         recv' = "post" => recv = "post" /\ rbuf' = rbuf
  PROVE  Received'
BY DEF Received, Still

LEMMA ReceivedStep ==
  ASSUME Inv, clean', [Next]_vars
  PROVE  Received'
<1> USE DEF Inv
<1>1. CASE Post
  <2>1. PICK q \in Streams : q = port
    BY <1>1 DEF Post, Places
  <2>2. /\ inptr[q] \notin Used(q) /\ inptr[q] \in Slots
        /\ Used(q)' = Used(q) \cup {inptr[q]}
        /\ \A t \in Streams \ {q} : Used(t)' = Used(t)
    BY <1>1, <2>1, PostRing
  <2>3. /\ ring'[q][inptr[q]] = rbuf
        /\ \A i \in Slots \ {inptr[q]} : ring'[q][i] = ring[q][i]
        /\ \A t \in Streams \ {q} : ring'[t] = ring[t]
    BY <1>1, <2>1, <2>2 DEF Post, TypeOK
  <2>4. data' = data /\ pc' = pc /\ mybuf' = mybuf /\ recv' = "top" /\ data[rbuf] \in Packets
    BY <1>1 DEF Post, poolvars, procvars, Received
  <2>5. Used(q) \subseteq Slots
    BY UsedSlots
  <2> QED
    BY <2>2, <2>3, <2>4, <2>5 DEF Received
<1>2. ASSUME NEW s \in Streams, Take(s) PROVE Received'
  <2>1. /\ outptr[s] \in Used(s)
        /\ Used(s)' = Used(s) \ {outptr[s]}
        /\ \A t \in Streams \ {s} : Used(t)' = Used(t)
    BY <1>2, TakeRing
  <2>2. ring[s][outptr[s]] \in Buffers /\ data[ring[s][outptr[s]]] \in Packets
    BY <2>1 DEF Owned, RingOwned, Received
  <2>3. /\ mybuf'[s] = ring[s][outptr[s]]
        /\ \A t \in Streams \ {s} : mybuf'[t] = mybuf[t] /\ pc'[t] = pc[t]
    BY <1>2, <2>2, StreamAssumption DEF Take, TypeOK
  <2>4. Used(s) \subseteq Slots
    BY UsedSlots
  <2>5. /\ \A t \in Streams \ {s} : ring'[t] = ring[t]
        /\ \A i \in Slots \ {outptr[s]} : ring'[s][i] = ring[s][i]
        /\ data' = data /\ recv' = recv /\ rbuf' = rbuf
    BY <1>2 DEF Take, TypeOK, poolvars, recvvars
  <2> QED
    BY <2>1, <2>2, <2>3, <2>4, <2>5 DEF Received
<1>3. ASSUME Next, ~Post, \A s \in Streams : ~Take(s) PROVE Received'
  <2>1. Still
    BY <1>3, OtherRings
  <2>2. CASE Nothing \/ PostStopped \/ PostSkip \/ PostOverflow
    <3>1. /\ data' = [data EXCEPT ![rbuf] = None] /\ recv' # "post"
          /\ ring' = ring /\ pc' = pc /\ mybuf' = mybuf
      BY <2>2 DEF Nothing, PostStopped, PostSkip, PostOverflow, Drop, Release, procvars
    <3> QED
      BY <2>1, <3>1, ReceivedSame
  <2>3. ASSUME NEW s \in Streams, NEW p \in Packets, Arrive(s, p) PROVE Received'
    <3>1. /\ data' = [data EXCEPT ![rbuf] = p] /\ rbuf' = rbuf /\ rbuf \in Buffers
          /\ ring' = ring /\ pc' = pc /\ mybuf' = mybuf
      BY <2>3 DEF Arrive, procvars, Places
    <3>2. data'[rbuf'] \in Packets
      BY <3>1 DEF TypeOK
    <3> QED
      BY <2>1, <3>1, <3>2, ReceivedSame
  <2>4. CASE Get \/ Leave \/ RecvFails \/ MenuStop \/ Join \/ Reset
    BY <2>1, <2>4, ReceivedStill DEF Get, Leave, RecvFails, MenuStop, Join, Reset,
                                     procvars, poolvars, recvvars
  <2>5. CASE Mark
    <3>1. \A s \in Streams : pc'[s] = "wait" /\ Length(s) = 0
      BY <2>5 DEF Mark, Taken, Idle, procvars, Counted
    <3>2. \A s \in Streams : Used(s)' = {}
      <4> TAKE s \in Streams
      <4>1. Dist(First(s), inptr[s], Size[s]) = 0
        BY <3>1 DEF Length
      <4> QED
        BY <4>1, <2>1, Ends, SpanEmpty DEF Used, Still
    <3> QED
      BY <2>5, <3>1, <3>2 DEF Mark, Received
  <2>6. ASSUME NEW s \in Streams, Advance(s) \/ Check(s) PROVE Received'
    <3>1. /\ pc[s] # "wait" /\ \A t \in Streams \ {s} : pc'[t] = pc[t]
          /\ mybuf' = mybuf /\ ring' = ring /\ data' = data /\ recv' = recv /\ rbuf' = rbuf
      BY <2>6 DEF Advance, Check, TypeOK, poolvars, recvvars
    <3> QED
      BY <2>1, <3>1, ReceivedStill
  <2>7. ASSUME NEW s \in Streams, Finish(s) PROVE Received'
    <3>1. mybuf[s] \in Buffers /\ pc[s] = "busy" /\ mybuf[s] # rbuf
      BY <2>7 DEF Finish, Places, Owned, BusyOwned
    <3>2. \A c \in Buffers : c # mybuf[s] => data'[c] = data[c]
      BY <2>7 DEF Finish, Release, TypeOK
    <3>3. /\ \A t \in Streams \ {s} : pc'[t] = pc[t] /\ mybuf'[t] = mybuf[t]
          /\ pc'[s] = "wait" /\ ring' = ring /\ recv' = recv /\ rbuf' = rbuf
      BY <2>7 DEF Finish, TypeOK, recvvars
    <3>4. \A t \in Streams : \A i \in Used(t) : data'[ring[t][i]] = data[ring[t][i]]
      BY <3>1, <3>2 DEF Owned, RingOwned, RingNotBusy
    <3>5. \A t \in Streams \ {s} : pc[t] # "wait" => data'[mybuf[t]] = data[mybuf[t]]
      BY <3>1, <3>2 DEF Owned, BusyDistinct, Places
    <3>6. recv = "post" => data'[rbuf] = data[rbuf]
      BY <3>1, <3>2 DEF Places
    <3> QED
      BY <2>1, <3>3, <3>4, <3>5, <3>6 DEF Received, Still
  <2> QED
    BY <1>3, <2>2, <2>3, <2>4, <2>5, <2>6, <2>7 DEF Next, Read, Handled, Main, Proc
<1>4. CASE UNCHANGED vars
  <2>1. UNCHANGED <<ring, pc, mybuf, data, recv, rbuf, inptr, outptr, nptr>>
    BY <1>4 DEF vars, recvvars, poolvars, procvars
  <2>2. Still
    BY <2>1, SameRing DEF Still, First
  <2> QED
    BY <2>1, <2>2, ReceivedStill
<1> QED
  BY <1>1, <1>2, <1>3, <1>4

\* Every step of the rings is a step of the queues, or none.
LEMMA QueueStep ==
  ASSUME Inv, clean, clean', [Next]_vars
  PROVE  [Queue!Next]_(Queue!vars)
<1> USE DEF Inv
<1>a. /\ [s \in Streams |-> IF clean THEN Waiting(s) ELSE << >>] = [s \in Streams |-> Waiting(s)]
      /\ [s \in Streams |-> IF clean THEN Current(s) ELSE None] = [s \in Streams |-> Current(s)]
  OBVIOUS
<1>b. /\ [s \in Streams |-> IF clean THEN Waiting(s) ELSE << >>]' = [s \in Streams |-> Waiting(s)]'
      /\ [s \in Streams |-> IF clean THEN Current(s) ELSE None]' = [s \in Streams |-> Current(s)]'
  OBVIOUS
<1>1. CASE Post
  <2>1. PICK q \in Streams : q = port
    BY <1>1 DEF Post, Places, Inv
  <2>2. PICK p \in Packets : p = data[rbuf]
    BY <1>1 DEF Post, Received, Inv
  <2>3. /\ Waiting(q)' = Append(Waiting(q), p)
        /\ Len(Waiting(q)) < Size[q] - 1
        /\ \A t \in Streams \ {q} : Waiting(t)' = Waiting(t)
        /\ \A t \in Streams : Current(t)' = Current(t)
    BY <1>1, <2>1, <2>2, PostAppends
  <2>4. Queue!Arrive(q, p)
    BY <2>3, <1>a, <1>b DEF Queue!Arrive
  <2> QED
    BY <2>4 DEF Queue!Next
<1>2. ASSUME NEW s \in Streams, Take(s) PROVE [Queue!Next]_(Queue!vars)
  <2>1. /\ Waiting(s) # << >>
        /\ Waiting(s)' = Tail(Waiting(s))
        /\ Current(s) = None
        /\ Current(s)' = Head(Waiting(s))
        /\ \A t \in Streams \ {s} : Waiting(t)' = Waiting(t) /\ Current(t)' = Current(t)
    BY <1>2, TakeRemoves
  <2>2. Queue!Take(s)
    BY <2>1, <1>a, <1>b DEF Queue!Take
  <2> QED
    BY <2>2 DEF Queue!Next
<1>3. ASSUME Untouched PROVE [Queue!Next]_(Queue!vars)
  BY <1>3, <1>a, <1>b DEF Untouched, Queue!vars
<1>4. ASSUME Next, ~Post, \A s \in Streams : ~Take(s) PROVE [Queue!Next]_(Queue!vars)
  <2>1. Still
    BY <1>4, OtherRings DEF Inv
  <2>2. ASSUME NEW s \in Streams, Finish(s) PROVE [Queue!Next]_(Queue!vars)
    <3>1. /\ \A t \in Streams : Waiting(t)' = Waiting(t)
          /\ Current(s) # None /\ Current(s)' = None
          /\ \A t \in Streams \ {s} : Current(t)' = Current(t)
      BY <2>1, <2>2, FinishEnds
    <3>2. Queue!Done(s)
      <4>1. \A t \in Streams : Current(t)' = IF t = s THEN None ELSE Current(t)
        BY <3>1
      <4>2. [t \in Streams |-> Current(t)]' = [[t \in Streams |-> Current(t)] EXCEPT ![s] = None]
        BY ONLY <4>1, <2>2
      <4>3. [t \in Streams |-> Waiting(t)]' = [t \in Streams |-> Waiting(t)]
        BY <3>1
      <4> QED
        BY <3>1, <4>2, <4>3, <1>a, <1>b DEF Queue!Done
    <3> QED
      BY <3>2 DEF Queue!Next
  <2>3. ASSUME NEW s \in Streams, Advance(s) \/ Check(s) PROVE Untouched
    BY <2>1, <2>3, ThreadGoesOn
  <2>4. ASSUME Reset \/ Mark PROVE Untouched
    <3>1. pc' = pc /\ \A s \in Streams : Idle(s)
      BY <2>4 DEF Reset, Mark, Inv, Taken, Settled, procvars
    <3> QED
      BY <2>1, <3>1, IdleWaiting
  <2>5. ASSUME Nothing \/ PostStopped \/ PostSkip \/ PostOverflow PROVE Untouched
    <3>1. /\ data' = [data EXCEPT ![rbuf] = None] /\ nptr' = nptr /\ outptr' = outptr
          /\ ring' = ring /\ pc' = pc /\ mybuf' = mybuf
      BY <2>5 DEF Nothing, PostStopped, PostSkip, PostOverflow, Drop, Release, procvars
    <3> QED
      BY <2>1, <3>1, ReaderTouchesNone
  <2>6. ASSUME NEW s \in Streams, NEW p \in Packets, Arrive(s, p) PROVE Untouched
    <3>1. /\ data' = [data EXCEPT ![rbuf] = p] /\ nptr' = nptr /\ outptr' = outptr
          /\ ring' = ring /\ pc' = pc /\ mybuf' = mybuf
      BY <2>6 DEF Arrive, procvars
    <3> QED
      BY <2>1, <3>1, ReaderTouchesNone
  <2>7. ASSUME Get \/ Leave \/ RecvFails \/ MenuStop \/ Join PROVE Untouched
    <3>1. UNCHANGED <<data, nptr, outptr, ring, pc, mybuf>>
      BY <2>7 DEF Get, Leave, RecvFails, MenuStop, Join, procvars, poolvars
    <3>2. \A s \in Streams : First(s)' = First(s) /\ Length(s)' = Length(s)
      BY <2>1, <3>1 DEF Still, First
    <3> QED
      BY <3>1, <3>2 DEF Untouched, Waiting, Current
  <2> QED
    BY <1>3, <1>4, <2>2, <2>3, <2>4, <2>5, <2>6, <2>7 DEF Next, Read, Handled, Main, Proc
<1>5. CASE UNCHANGED vars
  <2>1. UNCHANGED <<data, ring, pc, mybuf, nptr, outptr, inptr>>
    BY <1>5 DEF vars, poolvars, procvars
  <2>2. Untouched
    BY <2>1 DEF Untouched, Waiting, Current, Length, First
  <2> QED
    BY <1>3, <2>2
<1> QED
  BY <1>1, <1>2, <1>4, <1>5

\* A restart at rest finds the queues empty and leaves them empty.
LEMMA QueueRenewed ==
  ASSUME TypeOK, Places, [Next]_vars, ~clean, clean'
  PROVE  Queue!Renew
<1>1. \A s \in Streams : Waiting(s)' = << >> /\ Current(s)' = None
  BY Fresh DEF Waiting, Current
<1>2. /\ [s \in Streams |-> IF clean THEN Waiting(s) ELSE << >>] = [s \in Streams |-> << >>]
      /\ [s \in Streams |-> IF clean THEN Current(s) ELSE None] = [s \in Streams |-> None]
  OBVIOUS
<1>3. /\ [s \in Streams |-> IF clean THEN Waiting(s) ELSE << >>]' = [s \in Streams |-> << >>]
      /\ [s \in Streams |-> IF clean THEN Current(s) ELSE None]' = [s \in Streams |-> None]
  BY <1>1
<1>4. clean' = TRUE
  BY TypeStep DEF TypeOK
<1> QED
  BY <1>2, <1>3, <1>4 DEF Queue!Renew

LEMMA FreshReceived ==
  ASSUME TypeOK, Places, [Next]_vars, ~clean, clean'
  PROVE  Received'
BY Fresh DEF Received, Mark

LEMMA IInvStep == IInv /\ [Next]_vars => IInv'
<1> SUFFICES ASSUME IInv, [Next]_vars PROVE IInv'
  OBVIOUS
<1>1. OwnedInv'
  BY OwnedInvStep DEF IInv
<1>2. ASSUME clean, clean' PROVE Received'
  BY <1>2, InvWhileClean, ReceivedStep
<1>3. ASSUME ~clean, clean' PROVE Received'
  BY <1>3, FreshReceived DEF IInv, OwnedInv, CountInv
<1> QED
  BY <1>1, <1>2, <1>3 DEF IInv

\* The same for all steps: those of a time when the promise is void are none.
LEMMA EveryStep ==
  ASSUME IInv, [Next]_vars
  PROVE  [Queue!Next]_(Queue!vars)
<1>1. TypeOK /\ Places /\ TypeOK'
  BY TypeStep DEF IInv, OwnedInv, CountInv
<1>2. CASE clean /\ clean'
  BY <1>2, InvWhileClean, QueueStep
<1>3. CASE ~clean /\ clean'
  BY <1>1, <1>3, QueueRenewed DEF Queue!Next
<1>4. CASE clean /\ ~clean'
  <2>1. clean = TRUE /\ clean' = FALSE
    BY <1>1, <1>4 DEF TypeOK
  <2>2. Queue!Nothing'
    BY <1>4 DEF Queue!Nothing
  <2>3. Queue!Void
    BY <2>1, <2>2 DEF Queue!Void
  <2> QED
    BY <2>3 DEF Queue!Next
<1>5. CASE ~clean /\ ~clean'
  <2>1. clean = FALSE /\ clean' = FALSE
    BY <1>1, <1>5 DEF TypeOK
  <2> QED
    BY <2>1 DEF Queue!vars
<1> QED
  BY <1>2, <1>3, <1>4, <1>5

LEMMA QueueInit == Init => Queue!Init /\ Received
<1> SUFFICES ASSUME Init PROVE Queue!Init /\ Received
  OBVIOUS
<1>1. \A s \in Streams : Length(s) = 0 /\ Used(s) = {} /\ pc[s] = "wait"
  <2> TAKE s \in Streams
  <2>1. 0 \in 0..(Size[s] - 1) /\ Size[s] \in Nat
    BY StreamAssumption
  <2> QED
    BY <2>1, SpanEmpty DEF Init, Used, Length, First
<1>2. \A s \in Streams : Waiting(s) = << >> /\ Current(s) = None
  BY <1>1, EmptyWaiting DEF Current
<1> QED
  BY <1>1, <1>2 DEF Queue!Init, Queue!Nothing, Received, Init

\* For any streams, ring lengths and pool, what the reading thread puts in a ring
\* comes out as from a first-in first-out queue, through overflows, errors and
\* restarts; but a restart in the middle of the work voids this until one at rest.
THEOREM RingsAreQueues == Spec => ImplementsQueue
<1>1. Init => IInv /\ Queue!Init
  BY TypeInit, CountInit, OwnedInit, QueueInit DEF IInv, OwnedInv, CountInv
<1>2. IInv /\ [Next]_vars => [Queue!Next]_(Queue!vars)
  BY EveryStep
<1> QED
  BY <1>1, <1>2, IInvStep, PTL DEF Spec, ImplementsQueue, Queue!Spec
=============================================================================
