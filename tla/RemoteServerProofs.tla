------------------------- MODULE RemoteServerProofs -------------------------
(***************************************************************************)
(* Proofs about RemoteServer: for any commands, any number of waiting      *)
(* callbacks and wherever the listening thread is when the server is       *)
(* switched off.  The listening thread and the main thread meet in the     *)
(* idle queue only, so the invariants say what the queue holds while the   *)
(* listening thread is at a place: what is behind what.                    *)
(***************************************************************************)
EXTENDS RemoteServer, TLAPS

\* Where the listening thread is outside a session.
Away == {"none", "start", "top", "clean", "join", "bind", "accept", "auth",
         "test", "begin", "prepare", "end", "ended"}

TuneCommands == {"CMD_TUNE", "CMD_TOGGLE_TUNE"}

\* create_hpsdr_server() finds no listening thread.
NoThread == gtk = "loop" /\ ~server_running => listen = "none"

\* Clients send the commands of this instance only.
OnlyCommands ==
  \A i \in 1..Len(idle) : idle[i].cb \in {"run", "stop", "mox", "screen"} \cup Commands

\* While the listening thread waits, the callback it waits for is queued, and
\* behind that callback there is nothing but what a command has posted.
ScreenLast ==
  /\ \A i \in 1..Len(idle) : idle[i].cb = "screen" =>
        /\ listen \in {"wait1", "wait2"} /\ ~done
        /\ \A j \in 1..Len(idle) : j > i => idle[j].cb = "mox"
  /\ listen \in {"wait1", "wait2"} /\ ~done =>
        \E i \in 1..Len(idle) : idle[i].cb = "screen"

\* Commands wait during a session, and until the wait after it is over.
CommandsInSession ==
  \A i \in 1..Len(idle) : idle[i].cb \in AllCommands =>
     listen \in {"loop", "over"} \/ (listen = "wait2" /\ ~done)

\* A running protocol, and nothing queued that stops it; or the callback that
\* starts it is queued before the one the listening thread waits for.
Running ==
  listen \in {"wait1", "init", "loop"} =>
     \/ protocol /\ \A i \in 1..Len(idle) : idle[i].cb # "stop"
     \/ \E i, k \in 1..Len(idle) :
           /\ i < k /\ idle[i].cb = "run" /\ idle[k].cb = "screen"
           /\ \A j \in 1..Len(idle) : j > i => idle[j].cb # "stop"

QueueInv == OnlyCommands /\ ScreenLast /\ CommandsInSession /\ Running

Inv == TypeOK /\ NoThread /\ QueueInv

\* Without two-tone commands: nothing queued behind the callback that goes RX
\* can put the radio on the air.
RxQueued ==
  \E i \in 1..Len(idle) :
     /\ idle[i] = Own("mox")
     /\ \A j \in 1..Len(idle) : j > i => idle[j].cb \notin AllCommands

NoCommands == \A i \in 1..Len(idle) : idle[i].cb \notin AllCommands

LostInv ==
  /\ \A i \in 1..Len(idle) : idle[i].cb = "mox" => idle[i] = Own("mox")
  /\ listen \notin {"loop", "over"} => RxQueued \/ (by # "client" /\ NoCommands)

\* What the end of TUNE will do to the keyer setting: nothing.
PlainTune(r) ==
  /\ r.premode # "CW"
  /\ r.mode # "CW" \/ (~r.tune /\ Commands \cap TuneCommands = {})

KeyerInv ==
  /\ custom => listen \in {"wait1", "init", "loop", "over"}
  /\ PlainTune(radio)
  /\ listen \notin {"init", "loop"} => radio.keyint = KeyerInternal
  /\ listen \in {"init", "loop"} => oldint = KeyerInternal
-----------------------------------------------------------------------------
(* The radio *)

LEMMA FieldTypes ==
  ASSUME NEW r \in RadioState
  PROVE  /\ r.mox \in BOOLEAN /\ r.vox \in BOOLEAN /\ r.tune \in BOOLEAN
         /\ r.twotone \in BOOLEAN /\ r.tx \in BOOLEAN /\ r.rx \in BOOLEAN
         /\ r.redo \in BOOLEAN /\ r.duplex \in BOOLEAN /\ r.mode \in Modes
         /\ r.txmode \in Modes /\ r.premode \in Modes /\ r.preint \in BOOLEAN
         /\ r.keyint \in BOOLEAN /\ r.inhibit \in BOOLEAN /\ r.inband \in BOOLEAN
         /\ r.cap \in CapStates /\ r.presses \in Nat
  BY Zenon DEF RadioState

\* The fields that tell how the operator set the keyer.
Same(r, s) == /\ s \in RadioState
              /\ s.mode = r.mode /\ s.premode = r.premode
              /\ s.keyint = r.keyint /\ s.tune = r.tune

\* The keyer setting survives, provided it was not to be restored by TUNE.
KeepsKeyer(r, s) == /\ s \in RadioState
                    /\ s.mode = r.mode
                    /\ r.premode # "CW" => s.premode # "CW" /\ s.keyint = r.keyint

LEMMA RxtxSame ==
  ASSUME NEW r \in RadioState, NEW on \in BOOLEAN
  PROVE  Same(r, Rxtx(r, on))
<1> DEFINE a == IF r.duplex THEN r.rx ELSE ~on
           b == r.redo \/ r.tx = on
           k == AbortCapture(r)
           k1 == [k EXCEPT !.tx = on]
           k2 == [k1 EXCEPT !.rx = a]
           s == Rxtx(r, on)
<1>1. a \in BOOLEAN /\ b \in BOOLEAN
  <2>1. r.rx \in BOOLEAN /\ r.duplex \in BOOLEAN
    BY FieldTypes
  <2>2. a \in BOOLEAN
    BY <2>1, Zenon
  <2>3. b \in BOOLEAN
    BY Zenon
  <2> HIDE DEF a, b
  <2> QED BY <2>2, <2>3
<1>2. s = [k2 EXCEPT !.redo = b]
  BY Zenon DEF Rxtx
<1> HIDE DEF a, b
<1>3. Same(r, k)
  <2>1. CASE r.cap \in {"RECORDING", "XMIT", "REPLAY"}
    <3> DEFINE c == Aborted(r.cap)
               n == r.presses + 1
               j == [r EXCEPT !.cap = c]
    <3>1. k = [j EXCEPT !.presses = n]
      BY <2>1, Zenon DEF AbortCapture
    <3>2. c \in CapStates
      BY <2>1 DEF Aborted, CapStates
    <3>3. n \in Nat
      BY FieldTypes
    <3> HIDE DEF c, n, k
    <3>4. Same(r, j)
      BY <3>2, Zenon DEF RadioState, Same
    <3> HIDE DEF j
    <3>5. Same(j, k)
      BY <3>1, <3>3, <3>4, Zenon DEF RadioState, Same
    <3> QED BY <3>4, <3>5, Zenon DEF Same
  <2>2. CASE ~(r.cap \in {"RECORDING", "XMIT", "REPLAY"})
    BY <2>2, Zenon DEF AbortCapture, Same
  <2> QED BY <2>1, <2>2
<1> HIDE DEF k, s
<1>4. Same(k, k1)
  BY <1>3, Zenon DEF RadioState, Same
<1> HIDE DEF k1
<1>5. Same(k1, k2)
  BY <1>1, <1>4, Zenon DEF RadioState, Same
<1> HIDE DEF k2
<1>6. Same(k2, s)
  BY <1>1, <1>2, <1>5, Zenon DEF RadioState, Same
<1> QED BY <1>3, <1>4, <1>5, <1>6, Zenon DEF Same, s

LEMMA VoxCancelSame ==
  ASSUME NEW r \in RadioState
  PROVE  Same(r, VoxCancel(r))
<1>1. 0 \in Nat
  OBVIOUS
<1> QED BY <1>1, Zenon DEF VoxCancel, RadioState, Same

LEMMA DropMoxVoxSame ==
  ASSUME NEW r \in RadioState
  PROVE  Same(r, DropMoxVox(r))
<1> DEFINE v == VoxCancel(r)
           s == Rxtx(v, FALSE)
           d == DropMoxVox(r)
<1>1. v \in RadioState /\ Same(r, v)
  BY VoxCancelSame DEF Same
<1>2. CASE r.mox \/ r.vox
  <2>1. d = [s EXCEPT !.mox = FALSE, !.vox = FALSE]
    BY <1>2, Zenon DEF DropMoxVox
  <2>2. s \in RadioState /\ Same(v, s)
    BY <1>1, RxtxSame DEF Same
  <2> HIDE DEF v, s, d
  <2>3. Same(s, d)
    BY <2>1, <2>2, Zenon DEF RadioState, Same
  <2> QED BY <1>1, <2>2, <2>3, Zenon DEF Same, d
<1>3. CASE ~(r.mox \/ r.vox)
  <2>1. d = v
    BY <1>3, Zenon DEF DropMoxVox
  <2> QED BY <1>1, <2>1
<1> QED BY <1>2, <1>3

LEMMA StartTuneKeeps ==
  ASSUME NEW r \in RadioState
  PROVE  LET s == StartTune(r) IN
         /\ s \in RadioState /\ s.mode = r.mode
         /\ r.mode # "CW" => s.premode # "CW" /\ s.keyint = r.keyint
<1> DEFINE k == IF r.mode = "CW" THEN FALSE ELSE r.keyint
           m == IF r.mode = "CW" THEN "SSB" ELSE r.txmode
           p == r.mode
           j == r.keyint
           q == [r EXCEPT !.premode = p, !.preint = j, !.gen = "single",
                          !.keyint = k, !.txmode = m, !.tune = TRUE]
           s == StartTune(r)
<1>1. s = Rxtx(q, TRUE)
  BY Zenon DEF StartTune
<1>2. p \in Modes /\ j \in BOOLEAN /\ k \in BOOLEAN /\ m \in Modes
  BY FieldTypes DEF Modes
<1>3. r.mode # "CW" => k = r.keyint
  OBVIOUS
<1> HIDE DEF j, k, m
<1>4. /\ q \in RadioState /\ q.mode = r.mode /\ q.premode = r.mode /\ q.keyint = k
  BY <1>2, Zenon DEF RadioState
<1> HIDE DEF q, s
<1>5. Same(q, s)
  BY <1>1, <1>4, RxtxSame
<1> QED BY <1>3, <1>4, <1>5 DEF Same, s

LEMMA EndTuneKeeps ==
  ASSUME NEW r \in RadioState
  PROVE  LET s == EndTune(r) IN
         KeepsKeyer(r, s) /\ ~s.tune
<1> DEFINE k == IF r.premode = "CW" THEN r.preint ELSE r.keyint
           q == [r EXCEPT !.gen = "off"]
           t == Rxtx(q, FALSE)
           m == IF r.premode = "CW" THEN "CW" ELSE r.txmode
           s == EndTune(r)
<1>1. s = [t EXCEPT !.txmode = m, !.keyint = k, !.tune = FALSE]
  BY Zenon DEF EndTune
<1>2. k \in BOOLEAN /\ m \in Modes /\ (r.premode # "CW" => k = r.keyint)
  BY FieldTypes DEF Modes
<1> HIDE DEF k, m
<1>3. q \in RadioState /\ Same(r, q)
  BY Zenon DEF RadioState, Same
<1> HIDE DEF q, s
<1>4. t \in RadioState /\ Same(q, t)
  BY <1>3, RxtxSame DEF Same
<1> HIDE DEF t
<1>5. /\ s \in RadioState /\ s.mode = t.mode /\ s.premode = t.premode
      /\ s.keyint = k /\ ~s.tune
  BY <1>1, <1>2, <1>4, Zenon DEF RadioState
<1> QED BY <1>2, <1>3, <1>4, <1>5 DEF Same, KeepsKeyer, s

\* radio_set_tune(): the keyer setting survives unless TUNE starts in CW.
LEMMA SetTuneKeeps ==
  ASSUME NEW r \in RadioState, NEW on \in BOOLEAN
  PROVE  LET s == SetTune(r, on) IN
         /\ s \in RadioState /\ s.mode = r.mode
         /\ r.mode # "CW" \/ ~on => KeepsKeyer(r, s)
         /\ ~on => ~s.tune
<1> DEFINE d == DropMoxVox(r)
           want == on /\ r.inband
           s == SetTune(r, on)
<1>1. r.tune \in BOOLEAN /\ r.inband \in BOOLEAN /\ want \in BOOLEAN
  BY FieldTypes
<1>2. d \in RadioState /\ Same(r, d)
  BY DropMoxVoxSame DEF Same
<1>3. CASE (on /\ r.inhibit) \/ want = r.tune
  <2>1. s = r
    BY <1>3, Zenon DEF SetTune, ApplyTune, TunePasses
  <2>2. ~on => ~r.tune
    BY <1>1, <1>3, Zenon
  <2> QED BY <2>1, <2>2 DEF KeepsKeyer
<1>4. CASE ~(on /\ r.inhibit) /\ want # r.tune /\ want
  <2>1. s = StartTune(d)
    BY <1>4, Zenon DEF SetTune, ApplyTune, TunePasses
  <2> HIDE DEF d, s
  <2>2. /\ s \in RadioState /\ s.mode = d.mode
        /\ d.mode # "CW" => s.premode # "CW" /\ s.keyint = d.keyint
    BY <1>2, <2>1, StartTuneKeeps
  <2> QED BY <1>2, <1>4, <2>2 DEF Same, KeepsKeyer, s
<1>5. CASE ~(on /\ r.inhibit) /\ want # r.tune /\ ~want
  <2>1. s = EndTune(d)
    BY <1>5, Zenon DEF SetTune, ApplyTune, TunePasses
  <2> HIDE DEF d, s
  <2>2. KeepsKeyer(d, s) /\ ~s.tune
    BY <1>2, <2>1, EndTuneKeeps
  <2> QED BY <1>2, <2>2 DEF Same, KeepsKeyer, s
<1> QED BY <1>3, <1>4, <1>5

\* radio_set_mox(): it may end TUNE, and never starts it.
LEMMA SetMoxKeeps ==
  ASSUME NEW r \in RadioState, NEW on \in BOOLEAN
  PROVE  LET s == SetMox(r, on) IN
         /\ KeepsKeyer(r, s)
         /\ s = r \/ ~s.tune
         /\ ~on => ~Transmitting(s)
<1> DEFINE want == on /\ r.inband
           u == IF r.tune THEN SetTune(r, FALSE) ELSE r
           v == VoxCancel(u)
           t == IF want # Transmitting(v) THEN Rxtx(v, want) ELSE v
           s == SetMox(r, on)
<1>1. want \in BOOLEAN
  BY Zenon
<1>2. CASE want /\ r.inhibit
  <2>1. s = r
    BY <1>2, Zenon DEF SetMox, MoxPasses
  <2> QED BY <1>2, <2>1 DEF KeepsKeyer
<1>3. CASE ~(want /\ r.inhibit)
  <2>1. s = [t EXCEPT !.mox = want, !.tune = FALSE, !.vox = FALSE]
    BY <1>3, Zenon DEF SetMox, MoxPasses, ApplyMox
  <2>2. KeepsKeyer(r, u)
    <3>1. KeepsKeyer(r, SetTune(r, FALSE)) /\ KeepsKeyer(r, r)
      BY SetTuneKeeps DEF KeepsKeyer
    <3> QED BY <3>1, Zenon
  <2>3. ~on => ~want
    OBVIOUS
  <2> HIDE DEF want, u
  <2>4. v \in RadioState /\ Same(u, v)
    BY <2>2, VoxCancelSame DEF Same, KeepsKeyer
  <2> HIDE DEF v
  <2>5. t \in RadioState /\ Same(v, t)
    <3>1. Same(v, Rxtx(v, want)) /\ Same(v, v)
      BY <1>1, <2>4, RxtxSame DEF Same
    <3>2. Same(v, t)
      BY <3>1, Zenon
    <3> QED BY <3>2 DEF Same
  <2> HIDE DEF t, s
  <2>6. /\ s \in RadioState /\ s.mode = t.mode /\ s.premode = t.premode
        /\ s.keyint = t.keyint /\ s.mox = want /\ ~s.tune /\ ~s.vox
    BY <1>1, <2>1, <2>5, Zenon DEF RadioState
  <2> QED BY <2>2, <2>3, <2>4, <2>5, <2>6 DEF Same, KeepsKeyer, Transmitting, s
<1> QED BY <1>2, <1>3

LEMMA SetVoxKeeps ==
  ASSUME NEW r \in RadioState, NEW on \in BOOLEAN
  PROVE  Same(r, SetVox(r, on))
<1> DEFINE t == Rxtx(r, on)
           s == SetVox(r, on)
<1>1. CASE r.mox \/ r.tune \/ (on /\ r.inhibit) \/ r.vox = on
  BY <1>1, Zenon DEF SetVox, ApplyVox, VoxPasses, Same
<1>2. CASE ~(r.mox \/ r.tune \/ (on /\ r.inhibit) \/ r.vox = on)
  <2>1. s = [t EXCEPT !.vox = on]
    BY <1>2, Zenon DEF SetVox, ApplyVox, VoxPasses
  <2>2. t \in RadioState /\ Same(r, t)
    BY RxtxSame DEF Same
  <2> HIDE DEF t, s
  <2>3. Same(t, s)
    BY <2>1, <2>2, Zenon DEF RadioState, Same
  <2> QED BY <2>2, <2>3, Zenon DEF Same, s
<1> QED BY <1>1, <1>2

LEMMA SetTwotoneKeeps ==
  ASSUME NEW r \in RadioState, NEW on \in BOOLEAN
  PROVE  Same(r, SetTwotone(r, on))
<1> DEFINE g == IF on THEN "two" ELSE "off"
           s == SetTwotone(r, on)
<1>1. s = [r EXCEPT !.twotone = on, !.gen = g]
  BY Zenon DEF SetTwotone
<1>2. g \in {"off", "single", "two"}
  OBVIOUS
<1> HIDE DEF g, s
<1> QED BY <1>1, <1>2, Zenon DEF RadioState, Same, s

\* What a callback does to the radio.
LEMMA HandleFacts ==
  ASSUME NEW r \in RadioState, NEW q \in Call
  PROVE  LET s == Handle(r, q) IN
         /\ s \in RadioState
         /\ PlainTune(r) /\ q.cb \in {"run", "stop", "mox", "screen"} \cup Commands =>
               PlainTune(s) /\ s.keyint = r.keyint
         /\ q = Own("mox") => ~Transmitting(s)
         /\ q.cb \notin AllCommands /\ (q.cb = "mox" => q = Own("mox")) =>
               s = r \/ ~Transmitting(s)
<1> DEFINE s == Handle(r, q)
           P == /\ s \in RadioState
                /\ PlainTune(r) /\ q.cb \in {"run", "stop", "mox", "screen"} \cup Commands =>
                      PlainTune(s) /\ s.keyint = r.keyint
                /\ q = Own("mox") => ~Transmitting(s)
                /\ q.cb \notin AllCommands /\ (q.cb = "mox" => q = Own("mox")) =>
                      s = r \/ ~Transmitting(s)
<1> SUFFICES P
  OBVIOUS
<1>1. /\ q.cb \in {"run", "stop", "mox", "screen"} \cup AllCommands /\ q.on \in BOOLEAN
      /\ q = Own("mox") => q.cb = "mox" /\ ~q.on
  <2>1. q.cb \in {"run", "stop", "mox", "screen"} \cup AllCommands /\ q.on \in BOOLEAN
    BY Zenon DEF Call
  <2> QED BY <2>1 DEF Own
<1>2. ASSUME NEW on \in BOOLEAN, s = SetMox(r, on), q = Own("mox") => ~on,
             q.cb = "stop" => ~on, q.cb \in {"mox", "stop"} \cup AllCommands
      PROVE  P
  <2>1. KeepsKeyer(r, s) /\ (s = r \/ ~s.tune) /\ (~on => ~Transmitting(s))
    BY <1>2, SetMoxKeeps
  <2> HIDE DEF s
  <2> QED BY <1>2, <2>1 DEF KeepsKeyer, PlainTune
<1>3. ASSUME Same(r, s), q.cb \in AllCommands PROVE P
  <2> HIDE DEF s
  <2> QED BY <1>1, <1>3 DEF Same, PlainTune, AllCommands
<1>4. ASSUME NEW on \in BOOLEAN, s = SetTune(r, on), q.cb \in TuneCommands
      PROVE  P
  <2>1. /\ s \in RadioState /\ s.mode = r.mode
        /\ r.mode # "CW" => KeepsKeyer(r, s)
    BY <1>4, SetTuneKeeps
  <2>2. q.cb \in Commands => Commands \cap TuneCommands # {}
    BY <1>4
  <2> HIDE DEF s
  <2> QED BY <1>1, <1>4, <2>1, <2>2 DEF KeepsKeyer, PlainTune, AllCommands, TuneCommands
<1>5. ASSUME s = r, q.cb # "mox" PROVE P
  <2> HIDE DEF s
  <2> QED BY <1>1, <1>5
<1>6. CASE q.cb \in {"mox", "CMD_MOX"}
  <2>1. s = SetMox(r, q.on)
    BY <1>6 DEF Handle
  <2> HIDE DEF s, P
  <2> QED BY <1>1, <1>2, <1>6, <2>1 DEF AllCommands
<1>7. CASE q.cb \in {"stop", "CMD_RESTART"}
  <2>1. s = IF protocol THEN SetMox(r, FALSE) ELSE r
    BY <1>7 DEF Handle, StopProtocol
  <2> HIDE DEF s, P
  <2> QED BY <1>1, <1>2, <1>5, <1>7, <2>1 DEF AllCommands
<1>8. CASE q.cb = "CMD_VOX"
  <2>1. s = SetVox(r, q.on)
    BY <1>8 DEF Handle
  <2> HIDE DEF s, P
  <2>2. Same(r, s)
    BY <1>1, <2>1, SetVoxKeeps
  <2> QED BY <1>3, <1>8, <2>2 DEF AllCommands
<1>9. CASE q.cb = "CMD_TUNE"
  <2>1. s = SetTune(r, q.on)
    BY <1>9 DEF Handle
  <2> HIDE DEF s, P
  <2> QED BY <1>1, <1>4, <1>9, <2>1 DEF TuneCommands
<1>10. CASE q.cb = "CMD_TOGGLE_TUNE"
  <2> DEFINE on == ~r.tune
  <2>1. s = TuneToggled(r)
    BY <1>10 DEF Handle
  <2>2. s = SetTune(r, on) /\ on \in BOOLEAN
    BY <2>1, Zenon DEF TuneToggled
  <2> HIDE DEF s, P, on
  <2> QED BY <1>4, <1>10, <2>2 DEF TuneCommands
<1>11. CASE q.cb = "CMD_TWOTONE"
  <2>1. s = SetTwotone(r, q.on) \/ s = r
    BY <1>11 DEF Handle
  <2>2. Same(r, SetTwotone(r, q.on)) /\ Same(r, r)
    BY <1>1, SetTwotoneKeeps DEF Same
  <2> HIDE DEF s, P
  <2> QED BY <1>3, <1>11, <2>1, <2>2 DEF AllCommands
<1>12. CASE q.cb \in {"run", "screen", "CMD_SCREEN", "CMD_PING"}
  <2>1. s = r
    BY <1>12 DEF Handle
  <2> HIDE DEF s, P
  <2> QED BY <1>5, <1>12, <2>1
<1> HIDE DEF s, P
<1> QED BY <1>1, <1>6, <1>7, <1>8, <1>9, <1>10, <1>11, <1>12 DEF AllCommands
-----------------------------------------------------------------------------
(* The idle queue *)

\* Serving the head moves the others up, and a command may post a MOX change.
LEMMA Served ==
  ASSUME idle \in Seq(Call), idle # << >>, NEW p, idle' = Tail(idle) \o p,
         \/ p = << >>
         \/ \E c \in Call : p = <<c>> /\ c.cb = "mox"
  PROVE  /\ idle' \in Seq(Call)
         /\ \A i \in 1..Len(idle) : i > 1 => i - 1 \in 1..Len(idle') /\ idle'[i - 1] = idle[i]
         /\ \A j \in 1..Len(idle') :
               \/ j + 1 \in 1..Len(idle) /\ idle'[j] = idle[j + 1]
               \/ p # << >> /\ j = Len(idle) /\ idle'[j] = p[1] /\ idle'[j].cb = "mox"
<1> DEFINE t == Tail(idle)
<1>1. /\ t \in Seq(Call) /\ Len(idle) \in Nat \ {0} /\ Len(t) = Len(idle) - 1
      /\ \A j \in 1..Len(t) : t[j] = idle[j + 1] /\ j + 1 \in 1..Len(idle)
      /\ \A i \in 1..Len(idle) : i > 1 => i - 1 \in 1..Len(t) /\ t[i - 1] = idle[i]
  OBVIOUS
<1> HIDE DEF t
<1>2. CASE p = << >>
  <2>1. idle' = t
    BY <1>1, <1>2 DEF t
  <2> QED BY <1>1, <2>1
<1>3. CASE \E c \in Call : p = <<c>> /\ c.cb = "mox"
  <2>1. PICK c \in Call : p = <<c>> /\ c.cb = "mox"
    BY <1>3
  <2>2. idle' = t \o <<c>>
    BY <2>1 DEF t
  <2>3. /\ idle' \in Seq(Call) /\ Len(idle') = Len(idle)
        /\ idle'[Len(idle)] = c
        /\ \A j \in 1..Len(t) : idle'[j] = t[j]
    BY <1>1, <2>2
  <2>4. ASSUME NEW i \in 1..Len(idle), i > 1
        PROVE  i - 1 \in 1..Len(idle') /\ idle'[i - 1] = idle[i]
    BY <1>1, <2>3, <2>4
  <2>5. ASSUME NEW j \in 1..Len(idle')
        PROVE  \/ j + 1 \in 1..Len(idle) /\ idle'[j] = idle[j + 1]
               \/ p # << >> /\ j = Len(idle) /\ idle'[j] = p[1] /\ idle'[j].cb = "mox"
    <3>1. CASE j \in 1..Len(t)
      BY <1>1, <2>3, <3>1
    <3>2. CASE j = Len(idle)
      BY <2>1, <2>3, <3>2
    <3>3. j \in 1..Len(t) \/ j = Len(idle)
      BY <1>1, <2>3
    <3> QED BY <3>1, <3>2, <3>3
  <2> QED BY <2>3, <2>4, <2>5
<1> QED BY <1>2, <1>3

\* g_idle_add() leaves what is queued where it is.
LEMMA Added ==
  ASSUME idle \in Seq(Call), NEW t \in Seq(Call), idle' = idle \o t
  PROVE  /\ idle' \in Seq(Call) /\ Len(idle') = Len(idle) + Len(t)
         /\ \A i \in 1..Len(idle) : i \in 1..Len(idle') /\ idle'[i] = idle[i]
         /\ \A j \in 1..Len(idle') :
               \/ j \in 1..Len(idle) /\ idle'[j] = idle[j]
               \/ j - Len(idle) \in 1..Len(t) /\ idle'[j] = t[j - Len(idle)]
         /\ \A j \in 1..Len(t) : Len(idle) + j \in 1..Len(idle') /\ idle'[Len(idle) + j] = t[j]
  OBVIOUS

LEMMA OwnCalls ==
  /\ \A cb \in {"run", "stop", "mox", "screen"} :
        Own(cb) \in Call /\ Own(cb).cb = cb /\ ~Own(cb).on
<1>1. ASSUME NEW cb \in {"run", "stop", "mox", "screen"}
      PROVE  Own(cb) \in Call /\ Own(cb).cb = cb /\ ~Own(cb).on
  BY Zenon DEF Own, Call
<1> QED BY <1>1

\* What a callback leaves in the queue.
LEMMA PostedFacts ==
  ASSUME idle \in Seq(Call), idle # << >>
  PROVE  LET q == Head(idle)
             p == Posted(radio, q)
         IN  /\ q \in Call /\ q = idle[1] /\ 1 \in 1..Len(idle)
             /\ p = << >> \/ \E c \in Call : p = <<c>> /\ c.cb = "mox"
             /\ q.cb # "CMD_TWOTONE" => p = << >>
<1> DEFINE q == Head(idle)
           p == Posted(radio, q)
<1>1. q \in Call /\ q = idle[1] /\ 1 \in 1..Len(idle)
  OBVIOUS
<1> HIDE DEF q
<1>2. q.on \in BOOLEAN
  BY <1>1, Zenon DEF Call
<1> DEFINE k == q.on
           c == [cb |-> "mox", on |-> k]
<1>3. (p = << >> \/ p = <<c>>) /\ (q.cb # "CMD_TWOTONE" => p = << >>)
  BY Zenon DEF Posted
<1> HIDE DEF k
<1>4. c \in Call /\ c.cb = "mox"
  BY <1>2, Zenon DEF Call, k
<1> HIDE DEF c, p
<1>5. p = << >> \/ \E d \in Call : p = <<d>> /\ d.cb = "mox"
  BY <1>3, <1>4, Zenon
<1> QED BY <1>1, <1>3, <1>5 DEF p, q
-----------------------------------------------------------------------------
(* The steps *)

\* The steps outside a session, and those that concern sockets and threads.
Aside == /\ UNCHANGED <<radio, idle, protocol, custom, done, oldint, by>>
         /\ listen' = listen \/ (listen \in Away /\ listen' \in Away)

Busy == \/ Dispatch \/ Start \/ Prepare \/ TakeKeyer \/ SendAll \/ ReturnKeyer
        \/ HandBack \/ Resume \/ End
        \/ \E on \in BOOLEAN : LocalMox(on)
        \/ \E c \in Commands, on \in BOOLEAN : ReadCommand(c, on)

LEMMA StepKinds == NoThread /\ [Next]_vars => Busy \/ Aside
<1> SUFFICES ASSUME NoThread, [Next]_vars PROVE Busy \/ Aside
  OBVIOUS
<1>1. CASE UNCHANGED vars
  BY <1>1 DEF vars, Aside
<1>2. CASE Create
  BY <1>2 DEF Create, NoThread, Aside, Away
<1>3. CASE ToggleStops \/ Destroy \/ JoinUdp \/ UdpEnd \/ ReadError \/ ClientLost
  BY <1>3 DEF ToggleStops, Destroy, JoinUdp, UdpEnd, ReadError, ClientLost, mainvars, Aside
<1>4. CASE JoinListen
  BY <1>4 DEF JoinListen, Aside, Away
<1>5. CASE Top \/ Clean \/ Join \/ Bind \/ BindFails \/ Connect \/ Shut \/ NetFails
  BY <1>5 DEF Top, Clean, Join, Bind, BindFails, Connect, Shut, NetFails, Go, mainvars,
     Aside, Away
<1>6. CASE Authenticate \/ Reject \/ TestPacket \/ TestFails \/ Begin
  BY <1>6 DEF Authenticate, Reject, TestPacket, TestFails, Begin, Go, mainvars, Aside, Away
<1>7. CASE Busy
  BY <1>7
<1> QED BY <1>1, <1>2, <1>3, <1>4, <1>5, <1>6, <1>7
        DEF Next, Gtk, ListenStep, Client, Busy

LEMMA NoThreadKept == NoThread /\ [Next]_vars => NoThread'
<1> SUFFICES ASSUME NoThread, [Next]_vars PROVE NoThread'
  OBVIOUS
<1>1. CASE UNCHANGED vars
  BY <1>1 DEF vars, NoThread
<1>2. CASE Gtk
  BY <1>2 DEF Gtk, Dispatch, LocalMox, ToggleStops, Create, Destroy, JoinUdp, JoinListen,
     NoThread
<1>3. CASE UdpEnd \/ ReadError \/ ClientLost \/ (\E c \in Commands, on \in BOOLEAN : ReadCommand(c, on))
  BY <1>3 DEF UdpEnd, ReadError, ClientLost, ReadCommand, mainvars, NoThread
<1>4. CASE Start \/ Top \/ Clean \/ Join \/ Bind \/ BindFails \/ Connect \/ Shut \/ NetFails
  BY <1>4 DEF Start, Top, Clean, Join, Bind, BindFails, Connect, Shut, NetFails, Go, mainvars,
     NoThread
<1>5. CASE Authenticate \/ Reject \/ TestPacket \/ TestFails \/ Begin \/ Prepare
  BY <1>5 DEF Authenticate, Reject, TestPacket, TestFails, Begin, Prepare, Go, mainvars,
     NoThread
<1>6. CASE TakeKeyer \/ SendAll \/ ReturnKeyer \/ HandBack \/ Resume \/ End
  BY <1>6 DEF TakeKeyer, SendAll, ReturnKeyer, HandBack, Resume, End, Go, mainvars, NoThread
<1> QED BY <1>1, <1>2, <1>3, <1>4, <1>5, <1>6 DEF Next, ListenStep, Client

LEMMA KeyintTypes ==
  ASSUME NEW r \in RadioState, NEW b \in BOOLEAN
  PROVE  LET s == [r EXCEPT !.keyint = b] IN
         /\ s \in RadioState /\ s.keyint = b
         /\ s.mode = r.mode /\ s.premode = r.premode /\ s.tune = r.tune
  BY Zenon DEF RadioState

LEMMA SockTypes ==
  ASSUME NEW s \in Sockets
  PROVE  /\ Closed \in Sockets
         /\ [s EXCEPT !.listen = TRUE] \in Sockets
         /\ [s EXCEPT !.tcp = TRUE] \in Sockets
         /\ [s EXCEPT !.udp = TRUE] \in Sockets
  BY Zenon DEF Closed, Sockets

\* The callbacks that the listening thread queues are well-formed.
LEMMA AddedTypes ==
  ASSUME idle \in Seq(Call)
  PROVE  /\ \A cb \in {"run", "stop", "mox", "screen"} : Append(idle, Own(cb)) \in Seq(Call)
         /\ idle \o <<Own("run"), Own("mox"), Own("screen")>> \in Seq(Call)
         /\ idle \o <<Own("mox")>> \o (IF stops THEN <<Own("stop")>> ELSE << >>)
                 \o <<Own("screen")>> \in Seq(Call)
<1>1. /\ Own("run") \in Call /\ Own("mox") \in Call /\ Own("stop") \in Call
      /\ Own("screen") \in Call
  BY OwnCalls
<1>2. \A cb \in {"run", "stop", "mox", "screen"} : Append(idle, Own(cb)) \in Seq(Call)
  BY <1>1
<1>3. idle \o <<Own("run"), Own("mox"), Own("screen")>> \in Seq(Call)
  BY <1>1
<1> DEFINE t == IF stops THEN <<Own("stop")>> ELSE << >>
<1>4. t \in Seq(Call)
  BY <1>1
<1> HIDE DEF t
<1>5. idle \o <<Own("mox")>> \o t \o <<Own("screen")>> \in Seq(Call)
  BY <1>1, <1>4
<1> QED BY <1>2, <1>3, <1>5 DEF t

LEMMA TypesKept == TypeOK /\ [Next]_vars => TypeOK'
<1> SUFFICES ASSUME TypeOK, [Next]_vars PROVE TypeOK'
  OBVIOUS
<1>1. CASE UNCHANGED vars
  BY <1>1 DEF vars, TypeOK
<1>2. CASE Dispatch
  <2> DEFINE q == Head(idle)
             p == Posted(radio, q)
  <2>1. /\ idle # << >> /\ idle \in Seq(Call) /\ radio \in RadioState
        /\ radio' = Handle(radio, q) /\ idle' = Tail(idle) \o p
    BY <1>2 DEF Dispatch, TypeOK
  <2>2. q \in Call /\ (p = << >> \/ \E c \in Call : p = <<c>> /\ c.cb = "mox")
    BY <2>1, PostedFacts
  <2>3. /\ protocol' \in BOOLEAN /\ custom' \in BOOLEAN /\ done' \in BOOLEAN
        /\ running' \in BOOLEAN /\ by' \in {"none", "local", "client"}
    <3>1. protocol' \in BOOLEAN /\ custom' \in BOOLEAN /\ done' \in BOOLEAN
      BY <1>2, Zenon DEF Dispatch, TypeOK
    <3>2. running' \in BOOLEAN
      BY <1>2 DEF Dispatch, TypeOK, AfterSend
    <3>3. by' \in {"none", "local", "client"}
      BY <1>2 DEF Dispatch, TypeOK
    <3> QED BY <3>1, <3>2, <3>3
  <2> HIDE DEF p, q
  <2>4. idle' \in Seq(Call)
    BY <2>1, <2>2, Served
  <2>5. radio' \in RadioState
    BY <2>1, <2>2, HandleFacts
  <2> QED BY <1>2, <2>3, <2>4, <2>5 DEF Dispatch, TypeOK
<1>3. ASSUME NEW on \in BOOLEAN, LocalMox(on) PROVE TypeOK'
  <2>1. radio' \in RadioState
    BY <1>3, SetMoxKeeps DEF LocalMox, TypeOK, KeepsKeyer
  <2>2. running' \in BOOLEAN
    BY <1>3 DEF LocalMox, TypeOK, AfterSend
  <2>3. by' \in {"none", "local", "client"}
    BY <1>3 DEF LocalMox
  <2> QED BY <1>3, <2>1, <2>2, <2>3 DEF LocalMox, TypeOK
<1>4. CASE ToggleStops
  BY <1>4 DEF ToggleStops, TypeOK
<1>5. CASE Create
  BY <1>5 DEF Create, TypeOK, Places
<1>6. CASE JoinUdp
  BY <1>6 DEF JoinUdp, TypeOK
<1>7. CASE JoinListen
  BY <1>7 DEF JoinListen, TypeOK, Places
<1>8. CASE UdpEnd
  BY <1>8 DEF UdpEnd, TypeOK
<1>9. CASE ClientLost
  BY <1>9 DEF ClientLost, TypeOK
<1>10. CASE ReadError
  <2>1. running' \in BOOLEAN
    BY <1>10 DEF ReadError
  <2> QED BY <1>10, <2>1 DEF ReadError, mainvars, TypeOK
<1>11. CASE Destroy
  BY <1>11, SockTypes DEF Destroy, TypeOK
<1>12. CASE Top
  <2>1. listen' \in Places
    BY <1>12 DEF Top, Go, Places
  <2> QED BY <1>12, <2>1 DEF Top, mainvars, TypeOK
<1>13. CASE Join
  <2>1. listen' \in Places
    BY <1>13 DEF Join, Go, Places
  <2> QED BY <1>13, <2>1 DEF Join, mainvars, TypeOK
<1>14. CASE BindFails
  <2>1. listen' \in Places
    BY <1>14 DEF BindFails, Go, Places
  <2> QED BY <1>14, <2>1 DEF BindFails, mainvars, TypeOK
<1>15. CASE Shut
  <2>1. listen' \in Places
    BY <1>15 DEF Shut, Go, Places
  <2> QED BY <1>15, <2>1 DEF Shut, mainvars, TypeOK
<1>16. CASE NetFails
  <2>1. listen' \in Places
    BY <1>16 DEF NetFails, Go, Places
  <2> QED BY <1>16, <2>1 DEF NetFails, mainvars, TypeOK
<1>17. CASE Reject
  <2>1. listen' \in Places
    BY <1>17 DEF Reject, Go, Places
  <2>2. running' \in BOOLEAN
    BY <1>17 DEF Reject
  <2> QED BY <1>17, <2>1, <2>2 DEF Reject, mainvars, TypeOK
<1>18. CASE TestPacket
  <2>1. listen' \in Places
    BY <1>18 DEF TestPacket, Go, Places
  <2> QED BY <1>18, <2>1 DEF TestPacket, mainvars, TypeOK
<1>19. CASE TestFails
  <2>1. listen' \in Places
    BY <1>19 DEF TestFails, Go, Places
  <2> QED BY <1>19, <2>1 DEF TestFails, mainvars, TypeOK
<1>20. CASE Begin
  <2>1. listen' \in Places
    BY <1>20 DEF Begin, Go, Places
  <2> QED BY <1>20, <2>1 DEF Begin, mainvars, TypeOK
<1>21. CASE Resume
  <2>1. listen' \in Places
    BY <1>21 DEF Resume, Go, Places
  <2> QED BY <1>21, <2>1 DEF Resume, mainvars, TypeOK
<1>22. CASE Clean
  <2>1. listen' \in Places
    BY <1>22 DEF Clean, Go, Places
  <2>2. sock' \in Sockets
    BY <1>22, SockTypes DEF Clean, TypeOK
  <2> QED BY <1>22, <2>1, <2>2 DEF Clean, mainvars, TypeOK
<1>23. CASE Bind
  <2>1. listen' \in Places
    BY <1>23 DEF Bind, Go, Places
  <2>2. sock' \in Sockets
    BY <1>23, SockTypes DEF Bind, TypeOK
  <2> QED BY <1>23, <2>1, <2>2 DEF Bind, mainvars, TypeOK
<1>24. CASE Connect
  <2>1. listen' \in Places
    BY <1>24 DEF Connect, Go, Places
  <2>2. sock' \in Sockets
    BY <1>24, SockTypes DEF Connect, TypeOK
  <2> QED BY <1>24, <2>1, <2>2 DEF Connect, mainvars, TypeOK
<1>25. CASE Authenticate
  <2>1. listen' \in Places
    BY <1>25 DEF Authenticate, Go, Places
  <2>2. sock' \in Sockets
    BY <1>25, SockTypes DEF Authenticate, TypeOK
  <2> QED BY <1>25, <2>1, <2>2 DEF Authenticate, mainvars, TypeOK
<1>26. CASE Start
  <2>1. Append(idle, Own("stop")) \in Seq(Call)
    BY AddedTypes DEF TypeOK
  <2>2. idle' \in Seq(Call)
    BY <1>26, <2>1 DEF Start, TypeOK
  <2>3. listen' \in Places
    BY <1>26 DEF Start, Go, Places
  <2>4. sock' \in Sockets
    BY <1>26, SockTypes DEF Start, TypeOK
  <2> QED BY <1>26, <2>2, <2>3, <2>4 DEF Start, mainvars, TypeOK
<1>27. CASE Prepare
  <2>1. idle' \in Seq(Call)
    BY <1>27, AddedTypes DEF Prepare, TypeOK
  <2> QED BY <1>27, <2>1 DEF Prepare, Go, mainvars, TypeOK, Places
<1>28. CASE HandBack
  <2>1. idle' \in Seq(Call)
    BY <1>28, AddedTypes DEF HandBack, TypeOK
  <2> QED BY <1>28, <2>1 DEF HandBack, Go, mainvars, TypeOK, Places
<1>29. CASE End
  <2>1. idle' \in Seq(Call)
    BY <1>29, AddedTypes DEF End, TypeOK
  <2> QED BY <1>29, <2>1 DEF End, Go, mainvars, TypeOK, Places
<1>30. CASE TakeKeyer
  <2>1. radio \in RadioState /\ radio.keyint \in BOOLEAN /\ FALSE \in BOOLEAN
    BY FieldTypes DEF TypeOK
  <2>2. radio' \in RadioState /\ oldint' \in BOOLEAN
    BY <1>30, <2>1, KeyintTypes DEF TakeKeyer
  <2> QED BY <1>30, <2>2 DEF TakeKeyer, Go, TypeOK, Places
<1>31. CASE ReturnKeyer
  <2>1. radio' \in RadioState
    BY <1>31, KeyintTypes DEF ReturnKeyer, TypeOK
  <2> QED BY <1>31, <2>1 DEF ReturnKeyer, Go, TypeOK, Places
<1>32. CASE SendAll
  <2>1. running' \in BOOLEAN
    BY <1>32 DEF SendAll, AfterSend, TypeOK
  <2> QED BY <1>32, <2>1 DEF SendAll, Go, mainvars, TypeOK, Places
<1>33. ASSUME NEW c \in Commands, NEW on \in BOOLEAN, ReadCommand(c, on) PROVE TypeOK'
  <2> DEFINE q == [cb |-> c, on |-> on]
  <2>1. q \in Call
    BY ServerAssumption, Zenon DEF Call
  <2>2. idle' = Append(idle, q)
    BY <1>33 DEF ReadCommand
  <2> HIDE DEF q
  <2>3. idle' \in Seq(Call)
    BY <2>1, <2>2 DEF TypeOK
  <2> QED BY <1>33, <2>3 DEF ReadCommand, mainvars, TypeOK
<1> QED BY <1>1, <1>2, <1>3, <1>4, <1>5, <1>6, <1>7, <1>8, <1>9, <1>10, <1>11,
        <1>12, <1>13, <1>14, <1>15, <1>16, <1>17, <1>18, <1>19, <1>20, <1>21,
        <1>22, <1>23, <1>24, <1>25, <1>26, <1>27, <1>28, <1>29, <1>30, <1>31,
        <1>32, <1>33
        DEF Next, Gtk, ListenStep, Client
-----------------------------------------------------------------------------
(* What the queue holds *)

LEMMA InitInv == Init => Inv
<1> SUFFICES ASSUME Init PROVE Inv
  OBVIOUS
<1>1. radio \in RadioState
  <2>1. PICK m \in StartModes : radio = RadioOff(m)
    BY DEF Init
  <2>2. m \in Modes
    BY ServerAssumption
  <2>3. RadioOff(m) \in RadioState
    BY <2>2, KeyerAssumption DEF RadioOff, RadioState, Modes, CapStates
  <2> QED BY <2>1, <2>3
<1>2. Closed \in Sockets
  BY Zenon DEF Closed, Sockets
<1>3. idle = << >> /\ Len(idle) = 0
  BY DEF Init
<1>4. TypeOK
  <2>1. listen \in Places /\ sock \in Sockets /\ idle \in Seq(Call)
    BY <1>2, <1>3 DEF Init, Places
  <2>2. oldint \in BOOLEAN
    BY KeyerAssumption DEF Init
  <2> QED BY <1>1, <2>1, <2>2 DEF Init, TypeOK
<1>5. NoThread
  BY DEF Init, NoThread
<1>6. QueueInv
  BY <1>3 DEF Init, QueueInv, OnlyCommands, ScreenLast, CommandsInSession, Running
<1> QED BY <1>4, <1>5, <1>6 DEF Inv

LEMMA AsideQueue ==
  ASSUME QueueInv, UNCHANGED <<idle, done, protocol>>,
         listen' = listen \/ (listen \in Away /\ listen' \in Away)
  PROVE  QueueInv'
<1>1. CASE listen' = listen
  BY <1>1 DEF QueueInv, OnlyCommands, ScreenLast, CommandsInSession, Running
<1>2. CASE listen \in Away /\ listen' \in Away
  <2>1. OnlyCommands'
    BY DEF QueueInv, OnlyCommands
  <2>2. ScreenLast' /\ CommandsInSession' /\ Running'
    BY <1>2 DEF QueueInv, ScreenLast, CommandsInSession, Running, Away
  <2> QED BY <2>1, <2>2 DEF QueueInv
<1> QED BY <1>1, <1>2

\* A callback is served.
LEMMA DispatchQueue == Inv /\ Dispatch => QueueInv'
<1> SUFFICES ASSUME Inv, Dispatch PROVE QueueInv'
  OBVIOUS
<1> DEFINE q == Head(idle)
           p == Posted(radio, q)
<1>1. /\ idle # << >> /\ idle \in Seq(Call) /\ done \in BOOLEAN /\ protocol \in BOOLEAN
      /\ idle' = Tail(idle) \o p
      /\ protocol' = IF q.cb = "stop" THEN FALSE
                     ELSE q.cb \in {"run", "CMD_RESTART"} \/ protocol
      /\ done' = (q.cb = "screen" \/ done)
      /\ listen' = listen
  BY DEF Dispatch, Inv, TypeOK
<1>2. /\ q \in Call /\ q = idle[1] /\ 1 \in 1..Len(idle)
      /\ p = << >> \/ \E c \in Call : p = <<c>> /\ c.cb = "mox"
  BY <1>1, PostedFacts
<1>3. /\ \A i \in 1..Len(idle) : i > 1 => i - 1 \in 1..Len(idle') /\ idle'[i - 1] = idle[i]
      /\ \A j \in 1..Len(idle') :
            \/ j + 1 \in 1..Len(idle) /\ idle'[j] = idle[j + 1]
            \/ idle'[j].cb = "mox"
  <2> HIDE DEF p, q
  <2> QED BY <1>1, <1>2, Served
<1>4. (done' <=> q.cb = "screen" \/ done) /\ (q.cb # "stop" /\ protocol => protocol')
      /\ (q.cb = "run" => protocol')
  BY <1>1
<1> HIDE DEF p, q
<1>5. OnlyCommands /\ ScreenLast /\ CommandsInSession /\ Running
  BY DEF Inv, QueueInv
<1>6. OnlyCommands'
  BY <1>3, <1>5 DEF OnlyCommands
<1>7. ASSUME NEW j \in 1..Len(idle), j > 1, idle[j].cb # "mox" PROVE q.cb # "screen"
  BY <1>2, <1>5, <1>7 DEF ScreenLast
<1>8. ScreenLast'
  <2>1. ASSUME NEW i \in 1..Len(idle'), idle'[i].cb = "screen"
        PROVE  /\ listen' \in {"wait1", "wait2"} /\ ~done'
               /\ \A j \in 1..Len(idle') : j > i => idle'[j].cb = "mox"
    <3>1. i + 1 \in 1..Len(idle) /\ idle'[i] = idle[i + 1]
      BY <1>3, <2>1
    <3>2. /\ listen \in {"wait1", "wait2"} /\ ~done
          /\ \A j \in 1..Len(idle) : j > i + 1 => idle[j].cb = "mox"
      BY <1>5, <2>1, <3>1 DEF ScreenLast
    <3>3. i + 1 > 1
      OBVIOUS
    <3>4. q.cb # "screen"
      BY <1>7, <2>1, <3>1, <3>3
    <3>5. ASSUME NEW j \in 1..Len(idle'), j > i PROVE idle'[j].cb = "mox"
      <4>1. j + 1 > i + 1
        BY <3>5
      <4> QED BY <1>3, <3>2, <4>1
    <3> QED BY <1>1, <1>4, <3>2, <3>4, <3>5
  <2>2. ASSUME listen' \in {"wait1", "wait2"}, ~done'
        PROVE  \E i \in 1..Len(idle') : idle'[i].cb = "screen"
    <3>1. ~done /\ q.cb # "screen"
      BY <1>4, <2>2
    <3>2. PICK i \in 1..Len(idle) : idle[i].cb = "screen"
      BY <1>1, <1>5, <2>2, <3>1 DEF ScreenLast
    <3>3. i > 1
      BY <1>2, <3>1, <3>2
    <3> QED BY <1>3, <3>2, <3>3
  <2> QED BY <2>1, <2>2 DEF ScreenLast
<1>9. CommandsInSession'
  <2> SUFFICES ASSUME NEW i \in 1..Len(idle'), idle'[i].cb \in AllCommands
               PROVE  listen' \in {"loop", "over"} \/ (listen' = "wait2" /\ ~done')
    BY DEF CommandsInSession
  <2>1. idle'[i].cb # "mox"
    BY DEF AllCommands
  <2>2. i + 1 \in 1..Len(idle) /\ idle'[i] = idle[i + 1] /\ i + 1 > 1
    BY <1>3, <2>1
  <2>3. q.cb # "screen"
    BY <1>7, <2>1, <2>2
  <2>4. listen \in {"loop", "over"} \/ (listen = "wait2" /\ ~done)
    BY <1>5, <2>2 DEF CommandsInSession
  <2> QED BY <1>1, <1>4, <2>3, <2>4
<1>10. Running'
  <2> SUFFICES ASSUME listen' \in {"wait1", "init", "loop"}
               PROVE  \/ protocol' /\ \A i \in 1..Len(idle') : idle'[i].cb # "stop"
                      \/ \E i, k \in 1..Len(idle') :
                            /\ i < k /\ idle'[i].cb = "run" /\ idle'[k].cb = "screen"
                            /\ \A j \in 1..Len(idle') : j > i => idle'[j].cb # "stop"
    BY DEF Running
  <2>1. CASE protocol /\ \A i \in 1..Len(idle) : idle[i].cb # "stop"
    <3>1. protocol'
      BY <1>2, <1>4, <2>1
    <3>2. \A i \in 1..Len(idle') : idle'[i].cb # "stop"
      BY <1>3, <2>1
    <3> QED BY <3>1, <3>2
  <2>2. CASE \E i, k \in 1..Len(idle) :
                /\ i < k /\ idle[i].cb = "run" /\ idle[k].cb = "screen"
                /\ \A j \in 1..Len(idle) : j > i => idle[j].cb # "stop"
    <3>1. PICK i \in 1..Len(idle), k \in 1..Len(idle) :
                /\ i < k /\ idle[i].cb = "run" /\ idle[k].cb = "screen"
                /\ \A j \in 1..Len(idle) : j > i => idle[j].cb # "stop"
      BY <2>2
    <3>2. ASSUME NEW j \in 1..Len(idle'), j + 1 > i PROVE idle'[j].cb # "stop"
      BY <1>3, <3>1, <3>2
    <3>3. CASE i = 1
      <4>1. protocol'
        BY <1>2, <1>4, <3>1, <3>3
      <4>2. \A j \in 1..Len(idle') : idle'[j].cb # "stop"
        BY <3>2, <3>3
      <4> QED BY <4>1, <4>2
    <3>4. CASE i > 1
      <4>1. /\ i - 1 \in 1..Len(idle') /\ idle'[i - 1] = idle[i]
            /\ k - 1 \in 1..Len(idle') /\ idle'[k - 1] = idle[k]
            /\ i - 1 < k - 1
        BY <1>3, <3>1, <3>4
      <4>2. \A j \in 1..Len(idle') : j > i - 1 => idle'[j].cb # "stop"
        BY <3>2
      <4> QED BY <3>1, <4>1, <4>2
    <3> QED BY <3>3, <3>4
  <2> QED BY <1>1, <1>5, <2>1, <2>2 DEF Running
<1> QED BY <1>6, <1>8, <1>9, <1>10 DEF QueueInv

\* Outside a session, what is queued does not change any wait.
LEMMA AwayAdds ==
  ASSUME QueueInv, idle \in Seq(Call), listen \in Away, listen' \in {"top", "ended"},
         NEW cb \in {"run", "stop"}, idle' = Append(idle, Own(cb)) \/ idle' = idle
  PROVE  QueueInv'
<1>1. Own(cb) \in Call /\ Own(cb).cb = cb
  BY OwnCalls
<1>2. \A j \in 1..Len(idle') : (j \in 1..Len(idle) /\ idle'[j] = idle[j]) \/ idle'[j].cb = cb
  BY <1>1
<1>3. /\ \A j \in 1..Len(idle) : idle[j].cb \in {"run", "stop", "mox"} \cup Commands
      /\ \A j \in 1..Len(idle) : idle[j].cb \notin AllCommands
  BY DEF QueueInv, OnlyCommands, ScreenLast, CommandsInSession, Away
<1>4. \A j \in 1..Len(idle') : idle'[j].cb \in {"run", "stop", "mox"} \cup Commands
                               /\ idle'[j].cb \notin AllCommands
  BY <1>2, <1>3 DEF AllCommands
<1>5. \A j \in 1..Len(idle') : idle'[j].cb # "screen"
  <2>1. "screen" \notin Commands
    BY ServerAssumption DEF AllCommands
  <2> QED BY <1>4, <2>1
<1> QED BY <1>4, <1>5 DEF QueueInv, OnlyCommands, ScreenLast, CommandsInSession, Running

\* The listening thread queues three callbacks and waits for the last.
LEMMA PrepareQueue == Inv /\ Prepare => QueueInv'
<1> SUFFICES ASSUME Inv, Prepare PROVE QueueInv'
  OBVIOUS
<1> DEFINE t == <<Own("run"), Own("mox"), Own("screen")>>
           n == Len(idle)
<1>1. /\ idle \in Seq(Call) /\ idle' = idle \o t /\ listen = "prepare" /\ listen' = "wait1"
      /\ ~done'
  BY DEF Prepare, Go, Inv, TypeOK
<1>2. /\ Own("run") \in Call /\ Own("run").cb = "run"
      /\ Own("mox") \in Call /\ Own("mox").cb = "mox"
      /\ Own("screen") \in Call /\ Own("screen").cb = "screen"
  BY OwnCalls
<1>3. /\ t \in Seq(Call) /\ Len(t) = 3
      /\ t[1].cb = "run" /\ t[2].cb = "mox" /\ t[3].cb = "screen"
  BY <1>2
<1> HIDE DEF t
<1>4. /\ n \in Nat /\ Len(idle') = n + 3
      /\ \A j \in 1..n : idle'[j] = idle[j]
      /\ idle'[n + 1] = t[1] /\ idle'[n + 2] = t[2] /\ idle'[n + 3] = t[3]
  <2>1. 1 \in 1..Len(t) /\ 2 \in 1..Len(t) /\ 3 \in 1..Len(t) /\ n \in Nat
    BY <1>1, <1>3
  <2>2. /\ Len(idle') = Len(idle) + Len(t)
        /\ \A i \in 1..Len(idle) : i \in 1..Len(idle') /\ idle'[i] = idle[i]
        /\ \A j \in 1..Len(t) : Len(idle) + j \in 1..Len(idle') /\ idle'[Len(idle) + j] = t[j]
    BY <1>1, <1>3, Added
  <2> QED BY <1>3, <2>1, <2>2
<1>5. \A j \in 1..Len(idle') : j \in 1..n \/ j = n + 1 \/ j = n + 2 \/ j = n + 3
  BY <1>4
<1> HIDE DEF n
<1>6. /\ \A j \in 1..n : idle[j].cb \in {"run", "stop", "mox", "screen"} \cup Commands
      /\ \A j \in 1..n : idle[j].cb # "screen" /\ idle[j].cb \notin AllCommands
  BY <1>1 DEF Inv, QueueInv, OnlyCommands, ScreenLast, CommandsInSession, n
<1>7. OnlyCommands'
  BY <1>3, <1>4, <1>5, <1>6 DEF OnlyCommands
<1>8. ScreenLast'
  <2>1. n + 3 \in 1..Len(idle') /\ idle'[n + 3].cb = "screen"
    BY <1>3, <1>4
  <2>2. \A j \in 1..Len(idle') : idle'[j].cb = "screen" => j = n + 3
    BY <1>3, <1>4, <1>5, <1>6
  <2>3. \A j \in 1..Len(idle') : ~(j > n + 3)
    BY <1>4
  <2> QED BY <1>1, <2>1, <2>2, <2>3 DEF ScreenLast
<1>9. CommandsInSession'
  BY <1>3, <1>4, <1>5, <1>6 DEF CommandsInSession, AllCommands
<1>10. Running'
  <2>1. /\ n + 1 \in 1..Len(idle') /\ n + 3 \in 1..Len(idle') /\ n + 1 < n + 3
        /\ idle'[n + 1].cb = "run" /\ idle'[n + 3].cb = "screen"
    BY <1>3, <1>4
  <2>2. \A j \in 1..Len(idle') : j > n + 1 => idle'[j].cb # "stop"
    BY <1>3, <1>4, <1>5
  <2> QED BY <2>1, <2>2 DEF Running
<1> QED BY <1>7, <1>8, <1>9, <1>10 DEF QueueInv

\* What is queued when a client is lost: go RX, perhaps stop, the screen last.
LEMMA HandBackAdds ==
  ASSUME HandBack, idle \in Seq(Call)
  PROVE  \E m \in {2, 3} :
            /\ idle' \in Seq(Call) /\ Len(idle) \in Nat /\ Len(idle') = Len(idle) + m
            /\ \A j \in 1..Len(idle) : j \in 1..Len(idle') /\ idle'[j] = idle[j]
            /\ idle'[Len(idle) + 1] = Own("mox")
            /\ idle'[Len(idle) + m].cb = "screen"
            /\ m = 3 => idle'[Len(idle) + 2].cb = "stop"
            /\ \A j \in 1..Len(idle') : \/ j \in 1..Len(idle)
                                        \/ j = Len(idle) + 1 \/ j = Len(idle) + m
                                        \/ m = 3 /\ j = Len(idle) + 2
<1>1. /\ Own("mox") \in Call
      /\ Own("stop") \in Call /\ Own("stop").cb = "stop"
      /\ Own("screen") \in Call /\ Own("screen").cb = "screen"
  BY OwnCalls
<1> DEFINE a == Own("mox")
           b == Own("stop")
           c == Own("screen")
<1>2. CASE stops
  <2>1. idle' = idle \o <<a>> \o <<b>> \o <<c>>
    BY <1>2 DEF HandBack
  <2> HIDE DEF a, b, c
  <2>2. /\ idle' \in Seq(Call) /\ Len(idle) \in Nat /\ Len(idle') = Len(idle) + 3
        /\ \A j \in 1..Len(idle) : j \in 1..Len(idle') /\ idle'[j] = idle[j]
        /\ idle'[Len(idle) + 1] = a /\ idle'[Len(idle) + 2] = b
        /\ idle'[Len(idle) + 3] = c
    BY <1>1, <2>1 DEF a, b, c
  <2>3. \A j \in 1..Len(idle') : \/ j \in 1..Len(idle)
                                 \/ j = Len(idle) + 1 \/ j = Len(idle) + 3
                                 \/ j = Len(idle) + 2
    BY <2>2
  <2> QED BY <1>1, <2>2, <2>3 DEF a, b, c
<1>3. CASE ~stops
  <2>1. idle' = idle \o <<a>> \o << >> \o <<c>>
    BY <1>3 DEF HandBack
  <2> HIDE DEF a, b, c
  <2>2. /\ idle' \in Seq(Call) /\ Len(idle) \in Nat /\ Len(idle') = Len(idle) + 2
        /\ \A j \in 1..Len(idle) : j \in 1..Len(idle') /\ idle'[j] = idle[j]
        /\ idle'[Len(idle) + 1] = a /\ idle'[Len(idle) + 2] = c
    BY <1>1, <2>1 DEF a, b, c
  <2>3. \A j \in 1..Len(idle') : j \in 1..Len(idle) \/ j = Len(idle) + 1 \/ j = Len(idle) + 2
    BY <2>2
  <2> QED BY <1>1, <2>2, <2>3 DEF a, b, c
<1> QED BY <1>2, <1>3

LEMMA HandBackQueue == Inv /\ HandBack => QueueInv'
<1> SUFFICES ASSUME Inv, HandBack PROVE QueueInv'
  OBVIOUS
<1> DEFINE n == Len(idle)
<1>1. idle \in Seq(Call) /\ listen = "over" /\ listen' = "wait2" /\ ~done'
  BY DEF HandBack, Go, Inv, TypeOK
<1>2. PICK m \in {2, 3} :
            /\ n \in Nat /\ Len(idle') = n + m
            /\ \A j \in 1..n : j \in 1..Len(idle') /\ idle'[j] = idle[j]
            /\ idle'[n + 1] = Own("mox")
            /\ idle'[n + m].cb = "screen"
            /\ m = 3 => idle'[n + 2].cb = "stop"
            /\ \A j \in 1..Len(idle') : \/ j \in 1..n
                                        \/ j = n + 1 \/ j = n + m
                                        \/ m = 3 /\ j = n + 2
  BY <1>1, HandBackAdds
<1> HIDE DEF n
<1>3. Own("mox").cb = "mox"
  BY OwnCalls
<1>4. /\ \A j \in 1..n : idle[j].cb \in {"run", "stop", "mox", "screen"} \cup Commands
      /\ \A j \in 1..n : idle[j].cb # "screen"
  BY <1>1 DEF Inv, QueueInv, OnlyCommands, ScreenLast, n
<1>5. OnlyCommands'
  BY <1>2, <1>3, <1>4 DEF OnlyCommands
<1>6. ScreenLast'
  <2>1. n + m \in 1..Len(idle') /\ idle'[n + m].cb = "screen"
    BY <1>2
  <2>2. \A j \in 1..Len(idle') : idle'[j].cb = "screen" => j = n + m
    BY <1>2, <1>3, <1>4
  <2>3. \A j \in 1..Len(idle') : ~(j > n + m)
    BY <1>2
  <2> QED BY <1>1, <2>1, <2>2, <2>3 DEF ScreenLast
<1> QED BY <1>1, <1>5, <1>6 DEF QueueInv, CommandsInSession, Running

LEMMA ReadCommandQueue ==
  ASSUME Inv, NEW c \in Commands, NEW on \in BOOLEAN, ReadCommand(c, on)
  PROVE  QueueInv'
<1> DEFINE q == [cb |-> c, on |-> on]
<1>1. /\ idle \in Seq(Call) /\ idle' = Append(idle, q) /\ listen = "loop" /\ listen' = "loop"
      /\ protocol' = protocol
  BY DEF ReadCommand, mainvars, Inv, TypeOK
<1>2. q \in Call /\ q.cb = c
  BY ServerAssumption, Zenon DEF Call
<1> HIDE DEF q
<1>3. \A j \in 1..Len(idle') : (j \in 1..Len(idle) /\ idle'[j] = idle[j]) \/ idle'[j].cb = c
  BY <1>1, <1>2
<1>4. c \notin {"run", "stop", "mox", "screen"}
  BY ServerAssumption DEF AllCommands
<1>5. \A j \in 1..Len(idle) : idle[j].cb # "screen"
  BY <1>1 DEF Inv, QueueInv, ScreenLast
<1>6. protocol /\ \A j \in 1..Len(idle) : idle[j].cb # "stop"
  BY <1>1, <1>5 DEF Inv, QueueInv, Running
<1>7. OnlyCommands'
  BY <1>3 DEF OnlyCommands, Inv, QueueInv
<1>8. ScreenLast'
  BY <1>1, <1>3, <1>4, <1>5 DEF ScreenLast
<1>9. Running'
  BY <1>1, <1>3, <1>4, <1>6 DEF Running
<1> QED BY <1>1, <1>7, <1>8, <1>9 DEF QueueInv, CommandsInSession

LEMMA QueueKept == Inv /\ [Next]_vars => QueueInv'
<1> SUFFICES ASSUME Inv, [Next]_vars PROVE QueueInv'
  OBVIOUS
<1>1. QueueInv /\ idle \in Seq(Call) /\ (Busy \/ Aside)
  BY StepKinds DEF Inv, TypeOK
<1>2. CASE Aside
  BY <1>1, <1>2, AsideQueue DEF Aside
<1>3. CASE Dispatch
  BY <1>3, DispatchQueue
<1>4. ASSUME NEW on \in BOOLEAN, LocalMox(on) PROVE QueueInv'
  BY <1>1, <1>4, AsideQueue DEF LocalMox
<1>5. CASE Start
  <2>1. listen \in Away /\ listen' \in {"top", "ended"} /\ (idle' = Append(idle, Own("stop")) \/ idle' = idle)
    BY <1>5 DEF Start, Go, Away
  <2> QED BY <1>1, <2>1, AwayAdds
<1>6. CASE End
  <2>1. listen \in Away /\ listen' \in {"top", "ended"} /\ idle' = Append(idle, Own("run"))
    BY <1>6 DEF End, Go, Away
  <2> QED BY <1>1, <2>1, AwayAdds
<1>7. CASE Prepare
  BY <1>7, PrepareQueue
<1>8. CASE HandBack
  BY <1>8, HandBackQueue
<1>9. ASSUME NEW c \in Commands, NEW on \in BOOLEAN, ReadCommand(c, on) PROVE QueueInv'
  BY <1>9, ReadCommandQueue
<1>10. CASE TakeKeyer
  <2>1. /\ listen = "wait1" /\ listen' = "init" /\ done
        /\ UNCHANGED <<idle, done, protocol>>
    BY <1>10 DEF TakeKeyer, Go
  <2> QED BY <1>1, <2>1 DEF QueueInv, OnlyCommands, ScreenLast, CommandsInSession, Running
<1>11. CASE SendAll \/ ReturnKeyer
  <2>1. /\ \/ listen = "init" /\ listen' = "loop"
           \/ listen = "loop" /\ listen' = "over"
        /\ UNCHANGED <<idle, done, protocol>>
    BY <1>11 DEF SendAll, ReturnKeyer, mainvars, Go
  <2> QED BY <1>1, <2>1 DEF QueueInv, OnlyCommands, ScreenLast, CommandsInSession, Running
<1>12. CASE Resume
  <2>1. /\ listen = "wait2" /\ listen' = "top" /\ done
        /\ UNCHANGED <<idle, done, protocol>>
    BY <1>12 DEF Resume, mainvars, Go
  <2> QED BY <1>1, <2>1 DEF QueueInv, OnlyCommands, ScreenLast, CommandsInSession, Running
<1> QED BY <1>1, <1>2, <1>3, <1>4, <1>5, <1>6, <1>7, <1>8, <1>9, <1>10, <1>11, <1>12 DEF Busy

LEMMA Invariance == Spec => []Inv
<1>1. Inv /\ [Next]_vars => Inv'
  BY TypesKept, NoThreadKept, QueueKept DEF Inv
<1> QED BY InitInv, <1>1, PTL DEF Spec

\* Every variable keeps its type.
THEOREM TypeCorrect == Spec => []TypeOK
<1>1. Inv => TypeOK
  BY DEF Inv
<1> QED BY <1>1, Invariance, PTL

\* server_loop() and listen_thread(): a command is executed for the client that
\* sent it, since the listening thread does not turn to the next client before
\* the callback behind all commands has been served.
THEOREM NoStaleCommands == Spec => []NoStaleCommand
<1>1. Inv => NoStaleCommand
  <2> SUFFICES ASSUME Inv, Waiting # {} PROVE listen \in {"loop", "over", "wait2"}
    BY DEF NoStaleCommand
  <2>1. PICK i \in 1..Len(idle) : idle[i].cb \in AllCommands
    BY DEF Waiting
  <2> QED BY <2>1 DEF Inv, QueueInv, CommandsInSession
<1> QED BY <1>1, Invariance, PTL

\* listen_thread(): a client that is served has a running radio, wherever the
\* server was switched off before, and with any callbacks left from then.
THEOREM ServedRuns == Spec => []ServedRadioRuns
<1>1. Inv => ServedRadioRuns
  BY DEF Inv, QueueInv, Running, ScreenLast, ServedRadioRuns
<1> QED BY <1>1, Invariance, PTL
-----------------------------------------------------------------------------
(* A client that is gone does not transmit *)

LEMMA LostInit == Init => LostInv
<1> SUFFICES ASSUME Init PROVE LostInv
  OBVIOUS
<1>1. idle = << >> /\ Len(idle) = 0
  BY DEF Init
<1> QED BY <1>1 DEF Init, LostInv, NoCommands

\* The steps that leave the queue alone, outside a session.
LEMMA LostSame ==
  ASSUME LostInv, idle' = idle, listen \notin {"loop", "over"} \/ listen' \in {"loop", "over"},
         by' = by \/ by' # "client"
  PROVE  LostInv'
  BY DEF LostInv, RxQueued, NoCommands

\* No callback that the listening thread queues is a command.
LEMMA LostAdds ==
  ASSUME LostInv, idle \in Seq(Call), listen \notin {"loop", "over"}, by' = by,
         NEW t \in Seq(Call), idle' = idle \o t,
         \A j \in 1..Len(t) : /\ t[j].cb \notin AllCommands
                              /\ t[j].cb = "mox" => t[j] = Own("mox")
  PROVE  LostInv'
<1>1. /\ \A i \in 1..Len(idle) : i \in 1..Len(idle') /\ idle'[i] = idle[i]
      /\ \A j \in 1..Len(idle') :
            \/ j \in 1..Len(idle) /\ idle'[j] = idle[j]
            \/ idle'[j].cb \notin AllCommands /\ (idle'[j].cb = "mox" => idle'[j] = Own("mox"))
  BY Added
<1>2. \A i \in 1..Len(idle') : idle'[i].cb = "mox" => idle'[i] = Own("mox")
  BY <1>1 DEF LostInv
<1>3. RxQueued => RxQueued'
  <2> SUFFICES ASSUME RxQueued PROVE RxQueued'
    OBVIOUS
  <2>1. PICK i \in 1..Len(idle) :
           /\ idle[i] = Own("mox")
           /\ \A j \in 1..Len(idle) : j > i => idle[j].cb \notin AllCommands
    BY DEF RxQueued
  <2>2. i \in 1..Len(idle') /\ idle'[i] = Own("mox")
    BY <1>1, <2>1
  <2>3. \A j \in 1..Len(idle') : j > i => idle'[j].cb \notin AllCommands
    BY <1>1, <2>1
  <2> QED BY <2>2, <2>3 DEF RxQueued
<1>4. NoCommands => NoCommands'
  BY <1>1 DEF NoCommands
<1> QED BY <1>2, <1>3, <1>4 DEF LostInv

LEMMA LostDispatch ==
  ASSUME "CMD_TWOTONE" \notin Commands, Inv, LostInv, Dispatch
  PROVE  LostInv'
<1> DEFINE q == Head(idle)
           p == Posted(radio, q)
<1>1. /\ idle # << >> /\ idle \in Seq(Call) /\ radio \in RadioState
      /\ idle' = Tail(idle) \o p /\ radio' = Handle(radio, q)
      /\ by' = IF ~Transmitting(radio') THEN "none"
               ELSE IF radio' # radio THEN "client" ELSE by
      /\ listen' = listen
  BY DEF Dispatch, Inv, TypeOK
<1>2. /\ q \in Call /\ q = idle[1] /\ 1 \in 1..Len(idle)
      /\ p = << >> \/ \E c \in Call : p = <<c>> /\ c.cb = "mox"
      /\ q.cb # "CMD_TWOTONE" => p = << >>
  BY <1>1, PostedFacts
<1> HIDE DEF p, q
<1>3. p = << >>
  <2>1. q.cb # "CMD_TWOTONE"
    BY <1>2 DEF Inv, QueueInv, OnlyCommands
  <2> QED BY <1>2, <2>1
<1>4. /\ \A i \in 1..Len(idle) : i > 1 => i - 1 \in 1..Len(idle') /\ idle'[i - 1] = idle[i]
      /\ \A j \in 1..Len(idle') : j + 1 \in 1..Len(idle) /\ idle'[j] = idle[j + 1]
  BY <1>1, <1>2, <1>3, Served
<1>5. /\ q = Own("mox") => ~Transmitting(radio')
      /\ q.cb \notin AllCommands /\ (q.cb = "mox" => q = Own("mox")) =>
            radio' = radio \/ ~Transmitting(radio')
  BY <1>1, <1>2, HandleFacts
<1>6. q.cb = "mox" => q = Own("mox")
  BY <1>2 DEF LostInv
<1>7. \A i \in 1..Len(idle') : idle'[i].cb = "mox" => idle'[i] = Own("mox")
  BY <1>4 DEF LostInv
<1>8. ASSUME listen' \notin {"loop", "over"}
      PROVE  RxQueued' \/ (by' # "client" /\ NoCommands')
  <2>1. CASE RxQueued
    <3>1. PICK i \in 1..Len(idle) :
             /\ idle[i] = Own("mox")
             /\ \A j \in 1..Len(idle) : j > i => idle[j].cb \notin AllCommands
      BY <2>1 DEF RxQueued
    <3>2. \A j \in 1..Len(idle') : j + 1 > i => idle'[j].cb \notin AllCommands
      BY <1>4, <3>1
    <3>3. CASE i = 1
      <4>1. by' # "client"
        BY <1>1, <1>2, <1>5, <3>1, <3>3
      <4>2. NoCommands'
        BY <3>2, <3>3 DEF NoCommands
      <4> QED BY <4>1, <4>2
    <3>4. CASE i > 1
      <4>1. i - 1 \in 1..Len(idle') /\ idle'[i - 1] = Own("mox")
        BY <1>4, <3>1, <3>4
      <4>2. \A j \in 1..Len(idle') : j > i - 1 => idle'[j].cb \notin AllCommands
        BY <3>2
      <4> QED BY <4>1, <4>2 DEF RxQueued
    <3> QED BY <3>3, <3>4
  <2>2. CASE by # "client" /\ NoCommands
    <3>1. q.cb \notin AllCommands
      BY <1>2, <2>2 DEF NoCommands
    <3>2. by' # "client"
      BY <1>1, <1>5, <1>6, <2>2, <3>1
    <3>3. NoCommands'
      BY <1>4, <2>2 DEF NoCommands
    <3> QED BY <3>2, <3>3
  <2> QED BY <1>1, <1>8, <2>1, <2>2 DEF LostInv
<1> QED BY <1>7, <1>8 DEF LostInv

LEMMA LostHandBack == Inv /\ LostInv /\ HandBack => LostInv'
<1> SUFFICES ASSUME Inv, LostInv, HandBack PROVE LostInv'
  OBVIOUS
<1> DEFINE n == Len(idle)
<1>1. idle \in Seq(Call)
  BY DEF Inv, TypeOK
<1>2. PICK m \in {2, 3} :
            /\ n \in Nat /\ Len(idle') = n + m
            /\ \A j \in 1..n : j \in 1..Len(idle') /\ idle'[j] = idle[j]
            /\ idle'[n + 1] = Own("mox")
            /\ idle'[n + m].cb = "screen"
            /\ m = 3 => idle'[n + 2].cb = "stop"
            /\ \A j \in 1..Len(idle') : \/ j \in 1..n
                                        \/ j = n + 1 \/ j = n + m
                                        \/ m = 3 /\ j = n + 2
  BY <1>1, HandBackAdds
<1>3. \A j \in 1..n : idle[j].cb = "mox" => idle[j] = Own("mox")
  BY DEF LostInv
<1> HIDE DEF n
<1>4. \A j \in 1..Len(idle') : idle'[j].cb = "mox" => idle'[j] = Own("mox")
  BY <1>2, <1>3
<1>5. n + 1 \in 1..Len(idle')
  BY <1>2
<1>6. \A j \in 1..Len(idle') : j > n + 1 => idle'[j].cb \notin AllCommands
  BY <1>2 DEF AllCommands
<1>7. RxQueued'
  BY <1>2, <1>5, <1>6 DEF RxQueued
<1> QED BY <1>4, <1>7 DEF LostInv

LEMMA LostKept ==
  ASSUME "CMD_TWOTONE" \notin Commands, Inv, LostInv, [Next]_vars
  PROVE  LostInv'
<1>1. idle \in Seq(Call) /\ (Busy \/ Aside)
  BY StepKinds DEF Inv, TypeOK
<1>2. CASE Aside
  <2>1. listen' = listen \/ (listen \in Away /\ listen' \in Away)
    BY <1>2 DEF Aside
  <2>2. listen \notin {"loop", "over"} \/ listen' \in {"loop", "over"}
    BY <2>1 DEF Away
  <2> QED BY <1>2, <2>2, LostSame DEF Aside
<1>3. CASE Dispatch
  BY <1>3, LostDispatch
<1>4. ASSUME NEW on \in BOOLEAN, LocalMox(on) PROVE LostInv'
  BY <1>4, LostSame DEF LocalMox
<1>5. CASE Start \/ End
  <2>1. /\ listen \notin {"loop", "over"} /\ by' = by
        /\ \/ idle' = idle
           \/ idle' = Append(idle, Own("stop"))
           \/ idle' = Append(idle, Own("run"))
    BY <1>5 DEF Start, End, Go, mainvars
  <2>2. CASE idle' = idle
    BY <2>1, <2>2, LostSame
  <2>3. ASSUME NEW cb \in {"run", "stop"}, idle' = Append(idle, Own(cb)) PROVE LostInv'
    <3> DEFINE t == <<Own(cb)>>
    <3>1. Own(cb) \in Call /\ Own(cb).cb = cb
      BY OwnCalls
    <3>2. t \in Seq(Call) /\ idle' = idle \o t
      BY <1>1, <2>3, <3>1
    <3>3. \A j \in 1..Len(t) : /\ t[j].cb \notin AllCommands
                               /\ t[j].cb = "mox" => t[j] = Own("mox")
      BY <3>1 DEF AllCommands
    <3> HIDE DEF t
    <3> QED BY <1>1, <2>1, <3>2, <3>3, LostAdds
  <2> QED BY <2>1, <2>2, <2>3
<1>6. CASE Prepare
  <2> DEFINE t == <<Own("run"), Own("mox"), Own("screen")>>
  <2>1. listen \notin {"loop", "over"} /\ by' = by /\ idle' = idle \o t
    BY <1>6 DEF Prepare, Go, mainvars
  <2>2. /\ Own("run") \in Call /\ Own("run").cb = "run"
        /\ Own("mox") \in Call /\ Own("mox").cb = "mox"
        /\ Own("screen") \in Call /\ Own("screen").cb = "screen"
    BY OwnCalls
  <2>3. t \in Seq(Call) /\ Len(t) = 3
    BY <2>2
  <2>4. ASSUME NEW j \in 1..Len(t)
        PROVE  t[j].cb \notin AllCommands /\ (t[j].cb = "mox" => t[j] = Own("mox"))
    <3>1. j = 1 \/ j = 2 \/ j = 3
      BY <2>3
    <3> QED BY <2>2, <3>1 DEF AllCommands
  <2> HIDE DEF t
  <2> QED BY <1>1, <2>1, <2>3, <2>4, LostAdds
<1>7. CASE HandBack
  BY <1>7, LostHandBack
<1>8. ASSUME NEW c \in Commands, NEW on \in BOOLEAN, ReadCommand(c, on) PROVE LostInv'
  <2> DEFINE q == [cb |-> c, on |-> on]
  <2>1. idle' = Append(idle, q) /\ listen' = "loop"
    BY <1>8 DEF ReadCommand
  <2>2. q.cb = c /\ c # "mox"
    BY ServerAssumption DEF AllCommands
  <2> HIDE DEF q
  <2>3. \A i \in 1..Len(idle') : idle'[i].cb = "mox" => idle'[i] = Own("mox")
    BY <1>1, <2>1, <2>2 DEF LostInv
  <2> QED BY <2>1, <2>3 DEF LostInv
<1>9. CASE TakeKeyer \/ Resume \/ SendAll \/ ReturnKeyer
  <2>1. /\ listen \in {"wait1", "wait2"} \/ listen' \in {"loop", "over"}
        /\ idle' = idle /\ by' = by
    BY <1>9 DEF TakeKeyer, Resume, SendAll, ReturnKeyer, Go, mainvars
  <2> QED BY <2>1, LostSame
<1> QED BY <1>1, <1>2, <1>3, <1>4, <1>5, <1>6, <1>7, <1>8, <1>9 DEF Busy

\* listen_thread(): while the radio transmits for a client, the session is open
\* or the callback that goes RX is queued, and no command is behind it.  Without
\* CMD_TWOTONE, whose change of MOX is queued a second time and may overtake
\* the end of the session.
THEOREM OrphansEnd ==
  ASSUME "CMD_TWOTONE" \notin Commands
  PROVE  Spec => []OrphanPending
<1>1. Init => LostInv
  BY LostInit
<1>2. Inv /\ LostInv /\ [Next]_vars => LostInv'
  BY LostKept
<1>3. LostInv => OrphanPending
  BY DEF LostInv, RxQueued, OrphanPending
<1> QED BY <1>1, <1>2, <1>3, Invariance, PTL DEF Spec
-----------------------------------------------------------------------------
(* The operator gets his settings back *)

LEMMA KeyerInit ==
  ASSUME "CW" \notin StartModes \/ Commands \cap TuneCommands = {}, Init
  PROVE  KeyerInv
<1>1. PICK m \in StartModes : radio = RadioOff(m)
  BY DEF Init
<1>2. /\ radio.premode = "SSB" /\ radio.mode = m /\ ~radio.tune
      /\ radio.keyint = KeyerInternal
  BY <1>1 DEF RadioOff
<1>3. m # "CW" \/ Commands \cap TuneCommands = {}
  BY <1>1
<1> QED BY <1>2, <1>3 DEF Init, KeyerInv, PlainTune

LEMMA KeyerDispatch ==
  ASSUME "CMD_SCREEN" \notin Commands, Inv, KeyerInv, Dispatch
  PROVE  KeyerInv'
<1> DEFINE q == Head(idle)
<1>1. /\ idle # << >> /\ idle \in Seq(Call) /\ radio \in RadioState /\ custom \in BOOLEAN
      /\ radio' = Handle(radio, q)
      /\ custom' = (q.cb = "CMD_SCREEN" \/ custom)
      /\ listen' = listen /\ oldint' = oldint
  BY DEF Dispatch, Inv, TypeOK
<1>2. q \in Call /\ q = idle[1] /\ 1 \in 1..Len(idle)
  BY <1>1, PostedFacts
<1> HIDE DEF q
<1>3. q.cb \in {"run", "stop", "mox", "screen"} \cup Commands
  BY <1>2 DEF Inv, QueueInv, OnlyCommands
<1>4. PlainTune(radio') /\ radio'.keyint = radio.keyint
  BY <1>1, <1>2, <1>3, HandleFacts DEF KeyerInv
<1>5. custom' => custom
  BY <1>1, <1>3
<1> QED BY <1>1, <1>4, <1>5 DEF KeyerInv

\* The keyer setting is taken and returned.
LEMMA KeyerMoves ==
  ASSUME Inv, KeyerInv, TakeKeyer \/ ReturnKeyer
  PROVE  KeyerInv'
<1>1. radio \in RadioState /\ oldint \in BOOLEAN
  BY DEF Inv, TypeOK
<1>2. CASE TakeKeyer
  <2>1. /\ listen = "wait1" /\ listen' = "init" /\ custom' = custom
        /\ oldint' = radio.keyint /\ radio' = [radio EXCEPT !.keyint = FALSE]
    BY <1>2 DEF TakeKeyer, Go
  <2>2. radio'.mode = radio.mode /\ radio'.premode = radio.premode /\ radio'.tune = radio.tune
    BY <1>1, <2>1, KeyintTypes
  <2> QED BY <2>1, <2>2 DEF KeyerInv, PlainTune
<1>3. CASE ReturnKeyer
  <2>1. /\ listen = "loop" /\ listen' = "over" /\ custom' = custom
        /\ radio' = [radio EXCEPT !.keyint = oldint]
    BY <1>3 DEF ReturnKeyer, Go
  <2>2. /\ radio'.mode = radio.mode /\ radio'.premode = radio.premode
        /\ radio'.tune = radio.tune /\ radio'.keyint = oldint
    BY <1>1, <2>1, KeyintTypes
  <2> QED BY <2>1, <2>2 DEF KeyerInv, PlainTune
<1> QED BY <1>2, <1>3

LEMMA KeyerKept ==
  ASSUME "CMD_SCREEN" \notin Commands, Inv, KeyerInv, [Next]_vars
  PROVE  KeyerInv'
<1>1. Busy \/ Aside
  BY StepKinds DEF Inv
<1>2. CASE Aside
  BY <1>2 DEF Aside, KeyerInv, Away
<1>3. CASE Dispatch
  BY <1>3, KeyerDispatch
<1>4. ASSUME NEW on \in BOOLEAN, LocalMox(on) PROVE KeyerInv'
  <2>1. /\ radio \in RadioState /\ radio' = SetMox(radio, on)
        /\ UNCHANGED <<custom, listen, oldint>>
    BY <1>4 DEF LocalMox, Inv, TypeOK
  <2>2. KeepsKeyer(radio, radio') /\ (radio' = radio \/ ~radio'.tune)
    BY <2>1, SetMoxKeeps
  <2> QED BY <2>1, <2>2 DEF KeyerInv, PlainTune, KeepsKeyer
<1>5. CASE TakeKeyer \/ ReturnKeyer
  BY <1>5, KeyerMoves
<1>6. CASE Start \/ SendAll \/ Resume \/ End
  BY <1>6 DEF Start, SendAll, Resume, End, Go, mainvars, KeyerInv
<1>7. CASE Prepare \/ HandBack
  BY <1>7 DEF Prepare, HandBack, Go, mainvars, KeyerInv
<1>8. ASSUME NEW c \in Commands, NEW on \in BOOLEAN, ReadCommand(c, on) PROVE KeyerInv'
  BY <1>8 DEF ReadCommand, mainvars, KeyerInv
<1> QED BY <1>1, <1>2, <1>3, <1>4, <1>5, <1>6, <1>7, <1>8 DEF Busy

\* listen_thread(): outside a session the operator has his screen and his keyer
\* setting back.  CMD_SCREEN changes the screen of a session that may be over,
\* and a client that starts TUNE in CW makes TUNE save the session's setting.
THEOREM SettingsHandedBack ==
  ASSUME "CMD_SCREEN" \notin Commands,
         "CW" \notin StartModes \/ Commands \cap TuneCommands = {}
  PROVE  Spec => []HandedBack
<1>1. Init => KeyerInv
  BY KeyerInit
<1>2. Inv /\ KeyerInv /\ [Next]_vars => KeyerInv'
  BY KeyerKept
<1>3. KeyerInv => HandedBack
  BY DEF KeyerInv, HandedBack
<1> QED BY <1>1, <1>2, <1>3, Invariance, PTL DEF Spec
=============================================================================
