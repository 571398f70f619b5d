------------------------- MODULE RemoteMirrorProofs -------------------------
(***************************************************************************)
(* Proofs about RemoteMirror: for any commands and local changes, and      *)
(* queues of any length, the client knows the state of the radio when it   *)
(* has heard everything, and its TX panel follows its flags.               *)
(*                                                                         *)
(* While messages are under way the two copies differ.  The invariant      *)
(* speaks of the mirror that the client will have when it has heard all    *)
(* of them (Leads): it agrees with the radio, or a callback of             *)
(* radio_set_mox() is queued at the server, whose message sets all flags.  *)
(***************************************************************************)
EXTENDS RemoteMirror, TLAPS

\* One flag at most, and the panel as the flags say.
Tidy(m) ==
  /\ m \in Mirror
  /\ ~(m.mox /\ m.vox) /\ ~(m.mox /\ m.tune) /\ ~(m.vox /\ m.tune)
  /\ m.tx <=> OnAir(m)
  /\ ~m.redo

\* A client whose mirror is m has the mirror e when it has heard d.
Leads(m, d, e) ==
  \E h \in [0..Len(d) -> {n \in Mirror : Tidy(n)}] :
     /\ h[0] = m /\ h[Len(d)] = e
     /\ \A i \in 1..Len(d) : h[i] = Learn(h[i - 1], d[i])

Same(e, r) == (e.mox <=> r.mox) /\ (e.vox <=> r.vox) /\ (e.tune <=> r.tune)

Agrees(e, r, g) == \/ Same(e, r)
                   \/ g = "refused" /\ e.mox /\ ~Transmitting(r)
                   \/ g \in {"tune", "twotone"}

\* A callback that sets all flags of the client is queued.
MoxQueued == \E i \in 1..Len(idle) : idle[i].cb = "mox"

\* Under TX inhibit the radio is off the air, or will be.
InhibitSafe ==
  radio.inhibit => \/ ~Transmitting(radio)
                   \/ \E i \in 1..Len(idle) : idle[i].cb = "mox" /\ ~idle[i].on

Types == /\ radio \in RadioState
         /\ up \in Seq(Call) /\ idle \in Seq(Call) /\ down \in Seq(Msg)
         /\ gap \in {"none", "refused", "tune", "twotone"}

Informed == \E e : Leads(mirror, down, e) /\ (MoxQueued \/ Agrees(e, radio, gap))

Inv == Types /\ InhibitSafe /\ Informed
-----------------------------------------------------------------------------
(* The client *)

LEMMA MirrorFields ==
  ASSUME NEW m \in Mirror
  PROVE  /\ m.mox \in BOOLEAN /\ m.vox \in BOOLEAN /\ m.tune \in BOOLEAN
         /\ m.twotone \in BOOLEAN /\ m.tx \in BOOLEAN /\ m.redo \in BOOLEAN
  BY Zenon DEF Mirror

\* rxtx() at the client.
LEMMA PanelFacts ==
  ASSUME NEW m \in Mirror, NEW on \in BOOLEAN
  PROVE  LET p == Panel(m, on) IN
         /\ p \in Mirror
         /\ p.mox = m.mox /\ p.vox = m.vox /\ p.tune = m.tune
         /\ p.tx = on
         /\ p.redo <=> m.redo \/ (m.tx <=> on)
<1> DEFINE b == m.redo \/ m.tx = on
           p == Panel(m, on)
<1>1. p = [m EXCEPT !.tx = on, !.redo = b]
  BY Zenon DEF Panel
<1>2. b \in BOOLEAN
  BY Zenon
<1>3. b <=> m.redo \/ (m.tx <=> on)
  <2>1. m.tx \in BOOLEAN
    BY MirrorFields
  <2>2. (m.tx = on) <=> (m.tx <=> on)
    BY <2>1, Zenon
  <2> QED BY <2>2, Zenon
<1> HIDE DEF b, p
<1>4. /\ p \in Mirror
      /\ p.mox = m.mox /\ p.vox = m.vox /\ p.tune = m.tune
      /\ p.tx = on /\ p.redo = b
  BY <1>1, <1>2, Zenon DEF Mirror
<1> QED BY <1>3, <1>4 DEF p

\* rxtx() is called exactly if the new flags differ in being on the air.
LEMMA FollowFacts ==
  ASSUME NEW m, Tidy(m), NEW on \in BOOLEAN
  PROVE  LET f == Follow(m, on) IN
         f \in Mirror /\ (f.tx <=> on) /\ ~f.redo
<1> DEFINE f == Follow(m, on)
<1>1. m \in Mirror /\ OnAir(m) \in BOOLEAN
  BY Zenon DEF Tidy, OnAir
<1>2. m.tx \in BOOLEAN /\ (m.tx <=> OnAir(m)) /\ ~m.redo
  BY <1>1, MirrorFields DEF Tidy
<1>3. CASE on # OnAir(m)
  <2>1. f = Panel(m, on)
    BY <1>3 DEF Follow
  <2>2. ~(OnAir(m) <=> on)
    BY <1>1, <1>3, Zenon
  <2>3. /\ f \in Mirror /\ f.tx = on
        /\ f.redo <=> m.redo \/ (m.tx <=> on)
    BY <1>1, <2>1, PanelFacts
  <2> HIDE DEF f
  <2> QED BY <1>2, <2>2, <2>3 DEF f
<1>4. CASE ~(on # OnAir(m))
  <2>1. f = m
    BY <1>4 DEF Follow
  <2>2. OnAir(m) <=> on
    BY <1>1, <1>4, Zenon
  <2> QED BY <1>1, <1>2, <2>1, <2>2
<1> QED BY <1>3, <1>4

LEMMA ClientMoxFacts ==
  ASSUME NEW m, Tidy(m), NEW on \in BOOLEAN
  PROVE  LET n == ClientMox(m, on) IN
         Tidy(n) /\ (n.mox <=> on) /\ ~n.vox /\ ~n.tune
<1> DEFINE f == Follow(m, on)
           n == ClientMox(m, on)
<1>1. f \in Mirror /\ (f.tx <=> on) /\ ~f.redo
  BY FollowFacts
<1>2. n = [f EXCEPT !.mox = on, !.tune = FALSE, !.vox = FALSE]
  BY DEF ClientMox
<1> HIDE DEF f, n
<1>3. /\ n \in Mirror /\ n.mox = on /\ ~n.tune /\ ~n.vox
      /\ n.tx = f.tx /\ n.redo = f.redo
  BY <1>1, <1>2, Zenon DEF Mirror
<1> QED BY <1>1, <1>3 DEF Tidy, OnAir, n

LEMMA ClientVoxFacts ==
  ASSUME NEW m, Tidy(m), NEW on \in BOOLEAN
  PROVE  LET n == ClientVox(m, on) IN
         Tidy(n) /\ (n.vox <=> on) /\ ~n.mox /\ ~n.tune
<1> DEFINE f == Follow(m, on)
           n == ClientVox(m, on)
<1>1. f \in Mirror /\ (f.tx <=> on) /\ ~f.redo
  BY FollowFacts
<1>2. n = [f EXCEPT !.mox = FALSE, !.tune = FALSE, !.vox = on]
  BY DEF ClientVox
<1> HIDE DEF f, n
<1>3. /\ n \in Mirror /\ ~n.mox /\ ~n.tune /\ n.vox = on
      /\ n.tx = f.tx /\ n.redo = f.redo
  BY <1>1, <1>2, Zenon DEF Mirror
<1> QED BY <1>1, <1>3 DEF Tidy, OnAir, n

\* TUNE takes over from MOX or VOX; what is known already changes nothing.
LEMMA ClientTuneFacts ==
  ASSUME NEW m, Tidy(m), NEW on \in BOOLEAN
  PROVE  LET n == ClientTune(m, on) IN
         /\ Tidy(n) /\ (n.tune <=> on)
         /\ on \/ m.tune => ~n.mox /\ ~n.vox
         /\ ~on /\ ~m.tune => n = m
<1> DEFINE off == IF m.vox \/ m.mox
                  THEN [Panel(m, FALSE) EXCEPT !.vox = FALSE, !.mox = FALSE] ELSE m
           p == Panel(off, on)
           n == ClientTune(m, on)
<1>1. /\ m \in Mirror /\ m.tune \in BOOLEAN /\ m.tx \in BOOLEAN
      /\ (m.tx <=> OnAir(m)) /\ ~m.redo
  BY MirrorFields DEF Tidy
<1>2. CASE on = m.tune
  <2>1. n = m
    BY <1>2 DEF ClientTune
  <2>2. on <=> m.tune
    BY <1>2
  <2> QED BY <2>1, <2>2 DEF Tidy
<1>3. CASE on # m.tune
  <2>1. n = [p EXCEPT !.tune = on]
    BY <1>3, Zenon DEF ClientTune
  <2>2. ~(on <=> m.tune)
    BY <1>1, <1>3, Zenon
  <2>3. /\ off \in Mirror /\ ~off.vox /\ ~off.mox /\ ~off.redo
        /\ off.tx <=> m.tune
    <3>1. CASE m.vox \/ m.mox
      <4> DEFINE k == Panel(m, FALSE)
      <4>1. k \in Mirror /\ k.tx = FALSE /\ (k.redo <=> m.redo \/ (m.tx <=> FALSE))
        BY <1>1, PanelFacts
      <4>2. off = [k EXCEPT !.vox = FALSE, !.mox = FALSE]
        BY <3>1, Zenon
      <4> HIDE DEF k, off
      <4>3. /\ off \in Mirror /\ ~off.vox /\ ~off.mox /\ off.redo = k.redo /\ off.tx = k.tx
        BY <4>1, <4>2, Zenon DEF Mirror
      <4> QED BY <1>1, <3>1, <4>1, <4>3 DEF Tidy, OnAir
    <3>2. CASE ~(m.vox \/ m.mox)
      <4>1. off = m
        BY <3>2
      <4> HIDE DEF off
      <4> QED BY <1>1, <3>2, <4>1 DEF OnAir
    <3> QED BY <3>1, <3>2
  <2> HIDE DEF off
  <2>4. /\ p \in Mirror /\ p.mox = off.mox /\ p.vox = off.vox
        /\ p.tx = on /\ (p.redo <=> off.redo \/ (off.tx <=> on))
    BY <2>3, PanelFacts
  <2> HIDE DEF p, n
  <2>5. /\ n \in Mirror /\ n.tune = on /\ n.mox = p.mox /\ n.vox = p.vox
        /\ n.tx = p.tx /\ n.redo = p.redo
    BY <2>1, <2>4, Zenon DEF Mirror
  <2> QED BY <2>2, <2>3, <2>4, <2>5 DEF Tidy, OnAir, n
<1> QED BY <1>2, <1>3

\* What one message makes of the mirror.
LEMMA LearnFacts ==
  ASSUME NEW m, Tidy(m), NEW msg \in Msg
  PROVE  LET n == Learn(m, msg) IN
         /\ Tidy(n)
         /\ msg.type \in {"MOX", "TWOTONE"} => (n.mox <=> msg.on) /\ ~n.vox /\ ~n.tune
         /\ msg.type = "VOX" => (n.vox <=> msg.on) /\ ~n.mox /\ ~n.tune
         /\ msg.type = "TUNE" => /\ n.tune <=> msg.on
                                 /\ msg.on \/ m.tune => ~n.mox /\ ~n.vox
                                 /\ ~msg.on /\ ~m.tune => n = m
<1>1. msg.type \in {"MOX", "VOX", "TUNE", "TWOTONE"} /\ msg.on \in BOOLEAN
  BY Zenon DEF Msg
<1>2. CASE msg.type = "MOX"
  BY <1>1, <1>2, ClientMoxFacts DEF Learn
<1>3. CASE msg.type = "VOX"
  BY <1>1, <1>3, ClientVoxFacts DEF Learn
<1>4. CASE msg.type = "TUNE"
  BY <1>1, <1>4, ClientTuneFacts DEF Learn
<1>5. CASE msg.type = "TWOTONE"
  <2> DEFINE k == ClientMox(m, msg.on)
             n == Learn(m, msg)
  <2>1. Tidy(k) /\ (k.mox <=> msg.on) /\ ~k.vox /\ ~k.tune
    BY <1>1, ClientMoxFacts
  <2>2. n = [k EXCEPT !.twotone = msg.on]
    BY <1>5 DEF Learn, ClientTwotone
  <2> HIDE DEF k, n
  <2>3. /\ n \in Mirror /\ n.mox = k.mox /\ n.vox = k.vox /\ n.tune = k.tune
        /\ n.tx = k.tx /\ n.redo = k.redo
    BY <1>1, <2>1, <2>2, Zenon DEF Tidy, Mirror
  <2>4. Tidy(n) /\ (n.mox <=> msg.on) /\ ~n.vox /\ ~n.tune
    BY <2>1, <2>3 DEF Tidy, OnAir
  <2> QED BY <1>5, <2>4 DEF n
<1> QED BY <1>1, <1>2, <1>3, <1>4, <1>5
-----------------------------------------------------------------------------
(* What the client will know *)

LEMMA LeadsNil == \A m : Tidy(m) => Leads(m, << >>, m)
<1> SUFFICES ASSUME NEW m, Tidy(m) PROVE Leads(m, << >>, m)
  OBVIOUS
<1>1. Len(<< >>) = 0
  OBVIOUS
<1>2. m \in {n \in Mirror : Tidy(n)}
  BY DEF Tidy
<1> DEFINE h == [i \in 0..0 |-> m]
<1>3. h \in [0..0 -> {n \in Mirror : Tidy(n)}] /\ h[0] = m
  BY <1>2
<1> HIDE DEF h
<1>4. \A i \in 1..0 : h[i] = Learn(h[i - 1], << >>[i])
  OBVIOUS
<1> QED BY <1>1, <1>3, <1>4 DEF Leads

LEMMA LeadsTidy ==
  ASSUME NEW m, NEW d \in Seq(Msg), NEW e, Leads(m, d, e)
  PROVE  Tidy(m) /\ Tidy(e) /\ (d = << >> => e = m)
<1>1. PICK h \in [0..Len(d) -> {n \in Mirror : Tidy(n)}] : h[0] = m /\ h[Len(d)] = e
  BY Zenon DEF Leads
<1>2. Len(d) \in Nat /\ 0 \in 0..Len(d) /\ Len(d) \in 0..Len(d)
  OBVIOUS
<1>3. Tidy(h[0]) /\ Tidy(h[Len(d)])
  BY <1>1, <1>2, Zenon
<1>4. d = << >> => Len(d) = 0
  OBVIOUS
<1> QED BY <1>1, <1>3, <1>4, Zenon

\* One more message.
LEMMA LeadsAppend ==
  ASSUME NEW m, NEW d \in Seq(Msg), NEW e, Leads(m, d, e), NEW msg \in Msg
  PROVE  Leads(m, d \o <<msg>>, Learn(e, msg))
<1> DEFINE S == {n \in Mirror : Tidy(n)}
           x == d \o <<msg>>
           f == Learn(e, msg)
<1>1. PICK h \in [0..Len(d) -> S] :
         /\ h[0] = m /\ h[Len(d)] = e
         /\ \A i \in 1..Len(d) : h[i] = Learn(h[i - 1], d[i])
  BY DEF Leads
<1>2. f \in S
  <2>1. Tidy(f)
    BY LeadsTidy, LearnFacts
  <2> QED BY <2>1 DEF Tidy
<1>3. /\ Len(d) \in Nat /\ Len(x) = Len(d) + 1
      /\ x[Len(d) + 1] = msg
      /\ \A i \in 1..Len(d) : x[i] = d[i]
  OBVIOUS
<1> HIDE DEF f, x, S
<1> DEFINE g == [i \in 0..Len(x) |-> IF i = Len(x) THEN f ELSE h[i]]
<1>4. g \in [0..Len(x) -> S]
  BY <1>2, <1>3
<1>5. g[0] = m /\ g[Len(x)] = f
  BY <1>1, <1>3
<1>6. \A i \in 1..Len(x) : g[i] = Learn(g[i - 1], x[i])
  <2> SUFFICES ASSUME NEW i \in 1..Len(x) PROVE g[i] = Learn(g[i - 1], x[i])
    OBVIOUS
  <2>1. CASE i = Len(x)
    <3>1. g[i] = f /\ g[i - 1] = h[Len(d)] /\ x[i] = msg
      BY <2>1, <1>3
    <3> QED BY <3>1, <1>1 DEF f
  <2>2. CASE i # Len(x)
    <3>1. i \in 1..Len(d) /\ g[i] = h[i] /\ g[i - 1] = h[i - 1] /\ x[i] = d[i]
      BY <2>2, <1>3
    <3> QED BY <3>1, <1>1
  <2> QED BY <2>1, <2>2
<1> HIDE DEF g
<1> QED BY <1>4, <1>5, <1>6 DEF Leads, S, f, x

\* The client hears the first message.
LEMMA LeadsTail ==
  ASSUME NEW m, NEW d \in Seq(Msg), NEW e, Leads(m, d, e), d # << >>
  PROVE  Leads(Learn(m, Head(d)), Tail(d), e)
<1> DEFINE S == {n \in Mirror : Tidy(n)}
           x == Tail(d)
<1>1. PICK h \in [0..Len(d) -> S] :
         /\ h[0] = m /\ h[Len(d)] = e
         /\ \A i \in 1..Len(d) : h[i] = Learn(h[i - 1], d[i])
  BY DEF Leads
<1>2. /\ Len(d) \in Nat \ {0} /\ Len(x) \in Nat /\ Len(x) = Len(d) - 1
      /\ Head(d) = d[1]
      /\ \A i \in 1..Len(x) : x[i] = d[i + 1]
  OBVIOUS
<1> HIDE DEF S, x
<1> DEFINE g == [i \in 0..Len(x) |-> h[i + 1]]
<1>3. g \in [0..Len(x) -> S]
  BY <1>2
<1>4. g[0] = Learn(m, Head(d)) /\ g[Len(x)] = e
  <2>1. g[0] = h[1] /\ g[Len(x)] = h[Len(d)] /\ 1 \in 1..Len(d)
    BY <1>2
  <2>2. h[1] = Learn(h[1 - 1], d[1]) /\ 1 - 1 = 0
    BY <1>1, <2>1
  <2> QED BY <2>1, <2>2, <1>1, <1>2
<1>5. \A i \in 1..Len(x) : g[i] = Learn(g[i - 1], x[i])
  <2> SUFFICES ASSUME NEW i \in 1..Len(x) PROVE g[i] = Learn(g[i - 1], x[i])
    OBVIOUS
  <2>1. /\ i + 1 \in 1..Len(d) /\ (i + 1) - 1 = i /\ (i - 1) + 1 = i
        /\ i \in 0..Len(x) /\ i - 1 \in 0..Len(x)
    BY <1>2
  <2>2. g[i] = h[i + 1] /\ g[i - 1] = h[(i - 1) + 1] /\ x[i] = d[i + 1]
    BY <2>1, <1>2
  <2>3. h[i + 1] = Learn(h[(i + 1) - 1], d[i + 1])
    BY <2>1, <1>1
  <2> HIDE DEF g
  <2> QED BY <2>1, <2>2, <2>3
<1> HIDE DEF g
<1> QED BY <1>3, <1>4, <1>5 DEF Leads, S, x
-----------------------------------------------------------------------------
(* The radio *)

\* What everything below keeps: the lines and the two-tone button.
Lines(r, s) == /\ s \in RadioState
               /\ s.inhibit = r.inhibit /\ s.inband = r.inband /\ s.twotone = r.twotone

SameFlags(r, s) == s.mox = r.mox /\ s.vox = r.vox /\ s.tune = r.tune

LEMMA FieldTypes ==
  ASSUME NEW r \in RadioState
  PROVE  /\ r.mox \in BOOLEAN /\ r.vox \in BOOLEAN /\ r.tune \in BOOLEAN
         /\ r.twotone \in BOOLEAN /\ r.tx \in BOOLEAN /\ r.rx \in BOOLEAN
         /\ r.redo \in BOOLEAN /\ r.duplex \in BOOLEAN /\ r.mode \in Modes
         /\ r.txmode \in Modes /\ r.premode \in Modes /\ r.preint \in BOOLEAN
         /\ r.keyint \in BOOLEAN /\ r.inhibit \in BOOLEAN /\ r.inband \in BOOLEAN
         /\ r.cap \in CapStates /\ r.presses \in Nat
  BY Zenon DEF RadioState

\* rxtx() changes the channels and the capture state, no flag.
LEMMA RxtxFlags ==
  ASSUME NEW r \in RadioState, NEW on \in BOOLEAN
  PROVE  Lines(r, Rxtx(r, on)) /\ SameFlags(r, Rxtx(r, on))
<1> DEFINE a == IF r.duplex THEN r.rx ELSE ~on
           b == r.redo \/ r.tx = on
           k == AbortCapture(r)
           k1 == [k EXCEPT !.tx = on]
           k2 == [k1 EXCEPT !.rx = a]
           s == Rxtx(r, on)
<1>1. a \in BOOLEAN /\ b \in BOOLEAN
  <2>1. r.rx \in BOOLEAN /\ r.duplex \in BOOLEAN
    BY FieldTypes
  <2>2. a \in BOOLEAN
    BY <2>1, Zenon
  <2>3. b \in BOOLEAN
    BY Zenon
  <2> HIDE DEF a, b
  <2> QED BY <2>2, <2>3
<1>2. s = [k2 EXCEPT !.redo = b]
  BY Zenon DEF Rxtx
<1> HIDE DEF a, b
<1>3. Lines(r, k) /\ SameFlags(r, k)
  <2>1. CASE r.cap \in {"RECORDING", "XMIT", "REPLAY"}
    <3> DEFINE c == Aborted(r.cap)
               n == r.presses + 1
               j == [r EXCEPT !.cap = c]
    <3>1. k = [j EXCEPT !.presses = n]
      BY <2>1, Zenon DEF AbortCapture
    <3>2. c \in CapStates
      BY <2>1 DEF Aborted, CapStates
    <3>3. n \in Nat
      BY FieldTypes
    <3> HIDE DEF c, n, k
    <3>4. Lines(r, j) /\ SameFlags(r, j)
      BY <3>2, Zenon DEF RadioState, Lines, SameFlags
    <3> HIDE DEF j
    <3>5. Lines(j, k) /\ SameFlags(j, k)
      BY <3>1, <3>3, <3>4, Zenon DEF RadioState, Lines, SameFlags
    <3> QED BY <3>4, <3>5, Zenon DEF Lines, SameFlags
  <2>2. CASE ~(r.cap \in {"RECORDING", "XMIT", "REPLAY"})
    BY <2>2, Zenon DEF AbortCapture, Lines, SameFlags
  <2> QED BY <2>1, <2>2
<1> HIDE DEF k, s
<1>4. Lines(k, k1) /\ SameFlags(k, k1)
  BY <1>3, Zenon DEF RadioState, Lines, SameFlags
<1> HIDE DEF k1
<1>5. Lines(k1, k2) /\ SameFlags(k1, k2)
  BY <1>1, <1>4, Zenon DEF RadioState, Lines, SameFlags
<1> HIDE DEF k2
<1>6. Lines(k2, s) /\ SameFlags(k2, s)
  BY <1>1, <1>2, <1>5, Zenon DEF RadioState, Lines, SameFlags
<1> QED BY <1>3, <1>4, <1>5, <1>6, Zenon DEF Lines, SameFlags, s

LEMMA VoxCancelFlags ==
  ASSUME NEW r \in RadioState
  PROVE  Lines(r, VoxCancel(r)) /\ SameFlags(r, VoxCancel(r))
<1>1. 0 \in Nat
  OBVIOUS
<1> QED BY <1>1, Zenon DEF VoxCancel, RadioState, Lines, SameFlags

\* The first thing a change of TUNE does.
LEMMA DropMoxVoxFlags ==
  ASSUME NEW r \in RadioState
  PROVE  LET d == DropMoxVox(r) IN
         Lines(r, d) /\ ~d.mox /\ ~d.vox /\ d.tune = r.tune
<1> DEFINE v == VoxCancel(r)
           s == Rxtx(v, FALSE)
           d == DropMoxVox(r)
<1>1. v \in RadioState /\ Lines(r, v) /\ SameFlags(r, v)
  BY VoxCancelFlags DEF Lines
<1>2. CASE r.mox \/ r.vox
  <2>1. d = [s EXCEPT !.mox = FALSE, !.vox = FALSE]
    BY <1>2, Zenon DEF DropMoxVox
  <2>2. s \in RadioState /\ Lines(v, s) /\ SameFlags(v, s)
    BY <1>1, RxtxFlags DEF Lines
  <2> HIDE DEF v, s, d
  <2>3. Lines(s, d) /\ ~d.mox /\ ~d.vox /\ d.tune = s.tune
    BY <2>1, <2>2, Zenon DEF RadioState, Lines
  <2> QED BY <1>1, <2>2, <2>3, Zenon DEF Lines, SameFlags, d
<1>3. CASE ~(r.mox \/ r.vox)
  <2>1. d = v
    BY <1>3, Zenon DEF DropMoxVox
  <2> HIDE DEF v, d
  <2> QED BY <1>1, <1>3, <2>1, Zenon DEF SameFlags, d
<1> QED BY <1>2, <1>3

LEMMA StartTuneFlags ==
  ASSUME NEW r \in RadioState
  PROVE  LET s == StartTune(r) IN
         Lines(r, s) /\ s.mox = r.mox /\ s.vox = r.vox /\ s.tune
<1> DEFINE k == IF r.mode = "CW" THEN FALSE ELSE r.keyint
           m == IF r.mode = "CW" THEN "SSB" ELSE r.txmode
           p == r.mode
           j == r.keyint
           q == [r EXCEPT !.premode = p, !.preint = j, !.gen = "single",
                          !.keyint = k, !.txmode = m, !.tune = TRUE]
           s == StartTune(r)
<1>1. s = Rxtx(q, TRUE)
  BY Zenon DEF StartTune
<1>2. p \in Modes /\ j \in BOOLEAN /\ k \in BOOLEAN /\ m \in Modes
  BY FieldTypes DEF Modes
<1> HIDE DEF p, j, k, m
<1>3. /\ q \in RadioState /\ Lines(r, q)
      /\ q.mox = r.mox /\ q.vox = r.vox /\ q.tune
  BY <1>2, Zenon DEF RadioState, Lines
<1> HIDE DEF q, s
<1>4. Lines(q, s) /\ SameFlags(q, s)
  BY <1>1, <1>3, RxtxFlags
<1> QED BY <1>3, <1>4, Zenon DEF Lines, SameFlags, s

LEMMA EndTuneFlags ==
  ASSUME NEW r \in RadioState
  PROVE  LET s == EndTune(r) IN
         Lines(r, s) /\ s.mox = r.mox /\ s.vox = r.vox /\ ~s.tune
<1> DEFINE k == IF r.premode = "CW" THEN r.preint ELSE r.keyint
           q == [r EXCEPT !.gen = "off"]
           t == Rxtx(q, FALSE)
           m == IF r.premode = "CW" THEN "CW" ELSE r.txmode
           s == EndTune(r)
<1>1. s = [t EXCEPT !.txmode = m, !.keyint = k, !.tune = FALSE]
  BY Zenon DEF EndTune
<1>2. k \in BOOLEAN /\ m \in Modes
  BY FieldTypes DEF Modes
<1> HIDE DEF k, m
<1>3. q \in RadioState /\ Lines(r, q) /\ SameFlags(r, q)
  BY Zenon DEF RadioState, Lines, SameFlags
<1> HIDE DEF q, s
<1>4. t \in RadioState /\ Lines(q, t) /\ SameFlags(q, t)
  BY <1>3, RxtxFlags DEF Lines
<1> HIDE DEF t
<1>5. Lines(t, s) /\ s.mox = t.mox /\ s.vox = t.vox /\ ~s.tune
  BY <1>1, <1>2, <1>4, Zenon DEF RadioState, Lines
<1> QED BY <1>3, <1>4, <1>5, Zenon DEF Lines, SameFlags, s

\* radio_set_tune(): nothing happens, or TUNE changes to what the band permits
\* and the two other flags are gone.
LEMMA SetTuneFlags ==
  ASSUME NEW r \in RadioState, NEW on \in BOOLEAN
  PROVE  LET s == SetTune(r, on) IN
         /\ Lines(r, s)
         /\ \/ s = r
            \/ /\ s.tune <=> on /\ r.inband
               /\ ~(s.tune <=> r.tune)
               /\ ~s.mox /\ ~s.vox /\ ~(on /\ r.inhibit)
         /\ ~on => ~s.tune
<1> DEFINE d == DropMoxVox(r)
           want == on /\ r.inband
           s == SetTune(r, on)
<1>1. r.tune \in BOOLEAN /\ r.inband \in BOOLEAN /\ want \in BOOLEAN
  BY FieldTypes
<1>2. d \in RadioState /\ Lines(r, d) /\ ~d.mox /\ ~d.vox /\ d.tune = r.tune
  BY DropMoxVoxFlags DEF Lines
<1>3. CASE (on /\ r.inhibit) \/ want = r.tune
  <2>1. s = r
    BY <1>3, Zenon DEF SetTune, ApplyTune, TunePasses
  <2>2. Lines(r, s) /\ (~on => ~r.tune)
    BY <1>1, <1>3, <2>1, Zenon DEF Lines
  <2> QED BY <2>1, <2>2
<1>4. CASE ~(on /\ r.inhibit) /\ want # r.tune
  <2>1. ~(want <=> r.tune)
    BY <1>1, <1>4, Zenon
  <2>2. CASE want
    <3>1. s = StartTune(d)
      BY <1>4, <2>2, Zenon DEF SetTune, ApplyTune, TunePasses
    <3> HIDE DEF d, s
    <3>2. Lines(d, s) /\ s.mox = d.mox /\ s.vox = d.vox /\ s.tune
      BY <1>2, <3>1, StartTuneFlags
    <3>3. Lines(r, s)
      BY <1>2, <3>2, Zenon DEF Lines
    <3> QED BY <1>2, <1>4, <2>1, <2>2, <3>2, <3>3 DEF s
  <2>3. CASE ~want
    <3>1. s = EndTune(d)
      BY <1>4, <2>3, Zenon DEF SetTune, ApplyTune, TunePasses
    <3> HIDE DEF d, s
    <3>2. Lines(d, s) /\ s.mox = d.mox /\ s.vox = d.vox /\ ~s.tune
      BY <1>2, <3>1, EndTuneFlags
    <3>3. Lines(r, s)
      BY <1>2, <3>2, Zenon DEF Lines
    <3> QED BY <1>2, <1>4, <2>1, <2>3, <3>2, <3>3 DEF s
  <2> QED BY <2>2, <2>3
<1> QED BY <1>3, <1>4

\* radio_set_mox(): refused under inhibit, or MOX becomes what the band permits
\* and the two other flags are gone.
LEMMA SetMoxFlags ==
  ASSUME NEW r \in RadioState, NEW on \in BOOLEAN
  PROVE  LET s == SetMox(r, on) IN
         /\ Lines(r, s)
         /\ on /\ r.inband /\ r.inhibit => s = r
         /\ ~(on /\ r.inband /\ r.inhibit) =>
               (s.mox <=> on /\ r.inband) /\ ~s.tune /\ ~s.vox
<1> DEFINE want == on /\ r.inband
           u == IF r.tune THEN SetTune(r, FALSE) ELSE r
           v == VoxCancel(u)
           t == IF want # Transmitting(v) THEN Rxtx(v, want) ELSE v
           s == SetMox(r, on)
<1>1. want \in BOOLEAN
  BY Zenon
<1>2. CASE want /\ r.inhibit
  <2>1. s = r
    BY <1>2, Zenon DEF SetMox, MoxPasses
  <2>2. Lines(r, s)
    BY <2>1 DEF Lines
  <2> QED BY <1>2, <2>1, <2>2
<1>3. CASE ~(want /\ r.inhibit)
  <2>1. s = [t EXCEPT !.mox = want, !.tune = FALSE, !.vox = FALSE]
    BY <1>3, Zenon DEF SetMox, MoxPasses, ApplyMox
  <2>2. u \in RadioState /\ Lines(r, u)
    <3>1. Lines(r, SetTune(r, FALSE)) /\ Lines(r, r)
      BY SetTuneFlags DEF Lines
    <3>2. Lines(r, u)
      BY <3>1, Zenon
    <3> QED BY <3>2 DEF Lines
  <2> HIDE DEF want, u
  <2>3. v \in RadioState /\ Lines(u, v)
    BY <2>2, VoxCancelFlags DEF Lines
  <2> HIDE DEF v
  <2>4. t \in RadioState /\ Lines(v, t)
    <3>1. Lines(v, Rxtx(v, want)) /\ Lines(v, v)
      BY <1>1, <2>3, RxtxFlags DEF Lines
    <3>2. Lines(v, t)
      BY <3>1, Zenon
    <3> QED BY <3>2 DEF Lines
  <2> HIDE DEF t, s
  <2>5. Lines(t, s) /\ s.mox = want /\ ~s.tune /\ ~s.vox
    BY <1>1, <2>1, <2>4, Zenon DEF RadioState, Lines
  <2>6. Lines(r, s)
    BY <2>2, <2>3, <2>4, <2>5, Zenon DEF Lines
  <2> QED BY <1>3, <2>5, <2>6 DEF want, s
<1> QED BY <1>2, <1>3

\* radio_set_vox(): nothing happens, or VOX changes as asked.
LEMMA SetVoxFlags ==
  ASSUME NEW r \in RadioState, NEW on \in BOOLEAN
  PROVE  LET s == SetVox(r, on) IN
         /\ Lines(r, s)
         /\ \/ s = r
            \/ /\ s.vox <=> on
               /\ ~(s.vox <=> r.vox)
               /\ ~s.mox /\ ~s.tune /\ ~(on /\ r.inhibit)
<1> DEFINE t == Rxtx(r, on)
           s == SetVox(r, on)
<1>1. CASE r.mox \/ r.tune \/ (on /\ r.inhibit) \/ r.vox = on
  <2>1. s = r
    BY <1>1, Zenon DEF SetVox, ApplyVox, VoxPasses
  <2>2. Lines(r, s)
    BY <2>1 DEF Lines
  <2> QED BY <2>1, <2>2
<1>2. CASE ~(r.mox \/ r.tune \/ (on /\ r.inhibit) \/ r.vox = on)
  <2>1. s = [t EXCEPT !.vox = on]
    BY <1>2, Zenon DEF SetVox, ApplyVox, VoxPasses
  <2>2. t \in RadioState /\ Lines(r, t) /\ SameFlags(r, t)
    BY RxtxFlags DEF Lines
  <2>3. ~(r.vox <=> on)
    BY <1>2, FieldTypes, Zenon
  <2> HIDE DEF t, s
  <2>4. Lines(t, s) /\ s.vox = on /\ s.mox = t.mox /\ s.tune = t.tune
    BY <2>1, <2>2, Zenon DEF RadioState, Lines
  <2>5. Lines(r, s)
    BY <2>2, <2>4, Zenon DEF Lines
  <2> QED BY <1>2, <2>2, <2>3, <2>4, <2>5 DEF SameFlags, s
<1> QED BY <1>1, <1>2

LEMMA SetTwotoneFlags ==
  ASSUME NEW r \in RadioState, NEW on \in BOOLEAN
  PROVE  LET s == SetTwotone(r, on) IN
         /\ s \in RadioState /\ SameFlags(r, s) /\ (s.twotone <=> on)
         /\ s.inhibit = r.inhibit /\ s.inband = r.inband
<1> DEFINE g == IF on THEN "two" ELSE "off"
           s == SetTwotone(r, on)
<1>1. s = [r EXCEPT !.twotone = on, !.gen = g]
  BY Zenon DEF SetTwotone
<1>2. g \in {"off", "single", "two"}
  OBVIOUS
<1> HIDE DEF g, s
<1> QED BY <1>1, <1>2, Zenon DEF RadioState, SameFlags, s
-----------------------------------------------------------------------------
(* What the client is told *)

LEMMA SayTypes ==
  ASSUME NEW type \in {"MOX", "VOX", "TUNE", "TWOTONE"}, NEW on \in BOOLEAN
  PROVE  Say(type, on) = <<[type |-> type, on |-> on]>>
         /\ [type |-> type, on |-> on] \in Msg
  BY Zenon DEF Say, Msg

\* The message about MOX sets all flags.  Where the request was refused the
\* radio does not transmit, or TX inhibit is just about to end a transmission.
LEMMA HearMox ==
  ASSUME NEW r \in RadioState, NEW on \in BOOLEAN, NEW e, Tidy(e)
  PROVE  \/ Agrees(Learn(e, [type |-> "MOX", on |-> on]), SetMox(r, on),
                   IF Refused(r, on) THEN "refused" ELSE "none")
         \/ on /\ r.inhibit /\ Transmitting(r)
<1> DEFINE msg == [type |-> "MOX", on |-> on]
           f == Learn(e, msg)
           s == SetMox(r, on)
           g == IF Refused(r, on) THEN "refused" ELSE "none"
<1>1. msg \in Msg /\ msg.type = "MOX" /\ msg.on = on
  BY SayTypes
<1> HIDE DEF msg
<1>2. (f.mox <=> on) /\ ~f.vox /\ ~f.tune
  BY <1>1, LearnFacts
<1>3. /\ on /\ r.inband /\ r.inhibit => s = r
      /\ ~(on /\ r.inband /\ r.inhibit) =>
            (s.mox <=> on /\ r.inband) /\ ~s.tune /\ ~s.vox
  BY SetMoxFlags
<1>4. Refused(r, on) => g = "refused"
  OBVIOUS
<1>5. Refused(r, on) <=> on /\ (r.inhibit \/ ~r.inband)
  BY DEF Refused
<1> HIDE DEF f, s, g
<1> QED BY <1>2, <1>3, <1>4, <1>5 DEF Agrees, Same, Transmitting, f, s, g, msg

\* The answer to a TUNE request: what changes is what the client is told.
LEMMA HearTune ==
  ASSUME NEW r \in RadioState, NEW on \in BOOLEAN, NEW e, Tidy(e), NEW g
  PROVE  LET s == SetTune(r, on)
             f == Learn(e, [type |-> "TUNE", on |-> s.tune])
         IN  /\ ~s.tune /\ Agrees(e, r, g) => Agrees(f, s, g)
             /\ s.tune /\ ~r.tune => Same(f, s)
<1> DEFINE s == SetTune(r, on)
           k == s.tune
           msg == [type |-> "TUNE", on |-> k]
           f == Learn(e, msg)
<1>1. /\ s \in RadioState /\ s.tune \in BOOLEAN
      /\ \/ s = r
         \/ ~(s.tune <=> r.tune) /\ ~s.mox /\ ~s.vox
  <2>1. s \in RadioState
    BY SetTuneFlags DEF Lines
  <2> QED BY <2>1, FieldTypes, SetTuneFlags
<1>2. msg \in Msg /\ msg.type = "TUNE" /\ msg.on = s.tune
  BY <1>1, SayTypes
<1> HIDE DEF msg, s
<1>3. /\ f.tune <=> s.tune
      /\ s.tune \/ e.tune => ~f.mox /\ ~f.vox
      /\ ~s.tune /\ ~e.tune => f = e
  BY <1>2, LearnFacts
<1> HIDE DEF f
<1>4. ASSUME s.tune, ~r.tune PROVE Same(f, s)
  BY <1>1, <1>3, <1>4 DEF Same
<1>5. ASSUME ~s.tune, Agrees(e, r, g) PROVE Agrees(f, s, g)
  <2>1. CASE s = r
    <3>1. CASE e.tune
      BY <1>3, <1>5, <2>1, <3>1 DEF Agrees, Same, Tidy
    <3>2. CASE ~e.tune
      BY <1>3, <1>5, <2>1, <3>2
    <3> QED BY <3>1, <3>2
  <2>2. CASE ~(s.tune <=> r.tune) /\ ~s.mox /\ ~s.vox
    BY <1>3, <1>5, <2>2 DEF Agrees, Same, Transmitting
  <2> QED BY <1>1, <2>1, <2>2
<1> QED BY <1>4, <1>5 DEF s, f, msg

\* server_command(): the lines stay, and inhibit is respected.
LEMMA HandleFacts ==
  ASSUME NEW r \in RadioState, NEW q \in Call
  PROVE  LET s == Handle(r, q) IN
         /\ s \in RadioState /\ s.inhibit = r.inhibit
         /\ r.inhibit => \/ ~Transmitting(s)
                         \/ SameFlags(r, s) /\ ~(q.cb = "mox" /\ ~q.on)
<1> DEFINE s == Handle(r, q)
<1>1. q.cb \in {"mox"} \cup AllCommands /\ q.on \in BOOLEAN
  BY Zenon DEF Call
<1>2. CASE q.cb \in {"mox", "CMD_MOX"}
  <2>1. s = SetMox(r, q.on)
    BY <1>2 DEF Handle
  <2>2. /\ Lines(r, s)
        /\ q.on /\ r.inband /\ r.inhibit => s = r
        /\ ~(q.on /\ r.inband /\ r.inhibit) =>
              (s.mox <=> q.on /\ r.inband) /\ ~s.tune /\ ~s.vox
    BY <1>1, <2>1, SetMoxFlags
  <2> HIDE DEF s
  <2> QED BY <2>2 DEF Lines, SameFlags, Transmitting, s
<1>3. CASE q.cb = "CMD_VOX"
  <2>1. s = SetVox(r, q.on)
    BY <1>3 DEF Handle
  <2>2. /\ Lines(r, s)
        /\ \/ s = r
           \/ (s.vox <=> q.on) /\ ~s.mox /\ ~s.tune /\ ~(q.on /\ r.inhibit)
    BY <1>1, <2>1, SetVoxFlags
  <2> HIDE DEF s
  <2> QED BY <1>3, <2>2 DEF Lines, SameFlags, Transmitting, s
<1>4. ASSUME NEW on \in BOOLEAN, s = SetTune(r, on), q.cb # "mox"
      PROVE  /\ s \in RadioState /\ s.inhibit = r.inhibit
             /\ r.inhibit => \/ ~Transmitting(s)
                             \/ SameFlags(r, s) /\ ~(q.cb = "mox" /\ ~q.on)
  <2>1. /\ Lines(r, s)
        /\ \/ s = r
           \/ (s.tune <=> on /\ r.inband) /\ ~s.mox /\ ~s.vox /\ ~(on /\ r.inhibit)
    BY <1>4, SetTuneFlags
  <2> HIDE DEF s
  <2> QED BY <1>4, <2>1 DEF Lines, SameFlags, Transmitting
<1>5. CASE q.cb = "CMD_TUNE"
  <2>1. s = SetTune(r, q.on)
    BY <1>5 DEF Handle
  <2> HIDE DEF s
  <2> QED BY <1>1, <1>4, <1>5, <2>1 DEF s
<1>6. CASE q.cb = "CMD_TOGGLE_TUNE"
  <2> DEFINE on == ~r.tune
  <2>1. s = TuneToggled(r)
    BY <1>6 DEF Handle
  <2>2. s = SetTune(r, on) /\ on \in BOOLEAN
    BY <2>1, Zenon DEF TuneToggled
  <2> HIDE DEF s, on
  <2> QED BY <1>4, <1>6, <2>2 DEF s
<1>7. CASE q.cb = "CMD_TWOTONE"
  <2>1. s = IF q.on = r.twotone THEN r ELSE SetTwotone(r, q.on)
    BY <1>7 DEF Handle
  <2>2. s \in RadioState /\ SameFlags(r, s) /\ s.inhibit = r.inhibit
    <3>1. CASE q.on = r.twotone
      BY <2>1, <3>1 DEF SameFlags
    <3>2. CASE q.on # r.twotone
      BY <1>1, <2>1, <3>2, SetTwotoneFlags
    <3> QED BY <3>1, <3>2
  <2> HIDE DEF s
  <2> QED BY <1>7, <2>2 DEF s
<1> QED BY <1>1, <1>2, <1>3, <1>5, <1>6, <1>7 DEF AllCommands

\* After a command the client is to have the mirror f.
LEMMA HandleTells ==
  ASSUME NEW r \in RadioState, NEW q \in Call,
         NEW m, NEW d \in Seq(Msg), NEW e, Leads(m, d, e)
  PROVE  /\ d \o Told(r, q) \in Seq(Msg)
         /\ \E f : /\ Leads(m, d \o Told(r, q), f)
                   /\ \/ Agrees(f, Handle(r, q), Gap(r, q))
                      \/ q.cb = "CMD_TWOTONE" /\ q.on # r.twotone
                      \/ q.on /\ r.inhibit /\ Transmitting(r) /\ q.cb \in {"mox", "CMD_MOX"}
                      \/ q.cb # "mox" /\ ~Agrees(e, r, gap)
<1> DEFINE s == Handle(r, q)
           Fine(f) == \/ Agrees(f, s, Gap(r, q))
                      \/ q.cb = "CMD_TWOTONE" /\ q.on # r.twotone
                      \/ q.on /\ r.inhibit /\ Transmitting(r) /\ q.cb \in {"mox", "CMD_MOX"}
                      \/ q.cb # "mox" /\ ~Agrees(e, r, gap)
<1>1. /\ q.cb \in {"mox"} \cup AllCommands /\ q.on \in BOOLEAN
      /\ Tidy(e)
      /\ s \in RadioState /\ s.tune \in BOOLEAN /\ s.vox \in BOOLEAN /\ s.twotone \in BOOLEAN
      /\ r.tune \in BOOLEAN /\ r.vox \in BOOLEAN
  <2>1. q.cb \in {"mox"} \cup AllCommands /\ q.on \in BOOLEAN
    BY Zenon DEF Call
  <2>2. s \in RadioState
    BY HandleFacts
  <2> HIDE DEF s
  <2> QED BY <2>1, <2>2, FieldTypes, LeadsTidy
<1>2. SUFFICES \/ Told(r, q) = << >> /\ Fine(e)
               \/ \E type \in {"MOX", "VOX", "TUNE", "TWOTONE"}, on \in BOOLEAN :
                     /\ Told(r, q) = Say(type, on)
                     /\ Fine(Learn(e, [type |-> type, on |-> on]))
  <2>1. CASE Told(r, q) = << >> /\ Fine(e)
    <3>1. d \o Told(r, q) = d
      BY <2>1
    <3> QED BY <2>1, <3>1
  <2>2. CASE \E type \in {"MOX", "VOX", "TUNE", "TWOTONE"}, on \in BOOLEAN :
                /\ Told(r, q) = Say(type, on)
                /\ Fine(Learn(e, [type |-> type, on |-> on]))
    <3>1. PICK type \in {"MOX", "VOX", "TUNE", "TWOTONE"}, on \in BOOLEAN :
                /\ Told(r, q) = Say(type, on)
                /\ Fine(Learn(e, [type |-> type, on |-> on]))
      BY <2>2
    <3> DEFINE msg == [type |-> type, on |-> on]
    <3>2. msg \in Msg /\ Told(r, q) = <<msg>>
      BY <3>1, SayTypes
    <3>3. Fine(Learn(e, msg))
      BY <3>1
    <3> HIDE DEF msg, Fine
    <3>4. d \o <<msg>> \in Seq(Msg) /\ Leads(m, d \o <<msg>>, Learn(e, msg))
      BY <3>2, LeadsAppend
    <3> QED BY <3>2, <3>3, <3>4 DEF Fine
  <2> QED BY <1>2, <2>1, <2>2
<1>3. CASE q.cb \in {"mox", "CMD_MOX"}
  <2>1. /\ Told(r, q) = Say("MOX", q.on) /\ s = SetMox(r, q.on)
        /\ Gap(r, q) = IF Refused(r, q.on) THEN "refused" ELSE "none"
    BY <1>3 DEF Told, Handle, Gap
  <2>2. \/ Agrees(Learn(e, [type |-> "MOX", on |-> q.on]), s, Gap(r, q))
        \/ q.on /\ r.inhibit /\ Transmitting(r)
    BY <1>1, <2>1, HearMox
  <2>3. Fine(Learn(e, [type |-> "MOX", on |-> q.on]))
    BY <1>3, <2>2
  <2> QED BY <1>1, <2>1, <2>3
<1>4. CASE q.cb = "CMD_VOX"
  <2>1. /\ Told(r, q) = IF s.vox = r.vox THEN << >> ELSE Say("VOX", q.on)
        /\ s = SetVox(r, q.on)
        /\ Gap(r, q) = IF s.vox # r.vox THEN "none" ELSE gap
    BY <1>4 DEF Told, Handle, Gap
  <2>2. s = r \/ ((s.vox <=> q.on) /\ ~(s.vox <=> r.vox) /\ ~s.mox /\ ~s.tune)
    BY <1>1, <2>1, SetVoxFlags
  <2>3. CASE s = r
    <3>1. Told(r, q) = << >> /\ Gap(r, q) = gap
      BY <2>1, <2>3
    <3> QED BY <1>4, <2>3, <3>1
  <2>4. CASE (s.vox <=> q.on) /\ ~(s.vox <=> r.vox) /\ ~s.mox /\ ~s.tune
    <3> DEFINE k == q.on
               msg == [type |-> "VOX", on |-> k]
               f == Learn(e, msg)
    <3>1. Told(r, q) = Say("VOX", q.on)
      BY <2>1, <2>4
    <3>2. msg \in Msg /\ msg.type = "VOX" /\ msg.on = q.on
      BY <1>1, SayTypes
    <3> HIDE DEF msg, s
    <3>3. (f.vox <=> q.on) /\ ~f.mox /\ ~f.tune
      BY <1>1, <3>2, LearnFacts
    <3> HIDE DEF f
    <3>4. Agrees(f, s, Gap(r, q))
      BY <2>4, <3>3 DEF Agrees, Same
    <3>5. Fine(f)
      BY <3>4
    <3> QED BY <1>1, <3>1, <3>5 DEF f, msg
  <2> QED BY <2>2, <2>3, <2>4
<1>5. ASSUME NEW on \in BOOLEAN, s = SetTune(r, on), q.cb # "mox",
             Told(r, q) = Say("TUNE", s.tune), s.tune => ~r.tune,
             ~s.tune => Gap(r, q) = gap
      PROVE  \E type \in {"MOX", "VOX", "TUNE", "TWOTONE"}, b \in BOOLEAN :
                     /\ Told(r, q) = Say(type, b)
                     /\ Fine(Learn(e, [type |-> type, on |-> b]))
  <2> DEFINE f == Learn(e, [type |-> "TUNE", on |-> s.tune])
  <2>1. /\ ~s.tune /\ Agrees(e, r, gap) => Agrees(f, s, gap)
        /\ s.tune /\ ~r.tune => Same(f, s)
    BY <1>1, <1>5, HearTune
  <2> HIDE DEF f, s
  <2>2. Fine(f)
    BY <1>5, <2>1 DEF Agrees
  <2> QED BY <1>1, <1>5, <2>2 DEF f
<1>6. CASE q.cb = "CMD_TUNE"
  <2>1. /\ Told(r, q) = IF s.tune = q.on THEN << >> ELSE Say("TUNE", s.tune)
        /\ s = SetTune(r, q.on)
        /\ s.tune = q.on /\ s # r => Gap(r, q) = "tune"
        /\ s.tune = q.on /\ s = r => Gap(r, q) = gap
        /\ s.tune # q.on /\ ~s.tune => Gap(r, q) = gap
    BY <1>6 DEF Told, Handle, Gap
  <2>2. ~q.on => ~s.tune
    BY <1>1, <2>1, SetTuneFlags
  <2> HIDE DEF s
  <2>3. CASE s.tune = q.on
    <3>1. Told(r, q) = << >>
      BY <2>1, <2>3
    <3>2. CASE s = r
      BY <1>6, <2>1, <2>3, <3>1, <3>2
    <3>3. CASE s # r
      <4>1. Agrees(e, s, Gap(r, q))
        BY <2>1, <2>3, <3>3 DEF Agrees
      <4> QED BY <3>1, <4>1
    <3> QED BY <3>2, <3>3
  <2>4. CASE s.tune # q.on
    <3>1. ~s.tune
      BY <1>1, <2>2, <2>4, Zenon
    <3>2. Told(r, q) = Say("TUNE", s.tune) /\ Gap(r, q) = gap
      BY <2>1, <2>4, <3>1
    <3> HIDE DEF Fine
    <3> QED BY <1>1, <1>5, <1>6, <2>1, <3>1, <3>2
  <2> QED BY <2>3, <2>4
<1>7. CASE q.cb = "CMD_TOGGLE_TUNE"
  <2> DEFINE on == ~r.tune
  <2>1. /\ Told(r, q) = Say("TUNE", s.tune)
        /\ s = TuneToggled(r)
        /\ ~s.tune => Gap(r, q) = gap
    BY <1>7 DEF Told, Handle, Gap
  <2>2. on \in BOOLEAN /\ s = SetTune(r, on) /\ (~on => ~s.tune)
    <3>1. on \in BOOLEAN /\ s = SetTune(r, on)
      BY <2>1, Zenon DEF TuneToggled
    <3> HIDE DEF on
    <3> QED BY <3>1, SetTuneFlags
  <2>3. s.tune => ~r.tune
    BY <2>2
  <2> HIDE DEF s, Fine, on
  <2> QED BY <1>5, <1>7, <2>1, <2>2, <2>3
<1>8. CASE q.cb = "CMD_TWOTONE"
  <2>1. /\ Told(r, q) = Say("TWOTONE", s.twotone)
        /\ q.on = r.twotone => Gap(r, q) = "twotone"
    BY <1>8 DEF Told, Handle, Gap
  <2>2. Fine(Learn(e, [type |-> "TWOTONE", on |-> s.twotone]))
    BY <1>8, <2>1 DEF Agrees
  <2> QED BY <1>1, <2>1, <2>2
<1> QED BY <1>1, <1>3, <1>4, <1>6, <1>7, <1>8 DEF AllCommands
-----------------------------------------------------------------------------
(* The steps *)

\* Serving the head of a queue leaves the others in it.
LEMMA StillQueued ==
  ASSUME NEW S, NEW s \in Seq(S), NEW t \in Seq(S), s # << >>,
         NEW i \in 1..Len(s), s[i] # Head(s)
  PROVE  /\ Tail(s) \o t \in Seq(S)
         /\ i - 1 \in 1..Len(Tail(s) \o t)
         /\ (Tail(s) \o t)[i - 1] = s[i]
<1>1. i # 1 /\ i - 1 \in 1..Len(Tail(s))
  OBVIOUS
<1>2. Tail(s) \in Seq(S) /\ Len(Tail(s)) \in Nat /\ Len(t) \in Nat
  OBVIOUS
<1>3. Tail(s)[i - 1] = s[i]
  BY <1>1
<1>4. (Tail(s) \o t)[i - 1] = Tail(s)[i - 1] /\ Len(Tail(s) \o t) = Len(Tail(s)) + Len(t)
  BY <1>1, <1>2
<1> QED BY <1>1, <1>2, <1>3, <1>4

LEMMA InitInv == Init => Inv
<1> SUFFICES ASSUME Init PROVE Inv
  OBVIOUS
<1> DEFINE m == [mox |-> FALSE, vox |-> FALSE, tune |-> FALSE,
                 twotone |-> FALSE, tx |-> FALSE, redo |-> FALSE]
<1>1. mirror = m /\ down = << >> /\ gap = "none"
  BY DEF Init
<1>2. m \in Mirror
  BY Zenon DEF Mirror
<1>3. ~m.mox /\ ~m.vox /\ ~m.tune /\ ~m.tx /\ ~m.redo
  OBVIOUS
<1>4. Tidy(m)
  BY <1>2, <1>3 DEF Tidy, OnAir
<1> HIDE DEF m
<1>5. /\ radio \in RadioState
      /\ ~radio.mox /\ ~radio.vox /\ ~radio.tune /\ ~radio.inhibit
  <2>1. radio = RadioOff("SSB")
    BY DEF Init
  <2>2. RadioOff("SSB") \in RadioState
    BY KeyerAssumption DEF RadioOff, RadioState, Modes, CapStates
  <2>3. /\ ~RadioOff("SSB").mox /\ ~RadioOff("SSB").vox /\ ~RadioOff("SSB").tune
        /\ ~RadioOff("SSB").inhibit
    BY DEF RadioOff
  <2> QED BY <2>1, <2>2, <2>3
<1>6. Leads(mirror, down, m)
  BY <1>1, <1>4, LeadsNil
<1>7. Agrees(m, radio, gap)
  BY <1>3, <1>5 DEF Agrees, Same, m
<1>8. Types
  BY <1>1, <1>5 DEF Types, Init
<1> QED BY <1>5, <1>6, <1>7, <1>8 DEF Inv, InhibitSafe, Informed

\* What the client has sent does not matter yet.
LEMMA SendKeeps ==
  ASSUME Inv, NEW c \in Commands, NEW on \in BOOLEAN, Send(c, on)
  PROVE  Inv'
<1> DEFINE q == [cb |-> c, on |-> on]
<1>1. q \in Call
  BY MirrorAssumption, Zenon DEF Call
<1>2. up' = Append(up, q) /\ UNCHANGED <<radio, mirror, idle, down, gap>>
  BY DEF Send
<1> HIDE DEF q
<1>3. up' \in Seq(Call)
  BY <1>1, <1>2 DEF Inv, Types
<1> QED BY <1>2, <1>3 DEF Inv, Types, InhibitSafe, Informed, MoxQueued

\* The client moves towards the mirror it will have.
LEMMA ReceiveKeeps == Inv /\ Receive => Inv'
<1> SUFFICES ASSUME Inv, Receive PROVE Inv'
  OBVIOUS
<1>1. /\ down # << >> /\ down \in Seq(Msg)
      /\ mirror' = Learn(mirror, Head(down)) /\ down' = Tail(down)
      /\ UNCHANGED <<radio, up, idle, gap>>
  BY DEF Receive, Inv, Types
<1>2. PICK e : Leads(mirror, down, e) /\ (MoxQueued \/ Agrees(e, radio, gap))
  BY DEF Inv, Informed
<1>3. Leads(mirror', down', e)
  BY <1>1, <1>2, LeadsTail
<1>4. down' \in Seq(Msg)
  BY <1>1
<1> QED BY <1>1, <1>2, <1>3, <1>4 DEF Inv, Types, InhibitSafe, Informed, MoxQueued

\* A callback at the end of the queue does not displace any.
LEMMA AppendedKeeps ==
  ASSUME idle \in Seq(Call), NEW q \in Call, idle' = Append(idle, q)
  PROVE  /\ idle' \in Seq(Call)
         /\ idle'[Len(idle')] = q /\ Len(idle') \in 1..Len(idle')
         /\ \A i \in 1..Len(idle) : i \in 1..Len(idle') /\ idle'[i] = idle[i]
         /\ MoxQueued => MoxQueued'
<1>1. /\ idle' \in Seq(Call)
      /\ idle'[Len(idle')] = q /\ Len(idle') \in 1..Len(idle')
      /\ \A i \in 1..Len(idle) : i \in 1..Len(idle') /\ idle'[i] = idle[i]
  OBVIOUS
<1> QED BY <1>1 DEF MoxQueued

LEMMA QueueKeeps == Inv /\ Queue => Inv'
<1> SUFFICES ASSUME Inv, Queue PROVE Inv'
  OBVIOUS
<1>1. /\ up # << >> /\ up \in Seq(Call) /\ idle \in Seq(Call)
      /\ idle' = Append(idle, Head(up)) /\ up' = Tail(up)
      /\ UNCHANGED <<radio, mirror, down, gap>>
  BY DEF Queue, Inv, Types
<1>2. Head(up) \in Call /\ up' \in Seq(Call)
  BY <1>1
<1>3. /\ idle' \in Seq(Call)
      /\ \A i \in 1..Len(idle) : i \in 1..Len(idle') /\ idle'[i] = idle[i]
      /\ MoxQueued => MoxQueued'
  BY <1>1, <1>2, AppendedKeeps
<1>4. InhibitSafe'
  BY <1>1, <1>3 DEF Inv, InhibitSafe
<1> QED BY <1>1, <1>2, <1>3, <1>4 DEF Inv, Types, Informed

LEMMA GapTypes ==
  ASSUME NEW r, NEW q \in Call, gap \in {"none", "refused", "tune", "twotone"}
  PROVE  Gap(r, q) \in {"none", "refused", "tune", "twotone"}
<1> HIDE DEF Handle
<1> QED BY DEF Gap

\* server_command() and ext_radio_set_mox(): what is queued, or what was said,
\* makes up for every difference.
LEMMA DispatchKeeps == Inv /\ Dispatch => Inv'
<1> SUFFICES ASSUME Inv, Dispatch PROVE Inv'
  OBVIOUS
<1> DEFINE q == Head(idle)
           p == Posted(radio, q)
<1>1. /\ idle # << >> /\ idle \in Seq(Call) /\ down \in Seq(Msg) /\ radio \in RadioState
      /\ radio' = Handle(radio, q) /\ down' = down \o Told(radio, q)
      /\ idle' = Tail(idle) \o p /\ gap' = Gap(radio, q)
      /\ UNCHANGED <<mirror, up>>
  BY DEF Dispatch, Inv, Types
<1>2. q \in Call /\ q.cb \in {"mox"} \cup AllCommands /\ q.on \in BOOLEAN
  <2>1. q \in Call
    BY <1>1
  <2> HIDE DEF q
  <2> QED BY <2>1, Zenon DEF Call
<1>3. p \in Seq(Call)
  <2> DEFINE k == q.on
             c == [cb |-> "mox", on |-> k]
  <2>1. k \in BOOLEAN
    BY <1>2
  <2>2. p = << >> \/ p = <<c>>
    BY Zenon DEF Posted
  <2> HIDE DEF k, p
  <2>3. c \in Call
    BY <2>1, Zenon DEF Call
  <2> HIDE DEF c
  <2>4. << >> \in Seq(Call) /\ <<c>> \in Seq(Call)
    BY <2>3
  <2> QED BY <2>2, <2>4, Zenon
<1>4. ASSUME NEW i \in 1..Len(idle), idle[i] # q
      PROVE  i - 1 \in 1..Len(idle') /\ idle'[i - 1] = idle[i]
  BY <1>1, <1>3, <1>4, StillQueued
<1>5. idle' \in Seq(Call)
  <2>1. Tail(idle) \in Seq(Call)
    BY <1>1
  <2> HIDE DEF p
  <2> QED BY <1>1, <1>3, <2>1
<1>6. MoxQueued /\ q.cb # "mox" => MoxQueued'
  <2> SUFFICES ASSUME NEW i \in 1..Len(idle), idle[i].cb = "mox", q.cb # "mox"
               PROVE  MoxQueued'
    BY DEF MoxQueued
  <2>1. idle[i] # q
    OBVIOUS
  <2> HIDE DEF q
  <2> QED BY <1>4, <2>1 DEF MoxQueued
<1>7. q.cb = "CMD_TWOTONE" /\ q.on # radio.twotone => MoxQueued'
  <2> SUFFICES ASSUME q.cb = "CMD_TWOTONE" /\ q.on # radio.twotone PROVE MoxQueued'
    OBVIOUS
  <2> DEFINE k == q.on
             c == [cb |-> "mox", on |-> k]
             t == Tail(idle)
  <2>1. p = <<c>> /\ c.cb = "mox"
    BY Zenon DEF Posted
  <2> HIDE DEF c, p, q
  <2>2. t \in Seq(Call) /\ idle' = t \o <<c>>
    BY <1>1, <2>1
  <2> HIDE DEF t
  <2>3. Len(t) + 1 \in 1..Len(idle') /\ idle'[Len(t) + 1] = c
    BY <2>2
  <2> QED BY <2>1, <2>3 DEF MoxQueued
<1> HIDE DEF p, q
<1>8. /\ radio' \in RadioState /\ radio'.inhibit = radio.inhibit
      /\ radio.inhibit => \/ ~Transmitting(radio')
                          \/ SameFlags(radio, radio') /\ ~(q.cb = "mox" /\ ~q.on)
  BY <1>1, <1>2, HandleFacts
<1>9. radio.inhibit /\ Transmitting(radio) /\ (q.cb = "mox" => q.on) =>
         \E i \in 1..Len(idle') : idle'[i].cb = "mox" /\ ~idle'[i].on
  <2> SUFFICES ASSUME radio.inhibit, Transmitting(radio), q.cb = "mox" => q.on
               PROVE  \E i \in 1..Len(idle') : idle'[i].cb = "mox" /\ ~idle'[i].on
    OBVIOUS
  <2>1. PICK i \in 1..Len(idle) : idle[i].cb = "mox" /\ ~idle[i].on
    BY DEF Inv, InhibitSafe
  <2>2. idle[i] # q
    BY <2>1
  <2>3. i - 1 \in 1..Len(idle') /\ idle'[i - 1] = idle[i]
    BY <1>4, <2>2
  <2> QED BY <2>1, <2>3
<1>10. InhibitSafe'
  BY <1>8, <1>9 DEF InhibitSafe, SameFlags, Transmitting
<1>11. PICK e : Leads(mirror, down, e) /\ (MoxQueued \/ Agrees(e, radio, gap))
  BY DEF Inv, Informed
<1>12. /\ down' \in Seq(Msg)
       /\ \E f : /\ Leads(mirror, down', f)
                 /\ \/ Agrees(f, radio', gap')
                    \/ q.cb = "CMD_TWOTONE" /\ q.on # radio.twotone
                    \/ q.on /\ radio.inhibit /\ Transmitting(radio) /\ q.cb \in {"mox", "CMD_MOX"}
                    \/ q.cb # "mox" /\ ~Agrees(e, radio, gap)
  BY <1>1, <1>2, <1>11, HandleTells
<1>13. Informed'
  <2>1. PICK f : /\ Leads(mirror, down', f)
                 /\ \/ Agrees(f, radio', gap')
                    \/ q.cb = "CMD_TWOTONE" /\ q.on # radio.twotone
                    \/ q.on /\ radio.inhibit /\ Transmitting(radio) /\ q.cb \in {"mox", "CMD_MOX"}
                    \/ q.cb # "mox" /\ ~Agrees(e, radio, gap)
    BY <1>12
  <2>2. q.on /\ radio.inhibit /\ Transmitting(radio) => MoxQueued'
    BY <1>9 DEF MoxQueued
  <2>3. MoxQueued' \/ Agrees(f, radio', gap')
    BY <1>6, <1>7, <1>11, <2>1, <2>2
  <2> QED BY <1>1, <2>1, <2>3 DEF Informed
<1>14. gap' \in {"none", "refused", "tune", "twotone"}
  BY <1>1, <1>2, GapTypes DEF Inv, Types
<1> QED BY <1>1, <1>5, <1>8, <1>10, <1>12, <1>13, <1>14 DEF Inv, Types

\* The operator's MOX is told at once, and sets all flags of the client.
LEMMA LocalMoxKeeps ==
  ASSUME Inv, NEW on \in BOOLEAN, LocalMox(on)
  PROVE  Inv'
<1> DEFINE msg == [type |-> "MOX", on |-> on]
           g == IF Refused(radio, on) THEN "refused" ELSE "none"
<1>1. /\ radio \in RadioState /\ radio' = SetMox(radio, on)
      /\ down \in Seq(Msg) /\ down' = down \o Say("MOX", on)
      /\ gap' = g
      /\ UNCHANGED <<mirror, up, idle>>
  BY DEF LocalMox, Inv, Types
<1>2. msg \in Msg /\ Say("MOX", on) = <<msg>>
  BY SayTypes
<1>3. PICK e : Leads(mirror, down, e)
  BY DEF Inv, Informed
<1>4. Tidy(e)
  BY <1>1, <1>3, LeadsTidy
<1>5. \/ Agrees(Learn(e, msg), radio', gap')
      \/ on /\ radio.inhibit /\ Transmitting(radio)
  BY <1>1, <1>4, HearMox
<1>6. gap' \in {"none", "refused", "tune", "twotone"}
  BY <1>1
<1> HIDE DEF msg, g
<1>7. down' \in Seq(Msg) /\ Leads(mirror, down', Learn(e, msg))
  BY <1>1, <1>2, <1>3, LeadsAppend
<1>8. MoxQueued' \/ Agrees(Learn(e, msg), radio', gap')
  BY <1>1, <1>5 DEF Inv, InhibitSafe, MoxQueued
<1>9. /\ Lines(radio, radio')
      /\ on /\ radio.inband /\ radio.inhibit => radio' = radio
      /\ ~(on /\ radio.inband /\ radio.inhibit) =>
            (radio'.mox <=> on /\ radio.inband) /\ ~radio'.tune /\ ~radio'.vox
  BY <1>1, SetMoxFlags
<1>10. radio' \in RadioState /\ InhibitSafe'
  BY <1>1, <1>9 DEF Inv, InhibitSafe, Lines, Transmitting
<1> QED BY <1>1, <1>6, <1>7, <1>8, <1>10 DEF Inv, Types, Informed

\* The operator's TUNE is not told.
LEMMA LocalTuneKeeps ==
  ASSUME Inv, NEW on \in BOOLEAN, LocalTune(on)
  PROVE  Inv'
<1>1. /\ radio \in RadioState /\ radio' = SetTune(radio, on)
      /\ gap' = IF radio' # radio THEN "tune" ELSE gap
      /\ UNCHANGED <<mirror, up, idle, down>>
  BY DEF LocalTune, Inv, Types
<1>2. /\ Lines(radio, radio')
      /\ \/ radio' = radio
         \/ /\ radio'.tune <=> on /\ radio.inband
            /\ ~radio'.mox /\ ~radio'.vox /\ ~(on /\ radio.inhibit)
  BY <1>1, SetTuneFlags
<1>3. radio' \in RadioState /\ InhibitSafe'
  BY <1>1, <1>2 DEF Inv, InhibitSafe, Lines, Transmitting
<1>4. PICK e : Leads(mirror, down, e) /\ (MoxQueued \/ Agrees(e, radio, gap))
  BY DEF Inv, Informed
<1>5. MoxQueued' \/ Agrees(e, radio', gap')
  BY <1>1, <1>4 DEF Agrees, MoxQueued
<1>6. Informed'
  BY <1>1, <1>4, <1>5 DEF Informed
<1> QED BY <1>1, <1>3, <1>6 DEF Inv, Types

\* A change of one of the lines.
LEMMA LinesKeep ==
  ASSUME NEW r \in RadioState, NEW b \in BOOLEAN
  PROVE  /\ LET s == [r EXCEPT !.inhibit = b] IN
            s \in RadioState /\ SameFlags(r, s) /\ s.inhibit = b
         /\ LET s == [r EXCEPT !.inband = b] IN
            s \in RadioState /\ SameFlags(r, s) /\ s.inhibit = r.inhibit
  BY Zenon DEF RadioState, SameFlags

\* The flags stay, and nothing is said.
LEMMA SameAgrees ==
  ASSUME SameFlags(radio, radio'), UNCHANGED <<mirror, down>>, gap' = gap,
         MoxQueued => MoxQueued', Informed
  PROVE  Informed'
<1>1. PICK e0 : Leads(mirror, down, e0) /\ (MoxQueued \/ Agrees(e0, radio, gap))
  BY DEF Informed
<1>2. MoxQueued' \/ Agrees(e0, radio', gap')
  BY <1>1 DEF Agrees, Same, SameFlags, Transmitting
<1> QED BY <1>1, <1>2 DEF Informed

\* TX inhibit queues mox(0).
LEMMA InhibitOnKeeps == Inv /\ InhibitOn => Inv'
<1> SUFFICES ASSUME Inv, InhibitOn PROVE Inv'
  OBVIOUS
<1> DEFINE q == [cb |-> "mox", on |-> FALSE]
<1>1. /\ radio \in RadioState /\ radio' = [radio EXCEPT !.inhibit = TRUE]
      /\ idle \in Seq(Call) /\ idle' = Append(idle, q)
      /\ UNCHANGED <<mirror, up, down, gap>>
  BY DEF InhibitOn, Inv, Types
<1>2. q \in Call /\ q.cb = "mox" /\ ~q.on
  BY Zenon DEF Call
<1> HIDE DEF q
<1>3. radio' \in RadioState /\ SameFlags(radio, radio')
  BY <1>1, LinesKeep
<1>4. /\ idle' \in Seq(Call)
      /\ idle'[Len(idle')] = q /\ Len(idle') \in 1..Len(idle')
      /\ MoxQueued => MoxQueued'
  BY <1>1, <1>2, AppendedKeeps
<1>5. InhibitSafe'
  BY <1>2, <1>4 DEF InhibitSafe
<1>6. Informed'
  BY <1>1, <1>3, <1>4, SameAgrees DEF Inv
<1> QED BY <1>1, <1>3, <1>4, <1>5, <1>6 DEF Inv, Types

LEMMA InhibitOffKeeps == Inv /\ InhibitOff => Inv'
<1> SUFFICES ASSUME Inv, InhibitOff PROVE Inv'
  OBVIOUS
<1>1. /\ radio \in RadioState /\ radio' = [radio EXCEPT !.inhibit = FALSE]
      /\ UNCHANGED <<mirror, up, idle, down, gap>>
  BY DEF InhibitOff, Inv, Types
<1>2. radio' \in RadioState /\ SameFlags(radio, radio') /\ radio'.inhibit = FALSE
  BY <1>1, LinesKeep
<1>3. MoxQueued => MoxQueued'
  BY <1>1 DEF MoxQueued
<1>4. Informed'
  BY <1>1, <1>2, <1>3, SameAgrees DEF Inv
<1> QED BY <1>1, <1>2, <1>4 DEF Inv, Types, InhibitSafe

LEMMA RetuneKeeps == Inv /\ Retune => Inv'
<1> SUFFICES ASSUME Inv, Retune PROVE Inv'
  OBVIOUS
<1> DEFINE b == ~radio.inband
<1>1. /\ radio \in RadioState /\ radio' = [radio EXCEPT !.inband = b]
      /\ UNCHANGED <<mirror, up, idle, down, gap>>
  BY DEF Retune, Inv, Types
<1>2. b \in BOOLEAN
  OBVIOUS
<1> HIDE DEF b
<1>3. radio' \in RadioState /\ SameFlags(radio, radio') /\ radio'.inhibit = radio.inhibit
  BY <1>1, <1>2, LinesKeep
<1>4. MoxQueued => MoxQueued'
  BY <1>1 DEF MoxQueued
<1>5. Informed'
  BY <1>1, <1>3, <1>4, SameAgrees DEF Inv
<1>6. InhibitSafe'
  BY <1>1, <1>3 DEF Inv, InhibitSafe, SameFlags, Transmitting
<1> QED BY <1>1, <1>3, <1>5, <1>6 DEF Inv, Types

LEMMA NextInv == Inv /\ [Next]_vars => Inv'
<1> SUFFICES ASSUME Inv, [Next]_vars PROVE Inv'
  OBVIOUS
<1>1. CASE UNCHANGED vars
  BY <1>1 DEF vars, Inv, Types, InhibitSafe, Informed, MoxQueued
<1>2. CASE Next
  BY <1>2, SendKeeps, LocalMoxKeeps, LocalTuneKeeps, ReceiveKeeps, QueueKeeps,
     DispatchKeeps, InhibitOnKeeps, InhibitOffKeeps, RetuneKeeps DEF Next
<1> QED BY <1>1, <1>2

LEMMA Invariance == Spec => []Inv
  BY InitInv, NextInv, PTL DEF Spec

\* Every variable keeps its type.
THEOREM TypeCorrect == Spec => []TypeOK
<1>1. Inv => TypeOK
  BY LeadsTidy DEF Inv, Types, Informed, Tidy, TypeOK
<1> QED BY <1>1, Invariance, PTL

\* radio_set_mox(), server_command() and client_thread(): when everything said
\* has been heard, the client knows the state of the radio, except for the gaps
\* in what it is told; whatever crossed on the way, with queues of any length.
THEOREM MirrorFollows == Spec => []MirrorAgrees
<1>1. Inv => MirrorAgrees
  <2> SUFFICES ASSUME Inv, Quiet
               PROVE  \/ Flags(mirror) = Flags(radio)
                      \/ gap = "refused" /\ mirror.mox /\ ~Transmitting(radio)
                      \/ gap \in {"tune", "twotone"}
    BY DEF MirrorAgrees
  <2>1. PICK e : Leads(mirror, down, e) /\ (MoxQueued \/ Agrees(e, radio, gap))
    BY DEF Inv, Informed
  <2>2. down = << >> /\ down \in Seq(Msg) /\ ~MoxQueued
    BY DEF Quiet, MoxQueued, Inv, Types
  <2>3. e = mirror /\ Tidy(mirror)
    BY <2>1, <2>2, LeadsTidy
  <2>4. Agrees(mirror, radio, gap)
    BY <2>1, <2>2, <2>3
  <2>5. CASE Same(mirror, radio)
    <3>1. /\ mirror.mox \in BOOLEAN /\ mirror.vox \in BOOLEAN /\ mirror.tune \in BOOLEAN
          /\ radio.mox \in BOOLEAN /\ radio.vox \in BOOLEAN /\ radio.tune \in BOOLEAN
      BY <2>3, MirrorFields, FieldTypes DEF Tidy, Inv, Types
    <3>2. mirror.mox = radio.mox /\ mirror.vox = radio.vox /\ mirror.tune = radio.tune
      BY <2>5, <3>1, Zenon DEF Same
    <3> QED BY <3>2 DEF Flags
  <2> QED BY <2>4, <2>5 DEF Agrees
<1> QED BY <1>1, Invariance, PTL

\* The client's rxtx(), radio_client_set_mox(), radio_client_set_vox() and
\* radio_client_set_tune(): the TX panel is shown exactly while the client's
\* flags say so, in every state, not only when all is quiet.
THEOREM PanelTrue == Spec => []PanelFollows
<1>1. Inv => PanelFollows
  BY LeadsTidy DEF Inv, Types, Informed, Tidy, PanelFollows
<1> QED BY <1>1, Invariance, PTL
=============================================================================
