----------------------------- MODULE VfoProofs -----------------------------
(***************************************************************************)
(* Proofs about the VFOs, for every band plan, step size, filter, sample   *)
(* rate and set of frequencies: stack indices stay in range, band and      *)
(* stacks follow the dial, receivers follow their VFO, SAT tracking.       *)
(***************************************************************************)
EXTENDS Vfo, WellFoundedInduction, TLAPS

-----------------------------------------------------------------------------
(* Looking up a band *)

\* The first band of a set of bands is one of them.
LEMMA FirstIn == ASSUME NEW S \in SUBSET Nat, S # {} PROVE First(S) \in S
<1> DEFINE Less == {p \in Nat \X Nat : p[1] < p[2]}
<1>1. IsWellFoundedOn(Less, Nat)
  BY NatLessThanWellFounded, Zenon DEF OpToRel
<1> HIDE DEF Less
<1>2. PICK x \in S : \A y \in S : <<y, x>> \notin Less
  BY <1>1, WFMin
<1>3. ASSUME NEW y \in Nat, NEW z \in Nat, y < z PROVE <<y, z>> \in Less
  <2>1. <<y, z>> \in Nat \X Nat /\ <<y, z>>[1] < <<y, z>>[2]
    BY <1>3
  <2> QED BY <2>1, Zenon DEF Less
<1>4. \A y \in S : x <= y
  <2> TAKE y \in S
  <2>1. x \in Nat /\ y \in Nat
    OBVIOUS
  <2>2. ~(y < x)
    BY <1>2, <1>3, <2>1, Zenon
  <2> QED BY <2>1, <2>2
<1> QED BY <1>4 DEF First

\* Every frequency has a band.
LEMMA BandFound == ASSUME NEW f \in Int PROVE get_band_from_frequency(f) \in Bands
<1> DEFINE built_in == {b \in Ham : Inside(b, f) /\ RadioMin <= f /\ f <= RadioMax}
           transverter == {b \in Xvtr : Inside(b, f)}
<1>1. transverter # {} => First(transverter) \in Xvtr
  BY FirstIn, VfoAssumption
<1>2. built_in # {} => First(built_in) \in Ham
  BY FirstIn, VfoAssumption
<1> QED BY <1>1, <1>2, VfoAssumption DEF get_band_from_frequency, Bands

-----------------------------------------------------------------------------
(* What the operators do to a VFO *)

\* A VFO whose index is inside the stack of its band.
Placed(v) == v \in VFO /\ v.bandstack < Plan[v.band].entries

\* Unless the spectrum is clicked at in SAT mode, a VFO or stack entry e is
\* kept under a band that fits its dial.
Kept(b, e) == "SAT_MODE" \notin Clicks => AtHome(b, Dial(e))
Good(v) == Placed(v) /\ Kept(v.band, v)

\* All current entries are inside their stacks.
InStacks(c) == c \in [Bands -> Nat] /\ \A b \in Bands : c[b] < Plan[b].entries

\* The dial of a VFO is a frequency.
LEMMA DialInt == ASSUME NEW v, v \in VFO \/ v \in Entry PROVE Dial(v) \in Int
BY DEF VFO, Entry, Dial

\* Setting the dial changes nothing else.
LEMMA SetDialFacts ==
  ASSUME NEW v \in VFO, NEW f \in Int
  PROVE  /\ SetDial(v, f) \in VFO
         /\ Dial(SetDial(v, f)) = f
         /\ SetDial(v, f).band = v.band /\ SetDial(v, f).bandstack = v.bandstack
         /\ SetDial(v, f).ctun <=> v.ctun
         /\ v.ctun => SetDial(v, f).frequency = v.frequency
BY DEF VFO, SetDial, Dial

\* VFO v with another frequency, CTUN state and shift.
Fields(v, c, f, g, o) ==
  [v EXCEPT !.ctun = c, !.frequency = f, !.ctun_frequency = g, !.offset = o]

\* These fields may be replaced by anything.
LEMMA FieldFacts ==
  ASSUME NEW v \in VFO, NEW c \in BOOLEAN, NEW f \in Int, NEW g \in Int, NEW o \in Int
  PROVE  /\ Fields(v, c, f, g, o) \in VFO
         /\ Fields(v, c, f, g, o).band = v.band
         /\ Fields(v, c, f, g, o).bandstack = v.bandstack
         /\ c => Dial(Fields(v, c, f, g, o)) = g
         /\ ~c => Dial(Fields(v, c, f, g, o)) = f
<1> DEFINE u == Fields(v, c, f, g, o)
<1> USE DEF Fields
<1>1. u \in VFO
  BY Zenon DEF VFO
<1>2. u.band = v.band /\ u.bandstack = v.bandstack
  BY DEF VFO
<1>3. u.frequency = f /\ u.ctun_frequency = g
  BY DEF VFO
<1>4. u.ctun <=> c
  BY DEF VFO
<1> QED BY <1>1, <1>2, <1>3, <1>4 DEF Dial

\* rx_frequency_changed() leaves dial and band alone, and leaves the shift that
\* CTUN and RIT ask for.
LEMMA RxFacts ==
  ASSUME NEW id, NEW v \in VFO
  PROVE  /\ rx_frequency_changed(id, v) \in VFO
         /\ rx_frequency_changed(id, v).band = v.band
         /\ rx_frequency_changed(id, v).bandstack = v.bandstack
         /\ Dial(rx_frequency_changed(id, v)) = Dial(v)
         /\ rx_frequency_changed(id, v).offset = Shift(rx_frequency_changed(id, v))
<1> DEFINE w == IF v.ctun /\ Beyond(id, v.frequency, v.ctun_frequency)
                THEN [v EXCEPT !.frequency = v.ctun_frequency] ELSE v
           u == rx_frequency_changed(id, v)
<1>1. w \in VFO /\ w.band = v.band /\ w.bandstack = v.bandstack /\ Dial(w) = Dial(v)
  BY DEF VFO, Dial
<1>2. u = [w EXCEPT !.offset = Shift(w)]
  BY Zenon DEF rx_frequency_changed
<1> HIDE DEF w, u
<1>3. Shift(w) \in Int
  BY <1>1 DEF VFO, Shift
<1>4. /\ u \in VFO /\ u.band = w.band /\ u.bandstack = w.bandstack /\ Dial(u) = Dial(w)
      /\ u.offset = Shift(w)
  BY <1>1, <1>2, <1>3 DEF VFO, Dial
<1>5. Shift(u) = Shift(w)
  <2>1. /\ u.ctun = w.ctun /\ u.ctun_frequency = w.ctun_frequency
        /\ u.frequency = w.frequency /\ u.rit = w.rit /\ u.rit_enabled = w.rit_enabled
    BY <1>1, <1>2 DEF VFO
  <2> QED BY <2>1, Zenon DEF Shift
<1> QED BY <1>1, <1>4, <1>5 DEF u

\* A receiver, if running, is tuned to its VFO; dial and band stay.
LEMMA RetunedFacts ==
  ASSUME receivers \in {1, 2}, NEW i \in Ids, NEW v, Placed(v)
  PROVE  /\ Placed(Retuned(i, v))
         /\ Retuned(i, v).band = v.band /\ Dial(Retuned(i, v)) = Dial(v)
         /\ i < receivers => Retuned(i, v).offset = Shift(Retuned(i, v))
BY RxFacts DEF Retuned, Running, Placed

\* Adjusting the band to f leaves a band that fits f and an index inside its
\* stack; frequency and dial stay.
LEMMA AdjustFacts ==
  ASSUME NEW c, InStacks(c), NEW v, Placed(v), NEW f \in Int
  PROVE  /\ Placed(AdjustBand(c, v, f))
         /\ AtHome(AdjustBand(c, v, f).band, f)
         /\ Dial(AdjustBand(c, v, f)) = Dial(v)
         /\ AdjustBand(c, v, f).frequency = v.frequency
         /\ AdjustBand(c, v, f).ctun_frequency = v.ctun_frequency
         /\ AdjustBand(c, v, f).ctun <=> v.ctun
BY BandFound DEF AdjustBand, Placed, VFO, Dial, AtHome, InStacks

\* A VFO set to dial d, with its band adjusted to g and its receiver retuned.
LEMMA MoveFacts ==
  ASSUME receivers \in {1, 2}, InStacks(current), NEW i \in Ids,
         NEW v, Placed(v), NEW d \in Int, NEW g \in Int,
         NEW u, u = Retuned(i, AdjustBand(current, SetDial(v, d), g))
  PROVE  /\ Placed(u) /\ Dial(u) = d /\ AtHome(u.band, g)
         /\ i < receivers => u.offset = Shift(u)
<1> DEFINE w == SetDial(v, d)
           a == AdjustBand(current, w, g)
<1>1. Placed(w) /\ Dial(w) = d
  BY SetDialFacts DEF Placed
<1> HIDE DEF w
<1>2. Placed(a) /\ Dial(a) = d /\ AtHome(a.band, g)
  BY <1>1, AdjustFacts
<1>3. u = Retuned(i, a)
  BY DEF w
<1> HIDE DEF a
<1> QED BY <1>2, <1>3, RetunedFacts

-----------------------------------------------------------------------------
(* The inductive invariant *)

Inv ==
  /\ vfo \in [Ids -> VFO] /\ \A i \in Ids : Good(vfo[i])
  /\ InStacks(current)
  /\ entry \in [Places -> Entry] /\ \A p \in Places : Kept(p[1], entry[p])
  /\ sat_mode \in SatModes /\ locked \in BOOLEAN
  /\ receivers \in {1, 2} /\ active \in Ids
  /\ mem \in Slot /\ Kept(mem.bd, mem.main) /\ Kept(mem.alt_bd, mem.alt)
  /\ filter \in [Ids -> Filters]
  /\ direct \subseteq Ids
  /\ ReceiverTuned

\* The parts of the invariant that concern the VFOs w, with receivers r and
\* the receivers d untold.
VfosOK(w, r, d) ==
  /\ w \in [Ids -> VFO] /\ \A i \in Ids : Good(w[i])
  /\ \A i \in Ids : i < r /\ i \notin d => w[i].offset = Shift(w[i])

\* An operation that leaves the filters alone.
LEMMA Untouched ==
  ASSUME Inv, UNCHANGED <<settings, stacks, mem, filter>>
  PROVE  filter' \in [Ids -> Filters] /\ UNCHANGED <<settings, stacks, mem>>
BY DEF Inv

\* An operation that changes the VFOs and filters only.
LEMMA VfoOnly ==
  ASSUME Inv, VfosOK(vfo', receivers, direct'), direct' \subseteq Ids,
         filter' \in [Ids -> Filters], UNCHANGED <<settings, stacks, mem>>
  PROVE  Inv'
BY DEF Inv, VfosOK, ReceiverTuned, Running, settings, stacks

\* A single VFO is replaced by what its receiver makes of v.
LEMMA OneVfo ==
  ASSUME Inv, NEW id \in Ids, NEW v, Good(v),
         vfo' = [vfo EXCEPT ![id] = Retuned(id, v)],
         direct' = direct \ {id},
         filter' \in [Ids -> Filters], UNCHANGED <<settings, stacks, mem>>
  PROVE  Inv'
<1> DEFINE u == Retuned(id, v)
<1>1. Placed(u) /\ u.band = v.band /\ Dial(u) = Dial(v)
      /\ (id < receivers => u.offset = Shift(u))
  BY RetunedFacts DEF Inv, Good
<1> HIDE DEF u
<1>2. Good(u)
  BY <1>1 DEF Good, Kept
<1>3. vfo' = [vfo EXCEPT ![id] = u] /\ u \in VFO
  BY <1>1 DEF u, Placed
<1>4. VfosOK(vfo', receivers, direct')
  BY <1>1, <1>2, <1>3 DEF VfosOK, Inv, ReceiverTuned, Running
<1> QED BY <1>4, VfoOnly DEF Inv

\* All VFOs are replaced by what their receivers make of w.
LEMMA AllVfos ==
  ASSUME receivers \in {1, 2}, direct \subseteq Ids,
         NEW w, \A i \in Ids : Good(w[i]),
         vfo_vfos_changed(w)
  PROVE  /\ VfosOK(vfo', receivers, direct') /\ direct' \subseteq Ids
         /\ filter' \in [Ids -> Filters]
<1>1. ASSUME NEW i \in Ids
      PROVE  /\ vfo'[i] = Retuned(i, w[i])
             /\ Good(vfo'[i])
             /\ i < receivers => vfo'[i].offset = Shift(vfo'[i])
  <2> DEFINE u == Retuned(i, w[i])
  <2>1. Placed(u) /\ u.band = w[i].band /\ Dial(u) = Dial(w[i])
        /\ (i < receivers => u.offset = Shift(u))
    BY RetunedFacts DEF Good
  <2>2. vfo'[i] = u
    BY DEF vfo_vfos_changed
  <2> HIDE DEF u
  <2>3. Good(u)
    BY <2>1 DEF Good, Kept
  <2> QED BY <2>1, <2>2, <2>3 DEF u
<1>2. vfo' \in [Ids -> VFO]
  <2>1. \A i \in Ids : Retuned(i, w[i]) \in VFO
    BY <1>1 DEF Good, Placed
  <2> QED BY <2>1 DEF vfo_vfos_changed
<1> QED BY <1>1, <1>2 DEF VfosOK, Running, vfo_vfos_changed, SetFilters

-----------------------------------------------------------------------------
(* Tuning *)

\* VFO id is tuned to f and, in SAT modes, the other one to d with its band
\* adjusted to g.
LEMMA TuneBoth ==
  ASSUME Inv, NEW id \in Ids, NEW f \in Int, NEW d \in Int, NEW g \in Int,
         "SAT_MODE" \notin Clicks => d = g,
         vfo' = [i \in Ids |->
                  IF i = id THEN Tuned(id, f)
                  ELSE IF sat_mode = "SAT_NONE" THEN vfo[i]
                  ELSE Retuned(i, AdjustBand(current, SetDial(vfo[i], d), g))],
         direct' = direct \ Told(id),
         filter' \in [Ids -> Filters], UNCHANGED <<settings, stacks, mem>>
  PROVE  /\ Inv'
         /\ Dial(vfo'[id]) = f
         /\ \A i \in Ids \ {id} : IF sat_mode = "SAT_NONE" THEN vfo'[i] = vfo[i]
                                   ELSE Dial(vfo'[i]) = d
<1>1. Placed(vfo[id]) /\ receivers \in {1, 2} /\ InStacks(current)
  BY DEF Inv, Good
<1> DEFINE u == Tuned(id, f)
<1>2. Placed(u) /\ Dial(u) = f /\ AtHome(u.band, f)
      /\ (id < receivers => u.offset = Shift(u))
  BY <1>1, MoveFacts DEF Tuned
<1> HIDE DEF u
<1>3. vfo'[id] = u /\ Good(u)
  BY <1>2 DEF u, Good, Kept
<1>4. ASSUME NEW i \in Ids, i # id
      PROVE  /\ Good(vfo'[i])
             /\ i < receivers /\ i \notin direct' => vfo'[i].offset = Shift(vfo'[i])
             /\ IF sat_mode = "SAT_NONE" THEN vfo'[i] = vfo[i] ELSE Dial(vfo'[i]) = d
  <2>1. CASE sat_mode = "SAT_NONE"
    <3>1. vfo'[i] = vfo[i] /\ i \notin Told(id)
      BY <2>1, <1>4 DEF Told
    <3> QED BY <2>1, <3>1 DEF Inv, ReceiverTuned, Running
  <2>2. CASE sat_mode # "SAT_NONE"
    <3> DEFINE x == Retuned(i, AdjustBand(current, SetDial(vfo[i], d), g))
    <3>1. Placed(vfo[i])
      BY DEF Inv, Good
    <3>2. Placed(x) /\ Dial(x) = d /\ AtHome(x.band, g)
          /\ (i < receivers => x.offset = Shift(x))
      BY <1>1, <3>1, MoveFacts
    <3>3. vfo'[i] = x
      BY <1>4, <2>2
    <3> HIDE DEF x
    <3>4. Good(x)
      BY <3>2 DEF Good, Kept
    <3> QED BY <2>2, <3>2, <3>3, <3>4
  <2> QED BY <2>1, <2>2
<1>5. vfo' \in [Ids -> VFO]
  <2>1. \A i \in Ids : vfo'[i] \in VFO
    BY <1>3, <1>4 DEF Good, Placed
  <2> QED BY <2>1
<1>6. direct' \subseteq Ids
  BY DEF Inv
<1>7. VfosOK(vfo', receivers, direct')
  <2>1. \A i \in Ids : Good(vfo'[i])
    BY <1>3, <1>4
  <2>2. \A i \in Ids : i < receivers /\ i \notin direct'
                         => vfo'[i].offset = Shift(vfo'[i])
    BY <1>2, <1>3, <1>4
  <2> QED BY <1>5, <2>1, <2>2 DEF VfosOK
<1>8. Inv'
  BY <1>6, <1>7, VfoOnly
<1> QED BY <1>2, <1>3, <1>4, <1>8

\* VFO id goes to f and the other one, in SAT modes, to its target, with its
\* band adjusted to g: the dials move together.
LEMMA BothFacts ==
  ASSUME Inv, NEW id \in Ids, NEW f \in Int, NEW g \in Int,
         "SAT_MODE" \notin Clicks => Target(id, f) = g,
         vfo' = Both(id, f, g), direct' = direct \ Told(id),
         filter' \in [Ids -> Filters], UNCHANGED <<settings, stacks, mem>>
  PROVE  /\ Inv' /\ Together
         /\ vfo'[id] = Tuned(id, f)
         /\ sat_mode = "SAT_NONE" => vfo'[1 - id] = vfo[1 - id]
<1> DEFINE d == Target(id, f)
           o == 1 - id
<1>1. Ids = {id, o} /\ id # o /\ o \in Ids
  BY DEF Ids
<1>2. Dial(vfo[id]) \in Int /\ Dial(vfo[o]) \in Int
  <2>1. vfo[id] \in VFO /\ vfo[o] \in VFO
    BY <1>1 DEF Inv
  <2> QED BY <2>1, DialInt
<1>3. d \in Int
  BY <1>2 DEF Target
<1>4. vfo' = [i \in Ids |->
                IF i = id THEN Tuned(id, f)
                ELSE IF sat_mode = "SAT_NONE" THEN vfo[i]
                ELSE Retuned(i, AdjustBand(current, SetDial(vfo[i], d), g))]
  BY Zenon DEF Both, Followed
<1>5. /\ Inv'
      /\ Dial(vfo'[id]) = f
      /\ IF sat_mode = "SAT_NONE" THEN vfo'[o] = vfo[o] ELSE Dial(vfo'[o]) = d
  <2>1. "SAT_MODE" \notin Clicks => d = g
    OBVIOUS
  <2> HIDE DEF d, o
  <2>2. o \in Ids \ {id}
    BY <1>1
  <2> QED
    BY ONLY Inv, id \in Ids, f \in Int, g \in Int, direct' = direct \ Told(id),
            filter' \in [Ids -> Filters], UNCHANGED <<settings, stacks, mem>>,
            <1>3, <1>4, <2>1, <2>2, TuneBoth, ZenonT(60)
<1>6. Together
  <2>1. sat_mode \in SatModes
    BY DEF Inv
  <2>2. /\ sat_mode = "SAT_MODE" => Dial(vfo'[o]) = Dial(vfo[o]) + (f - Dial(vfo[id]))
        /\ sat_mode = "RSAT_MODE" => Dial(vfo'[o]) = Dial(vfo[o]) - (f - Dial(vfo[id]))
        /\ sat_mode = "SAT_NONE" => Dial(vfo'[o]) = Dial(vfo[o])
    BY <1>5 DEF Target
  <2> DEFINE a == Dial(vfo'[id]) - Dial(vfo[id])
             b == Dial(vfo'[o]) - Dial(vfo[o])
  <2>3. /\ sat_mode = "SAT_MODE" => a = b
        /\ sat_mode = "RSAT_MODE" => a = -b /\ b = -a
        /\ sat_mode = "SAT_NONE" => b = 0
    <3>1. ASSUME NEW x \in Int, NEW y \in Int
          PROVE  /\ f - x = (y + (f - x)) - y
                 /\ f - x = -((y - (f - x)) - y) /\ (y - (f - x)) - y = -(f - x)
                 /\ y - y = 0
      OBVIOUS
    <3> HIDE DEF o, d
    <3>2. Dial(vfo'[id]) = f
      BY <1>5
    <3>3. /\ f - Dial(vfo[id])
              = (Dial(vfo[o]) + (f - Dial(vfo[id]))) - Dial(vfo[o])
          /\ f - Dial(vfo[id])
              = -((Dial(vfo[o]) - (f - Dial(vfo[id]))) - Dial(vfo[o]))
          /\ (Dial(vfo[o]) - (f - Dial(vfo[id]))) - Dial(vfo[o])
              = -(f - Dial(vfo[id]))
          /\ Dial(vfo[o]) - Dial(vfo[o]) = 0
      BY <1>2, <3>1
    <3>4. sat_mode = "SAT_MODE" => a = b
      BY <2>2, <3>2, <3>3, Zenon
    <3>5. sat_mode = "RSAT_MODE" => a = -b /\ b = -a
      BY <2>2, <3>2, <3>3, Zenon
    <3>6. sat_mode = "SAT_NONE" => b = 0
      BY <2>2, <3>3, Zenon
    <3> QED BY <3>4, <3>5, <3>6
  <2>4. (id = 0 /\ o = 1) \/ (id = 1 /\ o = 0)
    BY DEF Ids
  <2> HIDE DEF o, d
  <2>5. CASE id = 0 /\ o = 1
    BY <2>1, <2>3, <2>5, Zenon DEF Together, SatModes
  <2>6. CASE id = 1 /\ o = 0
    BY <2>1, <2>3, <2>6, Zenon DEF Together, SatModes
  <2> QED BY <2>4, <2>5, <2>6
<1>7. vfo'[id] = Tuned(id, f)
  BY DEF Both
<1> QED BY <1>5, <1>6, <1>7

\* The target is a frequency.
LEMMA TargetInt == ASSUME Inv, NEW id \in Ids, NEW f \in Int PROVE Target(id, f) \in Int
<1>1. 1 - id \in Ids /\ vfo[id] \in VFO /\ vfo[1 - id] \in VFO
  BY DEF Ids, Inv
<1> QED BY <1>1, DialInt DEF Target

\* Outside SAT modes, the hardware frequency of a VFO in CTUN stays.
Nailed == sat_mode = "SAT_NONE" =>
            \A i \in Ids : vfo[i].ctun => vfo'[i].frequency = vfo[i].frequency

\* A dial that CtunAllows() does not make the receiver centre CTUN again.
LEMMA NotCentred ==
  ASSUME Inv, NEW id \in Ids, NEW f \in Int, CtunAllows(id, f), vfo[id].ctun
  PROVE  Tuned(id, f).frequency = vfo[id].frequency
<1> DEFINE w == SetDial(vfo[id], f)
           a == AdjustBand(current, w, f)
<1>1. Placed(vfo[id]) /\ vfo[id] \in VFO /\ InStacks(current)
  BY DEF Inv, Good
<1>2. Placed(w) /\ w.frequency = vfo[id].frequency /\ w.ctun_frequency = f /\ w.ctun
  BY <1>1, SetDialFacts DEF Placed, SetDial, VFO
<1> HIDE DEF w
<1>3. /\ Placed(a) /\ a.frequency = vfo[id].frequency /\ a.ctun_frequency = f /\ a.ctun
  BY <1>1, <1>2, AdjustFacts
<1>4. Tuned(id, f) = Retuned(id, a)
  BY DEF Tuned, w
<1> HIDE DEF a
<1>5. id \in Running => ~Beyond(id, a.frequency, a.ctun_frequency)
  <2>1. filter[id].low \in Int /\ filter[id].high \in Int
    BY VfoAssumption DEF Inv
  <2> QED BY <1>1, <1>3, <2>1, VfoAssumption DEF CtunAllows, myrx, Beyond, VFO
<1> QED BY <1>3, <1>4, <1>5, Zenon DEF Retuned, rx_frequency_changed, Placed, VFO

\* A step or drag to where CtunAllows().
LEMMA BothNailed ==
  ASSUME Inv, NEW id \in Ids, NEW f \in Int, CtunAllows(id, f),
         vfo'[id] = Tuned(id, f),
         sat_mode = "SAT_NONE" => vfo'[1 - id] = vfo[1 - id]
  PROVE  Nailed
BY NotCentred DEF Nailed, Ids

\* Rounding gives a frequency.
LEMMA RoundInt ==
  ASSUME NEW f \in Int, NEW n \in Int, NEW step \in StepSizes
  PROVE  ROUND(f, n, step) \in Int
<1>1. step \in Nat /\ step > 0
  BY VfoAssumption
<1>2. step \div 2 \in Int
  BY <1>1
<1>3. (f + step \div 2) \div step \in Int
  <2> DEFINE x == f + step \div 2
  <2>1. x \in Int
    BY <1>2
  <2> HIDE DEF x
  <2> QED BY <1>1, <2>1
<1> QED BY <1>1, <1>3 DEF ROUND

\* vfo_id_step() keeps the invariant and moves the dials together.
LEMMA StepKeeps == ASSUME Inv, Step PROVE Inv' /\ Together /\ Nailed
<1>1. PICK id \in Ids, n \in {-1, 1}, step \in StepSizes : vfo_id_step(id, n, step)
  BY DEF Step
<1> DEFINE f == ROUND(Dial(vfo[id]), n, step)
<1>2. f \in Int
  <2>1. Dial(vfo[id]) \in Int
    BY DialInt DEF Inv
  <2> QED BY <2>1, RoundInt
<1>3. /\ vfo' = Both(id, f, Target(id, f)) /\ direct' = direct \ Told(id)
      /\ UNCHANGED <<settings, stacks, mem, filter>>
      /\ CtunAllows(id, f)
  BY <1>1, Zenon DEF vfo_id_step
<1> HIDE DEF f
<1>4. /\ Inv' /\ Together /\ vfo'[id] = Tuned(id, f)
      /\ sat_mode = "SAT_NONE" => vfo'[1 - id] = vfo[1 - id]
  BY <1>2, <1>3, Untouched, TargetInt, BothFacts, Zenon
<1> QED BY ONLY Inv, id \in Ids, <1>2, <1>3, <1>4, BothNailed, Zenon

\* So does vfo_id_move(); rounding comes after the check of CtunAllows().
LEMMA DragKeeps == ASSUME Inv, Drag PROVE Inv' /\ Together /\ (Snap = {FALSE} => Nailed)
<1>1. PICK id \in Ids, hz \in Hops, round \in Snap, step \in StepSizes :
        vfo_id_move(id, hz, round, step)
  BY DEF Drag
<1> DEFINE to == IF vfo[id].ctun THEN vfo[id].ctun_frequency + hz
                 ELSE vfo[id].frequency - hz
           f == Rounded(to, step, round)
<1>2. f \in Int
  <2>1. to \in Int
    BY VfoAssumption DEF Inv, VFO
  <2> HIDE DEF to
  <2> QED BY <2>1, RoundInt DEF Rounded
<1>3. /\ vfo' = Both(id, f, Target(id, f)) /\ direct' = direct \ Told(id)
      /\ UNCHANGED <<settings, stacks, mem, filter>>
      /\ CtunAllows(id, to)
  BY <1>1, Zenon DEF vfo_id_move
<1>4. Snap = {FALSE} => CtunAllows(id, f)
  BY <1>3 DEF Rounded
<1> HIDE DEF f
<1>5. /\ Inv' /\ Together /\ vfo'[id] = Tuned(id, f)
      /\ sat_mode = "SAT_NONE" => vfo'[1 - id] = vfo[1 - id]
  BY <1>2, <1>3, Untouched, TargetInt, BothFacts, Zenon
<1> QED BY ONLY Inv, id \in Ids, <1>2, <1>4, <1>5, BothNailed, Zenon

\* And vfo_id_move_to(), but in SAT mode the band of the other VFO may follow
\* the wrong frequency.
LEMMA ClickKeeps == ASSUME Inv, Click PROVE Inv' /\ Together
<1>1. PICK id \in Ids, to \in Freqs, round \in Snap, step \in StepSizes :
        vfo_id_move_to(id, to, round, step)
  BY DEF Click
<1> DEFINE f == Rounded(to, step, round)
           g == IF sat_mode = "SAT_MODE" /\ vfo[1 - id].ctun
                THEN Tuned(id, f).ctun_frequency ELSE Target(id, f)
<1>2. f \in Int
  BY VfoAssumption, RoundInt DEF Rounded
<1>3. /\ vfo' = Both(id, f, g) /\ direct' = direct \ Told(id)
      /\ SetFilters({id} \cap Running)
      /\ UNCHANGED <<settings, stacks, mem>>
  BY <1>1, Zenon DEF vfo_id_move_to
<1> HIDE DEF f
<1>4. g \in Int
  <2>1. Tuned(id, f) \in VFO
    <3>1. Placed(vfo[id]) /\ receivers \in {1, 2} /\ InStacks(current)
      BY DEF Inv, Good
    <3> QED BY <1>2, <3>1, MoveFacts DEF Tuned, Placed
  <2>2. Tuned(id, f).ctun_frequency \in Int
    BY <2>1 DEF VFO
  <2> QED BY <1>2, <2>2, TargetInt
<1>5. "SAT_MODE" \notin Clicks => Target(id, f) = g
  BY DEF Click
<1>6. filter' \in [Ids -> Filters]
  BY <1>3 DEF SetFilters
<1> HIDE DEF g
<1> QED BY <1>2, <1>3, <1>4, <1>5, <1>6, BothFacts, Zenon

-----------------------------------------------------------------------------
(* Operations on one VFO *)

\* vfo_id_set_frequency() keeps the invariant, receiver running or not.
LEMMA SetFrequencyKeeps == ASSUME Inv, SetFrequency PROVE Inv'
<1>1. PICK id \in Ids, f \in Freqs : vfo_id_set_frequency(id, f)
  BY DEF SetFrequency
<1> DEFINE v == AdjustBand(current, vfo[id], f)
           g == IF v.ctun THEN f ELSE v.ctun_frequency
           o == IF v.ctun THEN 0 ELSE v.offset
           idle == [v EXCEPT !.ctun = FALSE, !.frequency = f,
                             !.ctun_frequency = g, !.offset = o]
           u == IF id < receivers THEN rx_set_frequency(id, v, f) ELSE idle
<1>2. f \in Int /\ Placed(vfo[id]) /\ InStacks(current) /\ receivers \in {1, 2}
  BY VfoAssumption DEF Inv, Good
<1>3. Placed(v) /\ AtHome(v.band, f)
  BY <1>2, AdjustFacts
<1>4. /\ vfo' = [vfo EXCEPT ![id] = u] /\ direct' = direct \ {id}
      /\ UNCHANGED <<settings, stacks, mem, filter>>
  BY <1>1, Zenon DEF vfo_id_set_frequency
<1> HIDE DEF v
<1>5. ASSUME id < receivers
      PROVE  Placed(u) /\ Dial(u) = f /\ u.band = v.band /\ u.offset = Shift(u)
  <2> DEFINE x == SetDial(v, f)
  <2>1. Placed(x) /\ Dial(x) = f /\ x.band = v.band
    BY <1>2, <1>3, SetDialFacts DEF Placed
  <2>2. u = rx_frequency_changed(id, x)
    BY <1>5 DEF rx_set_frequency
  <2> HIDE DEF x, u
  <2> QED BY <2>1, <2>2, RxFacts DEF Placed
<1>6. ASSUME ~(id < receivers)
      PROVE  Placed(u) /\ Dial(u) = f /\ u.band = v.band
  <2>1. g \in Int /\ o \in Int /\ v \in VFO
    BY <1>2, <1>3 DEF Placed, VFO
  <2>2. PICK c \in BOOLEAN : ~c /\ u = Fields(v, c, f, g, o)
    BY <1>6, Zenon DEF Fields
  <2> HIDE DEF g, o, u
  <2>3. /\ u \in VFO /\ u.band = v.band /\ u.bandstack = v.bandstack
        /\ Dial(u) = f
    BY <1>2, <2>1, <2>2, FieldFacts
  <2> QED BY <1>3, <2>3 DEF Placed
<1> HIDE DEF u
<1>7. Good(u)
  BY <1>3, <1>5, <1>6 DEF Good, Kept
<1>8. VfosOK(vfo', receivers, direct')
  BY <1>4, <1>5, <1>7 DEF VfosOK, Inv, ReceiverTuned, Running, Good, Placed
<1> QED BY <1>4, <1>8, Untouched, VfoOnly DEF Inv

\* vfo_id_ctun_update() keeps the invariant.
LEMMA CtunKeeps == ASSUME Inv, Ctun PROVE Inv'
<1>1. PICK id \in Ids, state \in BOOLEAN : vfo_id_ctun_update(id, state)
  BY DEF Ctun
<1> DEFINE f == IF state THEN vfo[id].frequency ELSE vfo[id].ctun_frequency
           v == [vfo[id] EXCEPT !.ctun = state, !.frequency = f,
                                !.ctun_frequency = f, !.offset = 0]
           a == AdjustBand(current, v, f)
<1>2. Placed(vfo[id]) /\ vfo[id] \in VFO /\ InStacks(current)
  BY DEF Inv, Good
<1>3. f \in Int
  BY <1>2 DEF VFO
<1>4. /\ vfo' = [vfo EXCEPT ![id] = Retuned(id, a)] /\ direct' = direct \ {id}
      /\ UNCHANGED <<settings, stacks, mem, filter>>
  BY <1>1, Zenon DEF vfo_id_ctun_update
<1> HIDE DEF f
<1>5. Placed(v) /\ Dial(v) = f
  <2>1. /\ v \in VFO /\ v.band = vfo[id].band /\ v.bandstack = vfo[id].bandstack
        /\ Dial(v) = f
    <3>1. 0 \in Int
      OBVIOUS
    <3>2. v = Fields(vfo[id], state, f, f, 0)
      BY Zenon DEF Fields
    <3> HIDE DEF v
    <3> QED BY <1>2, <1>3, <3>1, <3>2, FieldFacts
  <2> QED BY <1>2, <2>1 DEF Placed
<1> HIDE DEF v
<1>6. Good(a)
  BY <1>2, <1>3, <1>5, AdjustFacts DEF Good, Kept
<1> HIDE DEF a
<1> QED BY <1>4, <1>6, Untouched, OneVfo, Zenon

\* The RIT of a VFO may change as it likes.
LEMMA RitGood ==
  ASSUME NEW v, Good(v), NEW r \in Int, NEW e \in BOOLEAN
  PROVE  Good([v EXCEPT !.rit = r, !.rit_enabled = e])
BY DEF Good, Placed, VFO, Kept, Dial

\* vfo_id_rit_value() and vfo_id_rit_onoff() keep the invariant.
LEMMA RitKeeps == ASSUME Inv, RitValue \/ RitOnOff PROVE Inv'
<1>1. CASE RitValue
  <2>1. PICK id \in Ids, value \in Rits : vfo_id_rit_value(id, value)
    BY <1>1 DEF RitValue
  <2> DEFINE r == IF value > RitMax THEN RitMax
                  ELSE IF value < -RitMax THEN -RitMax ELSE value
             v == [vfo[id] EXCEPT !.rit = r, !.rit_enabled = (r # 0)]
  <2>2. r \in Int
    BY VfoAssumption
  <2>3. /\ vfo' = [vfo EXCEPT ![id] = Retuned(id, v)] /\ direct' = direct \ {id}
        /\ UNCHANGED <<settings, stacks, mem, filter>>
    BY <2>1, Zenon DEF vfo_id_rit_value
  <2> HIDE DEF r
  <2>4. Good(v)
    BY <2>2, RitGood DEF Inv
  <2> HIDE DEF v
  <2> QED BY <2>3, <2>4, Untouched, OneVfo, Zenon
<1>2. CASE RitOnOff
  <2>1. PICK id \in Ids, enable \in BOOLEAN : vfo_id_rit_onoff(id, enable)
    BY <1>2 DEF RitOnOff
  <2> DEFINE v == [vfo[id] EXCEPT !.rit_enabled = enable]
  <2>2. /\ vfo' = [vfo EXCEPT ![id] = Retuned(id, v)] /\ direct' = direct \ {id}
        /\ UNCHANGED <<settings, stacks, mem, filter>>
    BY <2>1 DEF vfo_id_rit_onoff, Inv
  <2>3. Good(v)
    BY DEF Inv, Good, Placed, VFO, Kept, Dial
  <2> HIDE DEF v
  <2> QED BY <2>2, <2>3, Untouched, OneVfo, Zenon
<1> QED BY <1>1, <1>2

\* CAT's RIT commands keep the invariant: receiver 0 is marked as not told.
LEMMA CatRitKeeps == ASSUME Inv, CatRitValue \/ CatRitOnOff PROVE Inv'
<1>1. PICK r \in Int, e \in BOOLEAN : CatRit(r, e)
  <2>1. vfo[0].rit \in Int /\ vfo[0].rit_enabled \in BOOLEAN
    BY DEF Inv, Ids, VFO
  <2>2. CASE CatRitValue
    BY <2>1, <2>2, VfoAssumption DEF CatRitValue
  <2>3. CASE CatRitOnOff
    BY <2>1, <2>3 DEF CatRitOnOff
  <2> QED BY <2>2, <2>3
<1> DEFINE v == [vfo[0] EXCEPT !.rit = r, !.rit_enabled = e]
<1>2. Good(v) /\ 0 \in Ids
  BY RitGood DEF Inv, Ids
<1>3. /\ vfo' = [vfo EXCEPT ![0] = v] /\ direct' = direct \cup {0}
      /\ UNCHANGED <<settings, stacks, mem, filter>>
  BY <1>1 DEF CatRit, Inv, Ids
<1> HIDE DEF v
<1>4. VfosOK(vfo', receivers, direct') /\ direct' \subseteq Ids
  BY <1>2, <1>3 DEF VfosOK, Inv, ReceiverTuned, Running, Good, Placed
<1> QED BY <1>3, <1>4, Untouched, VfoOnly

-----------------------------------------------------------------------------
(* Band stacks *)

\* What is saved in a stack or a memory has the dial of the VFO.
LEMMA SavedFacts ==
  ASSUME NEW v \in VFO PROVE Saved(v) \in Entry /\ Dial(Saved(v)) = Dial(v)
BY DEF VFO, Entry, Saved, Dial

\* What is loaded from there sets the dial and leaves the band alone.
LEMMA LoadFacts ==
  ASSUME NEW v \in VFO, NEW e \in Entry
  PROVE  /\ Load(v, e) \in VFO /\ Dial(Load(v, e)) = Dial(e)
         /\ Load(v, e).band = v.band /\ Load(v, e).bandstack = v.bandstack
<1> DEFINE u == Load(v, e)
<1>1. e.frequency \in Int /\ e.ctun_frequency \in Int /\ e.ctun \in BOOLEAN
  BY DEF Entry
<1>2. u \in VFO
  BY <1>1, Zenon DEF VFO, Load
<1>3. /\ u.band = v.band /\ u.bandstack = v.bandstack
      /\ u.frequency = e.frequency /\ u.ctun_frequency = e.ctun_frequency
  BY DEF VFO, Load
<1>4. u.ctun <=> e.ctun
  BY <1>1 DEF VFO, Load
<1> QED BY <1>2, <1>3, <1>4 DEF Dial

\* A VFO put on entry s of band b.
LEMMA PutFacts ==
  ASSUME NEW v \in VFO, NEW b \in Bands, NEW s \in Nat, s < Plan[b].entries
  PROVE  LET u == [v EXCEPT !.band = b, !.bandstack = s, !.lo = Plan[b].lo]
         IN  Placed(u) /\ u.band = b
<1>1. Plan[b].lo \in Int
  BY VfoAssumption
<1> QED BY <1>1 DEF VFO, Placed

\* Where a VFO may be put there is an entry.
LEMMA PlaceIn ==
  ASSUME NEW b \in Bands, NEW s \in Nat, s < Plan[b].entries
  PROVE  <<b, s>> \in Places
<1>1. s \in 0 .. Plan[b].entries - 1
  BY VfoAssumption
<1> QED BY <1>1 DEF Places

\* vfo_save_bandstack() leaves stacks in order.
LEMMA SavedStacks ==
  ASSUME Inv, NEW id \in Ids
  PROVE  /\ SavedEntry(id) \in [Places -> Entry]
         /\ \A p \in Places : Kept(p[1], SavedEntry(id)[p])
         /\ InStacks(SavedCurrent(id))
<1> DEFINE v == vfo[0]
           here == <<v.band, v.bandstack>>
<1>1. v \in VFO /\ Good(v) /\ v.band \in Bands
  BY DEF Inv, Ids, VFO
<1>2. Saved(v) \in Entry /\ Kept(v.band, Saved(v))
  BY <1>1, SavedFacts DEF Good, Kept
<1>3. SavedEntry(id) \in [Places -> Entry]
  BY <1>2 DEF SavedEntry, Inv
<1>4. ASSUME NEW p \in Places PROVE Kept(p[1], SavedEntry(id)[p])
  <2>1. CASE id = 0 /\ p = here
    <3>1. SavedEntry(id)[p] = Saved(v) /\ p[1] = v.band
      BY <2>1 DEF SavedEntry, Inv
    <3> QED BY <1>2, <3>1
  <2>2. CASE ~(id = 0 /\ p = here)
    <3>1. SavedEntry(id)[p] = entry[p]
      BY <2>2 DEF SavedEntry, Inv
    <3> QED BY <3>1 DEF Inv
  <2> QED BY <2>1, <2>2
<1>5. InStacks(SavedCurrent(id))
  <2>1. v.bandstack \in Nat /\ v.bandstack < Plan[v.band].entries
    BY <1>1 DEF Good, Placed, VFO
  <2> HIDE DEF v
  <2> QED BY <1>1, <2>1 DEF SavedCurrent, InStacks, Inv, v
<1> QED BY <1>3, <1>4, <1>5

\* An operation that saves VFO A and puts VFO id on an entry of a stack.
LEMMA StackKeeps ==
  ASSUME Inv, NEW id \in Ids, NEW c, InStacks(c), NEW v, Placed(v), NEW e \in Entry,
         NEW w, w = Load(v, e),
         entry' = SavedEntry(id), current' = c,
         vfo_vfos_changed([vfo EXCEPT ![id] = AdjustBand(c, w, Dial(w))]),
         UNCHANGED <<settings, mem>>
  PROVE  Inv'
<1> DEFINE a == AdjustBand(c, w, Dial(w))
           all == [vfo EXCEPT ![id] = a]
<1>1. Placed(w) /\ Dial(w) \in Int
  BY LoadFacts, DialInt DEF Placed
<1>2. Good(a)
  BY <1>1, AdjustFacts DEF Good, Kept
<1>3. \A i \in Ids : Good(all[i])
  <2> HIDE DEF a
  <2> QED BY <1>2 DEF Inv
<1>4. vfo_vfos_changed(all)
  OBVIOUS
<1> HIDE DEF all
<1>5. VfosOK(vfo', receivers, direct') /\ direct' \subseteq Ids /\ filter' \in [Ids -> Filters]
  BY <1>3, <1>4, AllVfos DEF Inv
<1>6. /\ entry' \in [Places -> Entry] /\ \A p \in Places : Kept(p[1], entry'[p])
      /\ InStacks(current')
  BY SavedStacks
<1> QED BY <1>5, <1>6 DEF Inv, VfosOK, ReceiverTuned, Running, settings

\* vfo_id_band_changed() keeps the invariant: the next entry of the same band
\* or the current one of another.
LEMMA BandKeeps == ASSUME Inv, BandButton PROVE Inv'
<1>1. PICK id \in Ids, b \in Bands : vfo_id_band_changed(id, b)
  BY DEF BandButton
<1> DEFINE same == b = vfo[id].band
           e == SavedEntry(id)
           c == SavedCurrent(id)
           s == IF ~same THEN c[b]
                ELSE IF vfo[id].bandstack + 1 >= Plan[b].entries THEN 0
                ELSE vfo[id].bandstack + 1
           cur == IF same /\ id = 0 THEN [c EXCEPT ![b] = s] ELSE c
           u == [vfo[id] EXCEPT !.band = b, !.bandstack = s, !.lo = Plan[b].lo]
           v == Load(u, e[<<b, s>>])
<1>2. /\ entry' = e /\ current' = cur
      /\ vfo_vfos_changed([vfo EXCEPT ![id] = AdjustBand(cur, v, Dial(v))])
      /\ UNCHANGED <<settings, mem>>
  BY <1>1, Zenon DEF vfo_id_band_changed
<1>3. e \in [Places -> Entry] /\ InStacks(c)
  BY SavedStacks
<1> HIDE DEF c, e
<1>4. vfo[id] \in VFO /\ vfo[id].bandstack \in Nat
  BY DEF Inv, VFO
<1>5. s \in Nat /\ s < Plan[b].entries
  <2>1. Plan[b].entries \in Nat \ {0}
    BY VfoAssumption
  <2> QED BY <1>3, <1>4, <2>1 DEF InStacks
<1> HIDE DEF s
<1>6. InStacks(cur)
  BY <1>3, <1>5 DEF InStacks
<1>7. Placed(u)
  BY <1>4, <1>5, PutFacts
<1>8. e[<<b, s>>] \in Entry
  BY <1>3, <1>5, PlaceIn
<1> HIDE DEF cur, u
<1> QED BY <1>2, <1>6, <1>7, <1>8, StackKeeps DEF e

\* vfo_id_bandstack_changed() keeps it, for every entry of the stack.
LEMMA EntryKeeps ==
  ASSUME Inv, NEW id \in Ids, NEW s \in Nat, s < Plan[vfo[id].band].entries,
         vfo_id_bandstack_changed(id, s)
  PROVE  Inv'
<1> DEFINE b == vfo[id].band
           e == SavedEntry(id)
           cur == IF id = 0 THEN [SavedCurrent(id) EXCEPT ![b] = s] ELSE current
           u == [vfo[id] EXCEPT !.bandstack = s]
           v == Load(u, e[<<b, s>>])
<1>1. /\ entry' = e /\ current' = cur
      /\ vfo_vfos_changed([vfo EXCEPT ![id] = AdjustBand(cur, v, Dial(v))])
      /\ UNCHANGED <<settings, mem>>
  BY Zenon DEF vfo_id_bandstack_changed
<1>2. e \in [Places -> Entry] /\ InStacks(SavedCurrent(id)) /\ InStacks(current)
  BY SavedStacks DEF Inv
<1>3. vfo[id] \in VFO /\ b \in Bands
  BY DEF Inv, VFO
<1>4. InStacks(cur)
  BY <1>2, <1>3 DEF InStacks
<1>5. Placed(u)
  BY <1>3 DEF VFO, Placed
<1> HIDE DEF e
<1>6. e[<<b, s>>] \in Entry
  <2>1. <<b, s>> \in Places
    BY <1>3, PlaceIn
  <2> QED BY <1>2, <2>1
<1> HIDE DEF cur, u, b
<1> QED BY <1>1, <1>4, <1>5, <1>6, StackKeeps DEF e

\* Buttons and menu stay inside the stack.
LEMMA BandstackKeeps == ASSUME Inv, BandstackButton \/ BandstackMenu PROVE Inv'
<1>1. CASE BandstackButton
  <2>1. PICK up \in BOOLEAN : BandstackStep(up)
    BY <1>1 DEF BandstackButton
  <2> DEFINE n == Plan[vfo[active].band].entries
             s == vfo[active].bandstack
             t == IF up THEN IF s + 1 >= n THEN 0 ELSE s + 1
                  ELSE IF s = 0 THEN n - 1 ELSE s - 1
  <2>2. active \in Ids /\ n \in Nat \ {0} /\ s \in Nat /\ s < n
    <3>1. active \in Ids /\ Placed(vfo[active])
      BY DEF Inv, Good
    <3> QED BY <3>1, VfoAssumption DEF Placed, VFO
  <2>3. t \in Nat /\ t < n
    <3> HIDE DEF n, s
    <3> QED BY <2>2
  <2>4. vfo_id_bandstack_changed(active, t)
    BY <2>1, Zenon DEF BandstackStep
  <2> HIDE DEF t
  <2> QED BY <2>2, <2>3, <2>4, EntryKeeps
<1>2. CASE BandstackMenu
  <2>1. PICK id \in Ids : \E s \in 0 .. Plan[vfo[id].band].entries - 1 :
          vfo_id_bandstack_changed(id, s)
    BY <1>2 DEF BandstackMenu
  <2>2. PICK s \in 0 .. Plan[vfo[id].band].entries - 1 : vfo_id_bandstack_changed(id, s)
    BY <2>1
  <2>3. Plan[vfo[id].band].entries \in Nat
    BY VfoAssumption DEF Inv, VFO
  <2>4. s \in Nat /\ s < Plan[vfo[id].band].entries
    BY <2>3
  <2> QED BY <2>2, <2>4, EntryKeeps
<1> QED BY <1>1, <1>2

-----------------------------------------------------------------------------
(* Both VFOs, memories, receivers *)

\* Copying and swapping VFOs keeps the invariant.
LEMMA CopyKeeps == ASSUME Inv, Copy PROVE Inv'
<1>1. PICK from \in [Ids -> Ids] : CopyVfos(from)
  BY DEF Copy, vfo_a_to_b, vfo_b_to_a, vfo_a_swap_b, Ids
<1> DEFINE w == [i \in Ids |-> vfo[from[i]]]
<1>2. \A i \in Ids : Good(w[i])
  BY DEF Inv
<1>3. /\ vfo_vfos_changed(w)
      /\ UNCHANGED <<settings, stacks, mem>>
  BY <1>1, Zenon DEF CopyVfos
<1> HIDE DEF w
<1>4. VfosOK(vfo', receivers, direct') /\ direct' \subseteq Ids /\ filter' \in [Ids -> Filters]
  BY <1>2, <1>3, AllVfos DEF Inv
<1> QED BY <1>3, <1>4, VfoOnly

\* store_memory_slot() keeps the invariant.
LEMMA StoreKeeps == ASSUME Inv, store_memory_slot PROVE Inv'
<1> DEFINE main == IF sat_mode = "SAT_NONE" THEN vfo[active] ELSE vfo[0]
           alt_bd == IF sat_mode = "SAT_NONE" THEN mem.alt_bd ELSE vfo[1].band
           alt == IF sat_mode = "SAT_NONE" THEN mem.alt ELSE Saved(vfo[1])
<1>1. main \in VFO /\ Good(main) /\ vfo[1] \in VFO /\ Good(vfo[1])
  BY DEF Inv, Ids
<1>2. mem' = [mem EXCEPT !.sat_mode = sat_mode, !.bd = main.band, !.main = Saved(main),
                         !.alt_bd = alt_bd, !.alt = alt]
  BY DEF store_memory_slot, Inv, Slot
<1> HIDE DEF main
<1>3. Saved(main) \in Entry /\ main.band \in Bands /\ Kept(main.band, Saved(main))
  BY <1>1, SavedFacts DEF Good, Kept, VFO
<1>4. alt_bd \in Bands /\ alt \in Entry /\ Kept(alt_bd, alt)
  <2>1. Saved(vfo[1]) \in Entry /\ vfo[1].band \in Bands /\ Kept(vfo[1].band, Saved(vfo[1]))
    BY <1>1, SavedFacts DEF Good, Kept, VFO
  <2>2. mem.alt_bd \in Bands /\ mem.alt \in Entry /\ Kept(mem.alt_bd, mem.alt)
    BY DEF Inv, Slot
  <2> QED BY <2>1, <2>2
<1> HIDE DEF alt_bd, alt
<1>5. mem' \in Slot /\ Kept(mem'.bd, mem'.main) /\ Kept(mem'.alt_bd, mem'.alt)
  <2>1. sat_mode \in SatModes /\ mem \in Slot
    BY DEF Inv
  <2>2. mem' \in Slot
    BY <1>2, <1>3, <1>4, <2>1 DEF Slot
  <2>3. /\ mem'.bd = main.band /\ mem'.main = Saved(main)
        /\ mem'.alt_bd = alt_bd /\ mem'.alt = alt
    BY <1>2, <2>1 DEF Slot
  <2> QED BY <1>3, <1>4, <2>2, <2>3
<1>6. UNCHANGED <<vfo, filter, direct, settings, stacks>>
  BY DEF store_memory_slot
<1> QED BY <1>5, <1>6 DEF Inv, ReceiverTuned, Running, settings, stacks

\* recall_memory_slot() keeps the invariant: no band is adjusted, so what the
\* memory holds has to fit its band already.
LEMMA RecallKeeps == ASSUME Inv, recall_memory_slot PROVE Inv'
<1> DEFINE Put(v, b) == [v EXCEPT !.band = b, !.bandstack = current[b], !.lo = Plan[b].lo]
           main == IF mem.sat_mode = "SAT_NONE" THEN active ELSE 0
           w == [i \in Ids |->
                  IF i = main THEN Load(Put(vfo[i], mem.bd), mem.main)
                  ELSE IF mem.sat_mode = "SAT_NONE" THEN vfo[i]
                  ELSE Load(Put(vfo[i], mem.alt_bd), mem.alt)]
<1>1. ASSUME NEW i \in Ids, NEW b \in Bands, NEW e \in Entry, Kept(b, e)
      PROVE  Good(Load(Put(vfo[i], b), e))
  <2> DEFINE u == Put(vfo[i], b)
  <2>1. Placed(u) /\ u.band = b
    <3>1. vfo[i] \in VFO /\ current[b] \in Nat /\ current[b] < Plan[b].entries
      BY DEF Inv, InStacks
    <3> QED BY <3>1, PutFacts
  <2> HIDE DEF u
  <2>2. Good(Load(u, e))
    BY <1>1, <2>1, LoadFacts DEF Placed, Good, Kept
  <2> QED BY <2>2 DEF u
<1>2. /\ mem.bd \in Bands /\ mem.main \in Entry /\ Kept(mem.bd, mem.main)
      /\ mem.alt_bd \in Bands /\ mem.alt \in Entry /\ Kept(mem.alt_bd, mem.alt)
      /\ mem.sat_mode \in SatModes
  BY DEF Inv, Slot
<1> HIDE DEF Put
<1>3. \A i \in Ids : Good(w[i])
  BY <1>1, <1>2 DEF Inv
<1>4. vfo_vfos_changed(w)
  BY Zenon DEF recall_memory_slot, Put
<1> HIDE DEF w
<1>5. VfosOK(vfo', receivers, direct') /\ direct' \subseteq Ids /\ filter' \in [Ids -> Filters]
  BY <1>3, <1>4, AllVfos DEF Inv
<1>6. sat_mode' = mem.sat_mode /\ UNCHANGED <<stacks, mem, locked, receivers, active>>
  BY Zenon DEF recall_memory_slot
<1> QED BY <1>2, <1>5, <1>6 DEF Inv, VfosOK, ReceiverTuned, Running, stacks

\* A filter may change without a test of CTUN.
LEMMA FilterKeeps == ASSUME Inv, Filter PROVE Inv'
<1>1. UNCHANGED <<vfo, direct, settings, stacks, mem>> /\ filter' \in [Ids -> Filters]
  BY Zenon DEF Filter, vfo_id_filter_changed, SetFilters
<1> QED BY <1>1 DEF Inv, ReceiverTuned, Running, settings, stacks

\* The other operations touch neither VFOs nor stacks; starting a receiver
\* marks it as not told.
LEMMA SettingsKeep == ASSUME Inv, Receivers \/ Select \/ SatMode \/ LockKey PROVE Inv'
<1>1. UNCHANGED <<vfo, stacks, mem, filter>>
  BY DEF Receivers, Select, SatMode, LockKey, radio_change_receivers, rx_set_active,
         radio_set_satmode, Lock
<1>2. /\ sat_mode' \in SatModes /\ locked' \in BOOLEAN /\ receivers' \in {1, 2}
      /\ active' \in Ids /\ direct' \subseteq Ids
  BY DEF Receivers, Select, SatMode, LockKey, radio_change_receivers, rx_set_active,
         radio_set_satmode, Lock, Inv, Ids
<1>3. \A i \in Ids : i < receivers' /\ i \notin direct' => i < receivers /\ i \notin direct
  BY DEF Receivers, Select, SatMode, LockKey, radio_change_receivers, rx_set_active,
         radio_set_satmode, Lock, Inv, Ids
<1> QED BY <1>1, <1>2, <1>3 DEF Inv, ReceiverTuned, Running, stacks

-----------------------------------------------------------------------------
(* The theorems *)

\* Every operation keeps the invariant.
LEMMA NextKeeps == ASSUME Inv, [Next]_vars PROVE Inv'
<1>1. CASE UNCHANGED vars
  BY <1>1 DEF Inv, ReceiverTuned, Running, vars
<1>2. CASE Next
  BY <1>2, StepKeeps, DragKeeps, ClickKeeps, SetFrequencyKeeps, CtunKeeps, RitKeeps,
     CatRitKeeps, BandKeeps, BandstackKeeps, CopyKeeps, StoreKeeps, RecallKeeps,
     FilterKeeps, SettingsKeep DEF Next
<1> QED BY <1>1, <1>2

\* The invariant holds after vfo_restore_state() without a saved state.
LEMMA InitHolds == ASSUME Init PROVE Inv
<1> DEFINE b == get_band_from_frequency(Home)
<1>1. Home \in Int /\ b \in Bands
  BY BandFound, VfoAssumption
<1>2. \A f \in Int : Idle(f) \in Entry /\ Dial(Idle(f)) = f
  BY DEF Idle, Entry, Dial
<1>3. \A x \in Ids : Good(vfo[x]) /\ vfo[x] \in VFO /\ vfo[x].offset = Shift(vfo[x])
  <2> TAKE x \in Ids
  <2>1. vfo[x] = [band |-> b, bandstack |-> 0, frequency |-> Home,
                  ctun |-> FALSE, ctun_frequency |-> 0, rit |-> 0, rit_enabled |-> FALSE,
                  lo |-> 0, offset |-> 0]
    BY DEF Init
  <2>2. Plan[b].entries > 0
    BY <1>1, VfoAssumption
  <2> HIDE DEF b
  <2>3. vfo[x] \in VFO
    BY <1>1, <2>1 DEF VFO
  <2>4. Dial(vfo[x]) = Home /\ vfo[x].band = b /\ vfo[x].bandstack = 0
    BY <2>1 DEF Dial
  <2>5. AtHome(b, Home)
    BY DEF b, AtHome
  <2>6. Good(vfo[x])
    BY <2>2, <2>3, <2>4, <2>5 DEF Good, Placed, Kept
  <2>7. vfo[x].offset = Shift(vfo[x])
    BY <2>1 DEF Shift
  <2> QED BY <2>3, <2>6, <2>7
<1>4. entry \in [Places -> Entry] /\ \A p \in Places : Kept(p[1], entry[p])
  <2>1. \A p \in Places : p[1] \in Bands
    BY DEF Places
  <2>2. \A p \in Places : Plan[p[1]].home \in Int /\ AtHome(p[1], Plan[p[1]].home)
    BY <2>1, VfoAssumption, PlanAssumption
  <2> QED BY <1>2, <2>2 DEF Init, Kept
<1>5. mem \in Slot /\ Kept(mem.bd, mem.main) /\ Kept(mem.alt_bd, mem.alt)
  <2>1. mem = [sat_mode |-> "SAT_NONE", bd |-> b, main |-> Idle(Home), alt_bd |-> b,
               alt |-> Idle(Home)]
    BY DEF Init
  <2>2. AtHome(b, Home)
    BY DEF AtHome
  <2> HIDE DEF b
  <2> QED BY <1>1, <1>2, <2>1, <2>2 DEF Slot, Kept, SatModes
<1>6. InStacks(current)
  BY DEF Init, InStacks
<1>7. vfo \in [Ids -> VFO]
  BY <1>3 DEF Init
<1> QED BY <1>3, <1>4, <1>5, <1>6, <1>7 DEF Init, Inv, ReceiverTuned, Running, SatModes, Ids

\* The invariant holds forever.
LEMMA Invariance == Spec => []Inv
<1>1. Init => Inv
  BY InitHolds
<1>2. Inv /\ [Next]_vars => Inv'
  BY NextKeeps
<1> QED BY <1>1, <1>2, PTL DEF Spec

\* Everything keeps its type, for every band plan.
THEOREM TypeCorrect == Spec => []TypeOK
<1>1. Inv => TypeOK
  BY DEF Inv, TypeOK, InStacks
<1> QED BY <1>1, Invariance, PTL

\* No operation leaves an index outside a stack: vfo_save_bandstack() and the
\* loads of vfo_id_band_changed() stay inside their arrays.
THEOREM StacksBounded == Spec => []StackIndex
<1>1. Inv => StackIndex
  BY DEF Inv, StackIndex, Good, Placed, InStacks
<1> QED BY <1>1, Invariance, PTL

\* Without clicks in SAT mode, the band of each VFO fits its dial: every jump and
\* every step is followed by vfo_id_adjust_band().
THEOREM BandsFollow ==
  ASSUME "SAT_MODE" \notin Clicks
  PROVE  Spec => []BandFollowsDial
<1>1. Inv => BandFollowsDial
  BY DEF Inv, BandFollowsDial, Good, Kept
<1> QED BY <1>1, Invariance, PTL

\* Under the same assumption, whatever vfo_save_bandstack() has saved in a stack
\* fits the band of the stack.
THEOREM StacksInBand ==
  ASSUME "SAT_MODE" \notin Clicks
  PROVE  Spec => []StackInBand
<1>1. Inv => StackInBand
  BY DEF Inv, StackInBand, Good, Kept
<1> QED BY <1>1, Invariance, PTL

\* The shift of each running receiver accounts for the CTUN and RIT of its VFO,
\* for any filters, changed at any time: only writes that bypass
\* rx_frequency_changed() are excepted.
THEOREM ReceiversFollow == Spec => []ReceiverTuned
<1>1. Inv => ReceiverTuned
  BY DEF Inv
<1> QED BY <1>1, Invariance, PTL

\* A step that pulls the dials apart is no tuning.
Tracking == ~Together => ~(Step \/ Drag \/ Click)

\* Steps, drags and clicks move the dials as the SAT mode wants it.
THEOREM DialsTrack == Spec => SatTracks
<1>1. Inv /\ [Next]_vars => [Tracking]_vars
  BY StepKeeps, DragKeeps, ClickKeeps DEF Tracking
<1>2. Spec => [][Tracking]_vars
  BY <1>1, Invariance, PTL DEF Spec
<1> QED BY <1>2 DEF SatTracks, Tracking

\* A step that moves the spectrum of a VFO in CTUN is no step or drag.
Nailing == /\ sat_mode = "SAT_NONE"
           /\ \E id \in Ids : vfo[id].ctun /\ vfo'[id].frequency # vfo[id].frequency
           => ~(Step \/ Drag)

\* Without rounding, steps and drags leave the spectrum of a VFO in CTUN alone.
THEOREM SpectrumNailed == ASSUME Snap = {FALSE} PROVE Spec => CtunNailed
<1>1. Inv /\ [Next]_vars => [Nailing]_vars
  BY StepKeeps, DragKeeps DEF Nailing, Nailed
<1>2. Spec => [][Nailing]_vars
  BY <1>1, Invariance, PTL DEF Spec
<1> QED BY <1>2 DEF CtunNailed, Nailing
=============================================================================
