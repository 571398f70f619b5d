-------------------------------- MODULE Vfo --------------------------------
(***************************************************************************)
(* The two VFOs, their bands and band stacks, and the receivers they tune. *)
(*                                                                         *)
(* Every operation runs in the main thread and is one action.  A VFO keeps *)
(* the frequency of the hardware and, in CTUN mode, the frequency of the   *)
(* dial inside the fixed spectrum; the shift the receiver applies (offset) *)
(* and the band with its stack entry are derived data that each operation  *)
(* has to bring up to date.  Mode, filter and deviation travel with the    *)
(* frequency; they are left out but for the edges of the filter they give  *)
(* a receiver, which may be any of Filters after they were applied.  Left  *)
(* out are the settings a band change applies to the hardware              *)
(* (radio_apply_band_settings), the packets it sends, and changes of the   *)
(* sample rate.                                                            *)
(***************************************************************************)
EXTENDS Integers

CONSTANTS
  Ham, Xvtr,            \* numbers of the built-in and of the transverter bands
  Gen, Wwv,             \* bandGen and bandWWV
  Plan,                 \* of each band: edges min and max, LO, number of stack
                        \* entries and the frequency they start with
  Margin,               \* how far a VFO may leave its band (25 kHz)
  WwvSpots, WwvNear,    \* the WWV frequencies, and what counts as close
  RadioMin, RadioMax,   \* what the hardware can tune
  Half,                 \* half the sample rate
  Filters,              \* edges low and high of the receive filters there are
  RitMax,               \* limit of RIT (9999 Hz)
  Home,                 \* the frequency the VFOs start at
  Freqs, Hops,          \* frequencies that are entered, distances dragged
  Rits, StepSizes,      \* RIT values and VFO steps
  Snap,                 \* whether moves may be rounded (vfo_snap)
  Clicks                \* SAT modes in which the spectrum is clicked at

Bands == Ham \cup Xvtr
Places == UNION {{b} \X (0 .. Plan[b].entries - 1) : b \in Bands}
Ids == {0, 1}           \* VFO_A and VFO_B, and the receivers they tune
SatModes == {"SAT_NONE", "SAT_MODE", "RSAT_MODE"}

ASSUME VfoAssumption ==
  /\ Ham \subseteq Nat /\ Xvtr \subseteq Nat
  /\ Gen \in Ham /\ Wwv \in Ham
  /\ Plan \in [Bands -> [min : Int, max : Int, lo : Int, entries : Nat \ {0},
                      home : Int]]
  /\ Margin \in Nat /\ WwvSpots \subseteq Int /\ WwvNear \in Nat
  /\ RadioMin \in Int /\ RadioMax \in Int
  /\ Half \in Nat /\ Filters \subseteq [low : Int, high : Int]
  /\ RitMax \in Nat /\ Home \in Int /\ Freqs \subseteq Int /\ Hops \subseteq Int
  /\ Rits \subseteq Int /\ StepSizes \subseteq Nat \ {0}
  /\ Snap \subseteq BOOLEAN /\ Clicks \subseteq SatModes

VARIABLES
  vfo,        \* the two VFOs
  current,    \* of each band: current_entry of its stack
  entry,      \* of each place of a stack (band, index): what it holds
  sat_mode, locked, receivers, active,
  mem,        \* a memory slot
  filter,     \* of each receiver: filter_low and filter_high
  direct      \* running receivers whose VFO was written behind their back

vars == <<vfo, current, entry, sat_mode, locked, receivers, active, mem, filter, direct>>
settings == <<sat_mode, locked, receivers, active>>
stacks == <<current, entry>>

Entry == [frequency : Int, ctun : BOOLEAN, ctun_frequency : Int]
VFO == [band : Bands, bandstack : Nat, frequency : Int, ctun : BOOLEAN,
        ctun_frequency : Int, rit : Int, rit_enabled : BOOLEAN, lo : Int,
        offset : Int]
Slot == [sat_mode : SatModes, bd : Bands, main : Entry, alt_bd : Bands, alt : Entry]

-----------------------------------------------------------------------------
(* Bands *)

Inside(b, f) == Plan[b].min <= f /\ f <= Plan[b].max
InMargin(b, f) == Plan[b].min <= f + Margin /\ f - Margin <= Plan[b].max
First(S) == CHOOSE b \in S : \A c \in S : b <= c

get_band_from_frequency(f) ==
  LET built_in == {b \in Ham : Inside(b, f) /\ RadioMin <= f /\ f <= RadioMax}
      transverter == {b \in Xvtr : Inside(b, f)}
  IN  IF transverter # {} THEN First(transverter)
      ELSE IF built_in # {} THEN First(built_in)
      ELSE IF \E w \in WwvSpots : f - w \in -WwvNear .. WwvNear THEN Wwv ELSE Gen

\* The frequency the operator reads: of a VFO, or of a stack entry.
Dial(v) == IF v.ctun THEN v.ctun_frequency ELSE v.frequency

\* Mutant of AdjustBand: the index into the stack of the old band is kept.
AdjustKeepsIndex(cur, v, f) ==
  LET b == get_band_from_frequency(f)
  IN  IF InMargin(v.band, f) THEN v ELSE [v EXCEPT !.band = b]

\* The band of frequency f: the old one within its margin, else by lookup; the
\* stack entry of a new band is the current one.
AdjustBand(cur, v, f) ==
  LET b == get_band_from_frequency(f)
  IN  IF InMargin(v.band, f) \/ b = v.band THEN v
      ELSE [v EXCEPT !.band = b, !.bandstack = cur[b]]

\* The band of a VFO, or of a stack entry, fits its dial.
AtHome(b, f) == InMargin(b, f) \/ b = get_band_from_frequency(f)

ASSUME PlanAssumption == \A b \in Bands : AtHome(b, Plan[b].home)

-----------------------------------------------------------------------------
(* Receivers *)

Running == {id \in Ids : id < receivers}

Beyond(id, f, cf) == \/ cf + filter[id].low < f - Half
                     \/ cf + filter[id].high > f + Half

\* The shift a receiver applies: CTUN and RIT.
Shift(v) == (IF v.ctun THEN v.ctun_frequency - v.frequency ELSE 0)
            + (IF v.rit_enabled THEN v.rit ELSE 0)

\* CTUN is centred again when the filter has left the spectrum, and the shift
\* is recomputed.
rx_frequency_changed(id, v) ==
  LET w == IF v.ctun /\ Beyond(id, v.frequency, v.ctun_frequency)
           THEN [v EXCEPT !.frequency = v.ctun_frequency] ELSE v
  IN  [w EXCEPT !.offset = Shift(w)]

Retuned(id, v) == IF id \in Running THEN rx_frequency_changed(id, v) ELSE v

\* Mode and filter of their VFOs are applied to the receivers S.
SetFilters(S) ==
  filter' \in {w \in [Ids -> Filters] : \A id \in Ids \ S : w[id] = filter[id]}

\* rx_vfo_changed() of all running receivers after the VFOs became w: CTUN is
\* tested with the filter from before, the new one is set afterwards.
vfo_vfos_changed(w) ==
  /\ vfo' = [id \in Ids |-> Retuned(id, w[id])]
  /\ SetFilters(Running)
  /\ direct' = direct \ Running

SetDial(v, f) == IF v.ctun THEN [v EXCEPT !.ctun_frequency = f]
                 ELSE [v EXCEPT !.frequency = f]
rx_set_frequency(id, v, f) == rx_frequency_changed(id, SetDial(v, f))

-----------------------------------------------------------------------------
(* Tuning *)

ROUND(f, n, step) == ((f + step \div 2) \div step + n) * step
Rounded(f, step, round) == IF round THEN ROUND(f, 0, step) ELSE f

\* The receiver whose filter limits VFO id: its own, or the active one.
myrx(id) == IF id \in Running THEN id ELSE active

\* Mutant of CtunAllows: the upper edge of the spectrum is not looked at.
CtunAllowsUpwards(id, f) ==
  vfo[id].ctun => f + filter[myrx(id)].low > vfo[id].frequency - Half

\* The filter at the dial frequency f stays inside the spectrum of VFO id.
CtunAllows(id, f) ==
  vfo[id].ctun => /\ f + filter[myrx(id)].low > vfo[id].frequency - Half
                  /\ f + filter[myrx(id)].high < vfo[id].frequency + Half

\* Mutant of Tuned: the band is left as it is.
TunedSameBand(id, f) == Retuned(id, SetDial(vfo[id], f))

\* VFO id after its dial was set to f.
Tuned(id, f) == Retuned(id, AdjustBand(current, SetDial(vfo[id], f), f))

\* Mutant of Target: RSAT moves the other VFO the same way.
TargetAlike(id, f) == Dial(vfo[1 - id]) + (f - Dial(vfo[id]))

\* Where the dial of the other VFO goes in SAT and RSAT mode if VFO id goes to f.
Target(id, f) ==
  LET delta == f - Dial(vfo[id])
  IN  IF sat_mode = "SAT_MODE" THEN Dial(vfo[1 - id]) + delta
      ELSE Dial(vfo[1 - id]) - delta

\* Mutant of Followed: the receiver of the other VFO is not told.
FollowedUntold(id, to, f) ==
  IF sat_mode = "SAT_NONE" THEN vfo[id]
  ELSE AdjustBand(current, SetDial(vfo[id], to), f)

\* VFO id after it was taken along to its target, with its band adjusted to f.
Followed(id, to, f) ==
  IF sat_mode = "SAT_NONE" THEN vfo[id]
  ELSE Retuned(id, AdjustBand(current, SetDial(vfo[id], to), f))

\* VFO id is tuned to f; the band of the other one is adjusted to g.
Both(id, f, g) ==
  [i \in Ids |-> IF i = id THEN Tuned(id, f) ELSE Followed(i, Target(id, f), g)]

\* Receivers told of a change of the frequency of VFO id.
Told(id) == {i \in Running : i = id \/ sat_mode # "SAT_NONE"}

vfo_id_step(id, n, step) ==
  LET f == ROUND(Dial(vfo[id]), n, step)
  IN  /\ ~locked /\ CtunAllows(id, f)
      /\ vfo' = Both(id, f, Target(id, f))
      /\ direct' = direct \ Told(id)
      /\ UNCHANGED <<settings, stacks, mem, filter>>

vfo_id_move(id, hz, round, step) ==
  LET to == IF vfo[id].ctun THEN vfo[id].ctun_frequency + hz
            ELSE vfo[id].frequency - hz
      f == Rounded(to, step, round)
  IN  /\ ~locked /\ CtunAllows(id, to)
      /\ vfo' = Both(id, f, Target(id, f))
      /\ direct' = direct \ Told(id)
      /\ UNCHANGED <<settings, stacks, mem, filter>>

\* In SAT mode the band of a VFO in CTUN follows the other one's CTUN frequency.
vfo_id_move_to(id, to, round, step) ==
  LET f == Rounded(to, step, round)
      g == IF sat_mode = "SAT_MODE" /\ vfo[1 - id].ctun
           THEN Tuned(id, f).ctun_frequency ELSE Target(id, f)
  IN  /\ ~locked
      /\ vfo' = Both(id, f, g)
      /\ direct' = direct \ Told(id)
      /\ SetFilters({id} \cap Running)
      /\ UNCHANGED <<settings, stacks, mem>>

vfo_id_set_frequency(id, f) ==
  LET v == AdjustBand(current, vfo[id], f)
      idle == [v EXCEPT !.ctun = FALSE, !.frequency = f,
                        !.ctun_frequency = IF v.ctun THEN f ELSE v.ctun_frequency,
                        !.offset = IF v.ctun THEN 0 ELSE v.offset]
  IN  /\ vfo' = [vfo EXCEPT ![id] = IF id < receivers THEN rx_set_frequency(id, v, f) ELSE idle]
      /\ direct' = direct \ {id}
      /\ UNCHANGED <<settings, stacks, mem, filter>>

vfo_id_ctun_update(id, state) ==
  LET f == IF state THEN vfo[id].frequency ELSE vfo[id].ctun_frequency
      v == [vfo[id] EXCEPT !.ctun = state, !.frequency = f, !.ctun_frequency = f,
                           !.offset = 0]
  IN  /\ vfo[id].ctun # state
      /\ vfo' = [vfo EXCEPT ![id] = Retuned(id, AdjustBand(current, v, f))]
      /\ direct' = direct \ {id}
      /\ UNCHANGED <<settings, stacks, mem, filter>>

vfo_id_rit_value(id, value) ==
  LET r == IF value > RitMax THEN RitMax ELSE IF value < -RitMax THEN -RitMax ELSE value
      v == [vfo[id] EXCEPT !.rit = r, !.rit_enabled = (r # 0)]
  IN  /\ vfo' = [vfo EXCEPT ![id] = Retuned(id, v)]
      /\ direct' = direct \ {id}
      /\ UNCHANGED <<settings, stacks, mem, filter>>

vfo_id_rit_onoff(id, enable) ==
  /\ vfo' = [vfo EXCEPT ![id] = Retuned(id, [@ EXCEPT !.rit_enabled = enable])]
  /\ direct' = direct \ {id}
  /\ UNCHANGED <<settings, stacks, mem, filter>>

\* RC, RD, RU and RT of CAT write the RIT of VFO A and leave its receiver alone.
CatRit(r, enable) ==
  /\ vfo' = [vfo EXCEPT ![0].rit = r, ![0].rit_enabled = enable]
  /\ direct' = direct \cup {0}
  /\ UNCHANGED <<settings, stacks, mem, filter>>

-----------------------------------------------------------------------------
(* Band stacks *)

\* Mutant of Saved: the CTUN frequency is not saved.
SavedCentre(v) == [frequency |-> v.frequency, ctun |-> v.ctun, ctun_frequency |-> 0]

Saved(v) == [frequency |-> v.frequency, ctun |-> v.ctun,
             ctun_frequency |-> v.ctun_frequency]
Load(v, e) == [v EXCEPT !.frequency = e.frequency, !.ctun = e.ctun,
                        !.ctun_frequency = e.ctun_frequency]

\* The stacks after VFO A was saved, if the operation is on VFO A.
SavedEntry(id) == IF id = 0
  THEN [entry EXCEPT ![<<vfo[0].band, vfo[0].bandstack>>] = Saved(vfo[0])] ELSE entry
SavedCurrent(id) == IF id = 0
  THEN [current EXCEPT ![vfo[0].band] = vfo[0].bandstack] ELSE current

Reachable(b) ==
  LET f == entry[<<b, current[b]>>].frequency - Plan[b].lo
  IN  RadioMin <= f /\ f <= RadioMax

vfo_id_band_changed(id, b) ==
  LET same == b = vfo[id].band
      e == SavedEntry(id)
      c == SavedCurrent(id)
      s == IF ~same THEN c[b]
           ELSE IF vfo[id].bandstack + 1 >= Plan[b].entries THEN 0
           ELSE vfo[id].bandstack + 1
      cur == IF same /\ id = 0 THEN [c EXCEPT ![b] = s] ELSE c
      v == Load([vfo[id] EXCEPT !.band = b, !.bandstack = s, !.lo = Plan[b].lo], e[<<b, s>>])
  IN  /\ same \/ Reachable(b)
      /\ entry' = e
      /\ current' = cur
      /\ vfo_vfos_changed([vfo EXCEPT ![id] = AdjustBand(cur, v, Dial(v))])
      /\ UNCHANGED <<settings, mem>>

vfo_id_bandstack_changed(id, s) ==
  LET b == vfo[id].band
      e == SavedEntry(id)
      cur == IF id = 0 THEN [SavedCurrent(id) EXCEPT ![b] = s] ELSE current
      v == Load([vfo[id] EXCEPT !.bandstack = s], e[<<b, s>>])
  IN  /\ entry' = e
      /\ current' = cur
      /\ vfo_vfos_changed([vfo EXCEPT ![id] = AdjustBand(cur, v, Dial(v))])
      /\ UNCHANGED <<settings, mem>>

\* BANDSTACK_PLUS and BANDSTACK_MINUS step round the stack of the active VFO.
BandstackStep(up) ==
  LET n == Plan[vfo[active].band].entries
      s == vfo[active].bandstack
  IN  vfo_id_bandstack_changed(active, IF up THEN IF s + 1 >= n THEN 0 ELSE s + 1
                                       ELSE IF s = 0 THEN n - 1 ELSE s - 1)

-----------------------------------------------------------------------------
(* Both VFOs, memories, receivers *)

\* vfo_a_to_b, vfo_b_to_a and vfo_a_swap_b: VFO i becomes a copy of from[i].
CopyVfos(from) ==
  /\ vfo_vfos_changed([i \in Ids |-> vfo[from[i]]])
  /\ UNCHANGED <<settings, stacks, mem>>
vfo_a_to_b == CopyVfos([i \in Ids |-> 0])
vfo_b_to_a == CopyVfos([i \in Ids |-> 1])
vfo_a_swap_b == CopyVfos([i \in Ids |-> 1 - i])

store_memory_slot ==
  LET main == IF sat_mode = "SAT_NONE" THEN vfo[active] ELSE vfo[0]
  IN  /\ mem' = [mem EXCEPT !.sat_mode = sat_mode, !.bd = main.band, !.main = Saved(main),
                   !.alt_bd = IF sat_mode = "SAT_NONE" THEN @ ELSE vfo[1].band,
                   !.alt = IF sat_mode = "SAT_NONE" THEN @ ELSE Saved(vfo[1])]
      /\ UNCHANGED <<vfo, filter, direct, settings, stacks>>

recall_memory_slot ==
  LET Recalled(v, b, e) == Load([v EXCEPT !.band = b, !.bandstack = current[b],
                                          !.lo = Plan[b].lo], e)
      main == IF mem.sat_mode = "SAT_NONE" THEN active ELSE 0
  IN  /\ sat_mode' = mem.sat_mode
      /\ vfo_vfos_changed([i \in Ids |->
                  IF i = main THEN Recalled(vfo[i], mem.bd, mem.main)
                  ELSE IF mem.sat_mode = "SAT_NONE" THEN vfo[i]
                  ELSE Recalled(vfo[i], mem.alt_bd, mem.alt)])
      /\ UNCHANGED <<stacks, mem, locked, receivers, active>>

\* Starting the second receiver does not tell it of its VFO.
radio_change_receivers(r) ==
  /\ receivers # r
  /\ receivers' = r /\ active' = 0
  /\ direct' = IF r = 2 THEN direct \cup {1} ELSE direct \ {1}
  /\ UNCHANGED <<vfo, stacks, mem, filter, sat_mode, locked>>

\* The mode or the filter of a VFO is changed: the filter of its receiver, if
\* running, follows, or those of all (Var1 and Var2).  CTUN is not tested.
vfo_id_filter_changed(id, all) ==
  /\ SetFilters(Running \cap (IF all THEN Ids ELSE {id}))
  /\ UNCHANGED <<vfo, direct, settings, stacks, mem>>

rx_set_active(id) ==
  /\ id < receivers /\ active' = id
  /\ UNCHANGED <<vfo, stacks, mem, filter, sat_mode, locked, receivers, direct>>

radio_set_satmode(mode) ==
  /\ sat_mode' = mode
  /\ UNCHANGED <<vfo, stacks, mem, filter, locked, receivers, active, direct>>

Lock(state) ==
  /\ locked' = state
  /\ UNCHANGED <<vfo, stacks, mem, filter, sat_mode, receivers, active, direct>>

-----------------------------------------------------------------------------
(* Specification *)

Idle(f) == [frequency |-> f, ctun |-> FALSE, ctun_frequency |-> 0]

Init ==
  /\ vfo = [id \in Ids |->
       [band |-> get_band_from_frequency(Home), bandstack |-> 0, frequency |-> Home,
        ctun |-> FALSE, ctun_frequency |-> 0, rit |-> 0, rit_enabled |-> FALSE,
        lo |-> 0, offset |-> 0]]
  /\ current \in {c \in [Bands -> {0, 1}] : \A b \in Bands : c[b] < Plan[b].entries}
  /\ entry = [p \in Places |-> Idle(Plan[p[1]].home)]
  /\ sat_mode = "SAT_NONE" /\ locked = FALSE
  /\ receivers \in {1, 2} /\ active = 0
  /\ mem = [sat_mode |-> "SAT_NONE", bd |-> get_band_from_frequency(Home),
            main |-> Idle(Home), alt_bd |-> get_band_from_frequency(Home),
            alt |-> Idle(Home)]
  /\ filter \in {[id \in Ids |-> w] : w \in Filters}
  /\ direct = {}

Step == \E id \in Ids, n \in {-1, 1}, step \in StepSizes : vfo_id_step(id, n, step)
Drag == \E id \in Ids, hz \in Hops, round \in Snap, step \in StepSizes :
          vfo_id_move(id, hz, round, step)
Click == /\ sat_mode \in Clicks
         /\ \E id \in Ids, f \in Freqs, round \in Snap, step \in StepSizes :
              vfo_id_move_to(id, f, round, step)
SetFrequency == \E id \in Ids, f \in Freqs : vfo_id_set_frequency(id, f)
Ctun == \E id \in Ids, state \in BOOLEAN : vfo_id_ctun_update(id, state)
RitValue == \E id \in Ids, r \in Rits : vfo_id_rit_value(id, r)
RitOnOff == \E id \in Ids, enable \in BOOLEAN : vfo_id_rit_onoff(id, enable)
CatRitValue == \E r \in Rits : CatRit(r, vfo[0].rit_enabled)
CatRitOnOff == \E enable \in BOOLEAN : CatRit(vfo[0].rit, enable)
BandButton == \E id \in Ids, b \in Bands : vfo_id_band_changed(id, b)
BandstackButton == \E up \in BOOLEAN : BandstackStep(up)
BandstackMenu == \E id \in Ids : \E s \in 0 .. Plan[vfo[id].band].entries - 1 :
                   vfo_id_bandstack_changed(id, s)
Copy == vfo_a_to_b \/ vfo_b_to_a \/ vfo_a_swap_b
Filter == \E id \in Ids, all \in BOOLEAN : vfo_id_filter_changed(id, all)
Receivers == \E r \in {1, 2} : radio_change_receivers(r)
Select == \E id \in Ids : rx_set_active(id)
SatMode == \E mode \in SatModes : radio_set_satmode(mode)
LockKey == \E state \in BOOLEAN : Lock(state)

Next ==
  \/ Step \/ Drag \/ Click \/ SetFrequency \/ Ctun
  \/ RitValue \/ RitOnOff \/ CatRitValue \/ CatRitOnOff
  \/ BandButton \/ BandstackButton \/ BandstackMenu \/ Copy
  \/ store_memory_slot \/ recall_memory_slot
  \/ Filter \/ Receivers \/ Select \/ SatMode \/ LockKey

Spec == Init /\ [][Next]_vars

-----------------------------------------------------------------------------
(* Properties *)

\* Everything keeps its type, and every stack keeps all its entries.
TypeOK ==
  /\ vfo \in [Ids -> VFO]
  /\ current \in [Bands -> Nat]
  /\ entry \in [Places -> Entry]
  /\ sat_mode \in SatModes /\ locked \in BOOLEAN
  /\ receivers \in {1, 2} /\ active \in Ids
  /\ mem \in Slot
  /\ filter \in [Ids -> Filters]
  /\ direct \subseteq Ids

\* The index a VFO keeps into the stack of its band, and the current index of
\* each stack, are inside the stack: vfo_save_bandstack() writes there.
StackIndex ==
  /\ \A id \in Ids : vfo[id].bandstack < Plan[vfo[id].band].entries
  /\ \A b \in Bands : current[b] < Plan[b].entries

\* Whatever is done to a VFO, its band is the one vfo_id_adjust_band() would
\* leave alone: the band settings in use belong to the frequency tuned to.
BandFollowsDial == \A id \in Ids : AtHome(vfo[id].band, Dial(vfo[id]))

\* "There should be no out-of-band frequencies in the bandstack": whatever was
\* saved, in CTUN too, belongs to the band it was saved under.
StackInBand == \A p \in Places : AtHome(p[1], Dial(entry[p]))

\* The shift of a running receiver accounts for the CTUN and the RIT of its
\* VFO after every operation, whatever filters did to CTUN meanwhile, unless CAT
\* wrote the RIT or the receiver has just been started.
ReceiverTuned == \A id \in Running \ direct : vfo[id].offset = Shift(vfo[id])

\* The dials of the two VFOs move as the SAT mode wants it: by the same amount,
\* by opposite amounts, or only one of them.
Together ==
  LET a == Dial(vfo'[0]) - Dial(vfo[0])
      b == Dial(vfo'[1]) - Dial(vfo[1])
  IN  CASE sat_mode = "SAT_MODE" -> a = b
        [] sat_mode = "RSAT_MODE" -> a = -b
        [] OTHER -> a = 0 \/ b = 0

\* Tuning one VFO by step, drag or click takes the other one along in SAT and
\* RSAT mode, across band edges and re-centred CTUN too: a step that pulls
\* them apart is none of these.
SatTracks == [][~Together => ~(Step \/ Drag \/ Click)]_vars

\* In CTUN mode the spectrum is nailed to the display: a step that moves the
\* hardware frequency of a VFO in CTUN is neither a step of the dial nor a drag
\* (outside SAT modes, where the other VFO is taken along).
CtunNailed ==
  [][/\ sat_mode = "SAT_NONE"
     /\ \E id \in Ids : vfo[id].ctun /\ vfo'[id].frequency # vfo[id].frequency
     => ~(Step \/ Drag)]_vars

\* The LO offset of a VFO is the one of its band: "you loose the LO offset when
\* moving > 25kHz out of a transverter band".
LoFollowsBand == \A id \in Ids : vfo[id].lo = Plan[vfo[id].band].lo
=============================================================================
