---------------------------- MODULE RemoteMirror ----------------------------
(***************************************************************************)
(* Two copies of the transmit flags: the server's (radio.c on the computer *)
(* at the radio) and the client's, during one session.                     *)
(*                                                                         *)
(* At the client, radio_set_mox(), radio_set_vox() and the others only     *)
(* send a command.  The server executes it on its main thread, where the   *)
(* operator at the server and the radio's lines change the same flags, and *)
(* tells the client.  Only then the client's own flags change.             *)
(***************************************************************************)
EXTENDS Radio, Sequences

CONSTANTS
  Commands,   \* the commands the client sends in this instance
  Local,      \* what changes the radio's state at the server
  MaxUp,      \* bounds on the three queues
  MaxIdle,
  MaxDown

AllCommands == {"CMD_MOX", "CMD_VOX", "CMD_TUNE", "CMD_TOGGLE_TUNE", "CMD_TWOTONE"}
AllLocal == {"mox", "tune", "inhibit", "band"}

ASSUME MirrorAssumption == /\ Commands \subseteq AllCommands
                           /\ Local \subseteq AllLocal
                           /\ {MaxUp, MaxIdle, MaxDown} \subseteq Nat \ {0}

VARIABLES
  radio,     \* the flags at the server, and the rest of its radio
  mirror,    \* the flags at the client, and its TX panel
  up,        \* commands on their way to the server
  idle,      \* callbacks in the server's idle queue
  down,      \* messages to the client, its own idle queue included
  gap        \* history: why the client may be wrong about the radio

vars == <<radio, mirror, up, idle, down, gap>>

Call == [cb : {"mox"} \cup AllCommands, on : BOOLEAN]
Msg  == [type : {"MOX", "VOX", "TUNE", "TWOTONE"}, on : BOOLEAN]
Mirror == [mox : BOOLEAN, vox : BOOLEAN, tune : BOOLEAN, twotone : BOOLEAN,
           tx : BOOLEAN, redo : BOOLEAN]

TypeOK == /\ radio \in RadioState
          /\ mirror \in Mirror
          /\ up \in Seq(Call)
          /\ idle \in Seq(Call)
          /\ down \in Seq(Msg)
          /\ gap \in {"none", "refused", "tune", "twotone"}

\* A session starts with both sides in RX.
Init == /\ radio = RadioOff("SSB")
        /\ mirror = [mox |-> FALSE, vox |-> FALSE, tune |-> FALSE,
                     twotone |-> FALSE, tx |-> FALSE, redo |-> FALSE]
        /\ up = << >>
        /\ idle = << >>
        /\ down = << >>
        /\ gap = "none"
-----------------------------------------------------------------------------
(* The client *)

\* The operator, VOX or a CAT/TCI program at the client.  The two-tone button
\* toggles the flag the client knows; a toggle command has no argument.
Send(c, on) ==
  /\ Len(up) < MaxUp
  /\ c = "CMD_TWOTONE" => on = ~mirror.twotone
  /\ c = "CMD_TOGGLE_TUNE" => on
  /\ up' = Append(up, [cb |-> c, on |-> on])
  /\ UNCHANGED <<radio, mirror, idle, down, gap>>

OnAir(m) == m.mox \/ m.vox \/ m.tune

\* rxtx() at the client.
Panel(m, on) == [m EXCEPT !.tx = on, !.redo = m.redo \/ m.tx = on]
Follow(m, on) == IF on # OnAir(m) THEN Panel(m, on) ELSE m

\* radio_client_set_mox(), radio_client_set_vox()
ClientMox(m, on) == [Follow(m, on) EXCEPT !.mox = on, !.tune = FALSE, !.vox = FALSE]
ClientVox(m, on) == [Follow(m, on) EXCEPT !.mox = FALSE, !.tune = FALSE, !.vox = on]

\* Mutant: TUNE takes over from MOX or VOX without leaving TX first.
ClientTuneKeepsPanel(m, on) ==
  LET off == [m EXCEPT !.vox = FALSE, !.mox = FALSE]
  IN  IF on = m.tune THEN m ELSE [Panel(off, on) EXCEPT !.tune = on]

\* radio_client_set_tune()
ClientTune(m, on) ==
  LET off == IF m.vox \/ m.mox
             THEN [Panel(m, FALSE) EXCEPT !.vox = FALSE, !.mox = FALSE] ELSE m
  IN  IF on = m.tune THEN m ELSE [Panel(off, on) EXCEPT !.tune = on]

\* CMD_TWOTONE: radio_client_set_twotone(), then radio_client_set_mox().
ClientTwotone(m, on) == [ClientMox(m, on) EXCEPT !.twotone = on]

Learn(m, msg) == CASE msg.type = "MOX"     -> ClientMox(m, msg.on)
                   [] msg.type = "VOX"     -> ClientVox(m, msg.on)
                   [] msg.type = "TUNE"    -> ClientTune(m, msg.on)
                   [] msg.type = "TWOTONE" -> ClientTwotone(m, msg.on)

Receive == /\ down # << >>
           /\ mirror' = Learn(mirror, Head(down))
           /\ down' = Tail(down)
           /\ UNCHANGED <<radio, up, idle, gap>>
-----------------------------------------------------------------------------
(* The server *)

\* server_loop() queues the command.
Queue == /\ up # << >> /\ Len(idle) < MaxIdle
         /\ idle' = Append(idle, Head(up))
         /\ up' = Tail(up)
         /\ UNCHANGED <<radio, mirror, down, gap>>

\* server_command(), ext_radio_set_mox()
Handle(r, q) ==
  CASE q.cb \in {"mox", "CMD_MOX"} -> SetMox(r, q.on)
    [] q.cb = "CMD_VOX" -> SetVox(r, q.on)
    [] q.cb = "CMD_TUNE" -> SetTune(r, q.on)
    [] q.cb = "CMD_TOGGLE_TUNE" -> TuneToggled(r)
    [] q.cb = "CMD_TWOTONE" -> IF q.on = r.twotone THEN r ELSE SetTwotone(r, q.on)

Say(type, on) == <<[type |-> type, on |-> on]>>

\* Mutant: the client is told of a MOX request only if it changed something.
ToldOnChange(r, q) ==
  LET s == Handle(r, q) IN
  CASE q.cb \in {"mox", "CMD_MOX"} -> IF s = r THEN << >> ELSE Say("MOX", q.on)
    [] q.cb = "CMD_VOX" -> IF s.vox = r.vox THEN << >> ELSE Say("VOX", q.on)
    [] q.cb = "CMD_TUNE" -> IF s.tune = q.on THEN << >> ELSE Say("TUNE", s.tune)
    [] q.cb = "CMD_TOGGLE_TUNE" -> Say("TUNE", s.tune)
    [] q.cb = "CMD_TWOTONE" -> Say("TWOTONE", s.twotone)

\* What the client is told: MOX always, and before anything is checked; VOX if
\* it changes; TUNE if the result is not the requested one, or after a toggle.
Told(r, q) ==
  LET s == Handle(r, q) IN
  CASE q.cb \in {"mox", "CMD_MOX"} -> Say("MOX", q.on)
    [] q.cb = "CMD_VOX" -> IF s.vox = r.vox THEN << >> ELSE Say("VOX", q.on)
    [] q.cb = "CMD_TUNE" -> IF s.tune = q.on THEN << >> ELSE Say("TUNE", s.tune)
    [] q.cb = "CMD_TOGGLE_TUNE" -> Say("TUNE", s.tune)
    [] q.cb = "CMD_TWOTONE" -> Say("TWOTONE", s.twotone)

\* tx_set_twotone() queues the change of MOX.
Posted(r, q) ==
  IF q.cb = "CMD_TWOTONE" /\ q.on # r.twotone
  THEN <<[cb |-> "mox", on |-> q.on]>> ELSE << >>

\* MOX is refused out of band or under TX inhibit.
Refused(r, on) == on /\ (r.inhibit \/ ~r.inband)

\* History: the code paths that leave the client uninformed, until a message
\* comes that sets all its flags.
Gap(r, q) ==
  LET s == Handle(r, q) IN
  CASE q.cb \in {"mox", "CMD_MOX"} -> IF Refused(r, q.on) THEN "refused" ELSE "none"
    [] q.cb = "CMD_VOX" /\ s.vox # r.vox -> "none"
    [] q.cb = "CMD_TUNE" /\ s.tune = q.on /\ s # r -> "tune"
    [] q.cb = "CMD_TUNE" /\ s.tune # q.on /\ s.tune -> "none"
    [] q.cb = "CMD_TOGGLE_TUNE" /\ s.tune -> "none"
    [] q.cb = "CMD_TWOTONE" /\ q.on = r.twotone -> "twotone"
    [] OTHER -> gap

Dispatch ==
  /\ idle # << >> /\ Len(down) < MaxDown
  /\ LET q == Head(idle) IN
     /\ radio' = Handle(radio, q)
     /\ down' = down \o Told(radio, q)
     /\ idle' = Tail(idle) \o Posted(radio, q)
     /\ gap' = Gap(radio, q)
  /\ UNCHANGED <<mirror, up>>

\* The operator at the server presses MOX: an unsolicited change.
LocalMox(on) ==
  /\ "mox" \in Local /\ Len(down) < MaxDown
  /\ radio' = SetMox(radio, on)
  /\ down' = down \o Say("MOX", on)
  /\ gap' = IF Refused(radio, on) THEN "refused" ELSE "none"
  /\ UNCHANGED <<mirror, up, idle>>

\* The operator at the server, or the auto-tune line, tunes.
LocalTune(on) ==
  /\ "tune" \in Local
  /\ radio' = SetTune(radio, on)
  /\ gap' = IF radio' # radio THEN "tune" ELSE gap
  /\ UNCHANGED <<mirror, up, idle, down>>

InhibitOn == /\ "inhibit" \in Local /\ ~radio.inhibit /\ Len(idle) < MaxIdle
             /\ radio' = [radio EXCEPT !.inhibit = TRUE]
             /\ idle' = Append(idle, [cb |-> "mox", on |-> FALSE])
             /\ UNCHANGED <<mirror, up, down, gap>>

InhibitOff == /\ radio.inhibit
              /\ radio' = [radio EXCEPT !.inhibit = FALSE]
              /\ UNCHANGED <<mirror, up, idle, down, gap>>

\* The TX frequency moves into or out of the band.
Retune == /\ "band" \in Local
          /\ radio' = [radio EXCEPT !.inband = ~radio.inband]
          /\ UNCHANGED <<mirror, up, idle, down, gap>>

Next == \/ \E c \in Commands, on \in BOOLEAN : Send(c, on)
        \/ \E on \in BOOLEAN : LocalMox(on) \/ LocalTune(on)
        \/ Receive \/ Queue \/ Dispatch \/ InhibitOn \/ InhibitOff \/ Retune

Spec == Init /\ [][Next]_vars
-----------------------------------------------------------------------------
(* Properties *)

Flags(s) == <<s.mox, s.vox, s.tune>>

Quiet == up = << >> /\ idle = << >> /\ down = << >>

\* When everything said has been heard, the client knows the state of the radio,
\* whatever commands, local changes and TX inhibits crossed on the way.  It may
\* be wrong for three reasons only: radio_set_mox() tells the client before it
\* checks, a TUNE that works out as requested is not answered, and a two-tone
\* command that changes nothing is answered as if it had.  A refused MOX request
\* never hides a transmission.
MirrorAgrees ==
  Quiet => \/ Flags(mirror) = Flags(radio)
           \/ gap = "refused" /\ mirror.mox /\ ~Transmitting(radio)
           \/ gap \in {"tune", "twotone"}

\* The client's TX panel is shown exactly while its flags say so, and rxtx() is
\* never called for the state the panel is in already.
PanelFollows == (mirror.tx <=> OnAir(mirror)) /\ ~mirror.redo
=============================================================================
