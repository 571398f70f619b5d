---------------------------- MODULE RemoteServer ----------------------------
(***************************************************************************)
(* The server side of remote operation: server_thread.c.                   *)
(*                                                                         *)
(* The listening thread waits for a client, checks it, takes the radio     *)
(* over for it (protocol, screen, keyer), reads its commands and, when the *)
(* connection is lost, hands the radio back.  Whatever concerns the radio  *)
(* is not done by that thread: it is queued with g_idle_add() for the GTK  *)
(* main thread, and twice the thread waits until the queue has been served *)
(* up to its own last callback.  A third thread receives the client's      *)
(* audio.  The operator at the server may use the radio as well, and may   *)
(* switch the server off, which closes the sockets and joins the threads.  *)
(*                                                                         *)
(* The client may go away at any time, also without a word: a read then    *)
(* ends after the receive time-out or after ten empty reads.  What it sent *)
(* before is read first, so it is gone when its last command was read.     *)
(***************************************************************************)
EXTENDS Radio, Sequences, FiniteSets

CONSTANTS
  Commands,     \* the commands clients send in this instance
  StartModes,   \* the modes the radio may be in
  StopAt,       \* where the listening thread may be when the server is switched off
  MaxCalls,     \* bound on the commands waiting in the idle queue
  MaxLeft       \* bound on the callbacks left when the server is switched on

AllCommands == {"CMD_MOX", "CMD_VOX", "CMD_TUNE", "CMD_TOGGLE_TUNE",
                "CMD_TWOTONE", "CMD_SCREEN", "CMD_RESTART", "CMD_PING"}

\* Where the listening thread may be.
Places == {"none", "start", "top", "clean", "join", "bind", "accept", "auth",
           "test", "begin", "prepare", "wait1", "init", "loop", "over",
           "wait2", "end", "ended"}

ASSUME ServerAssumption == /\ Commands \subseteq AllCommands
                           /\ StartModes \subseteq Modes
                           /\ StopAt \subseteq Places
                           /\ MaxCalls \in Nat \ {0}
                           /\ MaxLeft \in Nat

VARIABLES
  radio,           \* the globals of radio.c and transmitter.c
  idle,            \* callbacks added with g_idle_add(), oldest first
  protocol,        \* radio_protocol_running
  custom,          \* display_size = 1: the screen has the client's geometry
  done,            \* radio_reconfigure_screen_done
  listen,          \* the listening thread: where it is
  oldint,          \* its local variable old_cwi
  server_running,
  running,         \* remoteclient.running
  sock,            \* which of the three sockets are open (>= 0)
  udp,             \* the audio thread: no id, running, or ended but not joined
  stops,           \* server_stops_protocol
  gtk,             \* the main thread: in its loop, or in g_thread_join()
  peer,            \* the client at the other end of sock_tcp
  by               \* history: who put the radio on the air

vars == <<radio, idle, protocol, custom, done, listen, oldint, server_running,
          running, sock, udp, stops, gtk, peer, by>>

Call == [cb : {"run", "stop", "mox", "screen"} \cup AllCommands, on : BOOLEAN]

Sockets == [listen : BOOLEAN, tcp : BOOLEAN, udp : BOOLEAN]

TypeOK == /\ radio \in RadioState
          /\ idle \in Seq(Call)
          /\ protocol \in BOOLEAN
          /\ custom \in BOOLEAN
          /\ done \in BOOLEAN
          /\ listen \in Places
          /\ oldint \in BOOLEAN
          /\ server_running \in BOOLEAN
          /\ running \in BOOLEAN
          /\ sock \in Sockets
          /\ udp \in {"none", "run", "done"}
          /\ stops \in BOOLEAN
          /\ gtk \in {"loop", "join_udp", "join_listen"}
          /\ peer \in {"none", "alive", "gone"}
          /\ by \in {"none", "local", "client"}

Closed == [listen |-> FALSE, tcp |-> FALSE, udp |-> FALSE]

\* The radio runs, the server is off.
Init == /\ radio \in {RadioOff(m) : m \in StartModes}
        /\ idle = << >>
        /\ protocol = TRUE
        /\ custom = FALSE
        /\ done = FALSE
        /\ listen = "none"
        /\ oldint = KeyerInternal
        /\ server_running = FALSE
        /\ running = FALSE
        /\ sock = Closed
        /\ udp = "none"
        /\ stops \in BOOLEAN
        /\ gtk = "loop"
        /\ peer = "none"
        /\ by = "none"

Own(cb) == [cb |-> cb, on |-> FALSE]

\* What a send to the client leaves of remoteclient.running: send_tcp() may
\* notice that the client is dead.
AfterSend == IF sock.tcp /\ peer = "gone" THEN {running, FALSE} ELSE {running}
-----------------------------------------------------------------------------
(* The GTK main thread *)

\* radio_protocol_stop() goes RX first, unless it is stopped already.
StopProtocol(r) == IF protocol THEN SetMox(r, FALSE) ELSE r

\* What a callback does to the radio: the ext_ wrappers and server_command().
Handle(r, q) ==
  CASE q.cb \in {"mox", "CMD_MOX"} -> SetMox(r, q.on)
    [] q.cb \in {"stop", "CMD_RESTART"} -> StopProtocol(r)
    [] q.cb = "CMD_VOX" -> SetVox(r, q.on)
    [] q.cb = "CMD_TUNE" -> SetTune(r, q.on)
    [] q.cb = "CMD_TOGGLE_TUNE" -> TuneToggled(r)
    [] q.cb = "CMD_TWOTONE" /\ q.on # r.twotone -> SetTwotone(r, q.on)
    [] OTHER -> r

\* tx_set_twotone() queues the change of MOX.
Posted(r, q) ==
  IF q.cb = "CMD_TWOTONE" /\ q.on # r.twotone
  THEN <<[cb |-> "mox", on |-> q.on]>> ELSE << >>

Dispatch ==
  /\ gtk = "loop" /\ idle # << >>
  /\ LET q == Head(idle) IN
     /\ radio' = Handle(radio, q)
     /\ idle' = Tail(idle) \o Posted(radio, q)
     /\ protocol' = IF q.cb = "stop" THEN FALSE
                    ELSE q.cb \in {"run", "CMD_RESTART"} \/ protocol
     /\ custom' = (q.cb = "CMD_SCREEN" \/ custom)
     /\ done' = (q.cb = "screen" \/ done)
     /\ running' \in IF q.cb \in {"run", "screen"} THEN {running} ELSE AfterSend
     /\ by' = IF ~Transmitting(radio') THEN "none"
              ELSE IF radio' # radio THEN "client" ELSE by
  /\ UNCHANGED <<listen, oldint, server_running, sock, udp, stops, gtk, peer>>

\* The operator at the server presses MOX.
LocalMox(on) ==
  /\ gtk = "loop"
  /\ radio' = SetMox(radio, on)
  /\ running' \in AfterSend
  /\ by' = IF Transmitting(radio') THEN "local" ELSE "none"
  /\ UNCHANGED <<idle, protocol, custom, done, listen, oldint, server_running,
                 sock, udp, stops, gtk, peer>>

\* server_stop_cb()
ToggleStops ==
  /\ gtk = "loop"
  /\ stops' = ~stops
  /\ UNCHANGED <<radio, idle, protocol, custom, done, listen, oldint,
                 server_running, running, sock, udp, gtk, peer, by>>

\* create_hpsdr_server()
Create ==
  /\ gtk = "loop" /\ ~server_running /\ Len(idle) <= MaxLeft
  /\ server_running' = TRUE
  /\ listen' = "start"
  /\ UNCHANGED <<radio, idle, protocol, custom, done, oldint, running, sock,
                 udp, stops, gtk, peer, by>>

\* Mutant: the socket of accept() is not shut down.
DestroyKeepsListening ==
  /\ gtk = "loop" /\ server_running /\ listen \in StopAt
  /\ server_running' = FALSE
  /\ running' = FALSE
  /\ sock' = [Closed EXCEPT !.listen = sock.listen]
  /\ gtk' = IF udp # "none" THEN "join_udp" ELSE "join_listen"
  /\ UNCHANGED <<radio, idle, protocol, custom, done, listen, oldint, udp,
                 stops, peer, by>>

\* destroy_hpsdr_server() up to its first join.
Destroy ==
  /\ gtk = "loop" /\ server_running /\ listen \in StopAt
  /\ server_running' = FALSE
  /\ running' = FALSE
  /\ sock' = Closed
  /\ gtk' = IF udp # "none" THEN "join_udp" ELSE "join_listen"
  /\ UNCHANGED <<radio, idle, protocol, custom, done, listen, oldint, udp,
                 stops, peer, by>>

JoinUdp ==
  /\ gtk = "join_udp" /\ udp # "run"
  /\ udp' = "none"
  /\ gtk' = "join_listen"
  /\ UNCHANGED <<radio, idle, protocol, custom, done, listen, oldint,
                 server_running, running, sock, stops, peer, by>>

JoinListen ==
  /\ gtk = "join_listen" /\ listen = "ended"
  /\ listen' = "none"
  /\ gtk' = "loop"
  /\ UNCHANGED <<radio, idle, protocol, custom, done, oldint, server_running,
                 running, sock, udp, stops, peer, by>>

Gtk == \/ Dispatch \/ ToggleStops \/ Create \/ Destroy \/ JoinUdp \/ JoinListen
       \/ \E on \in BOOLEAN : LocalMox(on)
-----------------------------------------------------------------------------
(* The audio thread *)

\* udp_thread() ends when the session does, or when its socket is closed.
UdpEnd ==
  /\ udp = "run" /\ (~running \/ ~sock.udp)
  /\ udp' = "done"
  /\ UNCHANGED <<radio, idle, protocol, custom, done, listen, oldint,
                 server_running, running, sock, stops, gtk, peer, by>>
-----------------------------------------------------------------------------
(* The listening thread *)

Go(from, to) == listen = from /\ listen' = to

\* The state of the main thread and of the operator.
mainvars == <<radio, protocol, server_running, stops, gtk, by>>

Start ==
  /\ Go("start", "top")
  /\ idle' = IF stops THEN Append(idle, Own("stop")) ELSE idle
  /\ sock' = Closed
  /\ udp' = "none"
  /\ UNCHANGED <<mainvars, custom, done, oldint, running, peer>>

Top ==
  /\ Go("top", IF server_running THEN "clean" ELSE "end")
  /\ UNCHANGED <<mainvars, idle, custom, done, oldint, running, sock, udp, peer>>

\* Closing the connection is noticed by the client.
Clean ==
  /\ Go("clean", "join")
  /\ sock' = Closed
  /\ peer' = "none"
  /\ UNCHANGED <<mainvars, idle, custom, done, oldint, running, udp>>

Join ==
  /\ Go("join", "bind")
  /\ udp # "run"
  /\ udp' = "none"
  /\ UNCHANGED <<mainvars, idle, custom, done, oldint, running, sock, peer>>

Bind ==
  /\ Go("bind", "accept")
  /\ sock' = [sock EXCEPT !.listen = TRUE]
  /\ UNCHANGED <<mainvars, idle, custom, done, oldint, running, udp, peer>>

BindFails ==
  /\ Go("bind", "end")
  /\ UNCHANGED <<mainvars, idle, custom, done, oldint, running, sock, udp, peer>>

Connect ==
  /\ Go("accept", "auth")
  /\ sock.listen
  /\ sock' = [sock EXCEPT !.tcp = TRUE]
  /\ peer' = "alive"
  /\ UNCHANGED <<mainvars, idle, custom, done, oldint, running, udp>>

\* accept() fails: destroy_hpsdr_server() has shut the socket down.
Shut ==
  /\ Go("accept", "end")
  /\ ~sock.listen
  /\ UNCHANGED <<mainvars, idle, custom, done, oldint, running, sock, udp, peer>>

\* accept() fails: the internet connection failed.
NetFails ==
  /\ Go("accept", "end")
  /\ sock.listen
  /\ UNCHANGED <<mainvars, idle, custom, done, oldint, running, sock, udp, peer>>

\* Version, password and audio compression are agreed upon.
Authenticate ==
  /\ Go("auth", "test")
  /\ sock.tcp /\ peer = "alive"
  /\ sock' = [sock EXCEPT !.udp = TRUE]
  /\ UNCHANGED <<mainvars, idle, custom, done, oldint, running, udp, peer>>

\* Wrong password, or no answer within the time-out.
Reject ==
  /\ Go("auth", "top")
  /\ running' = FALSE
  /\ UNCHANGED <<mainvars, idle, custom, done, oldint, sock, udp, peer>>

\* The UDP test packet arrives.
TestPacket ==
  /\ Go("test", "begin")
  /\ sock.udp
  /\ UNCHANGED <<mainvars, idle, custom, done, oldint, running, sock, udp, peer>>

\* No test packet within three seconds, or a wrong one.
TestFails ==
  /\ Go("test", "top")
  /\ UNCHANGED <<mainvars, idle, custom, done, oldint, running, sock, udp, peer>>

Begin ==
  /\ Go("begin", "prepare")
  /\ running' = TRUE
  /\ udp' = "run"
  /\ UNCHANGED <<mainvars, idle, custom, done, oldint, sock, peer>>

\* Mutant: the protocol is assumed to run.
PrepareNoRun ==
  /\ Go("prepare", "wait1")
  /\ idle' = idle \o <<Own("mox"), Own("screen")>>
  /\ custom' = TRUE
  /\ done' = FALSE
  /\ UNCHANGED <<mainvars, oldint, running, sock, udp, peer>>

\* The protocol is started, a transmission is ended, and the screen gets the
\* client's geometry.
Prepare ==
  /\ Go("prepare", "wait1")
  /\ idle' = idle \o <<Own("run"), Own("mox"), Own("screen")>>
  /\ custom' = TRUE
  /\ done' = FALSE
  /\ UNCHANGED <<mainvars, oldint, running, sock, udp, peer>>

\* Mutant: the setting is saved after it was changed.
TakeKeyerLate ==
  /\ Go("wait1", "init")
  /\ done
  /\ oldint' = FALSE
  /\ radio' = [radio EXCEPT !.keyint = FALSE]
  /\ UNCHANGED <<idle, protocol, custom, done, server_running, running, sock,
                 udp, stops, gtk, peer, by>>

\* The keyer is shut down for the session.
TakeKeyer ==
  /\ Go("wait1", "init")
  /\ done
  /\ oldint' = radio.keyint
  /\ radio' = [radio EXCEPT !.keyint = FALSE]
  /\ UNCHANGED <<idle, protocol, custom, done, server_running, running, sock,
                 udp, stops, gtk, peer, by>>

\* server_loop() sends all data to the client.
SendAll ==
  /\ Go("init", "loop")
  /\ running' \in AfterSend
  /\ UNCHANGED <<mainvars, idle, custom, done, oldint, sock, udp, peer>>

\* The commands that are queued but not yet executed.
Waiting == {i \in 1..Len(idle) : idle[i].cb \in AllCommands}

\* A command is read and queued.
ReadCommand(c, on) ==
  /\ listen = "loop" /\ running /\ sock.tcp /\ peer = "alive"
  /\ Cardinality(Waiting) < MaxCalls
  /\ idle' = Append(idle, [cb |-> c, on |-> on])
  /\ UNCHANGED <<mainvars, listen, custom, done, oldint, running, sock, udp, peer>>

ReadError ==
  /\ listen = "loop" /\ running
  /\ ~sock.tcp \/ peer = "gone"
  /\ running' = FALSE
  /\ UNCHANGED <<mainvars, listen, idle, custom, done, oldint, sock, udp, peer>>

ReturnKeyer ==
  /\ Go("loop", "over")
  /\ ~running
  /\ radio' = [radio EXCEPT !.keyint = oldint]
  /\ UNCHANGED <<idle, protocol, custom, done, oldint, server_running, running,
                 sock, udp, stops, gtk, peer, by>>

\* Mutant: the thread looks at MOX before it goes RX, while commands are queued.
HandBackIfMox ==
  /\ Go("over", "wait2")
  /\ idle' = idle \o (IF radio.mox THEN <<Own("mox")>> ELSE << >>)
                  \o (IF stops THEN <<Own("stop")>> ELSE << >>)
                  \o <<Own("screen")>>
  /\ custom' = FALSE
  /\ done' = FALSE
  /\ UNCHANGED <<mainvars, oldint, running, sock, udp, peer>>

\* Go RX, stop the protocol if so configured, restore the screen.
HandBack ==
  /\ Go("over", "wait2")
  /\ idle' = idle \o <<Own("mox")>>
                  \o (IF stops THEN <<Own("stop")>> ELSE << >>)
                  \o <<Own("screen")>>
  /\ custom' = FALSE
  /\ done' = FALSE
  /\ UNCHANGED <<mainvars, oldint, running, sock, udp, peer>>

\* Mutant: the thread does not wait for the main thread.
ResumeEarly ==
  /\ Go("wait2", "top")
  /\ UNCHANGED <<mainvars, idle, custom, done, oldint, running, sock, udp, peer>>

Resume ==
  /\ Go("wait2", "top")
  /\ done
  /\ UNCHANGED <<mainvars, idle, custom, done, oldint, running, sock, udp, peer>>

End ==
  /\ Go("end", "ended")
  /\ idle' = Append(idle, Own("run"))
  /\ UNCHANGED <<mainvars, custom, done, oldint, running, sock, udp, peer>>

\* The steps that do not depend on the client or on a failure.
ListenStep == \/ Start \/ Top \/ Clean \/ Join \/ Bind \/ Shut
              \/ Authenticate \/ Reject \/ TestPacket \/ TestFails
              \/ Begin \/ Prepare \/ TakeKeyer \/ SendAll
              \/ ReadError \/ ReturnKeyer \/ HandBack \/ Resume \/ End

\* The client crashes, closes the connection, or the network is lost.
ClientLost ==
  /\ peer = "alive"
  /\ peer' = "gone"
  /\ UNCHANGED <<radio, idle, protocol, custom, done, listen, oldint,
                 server_running, running, sock, udp, stops, gtk, by>>

Client == \/ Connect \/ ClientLost
          \/ \E c \in Commands, on \in BOOLEAN : ReadCommand(c, on)

Next == Gtk \/ UdpEnd \/ ListenStep \/ BindFails \/ NetFails \/ Client

Spec == Init /\ [][Next]_vars

\* The threads do not stop, and the main loop returns to its queue between
\* the operator's actions.
Fairness == /\ SF_vars(Dispatch)
            /\ WF_vars(JoinUdp)
            /\ WF_vars(JoinListen)
            /\ WF_vars(UdpEnd)
            /\ WF_vars(ListenStep)

FairSpec == Spec /\ Fairness
-----------------------------------------------------------------------------
(* Properties *)

\* A client that is gone does not leave the radio on the air: while the radio
\* transmits on behalf of a client, that client's session has not been closed,
\* or the callback that goes RX is queued.  No command of the client can come
\* behind that callback.
OrphanPending ==
  by = "client" => \/ listen \in {"loop", "over"}
                   \/ \E i \in 1..Len(idle) : idle[i] = Own("mox")

\* A command is only executed for the client that sent it: no command of an
\* earlier session waits while the thread listens for, or checks, a new client.
NoStaleCommand == Waiting # {} => listen \in {"loop", "over", "wait2"}

\* A client that is served has a running radio, however often the server, the
\* protocol and the "stop protocol" option were switched before.
ServedRadioRuns == listen \in {"init", "loop"} => protocol

\* Outside a session the operator has his own screen and keyer setting.
HandedBack ==
  listen \notin {"wait1", "init", "loop", "over"} =>
     /\ ~custom
     /\ radio.keyint = KeyerInternal

\* A transmission by a client that is gone ends.
LossEndsAir == (by = "client" /\ ~running) ~> (by # "client")

\* Nobody waits for ever: after a session the server listens again, unless the
\* socket cannot be opened; and switching the server off does not block the main
\* thread, and leaves the protocol running.
NobodyStuck == /\ (listen = "over") ~> (listen \in {"accept", "ended"})
               /\ (gtk # "loop") ~> (gtk = "loop" /\ protocol)
=============================================================================
