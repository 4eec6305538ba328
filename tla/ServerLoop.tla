----------------------------- MODULE ServerLoop -----------------------------
(* The event loops of netsync (netsync.cc, from session::which_events to   *)
(* serve_connections): one server that serves its sessions from a single   *)
(* thread, the clients' own loops (call_server), the buffers of both ends, *)
(* and the sockets in between.                                             *)
(*                                                                         *)
(* A command is an "ask", which is answered by "data", or a "bye"; it is   *)
(* read and written in units, of which the largest command has MaxCmd      *)
(* (netcmd_maxsz).  An end of a connection is a pair of a client's name    *)
(* and a side.                                                             *)
EXTENDS Naturals, FiniteSets, Sequences

CONSTANTS
  Clients,
  Limit,      \* constants::netsync_connection_limit
  MaxCmd,     \* constants::netcmd_maxsz: units in the largest command
  OutLimit,   \* bufsz * 10: above it arm() refuses
  Chunk,      \* constants::bufsz: units in one read or write
  WireSize,   \* units that the sockets of a connection hold in each direction
  Configs     \* [kind: what each client is like, asks: how often its ends ask]

ASSUME LimitsAssumption ==
  /\ IsFiniteSet(Clients)
  /\ Limit \in Nat \ {0} /\ MaxCmd \in Nat \ {0} /\ OutLimit \in Nat
  /\ Chunk \in Nat \ {0} /\ WireSize \in Nat \ {0}

Sides == {"client", "server"}
Kinds == {"honest", "silent", "garbled", "dying", "absent"}

ASSUME ConfigsTyped == Configs \subseteq [kind : [Clients -> Kinds], asks : [Sides -> Nat]]

Endpoints == Clients \X Sides
Peer(e) == <<e[1], IF e[2] = "client" THEN "server" ELSE "client">>
AtServer(c) == <<c, "server">>
AtClient(c) == <<c, "client">>
None == "none"

VARIABLES
  config,
  conn,       \* a client's connection: "none", "waiting", "open", "closed"
  sessions,   \* the server's map of sessions
  inbuf,      \* units read
  outbuf,     \* commands queued
  written,    \* units of the first of them that are written
  cmd,        \* the command that the end is armed with
  expected,   \* commands that it has still to process before its goodbye
  sentBye, gotBye,
  wire,       \* units on the way to this end
  idle,       \* timeout periods since the last I/O of this end
  at,         \* where the loop of a client is
  loop,       \* where the loop of the server is
  listening,  \* whether the server's probe has the listening socket
  armed       \* armed_sessions

exchange == <<outbuf, expected, sentBye, gotBye>>
vars == <<config, conn, sessions, inbuf, written, cmd, exchange, wire, idle, at, loop, listening, armed>>

\* What a command is on the wire; "part" is any unit of it but the last.
Units(k) == IF k = "data" THEN [i \in 1..MaxCmd |-> IF i = MaxCmd THEN k ELSE "part"] ELSE <<k>>

\* outbuf_size counts all units of a command until the last is written.
OutSize(e) ==
  LET large == {i \in DOMAIN outbuf[e] : outbuf[e][i] = "data"}
  IN Len(outbuf[e]) + Cardinality(large) * (MaxCmd - 1)

Init ==
  /\ config \in Configs
  /\ conn = [c \in Clients |-> "none"] /\ sessions = {}
  /\ inbuf = [e \in Endpoints |-> <<>>] /\ outbuf = [e \in Endpoints |-> <<>>]
  /\ written = [e \in Endpoints |-> 0] /\ cmd = [e \in Endpoints |-> None]
  /\ expected = [e \in Endpoints |-> config.asks["client"] + config.asks["server"]]
  /\ sentBye = [e \in Endpoints |-> FALSE] /\ gotBye = [e \in Endpoints |-> FALSE]
  /\ wire = [e \in Endpoints |-> <<>>] /\ idle = [e \in Endpoints |-> 0]
  /\ at = [c \in Clients |-> "io"]
  /\ loop = "arm" /\ listening = FALSE /\ armed = {}
-----------------------------------------------------------------------------
(* The operations of a session, at either end.                             *)

Whole(buf) == {i \in DOMAIN buf : buf[i] # "part"}
FirstWhole(buf) == CHOOSE i \in Whole(buf) : \A j \in Whole(buf) : i <= j

\* arm(): it is not armed, not too much is waiting to be written, and a
\* command is there; cmd.read throws bad_decode on some.
CanArm(e, buf) == cmd[e] = None /\ OutSize(e) <= OutLimit /\ Whole(buf) # {}
Undecodable(e, buf) == CanArm(e, buf) /\ buf[FirstWhole(buf)] = "bad"
Arms(e, buf) == CanArm(e, buf) /\ ~Undecodable(e, buf)
CmdAfter(e, buf) == IF Arms(e, buf) THEN buf[FirstWhole(buf)] ELSE cmd[e]
RestAfter(e, buf) == IF Arms(e, buf) THEN SubSeq(buf, FirstWhole(buf) + 1, Len(buf)) ELSE buf

\* Variant of WantsRead: reading stops a unit short of the largest command.
WantsRead_Short(e) == Len(inbuf[e]) + 1 < MaxCmd /\ cmd[e] = None

\* which_events()
WantsRead(e) == Len(inbuf[e]) < MaxCmd /\ cmd[e] = None
WantsWrite(e) == outbuf[e] # <<>>

Gone(e) == IF e[2] = "client" THEN conn[e[1]] = "closed"
           ELSE conn[e[1]] \in {"open", "closed"} /\ e[1] \notin sessions
ReadReady(e) == WantsRead(e) /\ (wire[e] # <<>> \/ Gone(Peer(e)))
WriteReady(e) == WantsWrite(e) /\ (Len(wire[Peer(e)]) < WireSize \/ Gone(Peer(e)))
Ready(e) == ReadReady(e) \/ WriteReady(e)

Least(S) == CHOOSE n \in S : \A m \in S : n <= m
ReadCount(e) == Least({Chunk, Len(wire[e])})
WriteCount(e) == Least({Chunk, Len(Units(Head(outbuf[e]))) - written[e], WireSize - Len(wire[Peer(e)])})

Input(e) == IF ReadReady(e) THEN inbuf[e] \o SubSeq(wire[e], 1, ReadCount(e)) ELSE inbuf[e]
Output(e) ==
  IF WriteReady(e) THEN SubSeq(Units(Head(outbuf[e])), written[e] + 1, written[e] + WriteCount(e))
  ELSE <<>>
WritesAll(e) == WriteReady(e) /\ written[e] + WriteCount(e) = Len(Units(Head(outbuf[e])))

\* read_some() and the arm() after it, then write_some(), as far as the
\* socket is ready for them.
ReadWrite(e) ==
  /\ wire' = [wire EXCEPT ![e] = IF ReadReady(e) THEN SubSeq(@, ReadCount(e) + 1, Len(@)) ELSE @,
                          ![Peer(e)] = @ \o Output(e)]
  /\ inbuf' = [inbuf EXCEPT ![e] = IF ReadReady(e) THEN RestAfter(e, Input(e)) ELSE @]
  /\ cmd' = [cmd EXCEPT ![e] = IF ReadReady(e) THEN CmdAfter(e, Input(e)) ELSE @]
  /\ outbuf' = [outbuf EXCEPT ![e] = IF WritesAll(e) THEN Tail(@) ELSE @]
  /\ written' = [written EXCEPT ![e] = IF WritesAll(e) THEN 0 ELSE @ + Len(Output(e))]
  /\ idle' = [idle EXCEPT ![e] = 0]
  /\ UNCHANGED <<expected, sentBye, gotBye>>

\* The read finds the end of the stream, or the write fails.
IoFails(e) == Gone(Peer(e)) /\ (WantsWrite(e) \/ (WantsRead(e) /\ wire[e] = <<>>))

\* dispatch_payload: a server greets; a client then authenticates itself and
\* asks; a server asks when it knows the client; what is asked for is sent.
Asks(side) == [i \in 1..config.asks[side] |-> "ask"]
Reply(e) ==
  CASE cmd[e] = "hello" -> <<"auth">> \o Asks("client") \o
                             (IF config.kind[e[1]] = "garbled" THEN <<"bad">> ELSE <<>>)
    [] cmd[e] = "auth" -> Asks("server")
    [] cmd[e] = "ask" -> <<"data">>
    [] OTHER -> <<>>
ExpectedAfter(e) == IF cmd[e] \in {"ask", "data"} THEN expected[e] - 1 ELSE expected[e]
SaysBye(e) == ExpectedAfter(e) = 0 /\ ~sentBye[e]

\* process(), at all ends of S that are armed, with maybe_say_goodbye.
Process(S) ==
  LET busy == {e \in S : cmd[e] # None}
  IN /\ outbuf' = [e \in Endpoints |->
                     IF e \in busy THEN outbuf[e] \o Reply(e) \o (IF SaysBye(e) THEN <<"bye">> ELSE <<>>)
                     ELSE outbuf[e]]
     /\ expected' = [e \in Endpoints |-> IF e \in busy THEN ExpectedAfter(e) ELSE expected[e]]
     /\ sentBye' = [e \in Endpoints |-> sentBye[e] \/ (e \in busy /\ SaysBye(e))]
     /\ gotBye' = [e \in Endpoints |-> gotBye[e] \/ (e \in busy /\ cmd[e] = "bye")]
     /\ cmd' = [e \in Endpoints |-> IF e \in busy THEN None ELSE cmd[e]]

\* Variant: the goodbye need not have been written.
Finished_Unflushed(e) == sentBye[e] /\ gotBye[e]

\* Both goodbyes are exchanged, and nothing is left to write.
Finished(e) == sentBye[e] /\ gotBye[e] /\ outbuf[e] = <<>>
-----------------------------------------------------------------------------
(* A client (call_server).                                                 *)

clientOnly == <<config, sessions, loop, listening, armed>>

Connect(c) ==
  /\ conn[c] = "none" /\ config.kind[c] # "absent"
  /\ conn' = [conn EXCEPT ![c] = "waiting"]
  /\ UNCHANGED <<clientOnly, inbuf, written, cmd, exchange, wire, idle, at>>

Runs(c) == conn[c] \in {"waiting", "open"} /\ config.kind[c] # "silent"

\* The client returns, and its socket is closed.
Leave(c) == /\ conn' = [conn EXCEPT ![c] = "closed"]
            /\ wire' = [wire EXCEPT ![AtClient(c)] = <<>>]
            /\ UNCHANGED <<clientOnly, inbuf, written, cmd, exchange, idle, at>>

\* The probe finds the socket ready for reading, writing or both.
ClientIo(c) ==
  /\ Runs(c) /\ at[c] = "io" /\ Ready(AtClient(c))
  /\ IF IoFails(AtClient(c)) THEN Leave(c)
     ELSE /\ ReadWrite(AtClient(c))
          /\ at' = [at EXCEPT ![c] = IF cmd'[AtClient(c)] = None THEN "end" ELSE "process"]
          /\ UNCHANGED <<clientOnly, conn>>

\* It is armed, and did not wait for anything.
ClientInstant(c) ==
  /\ Runs(c) /\ at[c] = "io" /\ ~Ready(AtClient(c)) /\ cmd[AtClient(c)] # None
  /\ at' = [at EXCEPT ![c] = "process"]
  /\ UNCHANGED <<clientOnly, conn, inbuf, written, cmd, exchange, wire, idle>>

\* "timed out waiting for I/O"
ClientTimeout(c) ==
  /\ Runs(c) /\ at[c] = "io" /\ ~Ready(AtClient(c)) /\ cmd[AtClient(c)] = None
  /\ idle[AtClient(c)] > 0
  /\ Leave(c)

ClientProcess(c) ==
  /\ Runs(c) /\ at[c] = "process"
  /\ Process({AtClient(c)})
  /\ at' = [at EXCEPT ![c] = "end"]
  /\ UNCHANGED <<clientOnly, conn, inbuf, written, wire, idle>>

\* The end of an iteration, and the arm() that begins the next.
ClientNext(c) ==
  LET e == AtClient(c)
  IN /\ Runs(c) /\ at[c] = "end"
     /\ IF Finished(e) THEN Leave(c)
        ELSE /\ inbuf' = [inbuf EXCEPT ![e] = RestAfter(e, @)]
             /\ cmd' = [cmd EXCEPT ![e] = CmdAfter(e, inbuf[e])]
             /\ at' = [at EXCEPT ![c] = "io"]
             /\ UNCHANGED <<clientOnly, conn, written, exchange, wire, idle>>

\* The process is killed, or its machine loses the network.
Die(c) == Runs(c) /\ config.kind[c] = "dying" /\ Leave(c)

ClientStep(c) ==
  ClientIo(c) \/ ClientInstant(c) \/ ClientTimeout(c) \/ ClientProcess(c) \/ ClientNext(c)
-----------------------------------------------------------------------------
(* The server (serve_connections).                                         *)

serverOnly == <<config, at>>

\* sessions.erase: the socket is closed with the session.
Erase(S) ==
  /\ sessions' = sessions \ S
  /\ wire' = [e \in Endpoints |-> IF e \in {AtServer(c) : c \in S} THEN <<>> ELSE wire[e]]

\* Variant: the limit itself is still served.
Listens_AtLimit == Cardinality(sessions) <= Limit

\* Whether the probe takes the listening socket.
Listens == Cardinality(sessions) < Limit

\* The head of the loop: the probe takes the listening socket below the
\* limit, and arm_sessions_and_calculate_probe arms what it can; a session
\* that cannot decode its input is dropped.
ServerArm ==
  LET bad == {c \in sessions : Undecodable(AtServer(c), inbuf[AtServer(c)])}
      arms == {AtServer(c) : c \in sessions}
  IN /\ loop = "arm"
     /\ listening' = Listens
     /\ inbuf' = [e \in Endpoints |-> IF e \in arms THEN RestAfter(e, inbuf[e]) ELSE inbuf[e]]
     /\ cmd' = [e \in Endpoints |-> IF e \in arms THEN CmdAfter(e, inbuf[e]) ELSE cmd[e]]
     /\ armed' = {c \in sessions \ bad : cmd'[AtServer(c)] # None}
     /\ Erase(bad)
     /\ loop' = "probe"
     /\ UNCHANGED <<serverOnly, conn, written, exchange, idle>>

Waiting == {c \in Clients : conn[c] = "waiting"}

\* handle_new_connection, begin_service.
Accept(c) ==
  /\ loop = "probe" /\ listening /\ c \in Waiting
  /\ conn' = [conn EXCEPT ![c] = "open"]
  /\ sessions' = sessions \cup {c}
  /\ outbuf' = [outbuf EXCEPT ![AtServer(c)] = <<"hello">>]
  /\ idle' = [idle EXCEPT ![AtServer(c)] = 0]
  /\ loop' = "process"
  /\ UNCHANGED <<serverOnly, inbuf, written, cmd, expected, sentBye, gotBye, wire, listening, armed>>

\* handle_read_available, handle_write_available.
ServerIo(c) ==
  LET e == AtServer(c)
  IN /\ loop = "probe" /\ c \in sessions /\ Ready(e)
     /\ IF IoFails(e) \/ (ReadReady(e) /\ Undecodable(e, Input(e)))
        THEN /\ Erase({c})
             /\ UNCHANGED <<inbuf, written, cmd, exchange, idle, armed>>
        ELSE /\ ReadWrite(e)
             /\ armed' = IF cmd'[e] # None THEN armed \cup {c} ELSE armed
             /\ UNCHANGED sessions
     /\ loop' = "process"
     /\ UNCHANGED <<serverOnly, conn, listening>>

NothingReady == ~(listening /\ Waiting # {}) /\ \A c \in sessions : ~Ready(AtServer(c))

\* The probe returns at once, without an event: some session is armed.
ServerInstant ==
  /\ loop = "probe" /\ NothingReady /\ armed # {}
  /\ loop' = "process"
  /\ UNCHANGED <<serverOnly, conn, sessions, inbuf, written, cmd, exchange, wire, idle, listening, armed>>

\* process_armed_sessions.
ServerProcess ==
  /\ loop = "process"
  /\ Process({AtServer(c) : c \in armed \cap sessions})
  /\ loop' = "reap"
  /\ UNCHANGED <<serverOnly, conn, sessions, inbuf, written, wire, idle, listening, armed>>

\* Variant: only finished sessions are reaped.
ServerReap_Finished ==
  /\ loop = "reap"
  /\ Erase({c \in sessions : Finished(AtServer(c))})
  /\ loop' = "arm"
  /\ UNCHANGED <<serverOnly, conn, inbuf, written, cmd, exchange, idle, listening, armed>>

\* reap_dead_sessions: seconds are compared, so that a session may just not
\* have been idle for long enough when the probe times out.
ServerReap ==
  /\ loop = "reap"
  /\ \E idlers \in SUBSET {c \in sessions : idle[AtServer(c)] > 0} :
       /\ \A c \in sessions : idle[AtServer(c)] > 1 => c \in idlers
       /\ Erase(idlers \cup {c \in sessions : Finished(AtServer(c))})
  /\ loop' = "arm"
  /\ UNCHANGED <<serverOnly, conn, inbuf, written, cmd, exchange, idle, listening, armed>>

ServerStep ==
  \/ ServerArm \/ ServerInstant \/ ServerProcess \/ ServerReap
  \/ \E c \in Clients : Accept(c) \/ ServerIo(c)
-----------------------------------------------------------------------------
(* The timeout is hours: it passes only where nothing else can happen, and *)
(* then the probe of a server that has sessions returns without an event.  *)

Busy(c) == Runs(c) /\ (at[c] # "io" \/ Ready(AtClient(c)) \/ cmd[AtClient(c)] # None
                                    \/ idle[AtClient(c)] > 0)

Tick ==
  /\ loop = "probe" /\ NothingReady /\ armed = {}
  /\ \A c \in Clients : (conn[c] = "none" => config.kind[c] = "absent") /\ ~Busy(c)
  /\ LET waits == {AtClient(c) : c \in {d \in Clients : Runs(d)}} \cup {AtServer(c) : c \in sessions}
     IN /\ waits # {}
        /\ idle' = [e \in Endpoints |-> IF e \in waits /\ idle[e] < 2 THEN idle[e] + 1 ELSE idle[e]]
  /\ loop' = IF sessions = {} THEN "probe" ELSE "process"
  /\ UNCHANGED <<config, conn, sessions, inbuf, written, cmd, exchange, wire, at, listening, armed>>

Next == ServerStep \/ Tick \/ \E c \in Clients : Connect(c) \/ ClientStep(c) \/ Die(c)

\* The server and the clients keep running and time passes.
Fairness == /\ WF_vars(ServerStep) /\ WF_vars(Tick)
            /\ \A c \in Clients : WF_vars(Connect(c)) /\ WF_vars(ClientStep(c))

Spec == Init /\ [][Next]_vars /\ Fairness
-----------------------------------------------------------------------------
\* The server has never more sessions than its limit, whichever way sessions
\* end and connections come in between the probe and the accept.
SessionsBounded == Cardinality(sessions) <= Limit

\* Nothing moves any more between a client and its session.
Standstill(c) ==
  /\ conn[c] = "open" /\ c \in sessions /\ Runs(c)
  /\ \A e \in {AtClient(c), AtServer(c)} :
       cmd[e] = None /\ ~Ready(e) /\ ~CanArm(e, inbuf[e]) /\ ~Finished(e)

\* The limits on buffers stop an exchange only where both sides have a full
\* input buffer and too much to write: neither a command as large as can be
\* nor a full buffer at one side is enough.
NoStandstill ==
  \A c \in Clients : Standstill(c) =>
    \A e \in {AtClient(c), AtServer(c)} : Len(inbuf[e]) >= MaxCmd /\ OutSize(e) > OutLimit

\* What a finished exchange is, to the end that has finished it.
AllSaid(e) == expected[e] = 0 /\ sentBye[e] /\ gotBye[e] /\ outbuf[e] = <<>>

TimedOut(c) == idle[AtClient(c)] > 0 \/ idle[AtServer(c)] > 0

\* A client that keeps to the protocol is not dropped by the server, and does
\* not see its connection fail, before the exchange is finished, unless a
\* timeout has passed at one of the ends; whatever other clients do, and
\* although each end closes its socket as soon as it is finished itself.
NotCutShort ==
  [][\A c \in Clients : config.kind[c] = "honest" /\ ~TimedOut(c) =>
       /\ c \in sessions \ sessions' => AllSaid(AtServer(c))
       /\ conn[c] # "closed" /\ conn'[c] = "closed" => AllSaid(AtClient(c))]_vars

\* Every client but one that hangs comes to an end, and so do all sessions,
\* those of silent clients included.
Ends == <>[](sessions = {} /\ \A c \in Clients : config.kind[c] \notin {"silent", "absent"} => conn[c] = "closed")
=============================================================================
