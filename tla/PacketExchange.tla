--------------------------- MODULE PacketExchange ---------------------------
(***************************************************************************)
(* RawSocket_MDHCP and RawSocket_DateTime: a server and clients that       *)
(* exchange one request and one answer over raw sockets.  Listen opens a   *)
(* packet socket, takes one frame from it, processes the frame and closes  *)
(* the socket; what arrives while no socket is open, or waits behind that  *)
(* one frame when the socket is closed, is never seen.  The client sends   *)
(* its request once and listens until it has an answer: nothing is         *)
(* repeated.                                                               *)
(*                                                                         *)
(* The two programs differ in what a request says (MDHCP: the client's     *)
(* address and port, as data of the packet; the other: nothing), in how    *)
(* the server tells that it is one, and so in where the answer goes.       *)
(*                                                                         *)
(* A packet socket hears every frame of its host, so all clients on a host *)
(* hear the answers to all of them.  The field about of a frame (not in    *)
(* the packet) names the client whose exchange it belongs to.              *)
(***************************************************************************)
EXTENDS PacketData, SequencesExt

CONSTANTS Clients,
          Server,
          Setups,      \* how the programs may be started: which of the two, and
                       \* for each client the host it runs on, the port it
                       \* listens on, and the client_ip an MDHCP client sends as
                       \* ciaddr: its host, or the compiled-in one if its
                       \* interface is not found; and the number of
                       \* descriptors the server can have besides stdio
          MaxNoise,    \* bound on other traffic that is heard
          MaxErrors    \* bound on failing recvfrom calls

ASSUME ServerAssumption == Server \notin Clients
ASSUME SetupsAssumption == \A s \in Setups : s.prog \in {"mdhcp", "datetime"} /\ s.fds \in Nat \ {0}
ASSUME BoundsAssumption == MaxNoise \in Nat /\ MaxErrors \in Nat

VARIABLES prog,      \* "mdhcp" or "datetime"
          setup,     \* the clients' command lines
          FdLimit,   \* the server's limit
          wire,      \* frames under way
          pc,        \* where the server and each client are in Listen
          buf,       \* frames waiting in a party's open socket
          cur,       \* the frame in a party's receive buffer (<<>> or one)
          GOT_IT,    \* the clients whose GOT_IT is 1
          leaked,    \* server descriptors that will never be closed
          answered,  \* clients whose request was answered
          missed,    \* clients a frame of whose exchange was lost or not heard
          noise, errors

vars == <<prog, setup, FdLimit, wire, pc, buf, cur, GOT_IT, leaked, answered, missed, noise, errors>>

Parties == Clients \cup {Server}

Listening(x) == pc[x] \in {"recv", "process", "close"}   \* the socket is open

HostOf(x) == IF x = Server THEN Server ELSE setup[x].host

Request(c) == [op |-> "request", to |-> Server, port |-> Server, about |-> c]
Other(h)   == [op |-> "other", to |-> h, port |-> Server, about |-> Server]

\* The answer's address is the request's ciaddr, and its source address.
AnswerTo(c) == IF prog = "mdhcp" THEN setup[c].ciaddr ELSE setup[c].host

\* The ports that the server may read: out of the request's options, and out of
\* its UDP header, where the client puts the port it listens on.
AnswerPorts(c) == IF prog = "mdhcp" THEN ClientPorts(RequestOptions(setup[c].port))
                  ELSE {setup[c].port}

Ack(c, port) == [op |-> "ack", to |-> AnswerTo(c), port |-> port, about |-> c]
IsAckFor(c, f) == f.op = "ack" /\ f.about = c

Init == /\ \E s \in Setups : /\ prog = s.prog
                          /\ setup = s.clients
                          /\ FdLimit = s.fds
        /\ wire = {}
        /\ pc = [x \in Parties |-> IF x = Server THEN "open" ELSE "send"]
        /\ buf = [x \in Parties |-> <<>>]
        /\ cur = [x \in Parties |-> <<>>]
        /\ GOT_IT = {}
        /\ leaked = 0
        /\ answered = {}
        /\ missed = {}
        /\ noise = 0 /\ errors = 0

Step(x, from, to) == pc[x] = from /\ pc' = [pc EXCEPT ![x] = to]

\* The exchanges a party loses when these frames are discarded: requests are
\* for the server, an ACK is for the client it is about.
LostBy(x, frames) ==
  {f.about : f \in {g \in frames : \/ g.op = "request" /\ x = Server
                                   \/ g.op = "ack" /\ g.about = x}}

-----------------------------------------------------------------------------
\* The network: a frame reaches every open socket of the host it is sent to.

Hears(x, f) == Listening(x) /\ HostOf(x) = f.to

Addressee(f) == IF f.op = "request" THEN Server ELSE f.about

Deliver(f) == /\ f \in wire
              /\ wire' = wire \ {f}
              /\ buf' = [x \in Parties |-> IF Hears(x, f) THEN Append(buf[x], f) ELSE buf[x]]
              /\ missed' = IF Hears(Addressee(f), f) THEN missed ELSE missed \cup {f.about}
              /\ UNCHANGED <<prog, setup, FdLimit, pc, cur, GOT_IT, leaked, answered, noise, errors>>

\* UDP gives no guarantee.
Lose(f) == /\ f \in wire
           /\ wire' = wire \ {f}
           /\ missed' = missed \cup {f.about}
           /\ UNCHANGED <<prog, setup, FdLimit, pc, buf, cur, GOT_IT, leaked, answered, noise, errors>>

\* Any other packet on the host wakes whoever listens there.
Noise(h) == /\ noise < MaxNoise
            /\ \E x \in Parties : Hears(x, Other(h))
            /\ noise' = noise + 1
            /\ buf' = [x \in Parties |-> IF Hears(x, Other(h)) THEN Append(buf[x], Other(h))
                                         ELSE buf[x]]
            /\ UNCHANGED <<prog, setup, FdLimit, wire, pc, cur, GOT_IT, leaked, answered, missed, errors>>

-----------------------------------------------------------------------------
\* Listen, the same function in both programs.

\* The server may have no descriptor left ("Socket Error"): Listen returns and
\* main calls it again, so that nothing changes.
SocketAvailable(x) == x = Server => leaked < FdLimit

Open(x) == /\ Step(x, "open", "recv")
           /\ SocketAvailable(x)
           /\ UNCHANGED <<prog, setup, FdLimit, wire, buf, cur, GOT_IT, leaked, answered, missed, noise, errors>>

\* Mutant of Recv: the frame is looked at and left in the socket.
RecvPeek(x) == /\ Step(x, "recv", "process")
               /\ buf[x] # <<>>
               /\ cur' = [cur EXCEPT ![x] = <<Head(buf[x])>>]
               /\ UNCHANGED <<prog, setup, FdLimit, wire, buf, GOT_IT, leaked, answered, missed, noise, errors>>

Recv(x) == /\ Step(x, "recv", "process")
           /\ buf[x] # <<>>
           /\ cur' = [cur EXCEPT ![x] = <<Head(buf[x])>>]
           /\ buf' = [buf EXCEPT ![x] = Tail(@)]
           /\ UNCHANGED <<prog, setup, FdLimit, wire, GOT_IT, leaked, answered, missed, noise, errors>>

\* The early return does not close the socket; its frames are out of reach.
\* A client makes too few calls for its own leak to matter.
RecvError(x) == /\ errors < MaxErrors
                /\ Step(x, "recv", "open")
                /\ errors' = errors + 1
                /\ buf' = [buf EXCEPT ![x] = <<>>]
                /\ missed' = missed \cup LostBy(x, ToSet(buf[x]))
                /\ leaked' = IF x = Server THEN leaked + 1 ELSE leaked
                /\ UNCHANGED <<prog, setup, FdLimit, wire, cur, GOT_IT, answered, noise>>

\* Mutant of Close: the frames still waiting are kept for the next socket.
CloseKeeps(x) == /\ Step(x, "close", IF x \in GOT_IT THEN "done" ELSE "open")
                 /\ missed' = missed \cup LostBy(x, ToSet(buf[x]))
                 /\ cur' = [cur EXCEPT ![x] = <<>>]
                 /\ UNCHANGED <<prog, setup, FdLimit, wire, buf, GOT_IT, leaked, answered, noise, errors>>

\* With the socket go the frames behind the one that was read.  The client's
\* loop ends when GOT_IT is set.
Close(x) == /\ Step(x, "close", IF x \in GOT_IT THEN "done" ELSE "open")
            /\ missed' = missed \cup LostBy(x, ToSet(buf[x]))
            /\ buf' = [buf EXCEPT ![x] = <<>>]
            /\ cur' = [cur EXCEPT ![x] = <<>>]
            /\ UNCHANGED <<prog, setup, FdLimit, wire, GOT_IT, leaked, answered, noise, errors>>

-----------------------------------------------------------------------------
\* ProcessPacket of the server

\* The fields of an MDHCP packet, or the text of the request for the time.
IsRequest(f) == f.op = "request" /\ f.port = Server

\* Mutant of CanReply: the packet socket is forgotten in the count.
CanReplyAll == leaked < FdLimit

\* SendPacket opens one more socket while the packet socket is open.
CanReply == leaked + 1 < FdLimit

\* The socket that the answer was sent with is never closed.
Reply == /\ Step(Server, "process", "close")
         /\ LET f == cur[Server][1]
            IN /\ IsRequest(f)
               /\ CanReply
               /\ \E port \in AnswerPorts(f.about) : wire' = wire \cup {Ack(f.about, port)}
               /\ answered' = answered \cup {f.about}
         /\ leaked' = leaked + 1
         /\ UNCHANGED <<prog, setup, FdLimit, buf, cur, GOT_IT, missed, noise, errors>>

\* "Failed to create raw socket", and then "Sent!" all the same.
ReplyFails == /\ Step(Server, "process", "close")
              /\ IsRequest(cur[Server][1])
              /\ ~CanReply
              /\ missed' = missed \cup {cur[Server][1].about}
              /\ UNCHANGED <<prog, setup, FdLimit, wire, buf, cur, GOT_IT, leaked, answered, noise, errors>>

\* The request for the time is compared with a copy of the payload that has no
\* terminating zero: what follows it in memory may make it another text.
Misread == /\ Step(Server, "process", "close")
           /\ prog = "datetime"
           /\ IsRequest(cur[Server][1])
           /\ missed' = missed \cup {cur[Server][1].about}
           /\ UNCHANGED <<prog, setup, FdLimit, wire, buf, cur, GOT_IT, leaked, answered, noise, errors>>

Ignore == /\ Step(Server, "process", "close")
          /\ ~IsRequest(cur[Server][1])
          /\ UNCHANGED <<prog, setup, FdLimit, wire, buf, cur, GOT_IT, leaked, answered, missed, noise, errors>>

ServerStep == \/ Open(Server) \/ Recv(Server) \/ RecvError(Server)
              \/ Reply \/ ReplyFails \/ Misread \/ Ignore \/ Close(Server)

-----------------------------------------------------------------------------
\* The client: main checks its arguments, sends, then calls Listen until GOT_IT.
\* That the request cannot be sent is not told from its loss.

ValidPort(c) == setup[c].port \in Port

\* "Incorrect port!"
Refuse(c) == /\ Step(c, "send", "refused")
             /\ ~ValidPort(c)
             /\ UNCHANGED <<prog, setup, FdLimit, wire, buf, cur, GOT_IT, leaked, answered, missed, noise, errors>>

Send(c) == /\ Step(c, "send", "open")
           /\ ValidPort(c)
           /\ wire' = wire \cup {Request(c)}
           /\ UNCHANGED <<prog, setup, FdLimit, buf, cur, GOT_IT, leaked, answered, missed, noise, errors>>

\* Mutant of IsAck: the port is not compared.
IsAckAnyPort(c, f) == f.op = "ack"

\* Mutant of IsAck: the destination port is compared with the server's.
IsAckPortsSwapped(c, f) == f.op = "ack" /\ f.port = Server

\* The server's address and port, and for MDHCP M, B, op and the xid that all
\* clients use: nothing in the test tells the clients of one host and port
\* apart.  The other client takes any such datagram for the time.
IsAck(c, f) == f.op = "ack" /\ f.port = setup[c].port

Accept(c) == /\ Step(c, "process", "close")
             /\ IsAck(c, cur[c][1])
             /\ GOT_IT' = GOT_IT \cup {c}
             /\ UNCHANGED <<prog, setup, FdLimit, wire, buf, cur, leaked, answered, missed, noise, errors>>

\* "Nah, nevermind."
Drop(c) == /\ Step(c, "process", "close")
           /\ ~IsAck(c, cur[c][1])
           /\ UNCHANGED <<prog, setup, FdLimit, wire, buf, cur, GOT_IT, leaked, answered, missed, noise, errors>>

ClientStep(c) == \/ Refuse(c) \/ Send(c) \/ Open(c) \/ Recv(c) \/ RecvError(c)
                 \/ Accept(c) \/ Drop(c) \/ Close(c)

Next == \/ ServerStep
        \/ \E c \in Clients : ClientStep(c)
        \/ \E f \in wire : Deliver(f) \/ Lose(f)
        \/ \E x \in Parties : Noise(HostOf(x))

\* The two programs are scheduled, and a frame does not stay under way for
\* ever; recvfrom need not fail and no other traffic is owed.
Fairness == /\ WF_vars(ServerStep)
            /\ \A c \in Clients : WF_vars(ClientStep(c))
            /\ WF_vars(\E f \in wire : Deliver(f) \/ Lose(f))

Spec == Init /\ [][Next]_vars

FairSpec == Spec /\ Fairness

-----------------------------------------------------------------------------
\* What is under way and in the sockets, and the types of the rest.
Frames == {Request(c) : c \in Clients} \cup {Ack(c, setup[c].port) : c \in Clients}
          \cup {Other(HostOf(x)) : x \in Parties}

TypeOK == /\ prog \in {"mdhcp", "datetime"} /\ FdLimit \in Nat \ {0}
          /\ wire \subseteq {f \in Frames : f.op # "other"}
          /\ pc \in [Parties -> {"send", "refused", "open", "recv", "process", "close", "done"}]
          /\ buf \in [Parties -> Seq(Frames)]
          /\ cur \in [Parties -> Seq(Frames)]
          /\ \A x \in Parties :
               /\ \A f \in ToSet(buf[x]) \cup ToSet(cur[x]) : f.to = HostOf(x)
               /\ Len(cur[x]) = (IF pc[x] \in {"process", "close"} THEN 1 ELSE 0)
               /\ Listening(x) \/ buf[x] = <<>>
          /\ GOT_IT \subseteq Clients /\ answered \subseteq Clients /\ missed \subseteq Clients
          /\ leaked \in 0..FdLimit /\ noise \in 0..MaxNoise /\ errors \in 0..MaxErrors

\* The places where client c's exchange can be after it sent its request.
Places(c) ==
  {pl \in {"request under way", "server socket", "server", "ack under way",
           "client socket", "client", "missed"} :
     \/ pl = "request under way" /\ Request(c) \in wire
     \/ pl = "server socket" /\ Request(c) \in ToSet(buf[Server])
     \/ pl = "server" /\ cur[Server] = <<Request(c)>> /\ pc[Server] = "process"
     \/ pl = "ack under way" /\ \E f \in wire : IsAckFor(c, f)
     \/ pl = "client socket" /\ \E f \in ToSet(buf[c]) : IsAckFor(c, f)
     \/ pl = "client" /\ (c \in GOT_IT \/ \E f \in ToSet(cur[c]) : IsAckFor(c, f))
     \/ pl = "missed" /\ c \in missed}

\* Nobody sends anything twice: until a client has an ACK, its exchange is in
\* one place, and once it was missed there it will never be completed by any
\* message of its own.
OnePlace == \A c \in Clients :
              /\ pc[c] \in {"send", "refused"} => Places(c) = {}
              /\ pc[c] \notin {"send", "refused"} /\ c \notin GOT_IT => Cardinality(Places(c)) = 1

\* A client has an address, or the time, only if the server answered a request
\* that named the client's host and port: its own, or that of a client it cannot
\* be told from, which asked from the same host or claimed its address.  The
\* port goes through the two bytes of option 105 and back.
AckMatchesRequest ==
  \A c \in GOT_IT : \E d \in answered :
     AnswerTo(d) = setup[c].host /\ setup[d].port = setup[c].port

\* The replies' leaked descriptors make the server mute, not deaf: as long as
\* recvfrom never failed it can still open its packet socket, because the last
\* reply that could take the last descriptor fails.
MuteNotDeaf == /\ errors = 0 => leaked < FdLimit
               /\ Cardinality(answered) < FdLimit

-----------------------------------------------------------------------------
\* The inductive invariant.

\* Whoever sent has a port that is one, and an answer is about a client that the
\* server answered.
AnswerInv ==
  /\ \A c \in Clients : pc[c] \notin {"send", "refused"} => ValidPort(c)
  /\ \A f \in wire : f.op = "ack" => f.about \in answered
  /\ \A x \in Parties : \A f \in ToSet(buf[x]) \cup ToSet(cur[x]) :
        f.op = "ack" => f.about \in answered

\* No socket holds a client's request or its answer twice, and a client that has
\* processed its answer has taken it.
OnceIn(s, f) == \A j, k \in DOMAIN s : s[j] = f /\ s[k] = f => j = k

OnceInv ==
  \A c \in Clients \ GOT_IT :
     /\ OnceIn(buf[Server], Request(c))
     /\ OnceIn(buf[c], Ack(c, setup[c].port))
     /\ pc[c] = "close" => Ack(c, setup[c].port) \notin ToSet(cur[c])

\* Each answer has cost a descriptor, and the packet socket has one of its own.
LeakInv ==
  /\ IsFiniteSet(answered) /\ Cardinality(answered) <= leaked
  /\ pc[Server] \in {"recv", "process"} => leaked < FdLimit

IInv == TypeOK /\ AnswerInv /\ OnePlace /\ OnceInv /\ LeakInv /\ MuteNotDeaf

-----------------------------------------------------------------------------
\* Every client gets its answer or something of its exchange was lost, unless it
\* refused its arguments.  Nothing stronger holds: a client that missed its
\* answer listens for ever.
ServedOrMissed == \A c \in Clients : <>(c \in GOT_IT \/ c \in missed \/ pc[c] = "refused")
=============================================================================
