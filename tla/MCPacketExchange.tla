-------------------------- MODULE MCPacketExchange --------------------------
(***************************************************************************)
(* Two clients.  MDHCP: they run on one host and one port, where they      *)
(* cannot be told apart; on two hosts; the second one, whose interface was *)
(* not found, claims the address of the first, with the same or another    *)
(* port; or it is started with a port that is none.  Date and time: on one *)
(* host or on two.                                                         *)
(*                                                                         *)
(* The assumptions check the pure functions on bounded inputs.             *)
(***************************************************************************)
EXTENDS PacketExchange, TLC

CONSTANTS c1, c2, h1, h2

MCClients == {c1, c2}

At(host, port, ciaddr) == [host |-> host, port |-> port, ciaddr |-> ciaddr]

Started(p, n, a, b) == [prog |-> p, fds |-> n, clients |-> (c1 :> a) @@ (c2 :> b)]

\* The ports 68 and 324 share their low byte.  With two descriptors the server
\* can answer once, with three both clients.
MCSetups == {Started("mdhcp", 2, At(h1, 68, h1), At(h1, 68, h1)),
             Started("mdhcp", 3, At(h1, 68, h1), At(h1, 68, h1)),
             Started("mdhcp", 3, At(h1, 68, h1), At(h2, 68, h2)),
             Started("mdhcp", 3, At(h1, 68, h1), At(h2, 68, h1)),
             Started("mdhcp", 3, At(h1, 68, h1), At(h2, 324, h1)),
             Started("mdhcp", 2, At(h1, 68, h1), At(h2, 65536, h2)),
             Started("datetime", 3, At(h1, 6666, h1), At(h1, 6666, h1)),
             Started("datetime", 2, At(h1, 6666, h1), At(h2, 6666, h2))}

-----------------------------------------------------------------------------
Strings(bytes, n) == UNION {[1..k -> bytes] : k \in 0..n}

\* What the client writes the server reads, for every port the client accepts.
ASSUME PortsSurvive == \A p \in Port : ClientPorts(RequestOptions(p)) = {p}

ASSUME LeaseSurvives == LeaseTimes(AckOptions) = {255}

\* The loop reads at the positions that its starts can reach: the first, and
\* each one behind an option; and it takes an option's bytes as far as there are any.
Starts(b) ==
  LET Closed(S) == \A o \in S : o < Len(b) /\ b[o] # END_TAG /\ o + 2 + b[o + 1] <= Len(b)
                                 => o + 2 + b[o + 1] \in S
  IN {o \in 1..Len(b) : \A S \in SUBSET (1..Len(b)) : 1 \in S /\ Closed(S) => o \in S}

OptionsAt(b) == {o \in Starts(b) : o < Len(b) /\ b[o] # END_TAG}

ASSUME OptionsRight ==
  \A b \in Strings({0, 1, 2, PORT_OPTION, END_TAG}, 5) :
    /\ Len(Options(b)) = Cardinality(OptionsAt(b))
    /\ \A o \in OptionsAt(b) :
         LET option == Options(b)[Cardinality({p \in OptionsAt(b) : p <= o})]
         IN /\ option.opnumb = b[o]
            /\ option.length = b[o + 1]
            /\ option.dat = [i \in 1 .. Min({b[o + 1], Len(b) - o - 1}) |-> b[o + 1 + i]]

\* Two folds are enough: the checksum is the complement of the ones'-complement
\* sum, and a receiver that adds it to the words gets all ones.
ASSUME CsumRight ==
  \A b \in Strings({0, 1, 128, 255}, 5) :
    /\ Csum(b) = 65535 - OnesSum(WordSum(b))
    /\ OnesSum(WordSum(b) + Csum(b)) = 65535
=============================================================================
