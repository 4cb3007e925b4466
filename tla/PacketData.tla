----------------------------- MODULE PacketData -----------------------------
(***************************************************************************)
(* What the raw-socket programs compute on the bytes of a datagram: the    *)
(* Internet checksum of SendPacket, and the options of an MDHCP packet,    *)
(* each a number, a length and that many bytes, up to the tag 255.  These  *)
(* are pure functions of sequences of bytes.                               *)
(***************************************************************************)
EXTENDS Integers, Sequences, FiniteSetsExt

Byte == 0..255
Port == 1..65535
END_TAG == 255
PORT_OPTION == 105
CLIENT_ID == 61
SERVER_ID == 54
LEASE_TIME == 51

-----------------------------------------------------------------------------
\* csum: the 16-bit words are added, a last odd byte as a word of its own; the
\* carries are folded in twice and the low half is complemented.

Word(b, i) == b[2 * i - 1] + (IF 2 * i <= Len(b) THEN 256 * b[2 * i] ELSE 0)

WordSum(b) == MapThenSumSet(LAMBDA i : Word(b, i), 1 .. ((Len(b) + 1) \div 2))

FoldOnce(sum) == (sum \div 65536) + (sum % 65536)
FoldTwice(sum) == FoldOnce(sum) + (FoldOnce(sum) \div 65536)

Csum(b) == 65535 - (FoldTwice(WordSum(b)) % 65536)

\* Ones'-complement addition as its definition has it: reduce modulo 65535,
\* except that only an empty sum is zero.
OnesSum(sum) == IF sum = 0 THEN 0 ELSE 1 + ((sum - 1) % 65535)

-----------------------------------------------------------------------------
\* The option loop of GetUDPData.  Each option read is its number, the length
\* it claims, and its bytes: fewer than the length if the datagram ends first.

Options(b) ==
  LET n == Len(b)
      from[o \in 1 .. n + 1] ==      \* the options read from position o on
        IF o >= n \/ b[o] = END_TAG  \* past the end, a number alone, or the tag
        THEN <<>>
        ELSE LET end == Min({n, o + 1 + b[o + 1]})
             IN <<[opnumb |-> b[o], length |-> b[o + 1], dat |-> SubSeq(b, o + 2, end)]>>
                \o from[end + 1]
  IN from[1]

\* A byte of dat that was not read is uninitialized: it may be anything.
Dat(option, i) == IF i <= Len(option.dat) THEN {option.dat[i]} ELSE Byte

LastOf(b, number) == LET options == Options(b)
                         found == {k \in DOMAIN options : options[k].opnumb = number}
                     IN IF found = {} THEN <<>> ELSE <<options[Max(found)]>>

\* What the server can take for the client's port; 67 if there is no such option.
ClientPorts(b) ==
  LET p == LastOf(b, PORT_OPTION)
  IN IF p = <<>> THEN {67}
     ELSE {256 * hi + lo : hi \in Dat(p[1], 1), lo \in Dat(p[1], 2)}

\* What the client can take for the lease time, in seconds.
LeaseTimes(b) ==
  LET p == LastOf(b, LEASE_TIME)
  IN IF p = <<>> THEN {0}
     ELSE {256 * (256 * (256 * d1 + d2) + d3) + d4 :
             d1 \in Dat(p[1], 1), d2 \in Dat(p[1], 2), d3 \in Dat(p[1], 3), d4 \in Dat(p[1], 4)}

\* The options that the client writes for its listeningOnPort ...
RequestOptions(port) ==
  <<CLIENT_ID, 2, 250, 170, PORT_OPTION, 2, (port \div 256) % 256, port % 256, END_TAG>>

\* ... and those that the server writes.
AckOptions == <<SERVER_ID, 4, 10, 0, 2, 170, LEASE_TIME, 4, 0, 0, 0, 255, END_TAG>>
=============================================================================
