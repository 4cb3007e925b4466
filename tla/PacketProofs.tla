---------------------------- MODULE PacketProofs ----------------------------
(***************************************************************************)
(* Proofs about the raw-socket programs: that two folds suffice for the    *)
(* checksum of any datagram, that a port survives the options, and what    *)
(* the exchange keeps for any number of clients, however they are set up,  *)
(* and any amount of other traffic and of errors.                          *)
(***************************************************************************)
EXTENDS PacketExchange, FiniteSetTheorems, SequenceTheorems, NaturalsInduction, TLAPS

-----------------------------------------------------------------------------
\* The checksum.  A datagram has at most 65536 words; that their sum is then
\* below 2^32 is a hypothesis here, since WordSum folds over a set.

\* Division by a constant, in the direction the provers need it.
LEMMA Halves ==
  ASSUME NEW x \in Nat, x < 65536 * 65536, NEW q \in Int, NEW r \in Int,
         q = x \div 65536, r = x % 65536
  PROVE  q \in Nat /\ q < 65536 /\ r \in Nat /\ r < 65536 /\ x = (65536 * q) + r
OBVIOUS

LEMMA LowHalf ==
  ASSUME NEW x \in Nat, NEW q \in Nat, NEW r \in Nat, r < 65536, x = (65536 * q) + r
  PROVE  x % 65536 = r /\ x \div 65536 = q
OBVIOUS

LEMMA Residue ==
  ASSUME NEW x \in Nat, NEW q \in Nat, NEW r \in Nat, r < 65535, x = (65535 * q) + r
  PROVE  x % 65535 = r
OBVIOUS

LEMMA Residues ==
  ASSUME NEW x \in Nat, NEW q \in Int, NEW r \in Int, q = x \div 65535, r = x % 65535
  PROVE  q \in Nat /\ r \in Nat /\ r < 65535 /\ x = (65535 * q) + r
OBVIOUS

\* Two folds reduce a sum to its ones'-complement sum in the low half.
LEMMA TwoFoldsSuffice ==
  ASSUME NEW sum \in Nat, sum < 65536 * 65536
  PROVE  FoldTwice(sum) % 65536 = OnesSum(sum)
<1>. DEFINE q == sum \div 65536
            r == sum % 65536
<1>1. q \in Nat /\ q < 65536 /\ r \in Nat /\ r < 65536 /\ sum = (65536 * q) + r
  <2>1. q \in Int /\ r \in Int OBVIOUS
  <2>. QED BY <2>1, Halves
<1>2. FoldOnce(sum) = q + r BY DEF FoldOnce
<1>3. FoldTwice(sum) = (q + r) + ((q + r) \div 65536) BY <1>2 DEF FoldTwice
<1>. HIDE DEF q, r
<1>4. CASE sum = 0
  <2>1. q = 0 /\ r = 0 BY <1>1, <1>4
  <2>2. 0 \div 65536 = 0 /\ 0 % 65536 = 0 BY LowHalf
  <2>3. FoldTwice(sum) = 0 BY <1>3, <2>1, <2>2
  <2>. QED BY <1>4, <2>2, <2>3 DEF OnesSum
<1>5. CASE sum # 0 /\ q + r < 65536
  <2>1. (q + r) \div 65536 = 0 /\ (q + r) % 65536 = q + r
    <3>1. q + r = 65536 * 0 + (q + r) /\ q + r \in Nat /\ q + r < 65536 BY <1>1, <1>5
    <3>. QED BY <3>1, LowHalf
  <2>2. FoldTwice(sum) = q + r BY <1>1, <1>3, <2>1
  <2>3. /\ sum - 1 \in Nat /\ q + r - 1 \in Nat /\ q + r - 1 < 65535
        /\ sum - 1 = 65535 * q + (q + r - 1)
    BY <1>1, <1>5
  <2>4. (sum - 1) % 65535 = q + r - 1 BY <1>1, <2>3, Residue
  <2>5. OnesSum(sum) = 1 + (q + r - 1) BY <1>5, <2>4 DEF OnesSum
  <2>. QED BY <1>1, <2>1, <2>2, <2>5
<1>6. CASE sum # 0 /\ q + r >= 65536
  <2>1. (q + r) \div 65536 = 1
    <3>1. /\ q + r = 65536 * 1 + (q + r - 65536)
          /\ q + r - 65536 \in Nat /\ q + r - 65536 < 65536
      BY <1>1, <1>6
    <3>. QED BY <1>1, <3>1, LowHalf
  <2>2. FoldTwice(sum) = q + r + 1 BY <1>1, <1>3, <2>1
  <2>3. (q + r + 1) % 65536 = q + r - 65535
    <3>1. /\ q + r + 1 \in Nat /\ q + r - 65535 \in Nat /\ q + r - 65535 < 65536
          /\ q + r + 1 = 65536 * 1 + (q + r - 65535)
      BY <1>1, <1>6
    <3>. QED BY <3>1, LowHalf
  <2>4. /\ sum - 1 \in Nat /\ q + r - 65536 \in Nat /\ q + r - 65536 < 65535
        /\ sum - 1 = 65535 * (q + 1) + (q + r - 65536)
    BY <1>1, <1>6
  <2>5. (sum - 1) % 65535 = q + r - 65536
    <3>1. q + 1 \in Nat BY <1>1
    <3>. QED BY <2>4, <3>1, Residue
  <2>6. OnesSum(sum) = 1 + (q + r - 65536) BY <1>6, <2>5 DEF OnesSum
  <2>. QED BY <1>1, <2>2, <2>3, <2>6
<1>. QED BY <1>1, <1>4, <1>5, <1>6

\* csum, which folds twice and complements, returns the complement of the
\* ones'-complement sum of the words, whatever carries the sum has.
THEOREM CsumIsComplement ==
  ASSUME NEW b, WordSum(b) \in Nat, WordSum(b) < 65536 * 65536
  PROVE  Csum(b) = 65535 - OnesSum(WordSum(b))
<1>1. FoldTwice(WordSum(b)) % 65536 = OnesSum(WordSum(b)) BY TwoFoldsSuffice
<1>. QED BY <1>1 DEF Csum

\* A sum and the complement of its ones'-complement sum.
LEMMA AllOnes ==
  ASSUME NEW sum \in Nat
  PROVE  OnesSum(sum + (65535 - OnesSum(sum))) = 65535
<1>1. CASE sum = 0
  <2>1. OnesSum(sum) = 0 BY <1>1 DEF OnesSum
  <2>2. 65534 % 65535 = 65534
    <3>1. 65534 = (65535 * 0) + 65534 OBVIOUS
    <3>. QED BY <3>1, Residue
  <2>3. OnesSum(65535) = 65535 BY <2>2 DEF OnesSum
  <2>4. sum + (65535 - OnesSum(sum)) = 65535 BY <1>1, <2>1
  <2>. QED BY <2>3, <2>4
<1>2. CASE sum # 0
  <2>1. PICK q \in Nat, r \in Nat : r < 65535 /\ sum - 1 = (65535 * q) + r
    <3>1. sum - 1 \in Nat BY <1>2
    <3>2. PICK y \in Nat : y = sum - 1 BY <3>1
    <3>3. /\ y \div 65535 \in Nat /\ y % 65535 \in Nat /\ y % 65535 < 65535
          /\ y = (65535 * (y \div 65535)) + (y % 65535)
      BY Residues
    <3>. QED BY <3>2, <3>3
  <2>2. OnesSum(sum) = 1 + r
    <3>1. sum - 1 \in Nat BY <1>2
    <3>2. (sum - 1) % 65535 = r BY <2>1, <3>1, Residue
    <3>. QED BY <1>2, <3>2 DEF OnesSum
  <2>3. PICK x \in Nat : x = sum + (65534 - r) BY <2>1
  <2>4. sum + (65535 - OnesSum(sum)) = x BY <2>2, <2>3
  <2>5. x # 0 /\ x - 1 \in Nat /\ x - 1 = (65535 * q) + 65534 BY <1>2, <2>1, <2>3
  <2>6. (x - 1) % 65535 = 65534 BY <2>5, Residue
  <2>7. OnesSum(x) = 65535 BY <2>5, <2>6 DEF OnesSum
  <2>. QED BY <2>4, <2>7
<1>. QED BY <1>1, <1>2

\* Whoever adds the words of a datagram and the checksum csum put into it
\* gets all ones, the sign of an intact one.
THEOREM ReceiverGetsAllOnes ==
  ASSUME NEW b, WordSum(b) \in Nat, WordSum(b) < 65536 * 65536
  PROVE  OnesSum(WordSum(b) + Csum(b)) = 65535
<1>1. Csum(b) = 65535 - OnesSum(WordSum(b)) BY CsumIsComplement
<1>2. OnesSum(WordSum(b) + (65535 - OnesSum(WordSum(b)))) = 65535 BY AllOnes
<1>. QED BY <1>1, <1>2
-----------------------------------------------------------------------------
\* The options.

\* A non-empty set of natural numbers has a least one.
LEMMA Least ==
  ASSUME NEW T, T \subseteq Nat, T # {}
  PROVE  \E m \in T : \A k \in T : ~ (k < m)
<1>1. PICK m \in T : \A k \in T : ~ (<<k, m>> \in OpToRel(<, Nat))
  BY NatLessThanWellFounded, WFMin
<1>2. ASSUME NEW k \in T PROVE ~ (k < m)
  <2>1. k \in Nat /\ m \in Nat OBVIOUS
  <2>. QED BY <1>1, <2>1, Zenon DEF OpToRel
<1>. QED BY <1>2

\* The options read from position o on, in terms of those read from later ones.
End(b, o) == Min({Len(b), o + 1 + b[o + 1]})

Read(b, from, o) ==
  IF o >= Len(b) \/ b[o] = END_TAG
  THEN <<>>
  ELSE <<[opnumb |-> b[o], length |-> b[o + 1], dat |-> SubSeq(b, o + 2, End(b, o))]>>
       \o from[End(b, o) + 1]

LEMMA MinOfTwo ==
  ASSUME NEW x \in Int, NEW y \in Int
  PROVE  Min({x, y}) = IF x <= y THEN x ELSE y
BY DEF Min

\* An option ends behind its start and within the packet.
LEMMA Ends ==
  ASSUME NEW b \in Seq(Nat), NEW o \in 1..Len(b), o < Len(b)
  PROVE  End(b, o) + 1 \in 1 .. Len(b) + 1 /\ o < End(b, o) + 1
<1>1. Len(b) \in Nat /\ o \in Nat /\ o + 1 \in 1..Len(b) BY LenProperties
<1>2. b[o + 1] \in Nat BY <1>1, ElementOfSeq
<1>3. End(b, o) = IF Len(b) <= o + 1 + b[o + 1] THEN Len(b) ELSE o + 1 + b[o + 1]
  <2>. DEFINE m == Len(b)
              e == o + 1 + b[o + 1]
  <2>1. m \in Int /\ e \in Int BY <1>1, <1>2
  <2>2. End(b, o) = Min({m, e}) BY Zenon DEF End
  <2>. HIDE DEF m, e
  <2>3. Min({m, e}) = IF m <= e THEN m ELSE e BY <2>1, MinOfTwo
  <2>. QED BY <2>2, <2>3, Zenon DEF m, e
<1>. QED BY <1>1, <1>2, <1>3

\* The recursion has a solution: the positions from which it would have none
\* have a last one, and behind that it has.
LEMMA OptionsExist ==
  ASSUME NEW b \in Seq(Nat)
  PROVE  \E f : f = [o \in 1 .. Len(b) + 1 |-> Read(b, f, o)]
<1>. DEFINE n == Len(b)
            Solves(f, k) == \A o \in k .. n + 1 : f[o] = Read(b, f, o)
            Bad == {d \in 0..n : ~ \E f : Solves(f, n + 1 - d)}
<1>0. n \in Nat BY LenProperties
<1>1. \E f : Solves(f, n + 1)
  <2>. DEFINE f == [o \in {n + 1} |-> <<>>]
  <2>1. \A o \in (n + 1) .. (n + 1) : o = n + 1 BY <1>0
  <2>2. f[n + 1] = Read(b, f, n + 1) BY <1>0 DEF Read
  <2>. QED BY <2>1, <2>2
<1>2. Bad = {}
  <2>. SUFFICES ASSUME Bad # {} PROVE FALSE OBVIOUS
  <2>1. PICK m \in Bad : \A k \in Bad : ~ (k < m)
    <3>1. Bad \subseteq Nat BY <1>0
    <3>. QED BY <3>1, Least, Zenon
  <2>2. m \in Nat /\ m <= n BY <1>0
  <2>3. m # 0
    <3>1. n + 1 - 0 = n + 1 BY <1>0
    <3>. QED BY <1>1, <2>1, <3>1
  <2>4. m - 1 \in 0..n /\ m - 1 < m BY <1>0, <2>2, <2>3
  <2>5. PICK f : Solves(f, n + 1 - (m - 1)) BY <2>1, <2>4
  <2>. DEFINE p == n + 1 - m
              g == [o \in p .. n + 1 |-> IF o = p THEN Read(b, f, o) ELSE f[o]]
  <2>6. p \in 1..n /\ n + 1 - (m - 1) = p + 1 BY <1>0, <2>2, <2>3
  <2>7. \A o \in p .. n + 1 : o \in 1 .. n + 1 /\ Read(b, g, o) = Read(b, f, o)
    <3>. SUFFICES ASSUME NEW o \in p .. n + 1
                  PROVE  o \in 1 .. n + 1 /\ Read(b, g, o) = Read(b, f, o)
      OBVIOUS
    <3>1. o \in 1 .. n + 1 BY <1>0, <2>6
    <3>2. CASE o >= n BY <3>1, <3>2 DEF Read
    <3>3. CASE ~(o >= n)
      <4>1. o \in 1..n /\ o < n BY <1>0, <3>1, <3>3
      <4>2. End(b, o) + 1 \in 1 .. n + 1 /\ o < End(b, o) + 1 BY <4>1, Ends
      <4>3. End(b, o) + 1 \in p .. n + 1 /\ End(b, o) + 1 # p
        BY <1>0, <2>6, <3>1, <4>2, SMTT(30)
      <4>4. g[End(b, o) + 1] = f[End(b, o) + 1] BY <4>3
      <4>. HIDE DEF g
      <4>5. Read(b, g, o) = Read(b, f, o) BY <4>4, Zenon DEF Read
      <4>. QED BY <3>1, <4>5
    <3>. QED BY <3>2, <3>3
  <2>8. Solves(g, p)
    <3>. SUFFICES ASSUME NEW o \in p .. n + 1 PROVE g[o] = Read(b, f, o) BY <2>7
    <3>1. CASE o = p BY <3>1
    <3>2. CASE o # p
      <4>1. o \in (p + 1) .. n + 1
        <5>1. o \in p .. n + 1 OBVIOUS
        <5>. HIDE DEF p, g, Bad
        <5>. QED BY <1>0, <2>6, <3>2, <5>1
      <4>2. f[o] = Read(b, f, o) BY <2>5, <2>6, <4>1
      <4>. QED BY <3>2, <4>2
    <3>. QED BY <3>1, <3>2
  <2>. QED BY <2>1, <2>8
<1>3. PICK f : Solves(f, 1)
  <2>1. n \in 0..n /\ n + 1 - n = 1 BY <1>0
  <2>. QED BY <1>2, <2>1
<1>. DEFINE h == [o \in 1 .. n + 1 |-> f[o]]
<1>4. \A o \in 1 .. n + 1 : Read(b, h, o) = Read(b, f, o)
  <2>. SUFFICES ASSUME NEW o \in 1 .. n + 1 PROVE Read(b, h, o) = Read(b, f, o) OBVIOUS
  <2>1. CASE o >= n BY <2>1 DEF Read
  <2>2. CASE ~(o >= n)
    <3>1. o \in 1..n /\ o < n BY <1>0, <2>2
    <3>2. End(b, o) + 1 \in 1 .. n + 1 BY <3>1, Ends
    <3>. QED BY <3>2 DEF Read
  <2>. QED BY <2>1, <2>2
<1>5. h = [o \in 1 .. n + 1 |-> Read(b, h, o)] BY <1>3, <1>4
<1>. QED BY <1>5

\* What Options returns, without the recursion.
LEMMA OptionsFrom ==
  ASSUME NEW b \in Seq(Nat)
  PROVE  \E f : /\ Options(b) = f[1]
                /\ \A o \in 1 .. Len(b) + 1 : f[o] = Read(b, f, o)
<1>. DEFINE Eqn(f) == f = [o \in 1 .. Len(b) + 1 |->
                             IF o >= Len(b) \/ b[o] = END_TAG THEN <<>>
                             ELSE LET end == Min({Len(b), o + 1 + b[o + 1]})
                                  IN <<[opnumb |-> b[o], length |-> b[o + 1],
                                        dat |-> SubSeq(b, o + 2, end)]>>
                                     \o f[end + 1]]
            from == CHOOSE f : Eqn(f)
<1>1. \E f : Eqn(f) BY OptionsExist, Zenon DEF Read, End
<1>2. Eqn(from) BY <1>1, Zenon
<1>3. Options(b) = from[1] BY Zenon DEF Options
<1>4. \A o \in 1 .. Len(b) + 1 : from[o] = Read(b, from, o) BY <1>2, Zenon DEF Read, End
<1>. QED BY <1>3, <1>4

\* The bytes of a number.
LEMMA LowByte ==
  ASSUME NEW x \in Nat, NEW q \in Nat, NEW r \in Nat, r < 256, x = (256 * q) + r
  PROVE  x % 256 = r
OBVIOUS

LEMMA TwoBytes ==
  ASSUME NEW x \in Nat, x < 65536, NEW q \in Int, NEW r \in Int, q = x \div 256, r = x % 256
  PROVE  q \in Nat /\ q < 256 /\ r \in Nat /\ r < 256 /\ x = (256 * q) + r
OBVIOUS

LEMMA Tags ==
  /\ CLIENT_ID \in Nat /\ PORT_OPTION \in Nat /\ END_TAG \in Nat
  /\ CLIENT_ID # PORT_OPTION /\ CLIENT_ID # END_TAG /\ PORT_OPTION # END_TAG
BY SMT DEF CLIENT_ID, PORT_OPTION, END_TAG

\* The options that the client writes, with any data.
LEMMA PortOption ==
  ASSUME NEW x \in Nat, NEW y \in Nat, NEW hi \in Nat, NEW lo \in Nat
  PROVE  ClientPorts(<<CLIENT_ID, 2, x, y, PORT_OPTION, 2, hi, lo, END_TAG>>) = {256 * hi + lo}
<1>. DEFINE b == <<CLIENT_ID, 2, x, y, PORT_OPTION, 2, hi, lo, END_TAG>>
<1>3. /\ b \in Seq(Nat) /\ Len(b) = 9
      /\ b[1] = CLIENT_ID /\ b[2] = 2 /\ b[5] = PORT_OPTION /\ b[6] = 2
      /\ b[7] = hi /\ b[8] = lo /\ b[9] = END_TAG
  <2>1. b \in Seq(Nat) BY Tags, SMT
  <2>2. Len(b) = 9 BY SMT
  <2>3. b[1] = CLIENT_ID /\ b[2] = 2 BY SMT
  <2>4. b[5] = PORT_OPTION /\ b[6] = 2 BY SMT
  <2>5. b[7] = hi /\ b[8] = lo BY SMT
  <2>6. b[9] = END_TAG BY SMT
  <2>. QED BY <2>1, <2>2, <2>3, <2>4, <2>5, <2>6, Zenon
<1>. HIDE DEF b
<1>4. PICK f : /\ Options(b) = f[1]
               /\ f[1] = Read(b, f, 1) /\ f[5] = Read(b, f, 5) /\ f[9] = Read(b, f, 9)
  <2>1. PICK f : Options(b) = f[1] /\ \A o \in 1 .. Len(b) + 1 : f[o] = Read(b, f, o)
    BY <1>3, OptionsFrom, Zenon
  <2>2. 1 \in 1 .. Len(b) + 1 /\ 5 \in 1 .. Len(b) + 1 /\ 9 \in 1 .. Len(b) + 1
    <3>1. Len(b) = 9 BY <1>3
    <3>. QED BY <3>1
  <2>. QED BY <2>1, <2>2, Zenon
<1>5. End(b, 1) = 4 /\ End(b, 5) = 8 /\ SubSeq(b, 7, 8) = <<hi, lo>>
  <2>1. Min({9, 4}) = 4 /\ Min({9, 8}) = 8
    <3>1. 9 \in Int /\ 4 \in Int /\ 8 \in Int /\ ~(9 <= 4) /\ ~(9 <= 8) OBVIOUS
    <3>. QED BY <3>1, MinOfTwo, Zenon
  <2>2. 1 + 1 = 2 /\ 5 + 1 = 6 /\ 1 + 1 + 2 = 4 /\ 5 + 1 + 2 = 8 OBVIOUS
  <2>3. End(b, 1) = 4 /\ End(b, 5) = 8 BY <1>3, <2>1, <2>2, Zenon DEF End
  <2>4. SubSeq(b, 7, 8) = <<b[7], b[8]>>
    <3>. DEFINE d == SubSeq(b, 7, 8)
    <3>1. Len(d) = 2 /\ d[1] = b[7] /\ d[2] = b[8] /\ d \in Seq(Nat) BY <1>3
    <3>. HIDE DEF d
    <3>2. d = <<d[1], d[2]>> BY <3>1
    <3>. QED BY <3>1, <3>2 DEF d
  <2>. QED BY <1>3, <2>3, <2>4
<1>6. f[9] = <<>> BY <1>3, <1>4 DEF Read
<1>o2. PICK o2 : o2 = [opnumb |-> PORT_OPTION, length |-> 2, dat |-> <<hi, lo>>] OBVIOUS
<1>o1. PICK o1 : o1 = [opnumb |-> CLIENT_ID, length |-> 2, dat |-> SubSeq(b, 3, 4)] OBVIOUS
<1>7. f[5] = <<o2>>
  <2>1. f[5] = Read(b, f, 5) BY <1>4, Zenon
  <2>2. b[5] = PORT_OPTION /\ b[6] = 2 BY <1>3
  <2>3. Read(b, f, 5) = <<[opnumb |-> b[5], length |-> b[5 + 1],
                          dat |-> SubSeq(b, 5 + 2, End(b, 5))]>> \o f[End(b, 5) + 1]
    <3>1. ~(5 >= Len(b)) /\ b[5] # END_TAG BY <1>3, <2>2, Tags
    <3>. QED BY <3>1, Zenon DEF Read
  <2>4. 5 + 1 = 6 /\ 5 + 2 = 7 /\ 8 + 1 = 9 BY SMT
  <2>5. Read(b, f, 5) = <<o2>> \o f[9] BY <1>5, <1>o2, <2>2, <2>3, <2>4, Zenon
  <2>. QED BY <1>6, <2>1, <2>5
<1>8. f[1] = <<o1, o2>>
  <2>1. f[1] = Read(b, f, 1) BY <1>4, Zenon
  <2>2. b[1] = CLIENT_ID /\ b[2] = 2 BY <1>3
  <2>3. Read(b, f, 1) = <<[opnumb |-> b[1], length |-> b[1 + 1],
                          dat |-> SubSeq(b, 1 + 2, End(b, 1))]>> \o f[End(b, 1) + 1]
    <3>1. ~(1 >= Len(b)) /\ b[1] # END_TAG BY <1>3, <2>2, Tags
    <3>. QED BY <3>1, Zenon DEF Read
  <2>4. 1 + 1 = 2 /\ 1 + 2 = 3 /\ 4 + 1 = 5 BY SMT
  <2>5. Read(b, f, 1) = <<o1>> \o f[5] BY <1>5, <1>o1, <2>2, <2>3, <2>4, Zenon
  <2>. QED BY <1>7, <2>1, <2>5
<1>9. LastOf(b, PORT_OPTION) = <<o2>>
  <2>1. {k \in DOMAIN <<o1, o2>> : <<o1, o2>>[k].opnumb = PORT_OPTION} = {2} BY <1>o1, <1>o2, Tags
  <2>2. Max({2}) = 2 BY DEF Max
  <2>3. Options(b) = <<o1, o2>> BY <1>4, <1>8
  <2>4. {2} # {} /\ <<o1, o2>>[2] = o2 OBVIOUS
  <2>. QED BY <2>1, <2>2, <2>3, <2>4, Zenon DEF LastOf
<1>10. Dat(o2, 1) = {hi} /\ Dat(o2, 2) = {lo} BY <1>o2 DEF Dat
<1>11. ClientPorts(b) = {256 * h + l : h \in {hi}, l \in {lo}}
  <2>1. <<o2>> # <<>> /\ <<o2>>[1] = o2 OBVIOUS
  <2>2. ClientPorts(b) = {256 * h + l : h \in Dat(o2, 1), l \in Dat(o2, 2)}
    BY <1>9, <2>1, SMT DEF ClientPorts
  <2>. QED BY <1>10, <2>2, SMT
<1>12. {256 * h + l : h \in {hi}, l \in {lo}} = {256 * hi + lo} OBVIOUS
<1>. QED BY <1>11, <1>12 DEF b

\* The server reads the port that the client wrote, for every port that the
\* client accepts: its two bytes in option 105, behind the client's option 61.
THEOREM PortSurvives ==
  ASSUME NEW port \in Port
  PROVE  ClientPorts(RequestOptions(port)) = {port}
<1>. DEFINE hi == (port \div 256) % 256
            lo == port % 256
<1>1. hi \in Nat /\ lo \in Nat /\ 256 * hi + lo = port
  <2>. DEFINE q == port \div 256
              r == port % 256
  <2>1. q \in Nat /\ q < 256 /\ r \in Nat /\ port = (256 * q) + r
    <3>1. port \in Nat /\ port < 65536 BY SMTT(30) DEF Port
    <3>2. q \in Int /\ r \in Int BY <3>1
    <3>. QED BY <3>1, <3>2, TwoBytes
  <2>. HIDE DEF q
  <2>2. q % 256 = q
    <3>1. q = (256 * 0) + q BY <2>1
    <3>. QED BY <2>1, <3>1, LowByte
  <2>3. hi = q BY <2>2 DEF q
  <2>. QED BY <2>1, <2>3
<1>2. RequestOptions(port) = <<CLIENT_ID, 2, 250, 170, PORT_OPTION, 2, hi, lo, END_TAG>>
  BY SMT DEF RequestOptions
<1>. HIDE DEF hi, lo
<1>3. PICK x \in Nat, y \in Nat : x = 250 /\ y = 170 BY SMT
<1>4. RequestOptions(port) = <<CLIENT_ID, 2, x, y, PORT_OPTION, 2, hi, lo, END_TAG>>
  BY <1>2, <1>3, SMT
<1>5. ClientPorts(<<CLIENT_ID, 2, x, y, PORT_OPTION, 2, hi, lo, END_TAG>>) = {256 * hi + lo}
  BY <1>1, PortOption, SMT
<1>. QED BY <1>1, <1>4, <1>5, SMT

-----------------------------------------------------------------------------
\* Sockets and frames.

LEMMA Emptied == /\ ToSet(<<>>) = {}
                 /\ \A f : ToSet(<<f>>) = {f} /\ OnceIn(<<>>, f)
BY DEF ToSet, OnceIn

\* A frame that comes to a socket.
LEMMA Appended ==
  ASSUME NEW S, NEW s \in Seq(S), NEW g \in S
  PROVE  /\ Append(s, g) \in Seq(S)
         /\ ToSet(Append(s, g)) = ToSet(s) \cup {g}
         /\ \A f : OnceIn(s, f) /\ (f # g \/ f \notin ToSet(s)) => OnceIn(Append(s, g), f)
<1>. DEFINE n == Len(s)
            a == Append(s, g)
<1>1. /\ n \in Nat /\ a \in Seq(S) /\ Len(a) = n + 1 /\ a[n + 1] = g
      /\ \A k \in 1..n : a[k] = s[k]
      /\ DOMAIN a = 1 .. n + 1 /\ DOMAIN s = 1..n
  BY AppendProperties, LenProperties
<1>. HIDE DEF a
<1>2. \A k \in 1 .. n + 1 : k \in 1..n \/ k = n + 1 BY <1>1
<1>3. n + 1 \in 1 .. n + 1 /\ \A k \in 1..n : k \in 1 .. n + 1 BY <1>1
<1>4. ToSet(a) = ToSet(s) \cup {g} BY <1>1, <1>2, <1>3, Zenon DEF ToSet
<1>5. ASSUME NEW f, OnceIn(s, f), f # g \/ f \notin ToSet(s) PROVE OnceIn(a, f)
  <2>. SUFFICES ASSUME NEW j \in 1 .. n + 1, NEW k \in 1 .. n + 1, a[j] = f, a[k] = f
                PROVE  j = k
    BY <1>1, Zenon DEF OnceIn
  <2>1. CASE f # g
    <3>1. j \in 1..n /\ k \in 1..n BY <1>1, <1>2, <2>1, Zenon
    <3>. QED BY <1>1, <1>5, <3>1, Zenon DEF OnceIn
  <2>2. CASE f \notin ToSet(s)
    <3>1. \A i \in 1..n : s[i] # f BY <1>1, <2>2, Zenon DEF ToSet
    <3>. QED BY <1>1, <1>2, <3>1, Zenon
  <2>. QED BY <1>5, <2>1, <2>2
<1>. QED BY <1>1, <1>4, <1>5 DEF a

\* A frame that is taken from a socket.
LEMMA Taken ==
  ASSUME NEW S, NEW s \in Seq(S), s # <<>>
  PROVE  /\ Head(s) \in S /\ Tail(s) \in Seq(S)
         /\ ToSet(s) = {Head(s)} \cup ToSet(Tail(s))
         /\ \A f : OnceIn(s, f) => /\ OnceIn(Tail(s), f)
                                   /\ f = Head(s) => f \notin ToSet(Tail(s))
<1>. DEFINE n == Len(s)
            t == Tail(s)
<1>1. /\ n \in Nat /\ n # 0 /\ Head(s) = s[1] /\ Head(s) \in S
      /\ t \in Seq(S) /\ Len(t) = n - 1 /\ \A k \in 1 .. n - 1 : t[k] = s[k + 1]
      /\ DOMAIN t = 1 .. n - 1 /\ DOMAIN s = 1..n
  BY HeadTailProperties, LenProperties, EmptySeq
<1>. HIDE DEF t
<1>2. /\ 1 \in 1..n
      /\ \A k \in 1..n : k = 1 \/ (k - 1 \in 1 .. n - 1 /\ k - 1 + 1 = k)
      /\ \A k \in 1 .. n - 1 : k + 1 \in 1..n /\ k + 1 # 1
      /\ \A j, k \in 1 .. n - 1 : j + 1 = k + 1 => j = k
  BY <1>1
<1>3. ToSet(s) = {Head(s)} \cup ToSet(t)
  <2>1. ASSUME NEW f \in ToSet(s) PROVE f \in {Head(s)} \cup ToSet(t)
    <3>1. PICK k \in 1..n : s[k] = f BY <1>1, Zenon DEF ToSet
    <3>2. CASE k = 1 BY <1>1, <3>1, <3>2, Zenon
    <3>3. CASE k # 1
      <4>1. k - 1 \in 1 .. n - 1 /\ t[k - 1] = f BY <1>1, <1>2, <3>1, <3>3, Zenon
      <4>. QED BY <1>1, <4>1, Zenon DEF ToSet
    <3>. QED BY <3>2, <3>3
  <2>2. ASSUME NEW f \in ToSet(t) PROVE f \in ToSet(s)
    <3>1. PICK k \in 1 .. n - 1 : t[k] = f BY <1>1, Zenon DEF ToSet
    <3>2. k + 1 \in 1..n /\ s[k + 1] = f BY <1>1, <1>2, <3>1, Zenon
    <3>. QED BY <1>1, <3>2, Zenon DEF ToSet
  <2>3. Head(s) \in ToSet(s) BY <1>1, <1>2, Zenon DEF ToSet
  <2>. QED BY <2>1, <2>2, <2>3, Zenon
<1>4. ASSUME NEW f, OnceIn(s, f) PROVE OnceIn(t, f) /\ (f = Head(s) => f \notin ToSet(t))
  <2>1. \A j, k \in 1..n : s[j] = f /\ s[k] = f => j = k BY <1>1, <1>4, Zenon DEF OnceIn
  <2>2. \A j, k \in 1 .. n - 1 : t[j] = f /\ t[k] = f => j = k
    <3>. SUFFICES ASSUME NEW j \in 1 .. n - 1, NEW k \in 1 .. n - 1, t[j] = f, t[k] = f
                  PROVE  j = k
      OBVIOUS
    <3>1. j + 1 \in 1..n /\ k + 1 \in 1..n /\ s[j + 1] = f /\ s[k + 1] = f
      BY <1>1, <1>2, Zenon
    <3>. QED BY <1>2, <2>1, <3>1, Zenon
  <2>3. ASSUME f = Head(s), NEW k \in 1 .. n - 1, t[k] = f PROVE FALSE
    <3>1. k + 1 \in 1..n /\ s[k + 1] = f /\ s[1] = f BY <1>1, <1>2, <2>3, Zenon
    <3>. QED BY <1>2, <2>1, <2>3, <3>1, Zenon
  <2>4. OnceIn(t, f) BY <1>1, <2>2, Zenon DEF OnceIn
  <2>5. f = Head(s) => f \notin ToSet(t) BY <1>1, <2>3, Zenon DEF ToSet
  <2>. QED BY <2>4, <2>5
<1>. QED BY <1>1, <1>3, <1>4 DEF t

LEMMA OneElement ==
  ASSUME NEW S, NEW s \in Seq(S), Len(s) = 1
  PROVE  s = <<s[1]>> /\ s[1] \in S /\ ToSet(s) = {s[1]}
<1>1. s[1] \in S BY ElementOfSeq
<1>2. s = <<s[1]>> OBVIOUS
<1>. QED BY <1>1, <1>2, Emptied, Zenon

\* The answer that client c waits for.
MyAck(c) == Ack(c, setup[c].port)

\* What a frame of each kind looks like.
Kind(f) ==
  \/ f.op = "request" /\ f.about \in Clients /\ f = Request(f.about) /\ f.to = Server
     /\ f.port = Server
  \/ f.op = "ack" /\ f.about \in Clients /\ f = MyAck(f.about)
     /\ f.to = AnswerTo(f.about) /\ f.port = setup[f.about].port
  \/ f.op = "other" /\ f.about = Server

LEMMA Kinds == \A f \in Frames : Kind(f)
<1>. TAKE f \in Frames
<1>1. CASE f \in {Request(c) : c \in Clients} BY <1>1 DEF Request, Kind
<1>2. CASE f \in {Ack(c, setup[c].port) : c \in Clients} BY <1>2 DEF Ack, MyAck, Kind
<1>3. CASE f \in {Other(HostOf(x)) : x \in Parties} BY <1>3 DEF Other, Kind
<1>. QED BY <1>1, <1>2, <1>3, Zenon DEF Frames

\* The frames of different exchanges, and of one exchange, are different.
LEMMA Differ ==
  /\ \A c, d : Request(c) = Request(d) => c = d
  /\ \A c, d : MyAck(c) = MyAck(d) => c = d
  /\ \A c, d : Request(c) # MyAck(d)
  /\ \A c, h : Request(c) # Other(h) /\ MyAck(c) # Other(h)
  /\ \A c : Request(c).op = "request" /\ Request(c).about = c
  /\ \A c : MyAck(c).op = "ack" /\ MyAck(c).about = c /\ MyAck(c).port = setup[c].port
BY DEF Request, MyAck, Ack, Other

LEMMA AreFrames ==
  /\ \A c \in Clients : Request(c) \in Frames /\ MyAck(c) \in Frames
  /\ \A x \in Parties : Other(HostOf(x)) \in Frames
BY DEF Frames, MyAck

\* An answer for c is the answer that c waits for.
LEMMA AcksFor ==
  ASSUME NEW c \in Clients, NEW F, F \subseteq Frames
  PROVE  (\E f \in F : IsAckFor(c, f)) <=> MyAck(c) \in F
<1>1. \A f \in Frames : IsAckFor(c, f) => f = MyAck(c) BY Kinds, SMT DEF Kind, IsAckFor
<1>2. IsAckFor(c, MyAck(c)) BY Differ, Zenon DEF IsAckFor
<1>. QED BY <1>1, <1>2, Zenon

-----------------------------------------------------------------------------
\* Where a client's exchange is: the seven places, and the property OnePlace of
\* one client in their terms.

AtWire(c)     == Request(c) \in wire
AtSocket(c)   == Request(c) \in ToSet(buf[Server])
AtServer(c)   == cur[Server] = <<Request(c)>> /\ pc[Server] = "process"
BackWire(c)   == MyAck(c) \in wire
BackSocket(c) == MyAck(c) \in ToSet(buf[c])
BackHome(c)   == c \in GOT_IT \/ MyAck(c) \in ToSet(cur[c])
Missed(c)     == c \in missed

Silent(c) == pc[c] \in {"send", "refused"}

Nowhere(a1, a2, a3, a4, a5, a6, a7) == ~a1 /\ ~a2 /\ ~a3 /\ ~a4 /\ ~a5 /\ ~a6 /\ ~a7

Somewhere(a1, a2, a3, a4, a5, a6, a7) ==
  \/ a1 /\ ~a2 /\ ~a3 /\ ~a4 /\ ~a5 /\ ~a6 /\ ~a7
  \/ ~a1 /\ a2 /\ ~a3 /\ ~a4 /\ ~a5 /\ ~a6 /\ ~a7
  \/ ~a1 /\ ~a2 /\ a3 /\ ~a4 /\ ~a5 /\ ~a6 /\ ~a7
  \/ ~a1 /\ ~a2 /\ ~a3 /\ a4 /\ ~a5 /\ ~a6 /\ ~a7
  \/ ~a1 /\ ~a2 /\ ~a3 /\ ~a4 /\ a5 /\ ~a6 /\ ~a7
  \/ ~a1 /\ ~a2 /\ ~a3 /\ ~a4 /\ ~a5 /\ a6 /\ ~a7
  \/ ~a1 /\ ~a2 /\ ~a3 /\ ~a4 /\ ~a5 /\ ~a6 /\ a7

PlaceOf(c) ==
  /\ Silent(c) => Nowhere(AtWire(c), AtSocket(c), AtServer(c), BackWire(c), BackSocket(c),
                          BackHome(c), Missed(c))
  /\ ~Silent(c) /\ c \notin GOT_IT
       => Somewhere(AtWire(c), AtSocket(c), AtServer(c), BackWire(c), BackSocket(c),
                    BackHome(c), Missed(c))

SevenPlaces == {"request under way", "server socket", "server", "ack under way",
                "client socket", "client", "missed"}

Marked(a1, a2, a3, a4, a5, a6, a7) ==
  {pl \in SevenPlaces :
     \/ pl = "request under way" /\ a1
     \/ pl = "server socket" /\ a2
     \/ pl = "server" /\ a3
     \/ pl = "ack under way" /\ a4
     \/ pl = "client socket" /\ a5
     \/ pl = "client" /\ a6
     \/ pl = "missed" /\ a7}

PlacesCounted(a1, a2, a3, a4, a5, a6, a7) ==
  /\ Marked(a1, a2, a3, a4, a5, a6, a7) = {} <=> Nowhere(a1, a2, a3, a4, a5, a6, a7)
  /\ Cardinality(Marked(a1, a2, a3, a4, a5, a6, a7)) = 1
       <=> Somewhere(a1, a2, a3, a4, a5, a6, a7)

\* A set of places has one element if one place is marked and no other.
LEMMA CountPlaces ==
  ASSUME NEW a1, NEW a2, NEW a3, NEW a4, NEW a5, NEW a6, NEW a7
  PROVE  PlacesCounted(a1, a2, a3, a4, a5, a6, a7)
<1>. DEFINE M == Marked(a1, a2, a3, a4, a5, a6, a7)
<1>1. /\ M \subseteq SevenPlaces
      /\ "request under way" \in M <=> a1
      /\ "server socket" \in M <=> a2
      /\ "server" \in M <=> a3
      /\ "ack under way" \in M <=> a4
      /\ "client socket" \in M <=> a5
      /\ "client" \in M <=> a6
      /\ "missed" \in M <=> a7
  BY DEF Marked, SevenPlaces
<1>. HIDE DEF M
<1>2. M = {} <=> Nowhere(a1, a2, a3, a4, a5, a6, a7) BY <1>1 DEF Nowhere, SevenPlaces
<1>3. (\E pl : M = {pl}) <=> Somewhere(a1, a2, a3, a4, a5, a6, a7)
  <2>1. ASSUME NEW pl, M = {pl} PROVE Somewhere(a1, a2, a3, a4, a5, a6, a7)
    <3>1. pl \in SevenPlaces BY <1>1, <2>1
    <3>. QED BY <1>1, <2>1, <3>1 DEF Somewhere, SevenPlaces
  <2>2. ASSUME Somewhere(a1, a2, a3, a4, a5, a6, a7) PROVE \E pl : M = {pl}
    <3>1. \E pl \in M : \A o \in M : o = pl BY <1>1, <2>2 DEF Somewhere, SevenPlaces
    <3>2. PICK pl \in M : \A o \in M : o = pl BY <3>1
    <3>3. M = {pl} BY <3>2
    <3>. QED BY <3>3
  <2>. QED BY <2>1, <2>2
<1>4. IsFiniteSet(M)
  <2>1. IsFiniteSet(SevenPlaces)
    <3>1. IsFiniteSet({}) BY FS_EmptySet
    <3>2. IsFiniteSet({} \cup {"missed"}) BY <3>1, FS_AddElement, Zenon
    <3>3. IsFiniteSet(({} \cup {"missed"}) \cup {"client"}) BY <3>2, FS_AddElement, Zenon
    <3>4. IsFiniteSet((({} \cup {"missed"}) \cup {"client"}) \cup {"client socket"})
      BY <3>3, FS_AddElement, Zenon
    <3>5. IsFiniteSet(((({} \cup {"missed"}) \cup {"client"}) \cup {"client socket"})
                      \cup {"ack under way"})
      BY <3>4, FS_AddElement, Zenon
    <3>6. IsFiniteSet((((({} \cup {"missed"}) \cup {"client"}) \cup {"client socket"})
                       \cup {"ack under way"}) \cup {"server"})
      BY <3>5, FS_AddElement, Zenon
    <3>7. IsFiniteSet(((((({} \cup {"missed"}) \cup {"client"}) \cup {"client socket"})
                        \cup {"ack under way"}) \cup {"server"}) \cup {"server socket"})
      BY <3>6, FS_AddElement, Zenon
    <3>8. IsFiniteSet((((((({} \cup {"missed"}) \cup {"client"}) \cup {"client socket"})
                         \cup {"ack under way"}) \cup {"server"}) \cup {"server socket"})
                      \cup {"request under way"})
      BY <3>7, FS_AddElement, Zenon
    <3>9. SevenPlaces = (((((({} \cup {"missed"}) \cup {"client"}) \cup {"client socket"})
                         \cup {"ack under way"}) \cup {"server"}) \cup {"server socket"})
                      \cup {"request under way"}
      BY Zenon DEF SevenPlaces
    <3>. QED BY <3>8, <3>9
  <2>. QED BY <1>1, <2>1, FS_Subset
<1>5. Cardinality(M) = 1 <=> \E pl : M = {pl} BY <1>4, FS_Singleton
<1>. QED BY <1>2, <1>3, <1>5 DEF M, PlacesCounted

LEMMA PlacesMarked ==
  ASSUME TypeOK, NEW c \in Clients
  PROVE  Places(c) = Marked(AtWire(c), AtSocket(c), AtServer(c), BackWire(c), BackSocket(c),
                            BackHome(c), Missed(c))
<1>1. wire \subseteq Frames BY DEF TypeOK
<1>2. c \in Parties /\ buf[c] \in Seq(Frames) /\ cur[c] \in Seq(Frames)
  BY DEF TypeOK, Parties
<1>3. ToSet(buf[c]) \subseteq Frames /\ ToSet(cur[c]) \subseteq Frames
  BY <1>2, ElementOfSeq DEF ToSet
<1>4. /\ (\E f \in wire : IsAckFor(c, f)) <=> MyAck(c) \in wire
      /\ (\E f \in ToSet(buf[c]) : IsAckFor(c, f)) <=> MyAck(c) \in ToSet(buf[c])
      /\ (\E f \in ToSet(cur[c]) : IsAckFor(c, f)) <=> MyAck(c) \in ToSet(cur[c])
  BY <1>1, <1>3, AcksFor
<1>. QED BY <1>4, Zenon DEF Places, Marked, SevenPlaces, AtWire, AtSocket, AtServer, BackWire,
            BackSocket, BackHome, Missed

PlacesOK == \A c \in Clients : PlaceOf(c)

\* OnePlace says PlaceOf of every client, in this state and in the next.
LEMMA PlacesAre == TypeOK => (OnePlace <=> PlacesOK)
<1>. SUFFICES ASSUME TypeOK PROVE OnePlace <=> PlacesOK OBVIOUS
<1>1. ASSUME NEW c \in Clients
      PROVE  /\ Places(c) = {} <=> Nowhere(AtWire(c), AtSocket(c), AtServer(c), BackWire(c),
                                          BackSocket(c), BackHome(c), Missed(c))
             /\ Cardinality(Places(c)) = 1
                  <=> Somewhere(AtWire(c), AtSocket(c), AtServer(c), BackWire(c),
                                BackSocket(c), BackHome(c), Missed(c))
  <2>1. Places(c) = Marked(AtWire(c), AtSocket(c), AtServer(c), BackWire(c), BackSocket(c),
                           BackHome(c), Missed(c))
    BY PlacesMarked
  <2>2. PlacesCounted(AtWire(c), AtSocket(c), AtServer(c), BackWire(c), BackSocket(c),
                      BackHome(c), Missed(c))
    BY CountPlaces, Zenon
  <2>. QED BY <2>1, <2>2, Zenon DEF PlacesCounted
<1>. QED BY <1>1, Zenon DEF OnePlace, PlaceOf, PlacesOK, Silent

LEMMA PlacesWillBe == TypeOK' => (OnePlace' <=> PlacesOK')
BY PlacesAre, PTL

-----------------------------------------------------------------------------
\* The invariant in the parts that the steps are seen to keep.

PCs == {"send", "refused", "open", "recv", "process", "close", "done"}

Fixed == UNCHANGED <<prog, setup, FdLimit>>

StartOK == prog \in {"mdhcp", "datetime"} /\ FdLimit \in Nat \ {0}

\* An answer is about one of these clients.
AckAbout(f, A) == f.op = "ack" => f.about \in A

NetOK == \A f \in wire : f \in Frames /\ f.op # "other" /\ AckAbout(f, answered)

\* A party at p with b in its socket and k in its receive buffer.
Party(x, p, b, k, A) ==
  /\ b \in Seq(Frames) /\ k \in Seq(Frames)
  /\ \A f \in ToSet(b) \cup ToSet(k) : f.to = HostOf(x) /\ AckAbout(f, A)
  /\ Len(k) = IF p \in {"process", "close"} THEN 1 ELSE 0
  /\ p \in {"recv", "process", "close"} \/ b = <<>>
  /\ x \in Clients /\ p \notin {"send", "refused"} => ValidPort(x)

PartyOK(x) == Party(x, pc[x], buf[x], cur[x], answered)

SocketsOK == /\ pc \in [Parties -> PCs]
             /\ buf \in [Parties -> Seq(Frames)]
             /\ cur \in [Parties -> Seq(Frames)]
             /\ \A x \in Parties : PartyOK(x)

CountersOK == /\ GOT_IT \subseteq Clients /\ answered \subseteq Clients /\ missed \subseteq Clients
              /\ leaked \in 0..FdLimit /\ noise \in 0..MaxNoise /\ errors \in 0..MaxErrors

OnceOf(c) == c \notin GOT_IT => /\ OnceIn(buf[Server], Request(c))
                                /\ OnceIn(buf[c], MyAck(c))
                                /\ pc[c] = "close" => MyAck(c) \notin ToSet(cur[c])

OnceOK == \A c \in Clients : OnceOf(c)

LeaksOK == LeakInv /\ MuteNotDeaf

Whole == StartOK /\ NetOK /\ SocketsOK /\ CountersOK /\ PlacesOK /\ OnceOK /\ LeaksOK

LEMMA Parts == IInv <=> Whole
<1>1. TypeOK /\ AnswerInv <=> StartOK /\ NetOK /\ SocketsOK /\ CountersOK
  <2>1. ASSUME TypeOK, AnswerInv PROVE StartOK /\ NetOK /\ SocketsOK /\ CountersOK
    <3>1. StartOK /\ CountersOK BY <2>1, Zenon DEF TypeOK, StartOK, CountersOK
    <3>2. NetOK BY <2>1 DEF TypeOK, AnswerInv, NetOK, AckAbout
    <3>3. /\ pc \in [Parties -> PCs]
          /\ buf \in [Parties -> Seq(Frames)]
          /\ cur \in [Parties -> Seq(Frames)]
      BY <2>1, Zenon DEF TypeOK, PCs
    <3>4. ASSUME NEW x \in Parties PROVE PartyOK(x)
      <4>1. buf[x] \in Seq(Frames) /\ cur[x] \in Seq(Frames) BY <3>3
      <4>2. \A f \in ToSet(buf[x]) \cup ToSet(cur[x]) :
               f.to = HostOf(x) /\ (f.op = "ack" => f.about \in answered)
        BY <2>1, Zenon DEF TypeOK, AnswerInv
      <4>3. /\ Len(cur[x]) = IF pc[x] \in {"process", "close"} THEN 1 ELSE 0
            /\ pc[x] \in {"recv", "process", "close"} \/ buf[x] = <<>>
        BY <2>1, Zenon DEF TypeOK, Listening
      <4>4. x \in Clients /\ pc[x] \notin {"send", "refused"} => ValidPort(x)
        BY <2>1, Zenon DEF AnswerInv
      <4>. QED BY <4>1, <4>2, <4>3, <4>4, Zenon DEF PartyOK, Party, AckAbout
    <3>. QED BY <3>1, <3>2, <3>3, <3>4, Zenon DEF SocketsOK
  <2>2. ASSUME StartOK, NetOK, SocketsOK, CountersOK PROVE TypeOK /\ AnswerInv
    <3>1. wire \subseteq {f \in Frames : f.op # "other"} BY <2>2 DEF NetOK
    <3>2. \A f \in wire : f.op = "ack" => f.about \in answered BY <2>2, Zenon DEF NetOK, AckAbout
    <3>3. \A x \in Parties :
             /\ \A f \in ToSet(buf[x]) \cup ToSet(cur[x]) :
                   f.to = HostOf(x) /\ (f.op = "ack" => f.about \in answered)
             /\ Len(cur[x]) = IF pc[x] \in {"process", "close"} THEN 1 ELSE 0
             /\ pc[x] \in {"recv", "process", "close"} \/ buf[x] = <<>>
             /\ x \in Clients /\ pc[x] \notin {"send", "refused"} => ValidPort(x)
      BY <2>2, Zenon DEF SocketsOK, PartyOK, Party, AckAbout
    <3>4. \A c \in Clients : c \in Parties BY DEF Parties
    <3>5. AnswerInv BY <3>2, <3>3, <3>4, Zenon DEF AnswerInv
    <3>6. TypeOK
      BY <2>2, <3>1, <3>3, Zenon DEF TypeOK, StartOK, SocketsOK, CountersOK, PCs, Listening
    <3>. QED BY <3>5, <3>6
  <2>. QED BY <2>1, <2>2
<1>2. OnceInv <=> OnceOK BY Zenon DEF OnceInv, OnceOK, OnceOf, MyAck
<1>3. TypeOK => (OnePlace <=> PlacesOK) BY PlacesAre
<1>. QED BY <1>1, <1>2, <1>3, Zenon DEF IInv, Whole, LeaksOK

LEMMA NextParts == IInv' <=> Whole'
BY Parts, PTL

-----------------------------------------------------------------------------
\* What the steps have in common.

LEMMA SameNames ==
  ASSUME Fixed
  PROVE  /\ Frames' = Frames
         /\ \A c : MyAck(c)' = MyAck(c)
         /\ \A x : HostOf(x)' = HostOf(x)
         /\ \A c : ValidPort(c)' <=> ValidPort(c)
<1>1. prog' = prog /\ setup' = setup BY DEF Fixed
<1>2. \A x : HostOf(x)' = HostOf(x) BY <1>1, Zenon DEF HostOf
<1>3. \A c : AnswerTo(c)' = AnswerTo(c) BY <1>1, Zenon DEF AnswerTo
<1>4. \A c : MyAck(c)' = MyAck(c) BY <1>1, <1>3, Zenon DEF MyAck, Ack
<1>5. Frames' = Frames
  <2>1. {Ack(c, setup[c].port) : c \in Clients}' = {Ack(c, setup[c].port) : c \in Clients}
    <3>1. \A c \in Clients : Ack(c, setup[c].port)' = Ack(c, setup[c].port)
      BY <1>4, Zenon DEF MyAck
    <3>. QED BY <3>1
  <2>2. {Other(HostOf(x)) : x \in Parties}' = {Other(HostOf(x)) : x \in Parties}
    <3>1. \A x \in Parties : Other(HostOf(x))' = Other(HostOf(x)) BY <1>2, Zenon DEF Other
    <3>. QED BY <3>1 DEF Parties
  <2>3. {Request(c) : c \in Clients}' = {Request(c) : c \in Clients}
    <3>1. \A c \in Clients : Request(c)' = Request(c) BY Zenon DEF Request
    <3>. QED BY <3>1, SMTT(30)
  <2>. QED BY <2>1, <2>2, <2>3, SMT DEF Frames
<1>6. \A c : ValidPort(c)' <=> ValidPort(c) BY <1>1, SMT DEF ValidPort
<1>. QED BY <1>2, <1>4, <1>5, <1>6

Goes(x, from, to) == /\ pc[x] = from /\ pc' \in [Parties -> PCs] /\ pc'[x] = to
                     /\ \A y \in Parties : y # x => pc'[y] = pc[y]

LEMMA Went ==
  ASSUME SocketsOK, NEW x \in Parties, NEW from, NEW to \in PCs, Step(x, from, to)
  PROVE  Goes(x, from, to)
BY DEF SocketsOK, Goes, Step

Members == /\ Server \in Parties /\ \A c \in Clients : c \in Parties /\ c # Server
           /\ \A x \in Parties : x = Server \/ x \in Clients

LEMMA MembersAre == Members
BY ServerAssumption DEF Members, Parties

\* A party in the next state, in terms of this one's names.
LEMMA PartyNext ==
  ASSUME Fixed, NEW x, Party(x, pc'[x], buf'[x], cur'[x], answered')
  PROVE  PartyOK(x)'
BY SameNames, Zenon DEF PartyOK, Party

LEMMA PartyGrows ==
  ASSUME NEW x, NEW p, NEW b, NEW k, NEW A, NEW B, A \subseteq B, Party(x, p, b, k, A)
  PROVE  Party(x, p, b, k, B)
BY Zenon DEF Party, AckAbout

\* A party goes to another place, with b in its socket and k in its buffer.
Moves(x, from, to, b, k) ==
  /\ x \in Parties /\ Goes(x, from, to)
  /\ buf' = [buf EXCEPT ![x] = b] /\ cur' = [cur EXCEPT ![x] = k]
  /\ answered \subseteq answered' /\ Party(x, to, b, k, answered')

\* One party's step leaves the others as they are.
LEMMA SocketsKept ==
  ASSUME SocketsOK, Fixed, NEW x, NEW from, NEW to, NEW b, NEW k, Moves(x, from, to, b, k)
  PROVE  SocketsOK'
<1>0. /\ x \in Parties /\ Goes(x, from, to)
      /\ buf' = [buf EXCEPT ![x] = b] /\ cur' = [cur EXCEPT ![x] = k]
      /\ answered \subseteq answered' /\ Party(x, to, b, k, answered')
  BY Zenon DEF Moves
<1>1. b \in Seq(Frames) /\ k \in Seq(Frames) BY <1>0, Zenon DEF Party
<1>2. buf' \in [Parties -> Seq(Frames)] /\ cur' \in [Parties -> Seq(Frames)]
  BY <1>0, <1>1 DEF SocketsOK
<1>3. /\ buf'[x] = b /\ cur'[x] = k
      /\ \A y \in Parties : y # x => buf'[y] = buf[y] /\ cur'[y] = cur[y]
  BY <1>0 DEF SocketsOK
<1>4. ASSUME NEW y \in Parties PROVE PartyOK(y)'
  <2>1. CASE y = x BY <1>0, <1>3, <2>1, PartyNext, Zenon DEF Goes
  <2>2. CASE y # x
    <3>1. Party(y, pc[y], buf[y], cur[y], answered) BY Zenon DEF SocketsOK, PartyOK
    <3>2. Party(y, pc[y], buf[y], cur[y], answered') BY <1>0, <3>1, PartyGrows
    <3>3. pc'[y] = pc[y] /\ buf'[y] = buf[y] /\ cur'[y] = cur[y]
      BY <1>0, <1>3, <2>2, Zenon DEF Goes
    <3>. QED BY <3>2, <3>3, PartyNext, Zenon
  <2>. QED BY <2>1, <2>2
<1>5. Parties' = Parties /\ PCs' = PCs BY DEF Parties, PCs
<1>. QED BY <1>0, <1>2, <1>4, <1>5, SameNames, Zenon DEF SocketsOK, Goes

LEMMA NetKept ==
  ASSUME NetOK, Fixed, wire' \subseteq wire, answered \subseteq answered'
  PROVE  NetOK'
BY SameNames, Zenon DEF NetOK, AckAbout

\* A client whose exchange stays where it is.
LEMMA PlaceKept ==
  ASSUME NEW c \in Clients, PlaceOf(c), Silent(c)' <=> Silent(c), c \in GOT_IT' <=> c \in GOT_IT,
         AtWire(c)' <=> AtWire(c), AtSocket(c)' <=> AtSocket(c), AtServer(c)' <=> AtServer(c),
         BackWire(c)' <=> BackWire(c), BackSocket(c)' <=> BackSocket(c),
         BackHome(c)' <=> BackHome(c), Missed(c)' <=> Missed(c)
  PROVE  PlaceOf(c)'
BY SMT DEF PlaceOf, Nowhere, Somewhere

\* OnceOK of the next state, in terms of this one's names.
LEMMA OnceNext ==
  ASSUME Fixed,
         \A c \in Clients : c \notin GOT_IT' =>
            /\ OnceIn(buf'[Server], Request(c))
            /\ OnceIn(buf'[c], MyAck(c))
            /\ pc'[c] = "close" => MyAck(c) \notin ToSet(cur'[c])
  PROVE  OnceOK'
<1>1. \A c : Request(c)' = Request(c) BY Zenon DEF Request
<1>2. \A c : MyAck(c)' = MyAck(c) BY SameNames
<1>3. ASSUME NEW c \in Clients, c \notin GOT_IT' PROVE OnceOf(c)'
  <2>1. OnceIn(buf[Server], Request(c))' BY <1>1, <1>3, Zenon DEF OnceIn
  <2>2. OnceIn(buf[c], MyAck(c))' BY <1>2, <1>3, Zenon DEF OnceIn
  <2>3. (pc[c] = "close" => MyAck(c) \notin ToSet(cur[c]))' BY <1>2, <1>3, Zenon
  <2>. QED BY <2>1, <2>2, <2>3, Zenon DEF OnceOf
<1>4. \A c \in Clients : OnceOf(c)' BY <1>3, Zenon DEF OnceOf
<1>. QED BY <1>4, Zenon DEF OnceOK

-----------------------------------------------------------------------------
\* The steps that only change where a party is: a socket is opened, a frame or
\* the arguments are refused.

OnlyPc(x, from, to) ==
  /\ x \in Parties /\ to \in PCs /\ Step(x, from, to)
  /\ UNCHANGED <<prog, setup, FdLimit, wire, buf, cur, GOT_IT, leaked, answered, missed,
                 noise, errors>>
  /\ from \in {"process", "close"} <=> to \in {"process", "close"}
  /\ from \in {"recv", "process", "close"} => to \in {"recv", "process", "close"}
  /\ from \in {"send", "refused"} <=> to \in {"send", "refused"}
  /\ x = Server => /\ to # "process"
                   /\ from = "process" => \A c \in Clients : cur[Server] # <<Request(c)>>
                   /\ to = "recv" => leaked < FdLimit
  /\ to = "close" /\ x \in Clients => x \in GOT_IT \/ MyAck(x) \notin ToSet(cur[x])

LEMMA PcOnly ==
  ASSUME IInv, NEW x, NEW from, NEW to, OnlyPc(x, from, to)
  PROVE  IInv'
<1>. USE DEF OnlyPc
<1>0. Whole /\ Members BY Parts, MembersAre, Zenon
<1>1. SocketsOK /\ Goes(x, from, to) BY <1>0, Went, Zenon DEF Whole
<1>2. Fixed BY DEF Fixed
<1>3. StartOK' /\ NetOK' /\ CountersOK'
  <2>1. StartOK' BY <1>0, <1>2 DEF Whole, StartOK, Fixed
  <2>2. NetOK' BY <1>0, <1>2, NetKept DEF Whole
  <2>3. CountersOK' BY <1>0, Zenon DEF Whole, CountersOK
  <2>. QED BY <2>1, <2>2, <2>3
<1>4. SocketsOK'
  <2>1. Party(x, from, buf[x], cur[x], answered) BY <1>1, Zenon DEF SocketsOK, PartyOK, Goes
  <2>2. Party(x, to, buf[x], cur[x], answered) BY <2>1, Zenon DEF Party
  <2>3. buf' = [buf EXCEPT ![x] = buf[x]] /\ cur' = [cur EXCEPT ![x] = cur[x]]
    BY <1>1 DEF SocketsOK
  <2>4. answered' = answered OBVIOUS
  <2>5. Moves(x, from, to, buf[x], cur[x]) BY <1>1, <2>2, <2>3, <2>4, Zenon DEF Moves
  <2>. QED BY <1>1, <1>2, <2>5, SocketsKept, Zenon
<1>5. PlacesOK'
  <2>1. SUFFICES ASSUME NEW c \in Clients PROVE PlaceOf(c)' BY Zenon DEF PlacesOK
  <2>2. PlaceOf(c) BY <1>0, Zenon DEF Whole, PlacesOK
  <2>3. MyAck(c)' = MyAck(c) /\ Request(c)' = Request(c) BY <1>2, SameNames, Zenon DEF Request
  <2>4. Silent(c)' <=> Silent(c)
    <3>1. c \in Parties BY <1>0, Zenon DEF Members
    <3>. QED BY <1>1, <3>1, Zenon DEF Goes, Silent
  <2>5. AtServer(c)' <=> AtServer(c)
    <3>1. CASE x = Server
      <4>1. ~AtServer(c) BY <1>1, <3>1, Zenon DEF Goes, AtServer
      <4>2. ~AtServer(c)' BY <1>1, <3>1, Zenon DEF Goes, AtServer
      <4>. QED BY <4>1, <4>2
    <3>2. CASE x # Server
      <4>1. pc'[Server] = pc[Server] BY <1>0, <1>1, <3>2, Zenon DEF Goes, Members
      <4>. QED BY <2>3, <4>1, Zenon DEF AtServer
    <3>. QED BY <3>1, <3>2
  <2>6. /\ AtWire(c)' <=> AtWire(c)
        /\ AtSocket(c)' <=> AtSocket(c)
        /\ BackWire(c)' <=> BackWire(c)
        /\ BackSocket(c)' <=> BackSocket(c)
        /\ BackHome(c)' <=> BackHome(c)
        /\ Missed(c)' <=> Missed(c)
    BY <2>3, Zenon DEF AtWire, AtSocket, BackWire, BackSocket, BackHome, Missed
  <2>7. c \in GOT_IT' <=> c \in GOT_IT OBVIOUS
  <2>. QED BY <2>2, <2>4, <2>5, <2>6, <2>7, PlaceKept
<1>6. OnceOK'
  <2>1. SUFFICES ASSUME NEW c \in Clients PROVE OnceOf(c)' BY Zenon DEF OnceOK
  <2>2. OnceOf(c) BY <1>0, Zenon DEF Whole, OnceOK
  <2>3. MyAck(c)' = MyAck(c) /\ Request(c)' = Request(c) BY <1>2, SameNames, Zenon DEF Request
  <2>4. c \notin GOT_IT /\ pc'[c] = "close" => MyAck(c) \notin ToSet(cur[c])
    <3>1. c \in Parties BY <1>0, Zenon DEF Members
    <3>2. CASE c = x BY <1>1, <3>2, Zenon DEF Goes
    <3>3. CASE c # x BY <1>1, <2>2, <3>1, <3>3, Zenon DEF Goes, OnceOf
    <3>. QED BY <3>2, <3>3
  <2>. QED BY <2>2, <2>3, <2>4, Zenon DEF OnceOf, OnceIn
<1>7. LeaksOK'
  <2>1. LeakInv /\ MuteNotDeaf BY <1>0, Zenon DEF Whole, LeaksOK
  <2>2. pc'[Server] \in {"recv", "process"} => leaked < FdLimit
    <3>1. CASE x = Server BY <1>1, <3>1, Zenon DEF Goes
    <3>2. CASE x # Server BY <1>0, <1>1, <2>1, <3>2, Zenon DEF Goes, Members, LeakInv
    <3>. QED BY <3>1, <3>2
  <2>3. LeakInv' BY <2>1, <2>2, Zenon DEF LeakInv
  <2>4. MuteNotDeaf' BY <2>1, Zenon DEF MuteNotDeaf
  <2>. QED BY <2>3, <2>4, Zenon DEF LeaksOK
<1>. QED BY <1>3, <1>4, <1>5, <1>6, <1>7, NextParts, Zenon DEF Whole

\* What a party that processes a frame has in its buffer.
LEMMA InBuffer ==
  ASSUME IInv, NEW x \in Parties, pc[x] \in {"process", "close"}
  PROVE  /\ cur[x] = <<cur[x][1]>> /\ cur[x][1] \in Frames /\ Kind(cur[x][1])
         /\ ToSet(cur[x]) = {cur[x][1]} /\ AckAbout(cur[x][1], answered)
         /\ cur[x][1].to = HostOf(x)
<1>1. Party(x, pc[x], buf[x], cur[x], answered) BY Parts, Zenon DEF Whole, SocketsOK, PartyOK
<1>2. cur[x] \in Seq(Frames) /\ Len(cur[x]) = 1 BY <1>1, SMT DEF Party
<1>3. cur[x] = <<cur[x][1]>> /\ cur[x][1] \in Frames /\ ToSet(cur[x]) = {cur[x][1]}
  BY <1>2, OneElement
<1>4. cur[x][1] \in ToSet(buf[x]) \cup ToSet(cur[x]) BY <1>3
<1>5. AckAbout(cur[x][1], answered) /\ cur[x][1].to = HostOf(x) BY <1>1, <1>4, Zenon DEF Party
<1>. QED BY <1>3, <1>5, Kinds

LEMMA OpenKeeps == ASSUME IInv, NEW x \in Parties, Open(x) PROVE IInv'
<1>1. x = Server => leaked < FdLimit BY DEF Open, SocketAvailable
<1>2. OnlyPc(x, "open", "recv") BY <1>1 DEF Open, OnlyPc, PCs
<1>. QED BY <1>2, PcOnly

LEMMA IgnoreKeeps == ASSUME IInv, Ignore PROVE IInv'
<1>1. pc[Server] = "process" /\ ~IsRequest(cur[Server][1]) BY DEF Ignore, Step
<1>2. \A c \in Clients : cur[Server] # <<Request(c)>>
  <2>1. SUFFICES ASSUME NEW c \in Clients, cur[Server] = <<Request(c)>> PROVE FALSE OBVIOUS
  <2>2. cur[Server][1] = Request(c) BY <2>1
  <2>3. IsRequest(Request(c)) BY DEF IsRequest, Request
  <2>. QED BY <1>1, <2>2, <2>3
<1>3. Server \in Parties /\ Server \notin Clients BY MembersAre DEF Members
<1>4. OnlyPc(Server, "process", "close") BY <1>2, <1>3 DEF Ignore, OnlyPc, PCs
<1>. QED BY <1>4, PcOnly

LEMMA RefuseKeeps == ASSUME IInv, NEW c \in Clients, Refuse(c) PROVE IInv'
<1>1. c \in Parties /\ c # Server BY MembersAre DEF Members
<1>2. OnlyPc(c, "send", "refused") BY <1>1 DEF Refuse, OnlyPc, PCs
<1>. QED BY <1>2, PcOnly

LEMMA DropKeeps == ASSUME IInv, NEW c \in Clients, Drop(c) PROVE IInv'
<1>1. c \in Parties /\ c # Server BY MembersAre DEF Members
<1>2. pc[c] = "process" /\ ~IsAck(c, cur[c][1]) BY DEF Drop, Step
<1>3. ToSet(cur[c]) = {cur[c][1]} BY <1>1, <1>2, InBuffer
<1>4. MyAck(c) # cur[c][1] BY <1>2, Differ, Zenon DEF IsAck
<1>5. MyAck(c) \notin ToSet(cur[c]) BY <1>3, <1>4
<1>6. OnlyPc(c, "process", "close") BY <1>1, <1>5 DEF Drop, OnlyPc, PCs
<1>. QED BY <1>6, PcOnly

\* What the parts of the invariant say of one client and of one party.
LEMMA OfClient ==
  ASSUME IInv, NEW c \in Clients
  PROVE  /\ PlaceOf(c) /\ OnceOf(c)
         /\ c \in GOT_IT => ~Silent(c)
         /\ c \in Parties /\ c # Server
<1>1. PlaceOf(c) /\ OnceOf(c) BY Parts, Zenon DEF Whole, PlacesOK, OnceOK
<1>2. c \in GOT_IT => ~Silent(c) BY <1>1, Zenon DEF PlaceOf, Nowhere, BackHome
<1>. QED BY <1>1, <1>2, MembersAre, Zenon DEF Members

LEMMA OfParty ==
  ASSUME IInv, NEW x \in Parties
  PROVE  /\ Party(x, pc[x], buf[x], cur[x], answered)
         /\ buf[x] \in Seq(Frames) /\ cur[x] \in Seq(Frames)
         /\ pc[x] \notin {"process", "close"} => cur[x] = <<>> /\ ToSet(cur[x]) = {}
         /\ pc[x] \notin {"recv", "process", "close"} => buf[x] = <<>>
<1>1. Party(x, pc[x], buf[x], cur[x], answered) BY Parts, Zenon DEF Whole, SocketsOK, PartyOK
<1>2. buf[x] \in Seq(Frames) /\ cur[x] \in Seq(Frames) BY <1>1, Zenon DEF Party
<1>3. pc[x] \notin {"process", "close"} => cur[x] = <<>>
  <2>1. pc[x] \notin {"process", "close"} => Len(cur[x]) = 0 BY <1>1, Zenon DEF Party
  <2>. QED BY <1>2, <2>1, EmptySeq
<1>4. pc[x] \notin {"recv", "process", "close"} => buf[x] = <<>> BY <1>1, Zenon DEF Party
<1>. QED BY <1>1, <1>2, <1>3, <1>4, Emptied

\* Socket and buffer of one party after a step that changes no other's.
LEMMA OneChanges ==
  ASSUME IInv, NEW x \in Parties, NEW b, NEW k,
         buf' = [buf EXCEPT ![x] = b], cur' = [cur EXCEPT ![x] = k]
  PROVE  /\ buf'[x] = b /\ cur'[x] = k
         /\ \A y \in Parties : y # x => buf'[y] = buf[y] /\ cur'[y] = cur[y]
<1>1. buf \in [Parties -> Seq(Frames)] /\ cur \in [Parties -> Seq(Frames)]
  BY Parts, Zenon DEF Whole, SocketsOK
<1>. QED BY <1>1

\* A frame goes from the socket to the buffer.
LEMMA RecvKeeps == ASSUME IInv, NEW x \in Parties, Recv(x) PROVE IInv'
<1>. DEFINE g == Head(buf[x])
            t == Tail(buf[x])
<1>0. Whole /\ Members BY Parts, MembersAre, Zenon
<1>1. Goes(x, "recv", "process")
  <2>1. SocketsOK BY <1>0, Zenon DEF Whole
  <2>2. "process" \in PCs /\ Step(x, "recv", "process") BY DEF PCs, Recv
  <2>. QED BY <2>1, <2>2, Went
<1>2. /\ buf[x] # <<>> /\ cur' = [cur EXCEPT ![x] = <<g>>] /\ buf' = [buf EXCEPT ![x] = t]
      /\ UNCHANGED <<prog, setup, FdLimit, wire, GOT_IT, leaked, answered, missed, noise, errors>>
  BY DEF Recv
<1>3. Fixed BY <1>2 DEF Fixed
<1>4. pc[x] = "recv" /\ cur[x] = <<>> /\ ToSet(cur[x]) = {}
  <2>1. pc[x] = "recv" BY <1>1 DEF Goes
  <2>. QED BY <2>1, OfParty
<1>5. /\ g \in Frames /\ t \in Seq(Frames) /\ ToSet(buf[x]) = {g} \cup ToSet(t)
      /\ \A f : OnceIn(buf[x], f) => OnceIn(t, f) /\ (f = g => f \notin ToSet(t))
  <2>1. buf[x] \in Seq(Frames) BY OfParty
  <2>. QED BY <1>2, <2>1, Taken
<1>6. /\ buf'[x] = t /\ cur'[x] = <<g>>
      /\ \A y \in Parties : y # x => buf'[y] = buf[y] /\ cur'[y] = cur[y]
  BY <1>2, OneChanges
<1>. HIDE DEF g, t
<1>7. ToSet(<<g>>) = {g} BY Emptied
<1>8. StartOK' /\ NetOK' /\ CountersOK'
  <2>1. StartOK' BY <1>0, <1>3 DEF Whole, StartOK, Fixed
  <2>2. NetOK' BY <1>0, <1>2, <1>3, NetKept DEF Whole
  <2>3. CountersOK' BY <1>0, <1>2, Zenon DEF Whole, CountersOK
  <2>. QED BY <2>1, <2>2, <2>3
<1>9. SocketsOK'
  <2>1. Party(x, "recv", buf[x], cur[x], answered) BY <1>4, OfParty
  <2>2. ToSet(t) \cup ToSet(<<g>>) = ToSet(buf[x]) \cup ToSet(cur[x]) BY <1>4, <1>5, <1>7
  <2>3. <<g>> \in Seq(Frames) /\ Len(<<g>>) = 1 BY <1>5
  <2>4. Party(x, "process", t, <<g>>, answered)
    <3>1. x \in Clients => ValidPort(x) BY <2>1, Zenon DEF Party
    <3>2. \A f \in ToSet(t) \cup ToSet(<<g>>) : f.to = HostOf(x) /\ AckAbout(f, answered)
      BY <2>1, <2>2, Zenon DEF Party
    <3>. QED BY <1>5, <2>3, <3>1, <3>2, Zenon DEF Party
  <2>5. answered' = answered BY <1>2
  <2>6. Moves(x, "recv", "process", t, <<g>>) BY <1>1, <1>2, <2>4, <2>5, Zenon DEF Moves
  <2>. QED BY <1>0, <1>3, <2>6, SocketsKept, Zenon DEF Whole
<1>10. PlacesOK'
  <2>1. SUFFICES ASSUME NEW c \in Clients PROVE PlaceOf(c)' BY Zenon DEF PlacesOK
  <2>2. /\ PlaceOf(c) /\ OnceOf(c) /\ (c \in GOT_IT => ~Silent(c))
        /\ c \in Parties /\ c # Server
    BY OfClient
  <2>3. MyAck(c)' = MyAck(c) /\ Request(c)' = Request(c) BY <1>3, SameNames, Zenon DEF Request
  <2>4. Silent(c)' <=> Silent(c)
    <3>1. CASE c = x BY <1>1, <3>1 DEF Goes, Silent
    <3>2. CASE c # x BY <1>1, <2>2, <3>2, Zenon DEF Goes, Silent
    <3>. QED BY <3>1, <3>2
  <2>5. /\ AtWire(c)' <=> AtWire(c)
        /\ BackWire(c)' <=> BackWire(c)
        /\ Missed(c)' <=> Missed(c)
        /\ c \in GOT_IT' <=> c \in GOT_IT
    BY <1>2, <2>3, Zenon DEF AtWire, BackWire, Missed
  <2>6. CASE c \in GOT_IT BY <2>2, <2>4, <2>5, <2>6, Zenon DEF PlaceOf
  <2>7. CASE c \notin GOT_IT /\ x = Server
    <3>1. BackSocket(c)' <=> BackSocket(c) BY <1>6, <2>2, <2>3, <2>7, Zenon DEF BackSocket
    <3>2. BackHome(c)' <=> BackHome(c) BY <1>6, <2>2, <2>3, <2>5, <2>7, Zenon DEF BackHome
    <3>3. ~AtServer(c) BY <1>4, <2>7 DEF AtServer
    <3>4. AtServer(c)' <=> Request(c) = g
      <4>1. <<g>> = <<Request(c)>> <=> Request(c) = g OBVIOUS
      <4>. QED BY <1>1, <1>6, <2>3, <2>7, <4>1, Zenon DEF AtServer, Goes
    <3>5. AtSocket(c)' <=> Request(c) \in ToSet(t) BY <1>6, <2>3, <2>7, Zenon DEF AtSocket
    <3>6. AtSocket(c) <=> Request(c) = g \/ Request(c) \in ToSet(t)
      BY <1>5, <2>7, Zenon DEF AtSocket
    <3>7. ~(Request(c) = g /\ Request(c) \in ToSet(t)) BY <1>5, <2>2, <2>7, Zenon DEF OnceOf
    <3>. QED BY <2>2, <2>4, <2>5, <3>1, <3>2, <3>3, <3>4, <3>5, <3>6, <3>7
         DEF PlaceOf, Nowhere, Somewhere
  <2>8. CASE c \notin GOT_IT /\ x # Server
    <3>0. Server \in Parties BY <1>0 DEF Members
    <3>1. AtSocket(c)' <=> AtSocket(c) BY <1>6, <2>3, <2>8, <3>0, Zenon DEF AtSocket
    <3>2. AtServer(c)' <=> AtServer(c)
      BY <1>1, <1>6, <2>3, <2>8, <3>0, Zenon DEF AtServer, Goes
    <3>3. CASE c # x
      <4>1. BackSocket(c)' <=> BackSocket(c) BY <1>6, <2>2, <2>3, <3>3, Zenon DEF BackSocket
      <4>2. BackHome(c)' <=> BackHome(c) BY <1>6, <2>2, <2>3, <2>5, <3>3, Zenon DEF BackHome
      <4>. QED BY <2>2, <2>4, <2>5, <3>1, <3>2, <4>1, <4>2, PlaceKept
    <3>4. CASE c = x
      <4>1. ~BackHome(c) BY <1>4, <2>8, <3>4, Zenon DEF BackHome
      <4>2. BackHome(c)' <=> MyAck(c) = g
        BY <1>6, <1>7, <2>3, <2>5, <2>8, <3>4, Zenon DEF BackHome
      <4>3. BackSocket(c)' <=> MyAck(c) \in ToSet(t) BY <1>6, <2>3, <3>4, Zenon DEF BackSocket
      <4>4. BackSocket(c) <=> MyAck(c) = g \/ MyAck(c) \in ToSet(t)
        BY <1>5, <3>4, Zenon DEF BackSocket
      <4>5. ~(MyAck(c) = g /\ MyAck(c) \in ToSet(t))
        BY <1>5, <2>2, <2>8, <3>4, Zenon DEF OnceOf
      <4>. QED BY <2>2, <2>4, <2>5, <3>1, <3>2, <4>1, <4>2, <4>3, <4>4, <4>5
           DEF PlaceOf, Nowhere, Somewhere
    <3>. QED BY <3>3, <3>4
  <2>. QED BY <2>6, <2>7, <2>8
<1>11. OnceOK'
  <2>1. SUFFICES ASSUME NEW c \in Clients, c \notin GOT_IT
                 PROVE  /\ OnceIn(buf'[Server], Request(c))
                        /\ OnceIn(buf'[c], MyAck(c))
                        /\ pc'[c] = "close" => MyAck(c) \notin ToSet(cur'[c])
    BY <1>2, <1>3, OnceNext, Zenon
  <2>2. /\ OnceIn(buf[Server], Request(c)) /\ OnceIn(buf[c], MyAck(c))
        /\ pc[c] = "close" => MyAck(c) \notin ToSet(cur[c])
    BY <2>1, OfClient, Zenon DEF OnceOf
  <2>3. c \in Parties /\ Server \in Parties /\ c # Server BY <1>0, Zenon DEF Members
  <2>4. OnceIn(buf'[Server], Request(c))
    <3>1. CASE x = Server BY <1>5, <1>6, <2>2, <3>1, Zenon
    <3>2. CASE x # Server BY <1>6, <2>2, <2>3, <3>2, Zenon
    <3>. QED BY <3>1, <3>2
  <2>5. OnceIn(buf'[c], MyAck(c))
    <3>1. CASE x = c BY <1>5, <1>6, <2>2, <3>1, Zenon
    <3>2. CASE x # c BY <1>6, <2>2, <2>3, <3>2, Zenon
    <3>. QED BY <3>1, <3>2
  <2>6. pc'[c] = "close" => MyAck(c) \notin ToSet(cur'[c])
    <3>1. CASE x = c BY <1>1, <3>1 DEF Goes
    <3>2. CASE x # c BY <1>1, <1>6, <2>2, <2>3, <3>2, Zenon DEF Goes
    <3>. QED BY <3>1, <3>2
  <2>. QED BY <2>4, <2>5, <2>6
<1>12. LeaksOK'
  <2>1. LeakInv /\ MuteNotDeaf BY <1>0, Zenon DEF Whole, LeaksOK
  <2>2. pc'[Server] \in {"recv", "process"} => leaked < FdLimit
    <3>1. CASE x = Server BY <1>4, <2>1, <3>1, Zenon DEF LeakInv
    <3>2. CASE x # Server BY <1>0, <1>1, <2>1, <3>2, Zenon DEF Goes, Members, LeakInv
    <3>. QED BY <3>1, <3>2
  <2>3. LeakInv' BY <1>2, <2>1, <2>2, Zenon DEF LeakInv
  <2>4. MuteNotDeaf' BY <1>2, <2>1, Zenon DEF MuteNotDeaf
  <2>. QED BY <2>3, <2>4, Zenon DEF LeaksOK
<1>. QED BY <1>8, <1>9, <1>10, <1>11, <1>12, NextParts, Zenon DEF Whole

\* The exchanges that are lost with a socket.
Loses(x, c) == c \in LostBy(x, ToSet(buf[x]))
                 <=> (x = Server /\ AtSocket(c)) \/ (x = c /\ BackSocket(c))

LEMMA LostIs ==
  ASSUME IInv, NEW x \in Parties
  PROVE  /\ LostBy(x, ToSet(buf[x])) \subseteq Clients
         /\ \A c \in Clients : Loses(x, c)
<1>. DEFINE F == ToSet(buf[x])
            L == LostBy(x, F)
<1>1. F \subseteq Frames
  <2>1. buf[x] \in Seq(Frames) BY OfParty
  <2>. QED BY <2>1, ElementOfSeq DEF ToSet
<1>2. \A c : c \in L <=> \E g \in F : /\ g.about = c
                                      /\ \/ g.op = "request" /\ x = Server
                                         \/ g.op = "ack" /\ g.about = x
  BY DEF LostBy
<1>3. \A g \in F : /\ g.op = "request" => g.about \in Clients /\ g = Request(g.about)
                   /\ g.op = "ack" => g.about \in Clients /\ g = MyAck(g.about)
  BY <1>1, Kinds, SMT DEF Kind
<1>4. /\ \A c : x = Server => (AtSocket(c) <=> Request(c) \in F)
      /\ \A c : x = c => (BackSocket(c) <=> MyAck(c) \in F)
  BY Zenon DEF AtSocket, BackSocket
<1>. HIDE DEF F, L
<1>5. L \subseteq Clients BY <1>2, <1>3, ZenonT(30)
<1>6. ASSUME NEW c \in Clients
      PROVE  c \in L <=> (x = Server /\ AtSocket(c)) \/ (x = c /\ BackSocket(c))
  <2>1. ASSUME c \in L PROVE (x = Server /\ AtSocket(c)) \/ (x = c /\ BackSocket(c))
    <3>1. PICK g \in F : /\ g.about = c
                         /\ \/ g.op = "request" /\ x = Server
                            \/ g.op = "ack" /\ g.about = x
      BY <1>2, <2>1, Zenon
    <3>2. CASE g.op = "request" /\ x = Server BY <1>3, <1>4, <3>1, <3>2, Zenon
    <3>3. CASE g.op = "ack" /\ g.about = x BY <1>3, <1>4, <3>1, <3>3, Zenon
    <3>. QED BY <3>1, <3>2, <3>3
  <2>2. ASSUME x = Server, AtSocket(c) PROVE c \in L
    <3>1. Request(c) \in F BY <1>4, <2>2, Zenon
    <3>2. Request(c).op = "request" /\ Request(c).about = c BY Differ, Zenon
    <3>. QED BY <1>2, <2>2, <3>1, <3>2, Zenon
  <2>3. ASSUME x = c, BackSocket(c) PROVE c \in L
    <3>1. MyAck(c) \in F BY <1>4, <2>3, Zenon
    <3>2. MyAck(c).op = "ack" /\ MyAck(c).about = c BY Differ, Zenon
    <3>. QED BY <1>2, <2>3, <3>1, <3>2, Zenon
  <2>. QED BY <2>1, <2>2, <2>3
<1>. QED BY <1>5, <1>6, Zenon DEF F, L, Loses

\* A party closes its socket, or loses it.
Closes(x, from, to) ==
  /\ x \in Parties /\ from \in {"recv", "close"} /\ to \in {"open", "done"}
  /\ Goes(x, from, to)
  /\ buf' = [buf EXCEPT ![x] = <<>>] /\ cur' = [cur EXCEPT ![x] = <<>>]
  /\ missed' = missed \cup LostBy(x, ToSet(buf[x]))
  /\ UNCHANGED <<prog, setup, FdLimit, wire, GOT_IT, answered>>

ClosedWell == /\ StartOK' /\ NetOK' /\ SocketsOK' /\ PlacesOK' /\ OnceOK'
              /\ missed' \subseteq Clients

LEMMA Closing ==
  ASSUME IInv, NEW x, NEW from, NEW to, Closes(x, from, to)
  PROVE  ClosedWell
<1>0. Whole /\ Members BY Parts, MembersAre, Zenon
<1>1. /\ x \in Parties /\ from \in {"recv", "close"} /\ to \in {"open", "done"}
      /\ Goes(x, from, to)
      /\ buf' = [buf EXCEPT ![x] = <<>>] /\ cur' = [cur EXCEPT ![x] = <<>>]
      /\ missed' = missed \cup LostBy(x, ToSet(buf[x]))
      /\ UNCHANGED <<prog, setup, FdLimit, wire, GOT_IT, answered>>
  BY Zenon DEF Closes
<1>2. Fixed BY <1>1 DEF Fixed
<1>3. pc[x] = from /\ pc'[x] = to /\ \A y \in Parties : y # x => pc'[y] = pc[y]
  BY <1>1, Zenon DEF Goes
<1>4. /\ buf'[x] = <<>> /\ cur'[x] = <<>>
      /\ \A y \in Parties : y # x => buf'[y] = buf[y] /\ cur'[y] = cur[y]
  BY <1>1, OneChanges
<1>5. ToSet(<<>>) = {} /\ \A f : OnceIn(<<>>, f) BY Emptied
<1>6. /\ LostBy(x, ToSet(buf[x])) \subseteq Clients
      /\ \A c \in Clients : Loses(x, c)
  BY <1>1, LostIs
<1>7. StartOK' /\ NetOK' /\ missed' \subseteq Clients
  <2>1. StartOK' BY <1>0, <1>2 DEF Whole, StartOK, Fixed
  <2>2. NetOK' BY <1>0, <1>1, <1>2, NetKept DEF Whole
  <2>3. missed \subseteq Clients BY <1>0, Zenon DEF Whole, CountersOK
  <2>. QED BY <1>1, <1>6, <2>1, <2>2, <2>3
<1>8. SocketsOK'
  <2>1. Party(x, pc[x], buf[x], cur[x], answered) BY <1>1, OfParty
  <2>2. <<>> \in Seq(Frames) /\ Len(<<>>) = 0 OBVIOUS
  <2>3. Party(x, to, <<>>, <<>>, answered)
    <3>1. x \in Clients => ValidPort(x) BY <1>1, <1>3, <2>1, SMT DEF Party
    <3>2. to \notin {"process", "close"} BY <1>1
    <3>3. Len(<<>>) = IF to \in {"process", "close"} THEN 1 ELSE 0 BY <2>2, <3>2
    <3>4. \A f \in ToSet(<<>>) \cup ToSet(<<>>) : f.to = HostOf(x) /\ AckAbout(f, answered)
      BY <1>5
    <3>. QED BY <2>2, <3>1, <3>3, <3>4, Zenon DEF Party
  <2>4. answered' = answered BY <1>1
  <2>5. Moves(x, from, to, <<>>, <<>>) BY <1>1, <2>3, <2>4, Zenon DEF Moves
  <2>. QED BY <1>0, <1>2, <2>5, SocketsKept, Zenon DEF Whole
<1>9. PlacesOK'
  <2>1. SUFFICES ASSUME NEW c \in Clients PROVE PlaceOf(c)' BY Zenon DEF PlacesOK
  <2>2. /\ PlaceOf(c) /\ OnceOf(c) /\ (c \in GOT_IT => ~Silent(c))
        /\ c \in Parties /\ c # Server
    BY OfClient
  <2>3. MyAck(c)' = MyAck(c) /\ Request(c)' = Request(c) BY <1>2, SameNames, Zenon DEF Request
  <2>4. Silent(c)' <=> Silent(c)
    <3>1. CASE c = x BY <1>1, <1>3, <3>1 DEF Silent
    <3>2. CASE c # x BY <1>3, <2>2, <3>2, Zenon DEF Silent
    <3>. QED BY <3>1, <3>2
  <2>5. /\ AtWire(c)' <=> AtWire(c)
        /\ BackWire(c)' <=> BackWire(c)
        /\ c \in GOT_IT' <=> c \in GOT_IT
        /\ Missed(c)' <=> Missed(c) \/ (x = Server /\ AtSocket(c)) \/ (x = c /\ BackSocket(c))
    <3>1. /\ AtWire(c)' <=> AtWire(c)
          /\ BackWire(c)' <=> BackWire(c)
          /\ c \in GOT_IT' <=> c \in GOT_IT
      BY <1>1, <2>3, Zenon DEF AtWire, BackWire
    <3>2. Missed(c)' <=> Missed(c) \/ c \in LostBy(x, ToSet(buf[x]))
      BY <1>1, Zenon DEF Missed
    <3>. QED BY <1>6, <3>1, <3>2, Zenon DEF Loses
  <2>6. CASE c \in GOT_IT BY <2>2, <2>4, <2>5, <2>6, Zenon DEF PlaceOf
  <2>7. CASE c \notin GOT_IT /\ x = Server
    <3>1. BackSocket(c)' <=> BackSocket(c) BY <1>4, <2>2, <2>3, <2>7, Zenon DEF BackSocket
    <3>2. BackHome(c)' <=> BackHome(c) BY <1>4, <2>2, <2>3, <2>5, <2>7, Zenon DEF BackHome
    <3>3. ~AtServer(c) /\ ~AtServer(c)' BY <1>1, <1>3, <2>7 DEF AtServer
    <3>4. ~AtSocket(c)' BY <1>4, <1>5, <2>7, Zenon DEF AtSocket
    <3>5. Missed(c)' <=> Missed(c) \/ AtSocket(c) BY <2>2, <2>5, <2>7, Zenon
    <3>. QED BY <2>2, <2>4, <2>5, <3>1, <3>2, <3>3, <3>4, <3>5 DEF PlaceOf, Nowhere, Somewhere
  <2>8. CASE c \notin GOT_IT /\ x # Server
    <3>0. Server \in Parties BY <1>0 DEF Members
    <3>1. AtSocket(c)' <=> AtSocket(c) BY <1>4, <2>3, <2>8, <3>0, Zenon DEF AtSocket
    <3>2. AtServer(c)' <=> AtServer(c) BY <1>3, <1>4, <2>3, <2>8, <3>0, Zenon DEF AtServer
    <3>3. CASE c # x
      <4>1. BackSocket(c)' <=> BackSocket(c) BY <1>4, <2>2, <2>3, <3>3, Zenon DEF BackSocket
      <4>2. BackHome(c)' <=> BackHome(c) BY <1>4, <2>2, <2>3, <2>5, <3>3, Zenon DEF BackHome
      <4>3. Missed(c)' <=> Missed(c) BY <2>5, <2>8, <3>3, Zenon
      <4>. QED BY <2>2, <2>4, <2>5, <3>1, <3>2, <4>1, <4>2, <4>3, PlaceKept
    <3>4. CASE c = x
      <4>1. ~BackHome(c)
        <5>1. CASE from = "recv"
          <6>1. ToSet(cur[c]) = {} BY <1>3, <2>2, <3>4, <5>1, OfParty
          <6>. QED BY <2>8, <6>1, Zenon DEF BackHome
        <5>2. CASE from = "close" BY <1>3, <2>2, <2>8, <3>4, <5>2, Zenon DEF BackHome, OnceOf
        <5>. QED BY <1>1, <5>1, <5>2
      <4>2. ~BackHome(c)' BY <1>4, <1>5, <2>3, <2>5, <2>8, <3>4, Zenon DEF BackHome
      <4>3. ~BackSocket(c)' BY <1>4, <1>5, <2>3, <3>4, Zenon DEF BackSocket
      <4>4. Missed(c)' <=> Missed(c) \/ BackSocket(c) BY <2>5, <2>8, <3>4, Zenon
      <4>. QED BY <2>2, <2>4, <2>5, <3>1, <3>2, <4>1, <4>2, <4>3, <4>4
           DEF PlaceOf, Nowhere, Somewhere
    <3>. QED BY <3>3, <3>4
  <2>. QED BY <2>6, <2>7, <2>8
<1>10. OnceOK'
  <2>1. SUFFICES ASSUME NEW c \in Clients, c \notin GOT_IT
                 PROVE  /\ OnceIn(buf'[Server], Request(c))
                        /\ OnceIn(buf'[c], MyAck(c))
                        /\ pc'[c] = "close" => MyAck(c) \notin ToSet(cur'[c])
    BY <1>1, <1>2, OnceNext, Zenon
  <2>2. /\ OnceIn(buf[Server], Request(c)) /\ OnceIn(buf[c], MyAck(c))
        /\ pc[c] = "close" => MyAck(c) \notin ToSet(cur[c])
    BY <2>1, OfClient, Zenon DEF OnceOf
  <2>3. c \in Parties /\ Server \in Parties BY <1>0, Zenon DEF Members
  <2>4. OnceIn(buf'[Server], Request(c)) BY <1>4, <1>5, <2>2, <2>3, Zenon
  <2>5. OnceIn(buf'[c], MyAck(c)) BY <1>4, <1>5, <2>2, <2>3, Zenon
  <2>6. pc'[c] = "close" => MyAck(c) \notin ToSet(cur'[c])
    BY <1>3, <1>4, <1>5, <2>2, <2>3, Zenon
  <2>. QED BY <2>4, <2>5, <2>6
<1>. QED BY <1>7, <1>8, <1>9, <1>10, Zenon DEF ClosedWell

LEMMA RecvErrorKeeps == ASSUME IInv, NEW x \in Parties, RecvError(x) PROVE IInv'
<1>0. Whole /\ Members BY Parts, MembersAre, Zenon
<1>1. Goes(x, "recv", "open")
  <2>1. SocketsOK BY <1>0, Zenon DEF Whole
  <2>2. "open" \in PCs /\ Step(x, "recv", "open") BY DEF PCs, RecvError
  <2>. QED BY <2>1, <2>2, Went
<1>2. cur' = [cur EXCEPT ![x] = <<>>]
  <2>1. cur[x] = <<>> BY <1>1, OfParty DEF Goes
  <2>2. cur \in [Parties -> Seq(Frames)] BY <1>0 DEF Whole, SocketsOK
  <2>3. cur' = cur BY DEF RecvError
  <2>. QED BY <2>1, <2>2, <2>3
<1>3. /\ errors < MaxErrors /\ errors' = errors + 1
      /\ leaked' = IF x = Server THEN leaked + 1 ELSE leaked
      /\ UNCHANGED <<prog, setup, FdLimit, wire, GOT_IT, answered, noise>>
  BY DEF RecvError
<1>4. ClosedWell
  <2>1. /\ buf' = [buf EXCEPT ![x] = <<>>] /\ missed' = missed \cup LostBy(x, ToSet(buf[x]))
    BY DEF RecvError
  <2>2. Closes(x, "recv", "open") BY <1>1, <1>2, <1>3, <2>1 DEF Closes
  <2>. QED BY <2>2, Closing
<1>5. /\ leaked \in Nat /\ leaked <= FdLimit /\ errors \in Nat /\ FdLimit \in Nat
      /\ x = Server => leaked < FdLimit
  <2>1. leaked \in 0..FdLimit /\ errors \in 0..MaxErrors /\ FdLimit \in Nat
    BY <1>0 DEF Whole, CountersOK, StartOK
  <2>2. x = Server => leaked < FdLimit
    BY <1>0, <1>1, Zenon DEF Goes, Whole, LeaksOK, LeakInv
  <2>. QED BY <2>1, <2>2
<1>6. CountersOK'
  <2>1. leaked' \in 0..FdLimit BY <1>3, <1>5
  <2>2. errors' \in 0..MaxErrors BY <1>3, <1>5, BoundsAssumption
  <2>3. missed' \subseteq Clients BY <1>4, Zenon DEF ClosedWell
  <2>. QED BY <1>0, <1>3, <2>1, <2>2, <2>3, Zenon DEF Whole, CountersOK
<1>7. LeaksOK'
  <2>1. LeakInv /\ MuteNotDeaf BY <1>0, Zenon DEF Whole, LeaksOK
  <2>2. pc'[Server] \in {"recv", "process"} => leaked' < FdLimit
    <3>1. CASE x = Server BY <1>1, <3>1 DEF Goes
    <3>2. CASE x # Server BY <1>0, <1>1, <1>3, <2>1, <3>2, Zenon DEF Goes, Members, LeakInv
    <3>. QED BY <3>1, <3>2
  <2>3. IsFiniteSet(answered) /\ Cardinality(answered) <= leaked BY <2>1 DEF LeakInv
  <2>4. Cardinality(answered) \in Nat BY <2>3, FS_CardinalityType
  <2>5. Cardinality(answered) <= leaked' BY <1>3, <1>5, <2>3, <2>4
  <2>6. answered' = answered /\ FdLimit' = FdLimit /\ errors' # 0 BY <1>3, <1>5
  <2>7. LeakInv' BY <2>2, <2>3, <2>5, <2>6, Zenon DEF LeakInv
  <2>8. MuteNotDeaf' BY <2>1, <2>6, Zenon DEF MuteNotDeaf
  <2>. QED BY <2>7, <2>8, Zenon DEF LeaksOK
<1>. QED BY <1>4, <1>6, <1>7, NextParts, Zenon DEF Whole, ClosedWell

LEMMA ClosedKeeps == ASSUME IInv, NEW x \in Parties, Close(x) PROVE IInv'
<1>0. Whole /\ Members BY Parts, MembersAre, Zenon
<1>1. PICK to \in {"open", "done"} : Step(x, "close", to) BY DEF Close
<1>2. Goes(x, "close", to)
  <2>1. SocketsOK BY <1>0, Zenon DEF Whole
  <2>2. to \in PCs BY DEF PCs
  <2>. QED BY <1>1, <2>1, <2>2, Went
<1>3. UNCHANGED <<prog, setup, FdLimit, wire, GOT_IT, leaked, answered, noise, errors>>
  BY DEF Close
<1>4. ClosedWell
  <2>1. /\ buf' = [buf EXCEPT ![x] = <<>>] /\ cur' = [cur EXCEPT ![x] = <<>>]
        /\ missed' = missed \cup LostBy(x, ToSet(buf[x]))
    BY DEF Close
  <2>2. Closes(x, "close", to) BY <1>2, <1>3, <2>1 DEF Closes
  <2>. QED BY <2>2, Closing
<1>5. CountersOK'
  <2>1. missed' \subseteq Clients BY <1>4, Zenon DEF ClosedWell
  <2>. QED BY <1>0, <1>3, <2>1, Zenon DEF Whole, CountersOK
<1>6. LeaksOK'
  <2>1. LeakInv /\ MuteNotDeaf BY <1>0, Zenon DEF Whole, LeaksOK
  <2>2. pc'[Server] \in {"recv", "process"} => leaked < FdLimit
    <3>1. CASE x = Server BY <1>2, <3>1 DEF Goes
    <3>2. CASE x # Server BY <1>0, <1>2, <2>1, <3>2, Zenon DEF Goes, Members, LeakInv
    <3>. QED BY <3>1, <3>2
  <2>3. LeakInv' BY <1>3, <2>1, <2>2, Zenon DEF LeakInv
  <2>4. MuteNotDeaf' BY <1>3, <2>1, Zenon DEF MuteNotDeaf
  <2>. QED BY <2>3, <2>4, Zenon DEF LeaksOK
<1>. QED BY <1>4, <1>5, <1>6, NextParts, Zenon DEF Whole, ClosedWell

-----------------------------------------------------------------------------
\* The steps that change where a party is and something beside the sockets.

StepOnly(x, from, to) ==
  /\ x \in Parties /\ to \in PCs /\ Step(x, from, to)
  /\ buf' = buf /\ cur' = cur /\ answered \subseteq answered'
  /\ from \in {"process", "close"} <=> to \in {"process", "close"}
  /\ from \in {"recv", "process", "close"} => to \in {"recv", "process", "close"}
  /\ x \in Clients /\ to \notin {"send", "refused"} => ValidPort(x)

LEMMA SocketsStep ==
  ASSUME IInv, Fixed, NEW x, NEW from, NEW to, StepOnly(x, from, to)
  PROVE  SocketsOK' /\ Goes(x, from, to)
<1>0. Whole BY Parts, Zenon
<1>1. SocketsOK /\ x \in Parties BY <1>0, Zenon DEF Whole, StepOnly
<1>2. Goes(x, from, to) BY <1>1, Went, Zenon DEF StepOnly
<1>3. Party(x, from, buf[x], cur[x], answered) BY <1>1, <1>2, Zenon DEF SocketsOK, PartyOK, Goes
<1>4. Party(x, to, buf[x], cur[x], answered) BY <1>3, Zenon DEF Party, StepOnly
<1>5. Party(x, to, buf[x], cur[x], answered') BY <1>4, PartyGrows, Zenon DEF StepOnly
<1>6. buf' = [buf EXCEPT ![x] = buf[x]] /\ cur' = [cur EXCEPT ![x] = cur[x]]
  BY <1>1 DEF SocketsOK, StepOnly
<1>7. Moves(x, from, to, buf[x], cur[x]) BY <1>1, <1>2, <1>5, <1>6, Zenon DEF Moves, StepOnly
<1>. QED BY <1>1, <1>2, <1>7, SocketsKept, Zenon

\* The request that the server processes.
LEMMA InServer ==
  ASSUME IInv, pc[Server] = "process", IsRequest(cur[Server][1])
  PROVE  \E d \in Clients : /\ cur[Server][1].about = d /\ ~Silent(d) /\ ValidPort(d)
                            /\ \A c \in Clients : AtServer(c) <=> c = d
<1>0. Members BY MembersAre
<1>1. /\ cur[Server] = <<cur[Server][1]>> /\ Kind(cur[Server][1])
  BY <1>0, InBuffer DEF Members
<1>. DEFINE f == cur[Server][1]
            d == f.about
<1>2. d \in Clients /\ f = Request(d) BY <1>1 DEF Kind, IsRequest
<1>3. cur[Server] = <<Request(d)>> BY <1>1, <1>2, Zenon
<1>. HIDE DEF d
<1>4. ASSUME NEW c \in Clients PROVE AtServer(c) <=> c = d
  <2>1. <<Request(c)>> = <<Request(d)>> <=> Request(c) = Request(d) OBVIOUS
  <2>. QED BY <1>3, <2>1, Differ, Zenon DEF AtServer
<1>5. ~Silent(d)
  <2>1. PlaceOf(d) /\ AtServer(d) BY <1>2, <1>4, OfClient
  <2>. QED BY <2>1, Zenon DEF PlaceOf, Nowhere
<1>6. ValidPort(d)
  <2>1. Party(d, pc[d], buf[d], cur[d], answered) BY <1>0, <1>2, OfParty DEF Members
  <2>. QED BY <1>2, <1>5, <2>1, Zenon DEF Party, Silent
<1>. QED BY <1>2, <1>4, <1>5, <1>6, Zenon DEF d

\* The server gives up the request that it processes.
Fails(d) == /\ Step(Server, "process", "close")
            /\ missed' = missed \cup {d}
            /\ UNCHANGED <<prog, setup, FdLimit, wire, buf, cur, GOT_IT, leaked, answered,
                           noise, errors>>

LEMMA FailKeeps ==
  ASSUME IInv, NEW d \in Clients, Fails(d), ~Silent(d), \A c \in Clients : AtServer(c) <=> c = d
  PROVE  IInv'
<1>0. Whole /\ Members BY Parts, MembersAre, Zenon
<1>1. /\ Step(Server, "process", "close") /\ missed' = missed \cup {d}
      /\ UNCHANGED <<prog, setup, FdLimit, wire, buf, cur, GOT_IT, leaked, answered,
                     noise, errors>>
  BY DEF Fails
<1>2. Fixed BY <1>1 DEF Fixed
<1>3. SocketsOK' /\ Goes(Server, "process", "close")
  <2>1. StepOnly(Server, "process", "close") BY <1>0, <1>1 DEF StepOnly, Members, PCs
  <2>. QED BY <1>2, <2>1, SocketsStep
<1>4. StartOK' /\ NetOK' /\ CountersOK'
  <2>1. StartOK' BY <1>0, <1>2 DEF Whole, StartOK, Fixed
  <2>2. NetOK' BY <1>0, <1>1, <1>2, NetKept DEF Whole
  <2>3. missed' \subseteq Clients BY <1>0, <1>1 DEF Whole, CountersOK
  <2>4. CountersOK' BY <1>0, <1>1, <2>3, Zenon DEF Whole, CountersOK
  <2>. QED BY <2>1, <2>2, <2>4
<1>5. PlacesOK'
  <2>1. SUFFICES ASSUME NEW c \in Clients PROVE PlaceOf(c)' BY Zenon DEF PlacesOK
  <2>2. PlaceOf(c) /\ c \in Parties /\ c # Server BY OfClient
  <2>3. MyAck(c)' = MyAck(c) /\ Request(c)' = Request(c) BY <1>2, SameNames, Zenon DEF Request
  <2>4. /\ Silent(c)' <=> Silent(c)
        /\ AtWire(c)' <=> AtWire(c)
        /\ AtSocket(c)' <=> AtSocket(c)
        /\ BackWire(c)' <=> BackWire(c)
        /\ BackSocket(c)' <=> BackSocket(c)
        /\ BackHome(c)' <=> BackHome(c)
        /\ c \in GOT_IT' <=> c \in GOT_IT
    BY <1>1, <1>3, <2>2, <2>3, Zenon DEF Goes, Silent, AtWire, AtSocket, BackWire, BackSocket,
       BackHome
  <2>5. ~AtServer(c)'
    <3>1. pc'[Server] = "close" BY <1>3 DEF Goes
    <3>. QED BY <3>1 DEF AtServer
  <2>6. CASE c = d
    <3>1. AtServer(c) /\ ~Silent(c) BY <2>6
    <3>2. Missed(c)' BY <1>1, <2>6 DEF Missed
    <3>. QED BY <2>2, <2>4, <2>5, <3>1, <3>2 DEF PlaceOf, Nowhere, Somewhere
  <2>7. CASE c # d
    <3>1. ~AtServer(c) BY <2>7
    <3>2. Missed(c)' <=> Missed(c) BY <1>1, <2>7 DEF Missed
    <3>. QED BY <2>2, <2>4, <2>5, <3>1, <3>2, PlaceKept
  <2>. QED BY <2>6, <2>7
<1>6. OnceOK'
  <2>1. SUFFICES ASSUME NEW c \in Clients, c \notin GOT_IT
                 PROVE  /\ OnceIn(buf'[Server], Request(c))
                        /\ OnceIn(buf'[c], MyAck(c))
                        /\ pc'[c] = "close" => MyAck(c) \notin ToSet(cur'[c])
    BY <1>1, <1>2, OnceNext, Zenon
  <2>2. OnceOf(c) /\ c \in Parties /\ c # Server BY OfClient
  <2>. QED BY <1>1, <1>3, <2>1, <2>2, Zenon DEF Goes, OnceOf
<1>7. LeaksOK'
  <2>1. LeakInv /\ MuteNotDeaf BY <1>0, Zenon DEF Whole, LeaksOK
  <2>2. pc'[Server] \notin {"recv", "process"} BY <1>3 DEF Goes
  <2>3. LeakInv' BY <1>1, <2>1, <2>2, Zenon DEF LeakInv
  <2>4. MuteNotDeaf' BY <1>1, <2>1, Zenon DEF MuteNotDeaf
  <2>. QED BY <2>3, <2>4, Zenon DEF LeaksOK
<1>. QED BY <1>3, <1>4, <1>5, <1>6, <1>7, NextParts, Zenon DEF Whole

LEMMA ReplyFailsKeeps == ASSUME IInv, ReplyFails PROVE IInv'
<1>1. pc[Server] = "process" /\ IsRequest(cur[Server][1]) BY DEF ReplyFails, Step
<1>2. PICK d \in Clients : /\ cur[Server][1].about = d /\ ~Silent(d)
                           /\ \A c \in Clients : AtServer(c) <=> c = d
  BY <1>1, InServer, Zenon
<1>3. Fails(d) BY <1>2, Zenon DEF ReplyFails, Fails
<1>. QED BY <1>2, <1>3, FailKeeps

LEMMA MisreadKeeps == ASSUME IInv, Misread PROVE IInv'
<1>1. pc[Server] = "process" /\ IsRequest(cur[Server][1]) BY DEF Misread, Step
<1>2. PICK d \in Clients : /\ cur[Server][1].about = d /\ ~Silent(d)
                           /\ \A c \in Clients : AtServer(c) <=> c = d
  BY <1>1, InServer, Zenon
<1>3. Fails(d) BY <1>2, Zenon DEF Misread, Fails
<1>. QED BY <1>2, <1>3, FailKeeps

\* The server answers at the port on which the client listens.
LEMMA AnswersItsPort ==
  ASSUME IInv, NEW d \in Clients, ValidPort(d), NEW port \in AnswerPorts(d)
  PROVE  Ack(d, port) = MyAck(d)
<1>1. CASE prog = "mdhcp"
  <2>. DEFINE p == setup[d].port
  <2>0. p \in Port BY Zenon DEF ValidPort
  <2>1. port \in ClientPorts(RequestOptions(p)) BY <1>1 DEF AnswerPorts
  <2>. HIDE DEF p
  <2>2. ClientPorts(RequestOptions(p)) = {p} BY <2>0, PortSurvives
  <2>3. port = setup[d].port BY <2>1, <2>2 DEF p
  <2>. QED BY <2>3 DEF MyAck
<1>2. CASE prog # "mdhcp" BY <1>2 DEF AnswerPorts, MyAck
<1>. QED BY <1>1, <1>2

LEMMA ReplyKeeps == ASSUME IInv, Reply PROVE IInv'
<1>0. Whole /\ Members BY Parts, MembersAre, Zenon
<1>1. pc[Server] = "process" /\ IsRequest(cur[Server][1]) BY DEF Reply, Step
<1>2. PICK d \in Clients : /\ cur[Server][1].about = d /\ ~Silent(d) /\ ValidPort(d)
                           /\ \A c \in Clients : AtServer(c) <=> c = d
  BY <1>1, InServer, Zenon
<1>3. /\ Step(Server, "process", "close") /\ leaked + 1 < FdLimit
      /\ answered' = answered \cup {d} /\ leaked' = leaked + 1
      /\ UNCHANGED <<prog, setup, FdLimit, buf, cur, GOT_IT, missed, noise, errors>>
  BY <1>2 DEF Reply, CanReply
<1>4. wire' = wire \cup {MyAck(d)}
  <2>1. PICK port \in AnswerPorts(d) : wire' = wire \cup {Ack(d, port)}
    BY <1>2, Zenon DEF Reply
  <2>. QED BY <1>2, <2>1, AnswersItsPort, Zenon
<1>5. Fixed BY <1>3 DEF Fixed
<1>6. SocketsOK' /\ Goes(Server, "process", "close")
  <2>1. StepOnly(Server, "process", "close") BY <1>0, <1>3 DEF StepOnly, Members, PCs
  <2>. QED BY <1>5, <2>1, SocketsStep
<1>7. /\ leaked \in Nat /\ FdLimit \in Nat /\ IsFiniteSet(answered)
      /\ Cardinality(answered) \in Nat /\ Cardinality(answered) <= leaked
      /\ answered \subseteq Clients
  <2>1. /\ leaked \in 0..FdLimit /\ FdLimit \in Nat /\ IsFiniteSet(answered)
        /\ Cardinality(answered) <= leaked /\ answered \subseteq Clients
    BY <1>0 DEF Whole, CountersOK, StartOK, LeaksOK, LeakInv
  <2>. QED BY <2>1, FS_CardinalityType
<1>8. StartOK' /\ NetOK' /\ CountersOK'
  <2>1. StartOK' BY <1>0, <1>5 DEF Whole, StartOK, Fixed
  <2>2. NetOK'
    <3>1. ASSUME NEW f \in wire' PROVE f \in Frames /\ f.op # "other" /\ AckAbout(f, answered')
      <4>1. CASE f \in wire
        <5>1. f \in Frames /\ f.op # "other" /\ AckAbout(f, answered)
          BY <1>0, <4>1, Zenon DEF Whole, NetOK
        <5>2. AckAbout(f, answered') BY <1>3, <5>1 DEF AckAbout
        <5>. QED BY <5>1, <5>2
      <4>2. CASE f = MyAck(d)
        <5>1. f \in Frames BY <4>2, AreFrames
        <5>2. f.op = "ack" /\ f.about = d BY <4>2, Differ, Zenon
        <5>. QED BY <1>3, <5>1, <5>2 DEF AckAbout
      <4>. QED BY <1>4, <3>1, <4>1, <4>2
    <3>. QED BY <1>5, <3>1, SameNames, Zenon DEF NetOK, AckAbout
  <2>3. answered' \subseteq Clients BY <1>3, <1>7
  <2>4. leaked' \in 0..FdLimit BY <1>3, <1>7
  <2>5. CountersOK' BY <1>0, <1>3, <2>3, <2>4, Zenon DEF Whole, CountersOK
  <2>. QED BY <2>1, <2>2, <2>5
<1>9. PlacesOK'
  <2>1. SUFFICES ASSUME NEW c \in Clients PROVE PlaceOf(c)' BY Zenon DEF PlacesOK
  <2>2. PlaceOf(c) /\ c \in Parties /\ c # Server BY OfClient
  <2>3. MyAck(c)' = MyAck(c) /\ Request(c)' = Request(c) BY <1>5, SameNames, Zenon DEF Request
  <2>4. /\ Silent(c)' <=> Silent(c)
        /\ AtSocket(c)' <=> AtSocket(c)
        /\ BackSocket(c)' <=> BackSocket(c)
        /\ BackHome(c)' <=> BackHome(c)
        /\ Missed(c)' <=> Missed(c)
        /\ c \in GOT_IT' <=> c \in GOT_IT
    BY <1>3, <1>6, <2>2, <2>3, Zenon DEF Goes, Silent, AtSocket, BackSocket, BackHome, Missed
  <2>5. ~AtServer(c)'
    <3>1. pc'[Server] = "close" BY <1>6 DEF Goes
    <3>. QED BY <3>1 DEF AtServer
  <2>6. AtWire(c)' <=> AtWire(c)
    <3>1. Request(c) # MyAck(d) BY Differ, Zenon
    <3>. QED BY <1>4, <2>3, <3>1 DEF AtWire
  <2>7. CASE c = d
    <3>1. AtServer(c) /\ ~Silent(c) BY <1>2, <2>7
    <3>2. BackWire(c)' BY <1>4, <2>3, <2>7 DEF BackWire
    <3>. QED BY <2>2, <2>4, <2>5, <2>6, <3>1, <3>2 DEF PlaceOf, Nowhere, Somewhere
  <2>8. CASE c # d
    <3>1. ~AtServer(c) BY <1>2, <2>8
    <3>2. MyAck(c) # MyAck(d) BY <2>8, Differ, Zenon
    <3>3. BackWire(c)' <=> BackWire(c) BY <1>4, <2>3, <3>2 DEF BackWire
    <3>. QED BY <2>2, <2>4, <2>5, <2>6, <3>1, <3>3, PlaceKept
  <2>. QED BY <2>7, <2>8
<1>10. OnceOK'
  <2>1. SUFFICES ASSUME NEW c \in Clients, c \notin GOT_IT
                 PROVE  /\ OnceIn(buf'[Server], Request(c))
                        /\ OnceIn(buf'[c], MyAck(c))
                        /\ pc'[c] = "close" => MyAck(c) \notin ToSet(cur'[c])
    BY <1>3, <1>5, OnceNext, Zenon
  <2>2. OnceOf(c) /\ c \in Parties /\ c # Server BY OfClient
  <2>. QED BY <1>3, <1>6, <2>1, <2>2, Zenon DEF Goes, OnceOf
<1>11. LeaksOK'
  <2>1. IsFiniteSet(answered') BY <1>3, <1>7, FS_AddElement
  <2>2. Cardinality(answered') <= leaked'
    <3>1. Cardinality(answered') = Cardinality(answered)
          \/ Cardinality(answered') = Cardinality(answered) + 1
      BY <1>3, <1>7, FS_AddElement
    <3>. QED BY <1>3, <1>7, <3>1
  <2>3. pc'[Server] \notin {"recv", "process"} BY <1>6 DEF Goes
  <2>4. LeakInv' BY <2>1, <2>2, <2>3, Zenon DEF LeakInv
  <2>5. leaked' < FdLimit' BY <1>3, <1>7
  <2>6. Cardinality(answered') < FdLimit'
    <3>1. Cardinality(answered') \in Nat BY <2>1, FS_CardinalityType
    <3>. QED BY <1>3, <1>7, <2>2, <3>1
  <2>7. MuteNotDeaf' BY <2>5, <2>6, Zenon DEF MuteNotDeaf
  <2>. QED BY <2>4, <2>7, Zenon DEF LeaksOK
<1>. QED BY <1>6, <1>8, <1>9, <1>10, <1>11, NextParts, Zenon DEF Whole

LEMMA SendKeeps == ASSUME IInv, NEW s \in Clients, Send(s) PROVE IInv'
<1>0. Whole /\ Members BY Parts, MembersAre, Zenon
<1>1. /\ Step(s, "send", "open") /\ ValidPort(s) /\ wire' = wire \cup {Request(s)}
      /\ UNCHANGED <<prog, setup, FdLimit, buf, cur, GOT_IT, leaked, answered, missed,
                     noise, errors>>
  BY DEF Send
<1>2. Fixed BY <1>1 DEF Fixed
<1>3. s \in Parties /\ s # Server /\ pc[s] = "send" BY <1>0, <1>1 DEF Members, Step
<1>4. SocketsOK' /\ Goes(s, "send", "open")
  <2>1. StepOnly(s, "send", "open") BY <1>1, <1>3 DEF StepOnly, PCs
  <2>. QED BY <1>2, <2>1, SocketsStep
<1>5. StartOK' /\ NetOK' /\ CountersOK'
  <2>1. StartOK' BY <1>0, <1>2 DEF Whole, StartOK, Fixed
  <2>2. NetOK'
    <3>1. ASSUME NEW f \in wire' PROVE f \in Frames /\ f.op # "other" /\ AckAbout(f, answered)
      <4>1. CASE f \in wire BY <1>0, <4>1, Zenon DEF Whole, NetOK
      <4>2. CASE f = Request(s)
        <5>1. f \in Frames BY <4>2, AreFrames
        <5>2. f.op = "request" BY <4>2, Differ, Zenon
        <5>. QED BY <5>1, <5>2 DEF AckAbout
      <4>. QED BY <1>1, <3>1, <4>1, <4>2
    <3>. QED BY <1>1, <1>2, <3>1, SameNames, Zenon DEF NetOK, AckAbout
  <2>3. CountersOK' BY <1>0, <1>1, Zenon DEF Whole, CountersOK
  <2>. QED BY <2>1, <2>2, <2>3
<1>6. PlacesOK'
  <2>1. SUFFICES ASSUME NEW c \in Clients PROVE PlaceOf(c)' BY Zenon DEF PlacesOK
  <2>2. PlaceOf(c) /\ c \in Parties /\ c # Server /\ (c \in GOT_IT => ~Silent(c)) BY OfClient
  <2>3. MyAck(c)' = MyAck(c) /\ Request(c)' = Request(c) BY <1>2, SameNames, Zenon DEF Request
  <2>4. /\ AtSocket(c)' <=> AtSocket(c)
        /\ BackSocket(c)' <=> BackSocket(c)
        /\ BackHome(c)' <=> BackHome(c)
        /\ Missed(c)' <=> Missed(c)
        /\ c \in GOT_IT' <=> c \in GOT_IT
    BY <1>1, <2>3, Zenon DEF AtSocket, BackSocket, BackHome, Missed
  <2>5. AtServer(c)' <=> AtServer(c)
    <3>1. pc'[Server] = pc[Server] BY <1>0, <1>3, <1>4, Zenon DEF Goes, Members
    <3>. QED BY <1>1, <2>3, <3>1, Zenon DEF AtServer
  <2>6. BackWire(c)' <=> BackWire(c)
    <3>1. MyAck(c) # Request(s) BY Differ, Zenon
    <3>. QED BY <1>1, <2>3, <3>1 DEF BackWire
  <2>7. CASE c = s
    <3>1. Silent(c) BY <1>3, <2>7 DEF Silent
    <3>2. ~Silent(c)' BY <1>4, <2>7 DEF Goes, Silent
    <3>3. AtWire(c)' BY <1>1, <2>3, <2>7 DEF AtWire
    <3>. QED BY <2>2, <2>4, <2>5, <2>6, <3>1, <3>2, <3>3 DEF PlaceOf, Nowhere, Somewhere
  <2>8. CASE c # s
    <3>1. Silent(c)' <=> Silent(c) BY <1>4, <2>2, <2>8, Zenon DEF Goes, Silent
    <3>2. Request(c) # Request(s) BY <2>8, Differ, Zenon
    <3>3. AtWire(c)' <=> AtWire(c) BY <1>1, <2>3, <3>2 DEF AtWire
    <3>. QED BY <2>2, <2>4, <2>5, <2>6, <3>1, <3>3, PlaceKept
  <2>. QED BY <2>7, <2>8
<1>7. OnceOK'
  <2>1. SUFFICES ASSUME NEW c \in Clients, c \notin GOT_IT
                 PROVE  /\ OnceIn(buf'[Server], Request(c))
                        /\ OnceIn(buf'[c], MyAck(c))
                        /\ pc'[c] = "close" => MyAck(c) \notin ToSet(cur'[c])
    BY <1>1, <1>2, OnceNext, Zenon
  <2>2. OnceOf(c) /\ c \in Parties /\ c # Server BY OfClient
  <2>3. pc'[c] = "close" => pc[c] = "close"
    <3>1. CASE c = s BY <1>4, <3>1 DEF Goes
    <3>2. CASE c # s BY <1>4, <2>2, <3>2, Zenon DEF Goes
    <3>. QED BY <3>1, <3>2
  <2>. QED BY <1>1, <2>1, <2>2, <2>3, Zenon DEF OnceOf
<1>8. LeaksOK'
  <2>1. LeakInv /\ MuteNotDeaf BY <1>0, Zenon DEF Whole, LeaksOK
  <2>2. pc'[Server] = pc[Server] BY <1>0, <1>3, <1>4, Zenon DEF Goes, Members
  <2>3. LeakInv' BY <1>1, <2>1, <2>2, Zenon DEF LeakInv
  <2>4. MuteNotDeaf' BY <1>1, <2>1, Zenon DEF MuteNotDeaf
  <2>. QED BY <2>3, <2>4, Zenon DEF LeaksOK
<1>. QED BY <1>4, <1>5, <1>6, <1>7, <1>8, NextParts, Zenon DEF Whole

LEMMA AcceptKeeps == ASSUME IInv, NEW s \in Clients, Accept(s) PROVE IInv'
<1>0. Whole /\ Members BY Parts, MembersAre, Zenon
<1>1. /\ Step(s, "process", "close") /\ GOT_IT' = GOT_IT \cup {s}
      /\ UNCHANGED <<prog, setup, FdLimit, wire, buf, cur, leaked, answered, missed,
                     noise, errors>>
  BY DEF Accept
<1>2. Fixed BY <1>1 DEF Fixed
<1>3. s \in Parties /\ s # Server /\ pc[s] = "process" BY <1>0, <1>1 DEF Members, Step
<1>4. SocketsOK' /\ Goes(s, "process", "close")
  <2>1. ValidPort(s)
    <3>1. Party(s, pc[s], buf[s], cur[s], answered) BY <1>3, OfParty
    <3>2. pc[s] \notin {"send", "refused"} BY <1>3
    <3>. QED BY <3>1, <3>2, Zenon DEF Party
  <2>2. StepOnly(s, "process", "close") BY <1>1, <1>3, <2>1 DEF StepOnly, PCs
  <2>. QED BY <1>2, <2>2, SocketsStep
<1>5. StartOK' /\ NetOK' /\ CountersOK'
  <2>1. StartOK' BY <1>0, <1>2 DEF Whole, StartOK, Fixed
  <2>2. NetOK' BY <1>0, <1>1, <1>2, NetKept DEF Whole
  <2>3. GOT_IT' \subseteq Clients BY <1>0, <1>1 DEF Whole, CountersOK
  <2>4. CountersOK' BY <1>0, <1>1, <2>3, Zenon DEF Whole, CountersOK
  <2>. QED BY <2>1, <2>2, <2>4
<1>6. PlacesOK'
  <2>1. SUFFICES ASSUME NEW c \in Clients PROVE PlaceOf(c)' BY Zenon DEF PlacesOK
  <2>2. PlaceOf(c) /\ c \in Parties /\ c # Server BY OfClient
  <2>3. MyAck(c)' = MyAck(c) /\ Request(c)' = Request(c) BY <1>2, SameNames, Zenon DEF Request
  <2>4. CASE c = s
    <3>1. ~Silent(c)' BY <1>4, <2>4 DEF Goes, Silent
    <3>2. c \in GOT_IT' BY <1>1, <2>4
    <3>. QED BY <3>1, <3>2, Zenon DEF PlaceOf
  <2>5. CASE c # s
    <3>1. c \in GOT_IT' <=> c \in GOT_IT BY <1>1, <2>5
    <3>2. /\ AtWire(c)' <=> AtWire(c)
          /\ AtSocket(c)' <=> AtSocket(c)
          /\ BackWire(c)' <=> BackWire(c)
          /\ BackSocket(c)' <=> BackSocket(c)
          /\ BackHome(c)' <=> BackHome(c)
          /\ Missed(c)' <=> Missed(c)
      BY <1>1, <2>3, <3>1, Zenon DEF AtWire, AtSocket, BackWire, BackSocket, BackHome, Missed
    <3>3. AtServer(c)' <=> AtServer(c)
      <4>1. pc'[Server] = pc[Server] BY <1>0, <1>3, <1>4, Zenon DEF Goes, Members
      <4>. QED BY <1>1, <2>3, <4>1, Zenon DEF AtServer
    <3>4. Silent(c)' <=> Silent(c) BY <1>4, <2>2, <2>5, Zenon DEF Goes, Silent
    <3>. QED BY <2>2, <3>1, <3>2, <3>3, <3>4, PlaceKept
  <2>. QED BY <2>4, <2>5
<1>7. OnceOK'
  <2>1. SUFFICES ASSUME NEW c \in Clients, c \notin GOT_IT'
                 PROVE  /\ OnceIn(buf'[Server], Request(c))
                        /\ OnceIn(buf'[c], MyAck(c))
                        /\ pc'[c] = "close" => MyAck(c) \notin ToSet(cur'[c])
    BY <1>2, OnceNext, Zenon
  <2>2. OnceOf(c) /\ c \in Parties /\ c # Server BY OfClient
  <2>3. c # s /\ c \notin GOT_IT BY <1>1, <2>1
  <2>. QED BY <1>1, <1>4, <2>2, <2>3, Zenon DEF Goes, OnceOf
<1>8. LeaksOK'
  <2>1. LeakInv /\ MuteNotDeaf BY <1>0, Zenon DEF Whole, LeaksOK
  <2>2. pc'[Server] = pc[Server] BY <1>0, <1>3, <1>4, Zenon DEF Goes, Members
  <2>3. LeakInv' BY <1>1, <2>1, <2>2, Zenon DEF LeakInv
  <2>4. MuteNotDeaf' BY <1>1, <2>1, Zenon DEF MuteNotDeaf
  <2>. QED BY <2>3, <2>4, Zenon DEF LeaksOK
<1>. QED BY <1>4, <1>5, <1>6, <1>7, <1>8, NextParts, Zenon DEF Whole

-----------------------------------------------------------------------------
\* The network: a frame comes to the sockets that hear it.

Arrives(g) ==
  /\ buf' = [x \in Parties |-> IF Hears(x, g) THEN Append(buf[x], g) ELSE buf[x]]
  /\ UNCHANGED <<prog, setup, FdLimit, pc, cur, GOT_IT, leaked, answered, errors>>

LEMMA Arrived ==
  ASSUME IInv, NEW g \in Frames, Arrives(g), NEW y \in Parties
  PROVE  /\ Hears(y, g) => g \in ToSet(buf'[y])
         /\ ~Hears(y, g) => buf'[y] = buf[y]
         /\ buf'[y] \in Seq(Frames) /\ ToSet(buf'[y]) \subseteq ToSet(buf[y]) \cup {g}
         /\ \A f : f # g => (f \in ToSet(buf'[y]) <=> f \in ToSet(buf[y]))
         /\ \A f : OnceIn(buf[y], f) /\ (f # g \/ f \notin ToSet(buf[y])) => OnceIn(buf'[y], f)
<1>1. buf'[y] = IF Hears(y, g) THEN Append(buf[y], g) ELSE buf[y] BY DEF Arrives
<1>2. buf[y] \in Seq(Frames) BY OfParty
<1>3. CASE Hears(y, g)
  <2>. DEFINE s == buf[y]
              a == Append(s, g)
  <2>1. /\ a \in Seq(Frames) /\ ToSet(a) = ToSet(s) \cup {g}
        /\ \A f : OnceIn(s, f) /\ (f # g \/ f \notin ToSet(s)) => OnceIn(a, f)
    BY <1>2, Appended
  <2>2. buf'[y] = a BY <1>1, <1>3
  <2>. HIDE DEF s, a
  <2>3. /\ g \in ToSet(a) /\ ToSet(a) \subseteq ToSet(s) \cup {g}
        /\ \A f : f # g => (f \in ToSet(a) <=> f \in ToSet(s))
    BY <2>1
  <2>. QED BY <1>3, <2>1, <2>2, <2>3, Zenon DEF s
<1>4. CASE ~Hears(y, g) BY <1>1, <1>2, <1>4
<1>. QED BY <1>3, <1>4

LEMMA SocketsArrive ==
  ASSUME IInv, NEW g \in Frames, AckAbout(g, answered), Arrives(g)
  PROVE  SocketsOK'
<1>0. SocketsOK BY Parts, Zenon DEF Whole
<1>1. /\ UNCHANGED <<prog, setup, FdLimit, pc, cur, answered>> /\ Fixed BY DEF Arrives, Fixed
<1>2. buf' \in [Parties -> Seq(Frames)]
  <2>1. \A y \in Parties : buf'[y] \in Seq(Frames) BY Arrived
  <2>. QED BY <2>1 DEF Arrives
<1>3. ASSUME NEW y \in Parties PROVE PartyOK(y)'
  <2>1. Party(y, pc[y], buf[y], cur[y], answered) BY OfParty
  <2>2. /\ ~Hears(y, g) => buf'[y] = buf[y]
        /\ buf'[y] \in Seq(Frames) /\ ToSet(buf'[y]) \subseteq ToSet(buf[y]) \cup {g}
    BY <1>3, Arrived
  <2>3. CASE ~Hears(y, g) BY <1>1, <2>1, <2>2, <2>3, PartyNext, Zenon
  <2>4. CASE Hears(y, g)
    <3>1. pc[y] \in {"recv", "process", "close"} /\ g.to = HostOf(y)
      BY <2>4 DEF Hears, Listening
    <3>2. \A f \in ToSet(buf'[y]) \cup ToSet(cur[y]) : f.to = HostOf(y) /\ AckAbout(f, answered)
      <4>1. \A f \in ToSet(buf[y]) \cup ToSet(cur[y]) :
               f.to = HostOf(y) /\ AckAbout(f, answered)
        BY <2>1, Zenon DEF Party
      <4>2. \A f \in ToSet(buf'[y]) \cup ToSet(cur[y]) :
               f = g \/ f \in ToSet(buf[y]) \cup ToSet(cur[y])
        BY <2>2
      <4>. QED BY <3>1, <4>1, <4>2, Zenon
    <3>3. Party(y, pc[y], buf'[y], cur[y], answered) BY <2>1, <2>2, <3>1, <3>2, Zenon DEF Party
    <3>. QED BY <1>1, <3>3, PartyNext, Zenon
  <2>. QED BY <2>3, <2>4
<1>4. Parties' = Parties /\ PCs' = PCs BY DEF Parties, PCs
<1>. QED BY <1>0, <1>1, <1>2, <1>3, <1>4, SameNames, Zenon DEF SocketsOK

\* No frame comes to its socket for the second time.
NotTwice(g) == \A c \in Clients \ GOT_IT : /\ Request(c) = g => ~AtSocket(c)
                                           /\ MyAck(c) = g => ~BackSocket(c)

LEMMA OnceArrives ==
  ASSUME IInv, NEW g \in Frames, Arrives(g), NotTwice(g)
  PROVE  OnceOK'
<1>1. UNCHANGED <<pc, cur, GOT_IT>> /\ Fixed BY DEF Arrives, Fixed
<1>2. SUFFICES ASSUME NEW c \in Clients, c \notin GOT_IT
               PROVE  /\ OnceIn(buf'[Server], Request(c))
                      /\ OnceIn(buf'[c], MyAck(c))
                      /\ pc'[c] = "close" => MyAck(c) \notin ToSet(cur'[c])
  BY <1>1, OnceNext, Zenon
<1>3. OnceOf(c) /\ c \in Parties /\ Server \in Parties BY OfClient, MembersAre DEF Members
<1>4. /\ Request(c) = g => Request(c) \notin ToSet(buf[Server])
      /\ MyAck(c) = g => MyAck(c) \notin ToSet(buf[c])
  BY <1>2, Zenon DEF NotTwice, AtSocket, BackSocket
<1>5. OnceIn(buf'[Server], Request(c))
  <2>1. \A f : OnceIn(buf[Server], f) /\ (f # g \/ f \notin ToSet(buf[Server]))
                 => OnceIn(buf'[Server], f)
    BY <1>3, Arrived
  <2>. QED BY <1>2, <1>3, <1>4, <2>1, Zenon DEF OnceOf
<1>6. OnceIn(buf'[c], MyAck(c))
  <2>1. \A f : OnceIn(buf[c], f) /\ (f # g \/ f \notin ToSet(buf[c])) => OnceIn(buf'[c], f)
    BY <1>3, Arrived
  <2>. QED BY <1>2, <1>3, <1>4, <2>1, Zenon DEF OnceOf
<1>. QED BY <1>1, <1>2, <1>3, <1>5, <1>6, Zenon DEF OnceOf

\* The two parts that only name what the network does not change.
LEMMA LeaksStay ==
  ASSUME IInv, UNCHANGED <<FdLimit, pc, leaked, answered, errors>>
  PROVE  LeaksOK'
<1>1. LeakInv /\ MuteNotDeaf BY Parts, Zenon DEF Whole, LeaksOK
<1>2. LeakInv' BY <1>1, Zenon DEF LeakInv
<1>3. MuteNotDeaf' BY <1>1, Zenon DEF MuteNotDeaf
<1>. QED BY <1>2, <1>3, Zenon DEF LeaksOK

LEMMA NoiseKeeps == ASSUME IInv, NEW z \in Parties, Noise(HostOf(z)) PROVE IInv'
<1>0. Whole /\ Members BY Parts, MembersAre, Zenon
<1>. DEFINE g == Other(HostOf(z))
<1>1. /\ Arrives(g) /\ noise < MaxNoise /\ noise' = noise + 1
      /\ UNCHANGED <<prog, setup, FdLimit, wire, pc, cur, GOT_IT, leaked, answered, missed, errors>>
  BY DEF Noise, Arrives
<1>2. Fixed BY <1>1 DEF Fixed
<1>3. g \in Frames /\ AckAbout(g, answered)
  <2>1. g.op = "other" BY DEF Other
  <2>. QED BY <2>1, AreFrames DEF AckAbout
<1>4. \A c : Request(c) # g /\ MyAck(c) # g BY Differ
<1>. HIDE DEF g
<1>5. SocketsOK' BY <1>1, <1>3, SocketsArrive
<1>6. StartOK' /\ NetOK' /\ CountersOK'
  <2>1. StartOK' BY <1>0, <1>2 DEF Whole, StartOK, Fixed
  <2>2. NetOK' BY <1>0, <1>1, <1>2, NetKept DEF Whole
  <2>3. noise' \in 0..MaxNoise
    <3>1. noise \in 0..MaxNoise BY <1>0 DEF Whole, CountersOK
    <3>. QED BY <1>1, <3>1, BoundsAssumption
  <2>4. CountersOK' BY <1>0, <1>1, <2>3, Zenon DEF Whole, CountersOK
  <2>. QED BY <2>1, <2>2, <2>4
<1>7. PlacesOK'
  <2>1. SUFFICES ASSUME NEW c \in Clients PROVE PlaceOf(c)' BY Zenon DEF PlacesOK
  <2>2. PlaceOf(c) /\ c \in Parties /\ Server \in Parties BY OfClient, MembersAre DEF Members
  <2>3. MyAck(c)' = MyAck(c) /\ Request(c)' = Request(c) BY <1>2, SameNames, Zenon DEF Request
  <2>4. /\ Silent(c)' <=> Silent(c)
        /\ AtWire(c)' <=> AtWire(c)
        /\ AtServer(c)' <=> AtServer(c)
        /\ BackWire(c)' <=> BackWire(c)
        /\ BackHome(c)' <=> BackHome(c)
        /\ Missed(c)' <=> Missed(c)
        /\ c \in GOT_IT' <=> c \in GOT_IT
    BY <1>1, <2>3, Zenon DEF Silent, AtWire, AtServer, BackWire, BackHome, Missed
  <2>5. AtSocket(c)' <=> AtSocket(c)
    <3>1. \A f : f # g => (f \in ToSet(buf'[Server]) <=> f \in ToSet(buf[Server]))
      BY <1>1, <1>3, <2>2, Arrived
    <3>. QED BY <1>4, <2>3, <3>1, Zenon DEF AtSocket
  <2>6. BackSocket(c)' <=> BackSocket(c)
    <3>1. \A f : f # g => (f \in ToSet(buf'[c]) <=> f \in ToSet(buf[c]))
      BY <1>1, <1>3, <2>2, Arrived
    <3>. QED BY <1>4, <2>3, <3>1, Zenon DEF BackSocket
  <2>. QED BY <2>2, <2>4, <2>5, <2>6, PlaceKept
<1>8. OnceOK'
  <2>1. NotTwice(g) BY <1>4, Zenon DEF NotTwice
  <2>. QED BY <1>1, <1>3, <2>1, OnceArrives
<1>9. LeaksOK' BY <1>1, LeaksStay
<1>. QED BY <1>5, <1>6, <1>7, <1>8, <1>9, NextParts, Zenon DEF Whole

\* A frame that is under way.
LEMMA UnderWay ==
  ASSUME IInv, NEW g \in wire
  PROVE  /\ g \in Frames /\ AckAbout(g, answered) /\ g.about \in Clients
         /\ ~Silent(g.about)
         /\ g = Request(g.about) \/ g = MyAck(g.about)
<1>1. g \in Frames /\ g.op # "other" /\ AckAbout(g, answered)
  BY Parts, Zenon DEF Whole, NetOK
<1>2. Kind(g) BY <1>1, Kinds
<1>3. g.about \in Clients /\ (g = Request(g.about) \/ g = MyAck(g.about))
  BY <1>1, <1>2, Zenon DEF Kind
<1>4. ~Silent(g.about)
  <2>1. PlaceOf(g.about) BY <1>3, OfClient
  <2>2. AtWire(g.about) \/ BackWire(g.about) BY <1>3, Zenon DEF AtWire, BackWire
  <2>. QED BY <2>1, <2>2, Zenon DEF PlaceOf, Nowhere
<1>. QED BY <1>1, <1>3, <1>4

\* What is under way once a frame is no longer.
LEMMA WireLess ==
  ASSUME Fixed, NEW g, wire' = wire \ {g}, NEW c
  PROVE  /\ AtWire(c)' <=> AtWire(c) /\ Request(c) # g
         /\ BackWire(c)' <=> BackWire(c) /\ MyAck(c) # g
<1>1. MyAck(c)' = MyAck(c) /\ Request(c)' = Request(c) BY SameNames, Zenon DEF Request
<1>. QED BY <1>1 DEF AtWire, BackWire

LEMMA LoseKeeps == ASSUME IInv, NEW g \in wire, Lose(g) PROVE IInv'
<1>0. Whole /\ Members BY Parts, MembersAre, Zenon
<1>1. /\ wire' = wire \ {g} /\ missed' = missed \cup {g.about}
      /\ UNCHANGED <<prog, setup, FdLimit, pc, buf, cur, GOT_IT, leaked, answered, noise, errors>>
  BY DEF Lose
<1>2. Fixed BY <1>1 DEF Fixed
<1>3. /\ g.about \in Clients /\ ~Silent(g.about)
      /\ g = Request(g.about) \/ g = MyAck(g.about)
  BY UnderWay
<1>4. StartOK' /\ NetOK' /\ SocketsOK' /\ CountersOK'
  <2>1. StartOK' BY <1>0, <1>2 DEF Whole, StartOK, Fixed
  <2>2. NetOK' BY <1>0, <1>1, <1>2, NetKept DEF Whole
  <2>3. missed' \subseteq Clients BY <1>0, <1>1, <1>3 DEF Whole, CountersOK
  <2>4. CountersOK' BY <1>0, <1>1, <2>3, Zenon DEF Whole, CountersOK
  <2>5. SocketsOK'
    <3>1. SocketsOK BY <1>0, Zenon DEF Whole
    <3>2. \A x \in Parties : PartyOK(x)' BY <1>1, <1>2, <3>1, PartyNext, Zenon
                                            DEF SocketsOK, PartyOK
    <3>3. Parties' = Parties /\ PCs' = PCs BY DEF Parties, PCs
    <3>. QED BY <1>1, <1>2, <3>1, <3>2, <3>3, SameNames, Zenon DEF SocketsOK
  <2>. QED BY <2>1, <2>2, <2>4, <2>5
<1>5. PlacesOK'
  <2>1. SUFFICES ASSUME NEW c \in Clients PROVE PlaceOf(c)' BY Zenon DEF PlacesOK
  <2>2. PlaceOf(c) BY OfClient
  <2>3. MyAck(c)' = MyAck(c) /\ Request(c)' = Request(c) BY <1>2, SameNames, Zenon DEF Request
  <2>4. /\ Silent(c)' <=> Silent(c)
        /\ AtSocket(c)' <=> AtSocket(c)
        /\ AtServer(c)' <=> AtServer(c)
        /\ BackSocket(c)' <=> BackSocket(c)
        /\ BackHome(c)' <=> BackHome(c)
        /\ c \in GOT_IT' <=> c \in GOT_IT
    BY <1>1, <2>3, Zenon DEF Silent, AtSocket, AtServer, BackSocket, BackHome
  <2>5. /\ AtWire(c)' <=> AtWire(c) /\ Request(c) # g
        /\ BackWire(c)' <=> BackWire(c) /\ MyAck(c) # g
    BY <1>1, <1>2, WireLess
  <2>6. CASE c = g.about
    <3>1. Missed(c)' BY <1>1, <2>6 DEF Missed
    <3>2. ~Silent(c) BY <1>3, <2>6
    <3>3. CASE g = Request(c)
      <4>1. AtWire(c) /\ MyAck(c) # g BY <3>3, Differ, Zenon DEF AtWire
      <4>. QED BY <2>2, <2>4, <2>5, <3>1, <3>2, <3>3, <4>1 DEF PlaceOf, Nowhere, Somewhere
    <3>4. CASE g = MyAck(c)
      <4>1. BackWire(c) /\ Request(c) # g BY <3>4, Differ, Zenon DEF BackWire
      <4>. QED BY <2>2, <2>4, <2>5, <3>1, <3>2, <3>4, <4>1 DEF PlaceOf, Nowhere, Somewhere
    <3>. QED BY <1>3, <2>6, <3>3, <3>4, Zenon
  <2>7. CASE c # g.about
    <3>1. Missed(c)' <=> Missed(c) BY <1>1, <2>7 DEF Missed
    <3>2. Request(c) # g /\ MyAck(c) # g BY <2>7, Differ, Zenon
    <3>. QED BY <2>2, <2>4, <2>5, <3>1, <3>2, PlaceKept
  <2>. QED BY <2>6, <2>7
<1>6. OnceOK'
  <2>1. SUFFICES ASSUME NEW c \in Clients, c \notin GOT_IT
                 PROVE  /\ OnceIn(buf'[Server], Request(c))
                        /\ OnceIn(buf'[c], MyAck(c))
                        /\ pc'[c] = "close" => MyAck(c) \notin ToSet(cur'[c])
    BY <1>1, <1>2, OnceNext, Zenon
  <2>2. OnceOf(c) BY OfClient
  <2>. QED BY <1>1, <2>1, <2>2, Zenon DEF OnceOf
<1>7. LeaksOK' BY <1>1, LeaksStay
<1>. QED BY <1>4, <1>5, <1>6, <1>7, NextParts, Zenon DEF Whole

LEMMA DeliverKeeps == ASSUME IInv, NEW g \in wire, Deliver(g) PROVE IInv'
<1>0. Whole /\ Members BY Parts, MembersAre, Zenon
<1>1. /\ Arrives(g) /\ wire' = wire \ {g}
      /\ UNCHANGED <<prog, setup, FdLimit, pc, cur, GOT_IT, leaked, answered, noise, errors>>
  BY DEF Deliver, Arrives
<1>2. Fixed BY <1>1 DEF Fixed
<1>. DEFINE d == g.about
            heard == Hears(Addressee(g), g)
<1>3. /\ g \in Frames /\ AckAbout(g, answered) /\ d \in Clients /\ ~Silent(d)
      /\ g = Request(d) \/ g = MyAck(d)
  BY UnderWay
<1>4. missed' = IF heard THEN missed ELSE missed \cup {d} BY DEF Deliver
<1>5. /\ g = Request(d) => Addressee(g) = Server
      /\ g = MyAck(d) => Addressee(g) = d
  <2>1. g = Request(d) => g.op = "request" BY Differ
  <2>2. g = MyAck(d) => g.op = "ack" BY Differ
  <2>. QED BY <2>1, <2>2 DEF Addressee
<1>. HIDE DEF d, heard
<1>6. NotTwice(g)
  <2>1. SUFFICES ASSUME NEW c \in Clients, c \notin GOT_IT
                 PROVE  /\ Request(c) = g => ~AtSocket(c)
                        /\ MyAck(c) = g => ~BackSocket(c)
    BY Zenon DEF NotTwice
  <2>2. PlaceOf(c) BY OfClient
  <2>3. /\ Request(c) = g => AtWire(c)
        /\ MyAck(c) = g => BackWire(c)
    BY DEF AtWire, BackWire
  <2>. QED BY <2>1, <2>2, <2>3 DEF PlaceOf, Nowhere, Somewhere
<1>7. StartOK' /\ NetOK' /\ SocketsOK' /\ CountersOK'
  <2>1. StartOK' BY <1>0, <1>2 DEF Whole, StartOK, Fixed
  <2>2. NetOK' BY <1>0, <1>1, <1>2, NetKept DEF Whole
  <2>3. missed' \subseteq Clients BY <1>0, <1>3, <1>4 DEF Whole, CountersOK
  <2>4. CountersOK' BY <1>0, <1>1, <2>3, Zenon DEF Whole, CountersOK
  <2>5. SocketsOK' BY <1>1, <1>3, SocketsArrive
  <2>. QED BY <2>1, <2>2, <2>4, <2>5
<1>8. PlacesOK'
  <2>1. SUFFICES ASSUME NEW c \in Clients PROVE PlaceOf(c)' BY Zenon DEF PlacesOK
  <2>2. PlaceOf(c) /\ c \in Parties /\ Server \in Parties BY OfClient, MembersAre DEF Members
  <2>3. MyAck(c)' = MyAck(c) /\ Request(c)' = Request(c) BY <1>2, SameNames, Zenon DEF Request
  <2>4. /\ Silent(c)' <=> Silent(c)
        /\ AtServer(c)' <=> AtServer(c)
        /\ BackHome(c)' <=> BackHome(c)
        /\ c \in GOT_IT' <=> c \in GOT_IT
    BY <1>1, <2>3, Zenon DEF Silent, AtServer, BackHome
  <2>5. /\ AtWire(c)' <=> AtWire(c) /\ Request(c) # g
        /\ BackWire(c)' <=> BackWire(c) /\ MyAck(c) # g
    BY <1>1, <1>2, WireLess
  <2>6. /\ Request(c) # g => (AtSocket(c)' <=> AtSocket(c))
        /\ Request(c) = g => (AtSocket(c)' <=> AtSocket(c) \/ Hears(Server, g))
    <3>1. /\ Hears(Server, g) => g \in ToSet(buf'[Server])
          /\ ~Hears(Server, g) => buf'[Server] = buf[Server]
          /\ \A f : f # g => (f \in ToSet(buf'[Server]) <=> f \in ToSet(buf[Server]))
      BY <1>1, <1>3, <2>2, Arrived
    <3>2. Request(c) # g => (AtSocket(c)' <=> AtSocket(c)) BY <2>3, <3>1, Zenon DEF AtSocket
    <3>3. ASSUME Request(c) = g PROVE AtSocket(c)' <=> AtSocket(c) \/ Hears(Server, g)
      <4>1. AtSocket(c)' <=> g \in ToSet(buf'[Server]) BY <2>3, <3>3, Zenon DEF AtSocket
      <4>2. AtSocket(c) <=> g \in ToSet(buf[Server]) BY <3>3, Zenon DEF AtSocket
      <4>3. CASE Hears(Server, g) BY <3>1, <4>1, <4>3, Zenon
      <4>4. CASE ~Hears(Server, g) BY <3>1, <4>1, <4>2, <4>4, Zenon
      <4>. QED BY <4>3, <4>4
    <3>. QED BY <3>2, <3>3
  <2>7. /\ MyAck(c) # g => (BackSocket(c)' <=> BackSocket(c))
        /\ MyAck(c) = g => (BackSocket(c)' <=> BackSocket(c) \/ Hears(c, g))
    <3>1. /\ Hears(c, g) => g \in ToSet(buf'[c])
          /\ ~Hears(c, g) => buf'[c] = buf[c]
          /\ \A f : f # g => (f \in ToSet(buf'[c]) <=> f \in ToSet(buf[c]))
      BY <1>1, <1>3, <2>2, Arrived
    <3>2. MyAck(c) # g => (BackSocket(c)' <=> BackSocket(c)) BY <2>3, <3>1, Zenon DEF BackSocket
    <3>3. ASSUME MyAck(c) = g PROVE BackSocket(c)' <=> BackSocket(c) \/ Hears(c, g)
      <4>1. BackSocket(c)' <=> g \in ToSet(buf'[c]) BY <2>3, <3>3, Zenon DEF BackSocket
      <4>2. BackSocket(c) <=> g \in ToSet(buf[c]) BY <3>3, Zenon DEF BackSocket
      <4>3. CASE Hears(c, g) BY <3>1, <4>1, <4>3, Zenon
      <4>4. CASE ~Hears(c, g) BY <3>1, <4>1, <4>2, <4>4, Zenon
      <4>. QED BY <4>3, <4>4
    <3>. QED BY <3>2, <3>3
  <2>8. CASE c = d
    <3>1. Missed(c)' <=> Missed(c) \/ ~heard BY <1>4, <2>8 DEF Missed
    <3>2. ~Silent(c) BY <1>3, <2>8
    <3>3. CASE g = Request(c)
      <4>1. AtWire(c) /\ MyAck(c) # g BY <3>3, Differ, Zenon DEF AtWire
      <4>2. heard <=> Hears(Server, g) BY <1>5, <2>8, <3>3, Zenon DEF heard
      <4>. QED BY <2>2, <2>4, <2>5, <2>6, <2>7, <3>1, <3>2, <3>3, <4>1, <4>2
           DEF PlaceOf, Nowhere, Somewhere
    <3>4. CASE g = MyAck(c)
      <4>1. BackWire(c) /\ Request(c) # g BY <3>4, Differ, Zenon DEF BackWire
      <4>2. heard <=> Hears(c, g) BY <1>5, <2>8, <3>4, Zenon DEF heard
      <4>. QED BY <2>2, <2>4, <2>5, <2>6, <2>7, <3>1, <3>2, <3>4, <4>1, <4>2
           DEF PlaceOf, Nowhere, Somewhere
    <3>. QED BY <1>3, <2>8, <3>3, <3>4, Zenon
  <2>9. CASE c # d
    <3>1. Missed(c)' <=> Missed(c) BY <1>4, <2>9 DEF Missed
    <3>2. Request(c) # g /\ MyAck(c) # g
      <4>1. Request(c).about = c /\ MyAck(c).about = c BY Differ
      <4>. QED BY <2>9, <4>1, Zenon DEF d
    <3>. QED BY <2>2, <2>4, <2>5, <2>6, <2>7, <3>1, <3>2, PlaceKept
  <2>. QED BY <2>8, <2>9
<1>9. OnceOK' BY <1>1, <1>3, <1>6, OnceArrives
<1>10. LeaksOK' BY <1>1, LeaksStay
<1>. QED BY <1>7, <1>8, <1>9, <1>10, NextParts, Zenon DEF Whole

-----------------------------------------------------------------------------
LEMMA Initially == Init => IInv
<1>. SUFFICES ASSUME Init PROVE IInv OBVIOUS
<1>0. Members BY MembersAre
<1>1. PICK s \in Setups : prog = s.prog /\ setup = s.clients /\ FdLimit = s.fds
  BY Zenon DEF Init
<1>2. StartOK /\ FdLimit # 0 /\ FdLimit \in Nat
  <2>1. s.prog \in {"mdhcp", "datetime"} /\ s.fds \in Nat \ {0} BY SetupsAssumption
  <2>. QED BY <1>1, <2>1 DEF StartOK
<1>3. /\ wire = {} /\ GOT_IT = {} /\ leaked = 0 /\ answered = {} /\ missed = {}
      /\ noise = 0 /\ errors = 0
      /\ pc = [x \in Parties |-> IF x = Server THEN "open" ELSE "send"]
      /\ buf = [x \in Parties |-> <<>>]
      /\ cur = [x \in Parties |-> <<>>]
  BY DEF Init
<1>4. ASSUME NEW x \in Parties
      PROVE  /\ buf[x] = <<>> /\ cur[x] = <<>> /\ ToSet(buf[x]) = {} /\ ToSet(cur[x]) = {}
             /\ x = Server => pc[x] = "open"
             /\ x # Server => pc[x] = "send"
  <2>1. buf[x] = <<>> /\ cur[x] = <<>> BY <1>3
  <2>. QED BY <1>3, <2>1, Emptied
<1>5. NetOK BY <1>3 DEF NetOK
<1>6. SocketsOK
  <2>1. <<>> \in Seq(Frames) /\ Len(<<>>) = 0 OBVIOUS
  <2>2. /\ pc \in [Parties -> PCs]
        /\ buf \in [Parties -> Seq(Frames)]
        /\ cur \in [Parties -> Seq(Frames)]
    BY <1>3, <2>1 DEF PCs
  <2>3. ASSUME NEW x \in Parties PROVE PartyOK(x)
    <3>1. pc[x] \notin {"process", "close"} /\ (x \in Clients => pc[x] \in {"send", "refused"})
      BY <1>0, <1>4 DEF Members
    <3>2. \A f \in ToSet(buf[x]) \cup ToSet(cur[x]) : f.to = HostOf(x) /\ AckAbout(f, answered)
      BY <1>4
    <3>3. Len(cur[x]) = IF pc[x] \in {"process", "close"} THEN 1 ELSE 0
      BY <1>4, <2>1, <3>1
    <3>4. buf[x] \in Seq(Frames) /\ cur[x] \in Seq(Frames) /\ buf[x] = <<>> BY <1>4, <2>1
    <3>. QED BY <3>1, <3>2, <3>3, <3>4, Zenon DEF PartyOK, Party
  <2>. QED BY <2>2, <2>3, Zenon DEF SocketsOK
<1>7. CountersOK
  <2>1. 0 \in 0..FdLimit /\ 0 \in 0..MaxNoise /\ 0 \in 0..MaxErrors BY <1>2, BoundsAssumption
  <2>. QED BY <1>3, <2>1 DEF CountersOK
<1>8. PlacesOK
  <2>1. SUFFICES ASSUME NEW c \in Clients PROVE PlaceOf(c) BY Zenon DEF PlacesOK
  <2>2. c \in Parties /\ c # Server /\ Server \in Parties BY <1>0 DEF Members
  <2>3. Silent(c) BY <1>4, <2>2 DEF Silent
  <2>4. /\ ~AtWire(c) /\ ~AtSocket(c) /\ ~BackWire(c) /\ ~BackSocket(c)
        /\ ~BackHome(c) /\ ~Missed(c)
    BY <1>3, <1>4, <2>2 DEF AtWire, AtSocket, BackWire, BackSocket, BackHome, Missed
  <2>5. ~AtServer(c) BY <1>4, <2>2 DEF AtServer
  <2>. QED BY <2>3, <2>4, <2>5, Zenon DEF PlaceOf, Nowhere
<1>9. OnceOK
  <2>1. SUFFICES ASSUME NEW c \in Clients PROVE OnceOf(c) BY Zenon DEF OnceOK
  <2>2. c \in Parties /\ Server \in Parties BY <1>0 DEF Members
  <2>3. \A f : OnceIn(<<>>, f) BY Emptied
  <2>4. buf[Server] = <<>> /\ buf[c] = <<>> /\ ToSet(cur[c]) = {} BY <1>4, <2>2
  <2>. QED BY <2>3, <2>4, Zenon DEF OnceOf
<1>10. LeaksOK
  <2>1. IsFiniteSet(answered) /\ Cardinality(answered) = 0 BY <1>3, FS_EmptySet
  <2>2. 0 < FdLimit BY <1>2
  <2>3. LeakInv BY <1>3, <2>1, <2>2 DEF LeakInv
  <2>4. MuteNotDeaf BY <1>3, <2>1, <2>2 DEF MuteNotDeaf
  <2>. QED BY <2>3, <2>4 DEF LeaksOK
<1>. QED BY <1>2, <1>5, <1>6, <1>7, <1>8, <1>9, <1>10, Parts, Zenon DEF Whole

LEMMA StutterKeeps == IInv /\ UNCHANGED vars => IInv'
<1>. SUFFICES ASSUME IInv, UNCHANGED vars PROVE IInv' OBVIOUS
<1>0. Whole BY Parts, Zenon
<1>1. /\ UNCHANGED <<prog, setup, FdLimit, wire, pc, buf, cur>>
      /\ UNCHANGED <<GOT_IT, leaked, answered, missed, noise, errors>> /\ Fixed
  BY DEF vars, Fixed
<1>2. StartOK' /\ NetOK' /\ SocketsOK' /\ CountersOK'
  <2>1. StartOK' BY <1>0, <1>1 DEF Whole, StartOK
  <2>2. NetOK' BY <1>0, <1>1, NetKept DEF Whole
  <2>3. CountersOK' BY <1>0, <1>1, Zenon DEF Whole, CountersOK
  <2>4. SocketsOK'
    <3>1. SocketsOK BY <1>0, Zenon DEF Whole
    <3>2. \A x \in Parties : PartyOK(x)' BY <1>1, <3>1, PartyNext, Zenon
                                            DEF SocketsOK, PartyOK
    <3>3. Parties' = Parties /\ PCs' = PCs BY DEF Parties, PCs
    <3>. QED BY <1>1, <3>1, <3>2, <3>3, SameNames, Zenon DEF SocketsOK
  <2>. QED BY <2>1, <2>2, <2>3, <2>4
<1>3. PlacesOK'
  <2>1. SUFFICES ASSUME NEW c \in Clients PROVE PlaceOf(c)' BY Zenon DEF PlacesOK
  <2>2. PlaceOf(c) BY OfClient
  <2>3. MyAck(c)' = MyAck(c) /\ Request(c)' = Request(c) BY <1>1, SameNames, Zenon DEF Request
  <2>4. /\ Silent(c)' <=> Silent(c)
        /\ AtWire(c)' <=> AtWire(c)
        /\ AtSocket(c)' <=> AtSocket(c)
        /\ AtServer(c)' <=> AtServer(c)
        /\ BackWire(c)' <=> BackWire(c)
        /\ BackSocket(c)' <=> BackSocket(c)
        /\ BackHome(c)' <=> BackHome(c)
        /\ Missed(c)' <=> Missed(c)
        /\ c \in GOT_IT' <=> c \in GOT_IT
    BY <1>1, <2>3, Zenon
       DEF Silent, AtWire, AtSocket, AtServer, BackWire, BackSocket, BackHome, Missed
  <2>. QED BY <2>2, <2>4, PlaceKept
<1>4. OnceOK'
  <2>1. SUFFICES ASSUME NEW c \in Clients, c \notin GOT_IT
                 PROVE  /\ OnceIn(buf'[Server], Request(c))
                        /\ OnceIn(buf'[c], MyAck(c))
                        /\ pc'[c] = "close" => MyAck(c) \notin ToSet(cur'[c])
    BY <1>1, OnceNext, Zenon
  <2>2. OnceOf(c) BY OfClient
  <2>. QED BY <1>1, <2>1, <2>2, Zenon DEF OnceOf
<1>5. LeaksOK' BY <1>1, LeaksStay
<1>. QED BY <1>2, <1>3, <1>4, <1>5, NextParts, Zenon DEF Whole

LEMMA NextKeeps == IInv /\ Next => IInv'
<1>. SUFFICES ASSUME IInv, Next PROVE IInv' OBVIOUS
<1>0. Server \in Parties /\ \A c \in Clients : c \in Parties BY MembersAre DEF Members
<1>1. CASE ServerStep
  <2>1. CASE Open(Server) BY <1>0, <2>1, OpenKeeps
  <2>2. CASE Recv(Server) BY <1>0, <2>2, RecvKeeps
  <2>3. CASE RecvError(Server) BY <1>0, <2>3, RecvErrorKeeps
  <2>4. CASE Reply BY <2>4, ReplyKeeps
  <2>5. CASE ReplyFails BY <2>5, ReplyFailsKeeps
  <2>6. CASE Misread BY <2>6, MisreadKeeps
  <2>7. CASE Ignore BY <2>7, IgnoreKeeps
  <2>8. CASE Close(Server) BY <1>0, <2>8, ClosedKeeps
  <2>. QED BY <1>1, <2>1, <2>2, <2>3, <2>4, <2>5, <2>6, <2>7, <2>8 DEF ServerStep
<1>2. ASSUME NEW c \in Clients, ClientStep(c) PROVE IInv'
  <2>1. CASE Refuse(c) BY <2>1, RefuseKeeps
  <2>2. CASE Send(c) BY <2>2, SendKeeps
  <2>3. CASE Open(c) BY <1>0, <2>3, OpenKeeps
  <2>4. CASE Recv(c) BY <1>0, <2>4, RecvKeeps
  <2>5. CASE RecvError(c) BY <1>0, <2>5, RecvErrorKeeps
  <2>6. CASE Accept(c) BY <2>6, AcceptKeeps
  <2>7. CASE Drop(c) BY <2>7, DropKeeps
  <2>8. CASE Close(c) BY <1>0, <2>8, ClosedKeeps
  <2>. QED BY <1>2, <2>1, <2>2, <2>3, <2>4, <2>5, <2>6, <2>7, <2>8 DEF ClientStep
<1>3. ASSUME NEW f \in wire, Deliver(f) PROVE IInv' BY <1>3, DeliverKeeps
<1>4. ASSUME NEW f \in wire, Lose(f) PROVE IInv' BY <1>4, LoseKeeps
<1>5. ASSUME NEW x \in Parties, Noise(HostOf(x)) PROVE IInv' BY <1>5, NoiseKeeps
<1>. QED BY <1>1, <1>2, <1>3, <1>4, <1>5, Zenon DEF Next

\* The types, and where every exchange is, in any number of clients on any
\* hosts and ports: what Listen and SendPacket of both programs keep.
THEOREM PacketInvariant == Spec => []IInv
BY Initially, StutterKeeps, NextKeeps, PTL DEF Spec

\* Each step of Listen, SendPacket and the network moves an exchange from one
\* place to the next one or loses it: it is in one place until it is done.
THEOREM ExchangeInOnePlace == Spec => []OnePlace
<1>1. IInv => OnePlace BY DEF IInv
<1>. QED BY <1>1, PacketInvariant, PTL

\* The descriptors that the replies leave behind make the server mute, not deaf:
\* it keeps one for the packet socket of Listen unless recvfrom has failed.
THEOREM ServerNotDeaf == Spec => []MuteNotDeaf
<1>1. IInv => MuteNotDeaf BY DEF IInv
<1>. QED BY <1>1, PacketInvariant, PTL

-----------------------------------------------------------------------------
\* What a client took is an answer to a request for its host and port.

Answering(c, d) == AnswerTo(d) = setup[c].host /\ setup[d].port = setup[c].port

LEMMA MatchKept ==
  ASSUME AckMatchesRequest, Fixed, answered \subseteq answered', GOT_IT' \subseteq GOT_IT
  PROVE  AckMatchesRequest'
<1>1. prog' = prog /\ setup' = setup BY DEF Fixed
<1>2. \A d : AnswerTo(d)' = AnswerTo(d) BY <1>1, Zenon DEF AnswerTo
<1>. QED BY <1>1, <1>2, Zenon DEF AckMatchesRequest

LEMMA AcceptMatches ==
  ASSUME IInv, AckMatchesRequest, NEW c \in Clients, Accept(c)
  PROVE  AckMatchesRequest'
<1>1. /\ pc[c] = "process" /\ IsAck(c, cur[c][1]) /\ GOT_IT' = GOT_IT \cup {c}
      /\ UNCHANGED <<prog, setup, answered>>
  BY DEF Accept, Step
<1>2. c \in Parties /\ c # Server BY MembersAre DEF Members
<1>. DEFINE f == cur[c][1]
            d == f.about
<1>3. Kind(f) /\ AckAbout(f, answered) /\ f.to = HostOf(c) BY <1>1, <1>2, InBuffer
<1>4. f.op = "ack" /\ f.port = setup[c].port BY <1>1 DEF IsAck
<1>5. d \in answered BY <1>3, <1>4, Zenon DEF AckAbout
<1>6. f.to = AnswerTo(d) /\ f.port = setup[d].port BY <1>3, <1>4 DEF Kind
<1>7. f.to = setup[c].host BY <1>2, <1>3, Zenon DEF HostOf
<1>8. Answering(c, d) BY <1>4, <1>6, <1>7, Zenon DEF Answering
<1>. HIDE DEF d
<1>9. \A a : AnswerTo(a)' = AnswerTo(a) BY <1>1, Zenon DEF AnswerTo
<1>10. ASSUME NEW x \in GOT_IT' PROVE \E a \in answered : Answering(x, a)
  <2>1. CASE x = c BY <1>5, <1>8, <2>1, Zenon
  <2>2. CASE x \in GOT_IT BY <2>2, Zenon DEF AckMatchesRequest, Answering
  <2>. QED BY <1>1, <1>10, <2>1, <2>2
<1>. QED BY <1>1, <1>9, <1>10, Zenon DEF AckMatchesRequest, Answering

LEMMA NextMatches == IInv /\ AckMatchesRequest /\ [Next]_vars => AckMatchesRequest'
<1>. SUFFICES ASSUME IInv, AckMatchesRequest, [Next]_vars PROVE AckMatchesRequest' OBVIOUS
<1>1. ASSUME NEW c \in Clients, Accept(c) PROVE AckMatchesRequest' BY <1>1, AcceptMatches
<1>2. CASE \A c \in Clients : ~Accept(c)
  <2>1. Fixed /\ GOT_IT' = GOT_IT /\ answered \subseteq answered'
    <3>1. CASE ServerStep
      BY <3>1 DEF ServerStep, Open, Recv, RecvError, Reply, ReplyFails, Misread, Ignore, Close,
                  Fixed
    <3>2. ASSUME NEW c \in Clients, ClientStep(c)
          PROVE  Fixed /\ GOT_IT' = GOT_IT /\ answered \subseteq answered'
      <4>1. ~Accept(c) BY <1>2
      <4>. QED BY <3>2, <4>1
           DEF ClientStep, Refuse, Send, Open, Recv, RecvError, Drop, Close, Fixed
    <3>3. ASSUME NEW f \in wire, Deliver(f) \/ Lose(f)
          PROVE  Fixed /\ GOT_IT' = GOT_IT /\ answered \subseteq answered'
      BY <3>3 DEF Deliver, Lose, Fixed
    <3>4. ASSUME NEW x \in Parties, Noise(HostOf(x))
          PROVE  Fixed /\ GOT_IT' = GOT_IT /\ answered \subseteq answered'
      BY <3>4 DEF Noise, Fixed
    <3>5. CASE UNCHANGED vars BY <3>5 DEF vars, Fixed
    <3>. QED BY <3>1, <3>2, <3>3, <3>4, <3>5, Zenon DEF Next
  <2>. QED BY <2>1, MatchKept
<1>. QED BY <1>1, <1>2

\* A client of either program that has an answer was answered a request for its
\* own host and port, although nothing in the answer names the client.
THEOREM AnswersMatch == Spec => []AckMatchesRequest
<1>1. Init => AckMatchesRequest BY DEF Init, AckMatchesRequest
<1>. QED BY <1>1, NextMatches, PacketInvariant, PTL DEF Spec
=============================================================================
