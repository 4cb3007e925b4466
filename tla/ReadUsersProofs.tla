--------------------------- MODULE ReadUsersProofs ---------------------------
(***************************************************************************)
(* What usgen takes from a source file, for any file of fields,            *)
(* separators, line ends and bytes 255.                                    *)
(***************************************************************************)
EXTENDS ReadUsers, SequenceTheorems, TLAPS

-----------------------------------------------------------------------------
\* Reading a field.

LEMMA Source ==
  ASSUME TypeOK
  PROVE  /\ file \in Seq(Fields \cup {";", "nl", "ff"}) /\ Len(file) \in Nat /\ pos \in Nat
         /\ \A i \in 1..Len(file) : file[i] \in Fields \cup {";", "nl", "ff"}
         /\ \A i \in 1 .. Len(file) - 1 : file[i] \in Fields => file[i + 1] \notin Fields
<1>1. file \in Seq(Fields \cup {";", "nl", "ff"}) BY FilesAssumption DEF TypeOK
<1>2. \A i \in 1..Len(file) : file[i] \in Fields \cup {";", "nl", "ff"} BY <1>1, ElementOfSeq
<1>3. \A i \in 1 .. Len(file) - 1 : file[i] \in Fields => file[i + 1] \notin Fields
  BY FilesAssumption DEF TypeOK
<1>4. Len(file) \in Nat /\ pos \in Nat BY <1>1, LenProperties DEF TypeOK
<1>. QED BY <1>1, <1>2, <1>3, <1>4

LEMMA Sizes ==
  ASSUME TypeOK
  PROVE  Len(file) \in Nat /\ pos \in Nat
BY Source

\* The end of the file and the byte 255 are no field.
LEMMA Tokens ==
  ASSUME TypeOK, NEW i \in Nat \ {0}
  PROVE  /\ Token(i) \in Fields \cup {";", "nl", "EOF"}
         /\ Token(i) # "EOF" => i \in 1..Len(file) /\ file[i] = Token(i)
         /\ Token(i) = "EOF" => i > Len(file) \/ file[i] = "ff"
<1>1. CASE i > Len(file) BY <1>1, FieldsAssumption, Source DEF Token
<1>2. CASE i <= Len(file)
  <2>1. i \in 1..Len(file) /\ ~(i > Len(file)) BY <1>2, Sizes
  <2>2. file[i] \in Fields \cup {";", "nl", "ff"} /\ "EOF" \notin Fields
    BY <2>1, FieldsAssumption, Source
  <2>. QED BY <2>1, <2>2 DEF Token
<1>3. i > Len(file) \/ i <= Len(file) BY Sizes
<1>. QED BY <1>1, <1>2, <1>3

\* A field is followed by one character that is none: what ReadField leaves.
LEMMA FieldRead ==
  ASSUME TypeOK
  PROVE  /\ Text \in Fields \cup {Blank}
         /\ Text = Blank => Behind = pos + 1
         /\ Text # Blank => /\ Behind = pos + 2 /\ pos + 1 \in 1..Len(file)
                         /\ file[pos + 1] = Text /\ Text \in Fields
         /\ Behind \in Nat \ {0} /\ Behind > pos
         /\ Token(Behind) \in {";", "nl", "EOF"}
         /\ Token(Behind) # "EOF" => Behind \in 1..Len(file) /\ file[Behind] = Token(Behind)
         /\ \A p \in 1..Len(file) : p <= Behind /\ file[p] = "nl"
                                       => p <= pos \/ (p = Behind /\ Token(Behind) = "nl")
<1>1. pos \in Nat /\ pos + 1 \in Nat \ {0} /\ pos + 2 \in Nat \ {0} /\ Len(file) \in Nat
  BY Sizes
<1>2. CASE Token(pos + 1) \in Fields
  <2>1. Token(pos + 1) # "EOF" /\ Token(pos + 1) # Blank BY <1>2, FieldsAssumption
  <2>2. pos + 1 \in 1..Len(file) /\ file[pos + 1] = Token(pos + 1) BY <1>1, <2>1, Tokens
  <2>3. Text = Token(pos + 1) /\ Text # Blank /\ Behind = pos + 2 BY <1>2, <2>1 DEF Text, Behind
  <2>4. Token(pos + 2) \notin Fields
    <3>1. CASE pos + 2 <= Len(file)
      <4>1. pos + 1 \in 1 .. Len(file) - 1 /\ (pos + 1) + 1 = pos + 2 /\ pos + 2 \in 1..Len(file)
        BY <1>1, <3>1
      <4>2. file[pos + 2] \notin Fields BY <1>2, <2>2, <4>1, Source
      <4>3. "EOF" \notin Fields BY FieldsAssumption
      <4>. QED BY <4>2, <4>3 DEF Token
    <3>2. CASE ~(pos + 2 <= Len(file))
      <4>1. pos + 2 > Len(file) BY <1>1, <3>2
      <4>. QED BY <4>1, FieldsAssumption DEF Token
    <3>. QED BY <3>1, <3>2
  <2>5. Token(pos + 2) \in {";", "nl", "EOF"} BY <1>1, <2>4, Tokens
  <2>6. file[pos + 1] # "nl" BY <1>2, <2>2, FieldsAssumption
  <2>7. \A p \in 1..Len(file) : p <= pos + 2 => p <= pos \/ p = pos + 1 \/ p = pos + 2 BY <1>1
  <2>8. Token(pos + 2) # "EOF" => pos + 2 \in 1..Len(file) /\ file[pos + 2] = Token(pos + 2)
    BY <1>1, Tokens
  <2>9. \A p \in 1..Len(file) : p <= pos + 2 /\ file[p] = "nl"
                                  => p <= pos \/ (p = pos + 2 /\ Token(pos + 2) = "nl")
    <3>1. pos + 2 \in 1..Len(file) /\ file[pos + 2] = "nl" => Token(pos + 2) = "nl"
      BY <1>1 DEF Token
    <3>. QED BY <2>6, <2>7, <3>1
  <2>10. pos + 2 > pos BY <1>1
  <2>. QED BY <1>1, <1>2, <2>2, <2>3, <2>5, <2>8, <2>9, <2>10, Zenon
<1>3. CASE Token(pos + 1) \notin Fields
  <2>1. Text = Blank /\ Behind = pos + 1 BY <1>3 DEF Text, Behind
  <2>2. Token(pos + 1) \in {";", "nl", "EOF"} BY <1>1, <1>3, Tokens
  <2>3. \A p \in 1..Len(file) : p <= pos + 1 => p <= pos \/ p = pos + 1 BY <1>1
  <2>4. \A p \in 1..Len(file) : p <= pos + 1 /\ file[p] = "nl"
                                  => p <= pos \/ (p = pos + 1 /\ Token(pos + 1) = "nl")
    <3>1. pos + 1 \in 1..Len(file) /\ file[pos + 1] = "nl" => Token(pos + 1) = "nl"
      BY <1>1 DEF Token
    <3>. QED BY <2>3, <3>1
  <2>5. Token(pos + 1) # "EOF" => pos + 1 \in 1..Len(file) /\ file[pos + 1] = Token(pos + 1)
    BY <1>1, Tokens
  <2>6. pos + 1 > pos BY <1>1
  <2>. QED BY <1>1, <2>1, <2>2, <2>4, <2>5, <2>6, Zenon
<1>. QED BY <1>2, <1>3

LEMMA DigitsOf ==
  ASSUME TypeOK, Text # Blank
  PROVE  Digits[Text] \in Fields \cup {Blank}
BY DigitsAssumption, FieldRead

\* The record that ReadFullname appends.
Taken == [login |-> login, uid |-> uid, fullname |-> Text, at |-> pos - 3]

LEMMA RecordTaken ==
  ASSUME TypeOK, RecordUnderWay, pc = "fullname", Text # Blank
  PROVE  /\ Taken \in Record /\ IsRecord(Taken) /\ Taken.at = pos - 3
         /\ users \in Seq(Record) /\ Append(users, Taken) \in Seq(Record)
         /\ Len(users) \in Nat /\ Len(Append(users, Taken)) = Len(users) + 1
         /\ \A i \in 1..Len(users) : Append(users, Taken)[i] = users[i]
         /\ Append(users, Taken)[Len(users) + 1] = Taken /\ Append(users, Taken) # <<>>
<1>1. /\ pos \in 4..Len(file) /\ file[pos - 3] = login /\ login \in Fields
      /\ file[pos - 2] = ";" /\ file[pos] = ";" /\ file[pos - 1] \in Fields
      /\ uid = Digits[file[pos - 1]] /\ uid \in Fields
  BY DEF RecordUnderWay
<1>2. Text \in Fields /\ pos + 1 \in 1..Len(file) /\ file[pos + 1] = Text BY FieldRead
<1>3. Len(file) \in Nat /\ pos \in Nat /\ pos >= 4 /\ pos + 1 <= Len(file)
  <2>1. pos \in 4..Len(file) /\ pos + 1 \in 1..Len(file) BY <1>1, <1>2
  <2>. QED BY <2>1, Sizes
<1>4. /\ Taken.at = pos - 3 /\ Taken.login = login /\ Taken.uid = uid /\ Taken.fullname = Text
      /\ pos - 3 \in Nat
  <2>1. pos - 3 \in Nat BY <1>3
  <2>. QED BY <2>1 DEF Taken
<1>5. Taken \in Record BY <1>1, <1>2, <1>4 DEF Taken, Record
<1>6. IsRecord(Taken)
  <2>1. (pos - 3) + 1 = pos - 2 /\ (pos - 3) + 2 = pos - 1 /\ (pos - 3) + 3 = pos
        /\ (pos - 3) + 4 = pos + 1 /\ pos - 3 >= 1 /\ pos + 1 <= Len(file)
    BY <1>3
  <2>. QED BY <1>1, <1>2, <1>4, <2>1 DEF IsRecord
<1>7. users \in Seq(Record) BY DEF TypeOK
<1>. HIDE DEF Taken
<1>. QED BY <1>4, <1>5, <1>6, <1>7, AppendProperties, LenProperties

-----------------------------------------------------------------------------
\* Each part of the invariant is kept by every step.

LEMMA TypesStep ==
  ASSUME TypeOK, LineCounts, RecordUnderWay, Next
  PROVE  TypeOK'
<1>. DEFINE Same == UNCHANGED <<args, file>>
<1>1. /\ args \in Args /\ file \in Files /\ pos \in Nat /\ LINE \in Nat /\ N \in Nat
      /\ c \in {Blank, ";", "nl", "EOF"}
      /\ login \in Fields \cup {Blank} /\ uid \in Fields \cup {Blank}
      /\ flags \subseteq {"l_s", "u_s", "fn_s"} /\ users \in Seq(Record)
      /\ status \in {-1, 0, 1, 2, 3, 139}
  BY DEF TypeOK
<1>2. ASSUME NEW s \in {0, 1, 2, 3, 139}, Exit(s) PROVE TypeOK'
  BY <1>1, <1>2 DEF Exit, readVars, TypeOK
<1>3. ReadField => pos' \in Nat /\ c' \in {Blank, ";", "nl", "EOF"}
  BY FieldRead DEF ReadField
<1>4. CASE InputHandler
  <2>1. CASE pc' = "open" /\ UNCHANGED <<args, file, readVars, N, status>>
    BY <1>1, <2>1 DEF readVars, TypeOK
  <2>2. 0 \in {0, 1, 2, 3, 139} /\ 1 \in {0, 1, 2, 3, 139}
        /\ \A s \in {0, 1, 2, 139} : s \in {0, 1, 2, 3, 139} OBVIOUS
  <2>. QED BY <1>2, <1>4, <2>1, <2>2 DEF InputHandler
<1>5. CASE Open
  <2>1. CASE pc' = "login" /\ UNCHANGED <<args, file, readVars, N, status>>
    BY <1>1, <2>1 DEF readVars, TypeOK
  <2>. QED BY <1>2, <1>5, <2>1 DEF Open
<1>6. CASE ReadLogin
  <2>1. UNCHANGED <<args, file, N, status, users>> /\ pc' \in {"after", "uid"}
    BY <1>6 DEF ReadLogin, Continue
  <2>2. LINE' \in Nat /\ pos' \in Nat /\ c' \in {Blank, ";", "nl", "EOF"}
    <3>1. LINE' = LINE + 1 BY <1>6 DEF ReadLogin
    <3>2. LINE' \in Nat
      <4>1. LINE \in Nat BY DEF TypeOK
      <4>. QED BY <3>1, <4>1
    <3>. QED BY <1>3, <1>6, <3>2 DEF ReadLogin
  <2>3. login' \in Fields \cup {Blank} /\ uid' \in Fields \cup {Blank}
        /\ flags' \subseteq {"l_s", "u_s", "fn_s"}
    BY <1>6, FieldRead DEF ReadLogin
  <2>. QED BY <1>1, <2>1, <2>2, <2>3 DEF TypeOK
<1>7. CASE ReadUid
  <2>1. UNCHANGED <<args, file, N, status, users, LINE, login>> /\ pc' \in {"after", "fullname"}
    BY <1>7 DEF ReadUid, Continue
  <2>2. pos' \in Nat /\ c' \in {Blank, ";", "nl", "EOF"} BY <1>3, <1>7 DEF ReadUid
  <2>3. uid' \in Fields \cup {Blank} /\ flags' \subseteq {"l_s", "u_s", "fn_s"}
    <3>1. uid' = IF Text = Blank THEN Blank ELSE Digits[Text] BY <1>7 DEF ReadUid
    <3>2. flags' = flags \/ flags' = flags \cup {"u_s"} BY <1>7 DEF ReadUid
    <3>3. uid' \in Fields \cup {Blank} BY <3>1, DigitsOf
    <3>. QED BY <1>1, <3>2, <3>3
  <2>. QED BY <1>1, <2>1, <2>2, <2>3 DEF TypeOK
<1>8. CASE ReadFullname
  <2>1. UNCHANGED <<args, file, N, status, LINE, login, uid>> /\ pc' \in {"after", "login"}
    BY <1>8 DEF ReadFullname, Continue
  <2>2. pos' \in Nat /\ c' \in {Blank, ";", "nl", "EOF"} BY <1>3, <1>8 DEF ReadFullname
  <2>3. flags' \subseteq {"l_s", "u_s", "fn_s"} BY <1>1, <1>8 DEF ReadFullname
  <2>4. users' \in Seq(Record)
    <3>1. CASE Text = Blank BY <1>1, <1>8, <3>1 DEF ReadFullname
    <3>2. CASE Text # Blank
      <4>1. users' = Append(users, Taken) BY <1>8, <3>2 DEF ReadFullname, Taken
      <4>2. Append(users, Taken) \in Seq(Record) BY <1>8, <3>2, RecordTaken DEF ReadFullname
      <4>. QED BY <4>1, <4>2
    <3>. QED BY <3>1, <3>2
  <2>. QED BY <1>1, <2>1, <2>2, <2>3, <2>4 DEF TypeOK
<1>9. CASE AfterLoop
  <2>1. CASE Exit(3) BY <1>2, <2>1
  <2>2. CASE N' = Count /\ pc' = "main" /\ UNCHANGED <<args, file, readVars, status>>
    <3>1. Count \in Nat
      <4>1. LINE = Len(users) + (IF "fn_s" \in flags THEN 0 ELSE 1)
            /\ ("fn_s" \in flags => users # <<>>)
        BY <1>9 DEF AfterLoop, LineCounts
      <4>2. Len(users) \in Nat /\ (users # <<>> => Len(users) # 0)
        BY <1>1, LenProperties, EmptySeq
      <4>. QED BY <4>1, <4>2 DEF Count
    <3>. QED BY <1>1, <2>2, <3>1 DEF readVars, TypeOK
  <2>. QED BY <1>9, <2>1, <2>2 DEF AfterLoop
<1>10. CASE Finish BY <1>2, <1>10 DEF Finish
<1>. QED BY <1>4, <1>5, <1>6, <1>7, <1>8, <1>9, <1>10 DEF Next

\* What a step can do, as far as the parts below need it.
LEMMA Steps ==
  ASSUME TypeOK, LineCounts, RecordUnderWay, Next
  PROVE  /\ file' = file
         /\ \/ pc' = "exit"
            \/ pc = "start" /\ pc' = "open" /\ UNCHANGED readVars
            \/ pc = "open" /\ pc' = "login" /\ UNCHANGED readVars
            \/ ReadLogin \/ ReadUid \/ ReadFullname
            \/ /\ pc = "after" /\ pc' = "main" /\ N' = Count /\ UNCHANGED readVars
               /\ c = "EOF" \/ flags = {"l_s", "u_s", "fn_s"}
         /\ pc' = "exit" => UNCHANGED readVars
<1>1. \A s : Exit(s) => pc' = "exit" /\ file' = file /\ UNCHANGED readVars BY DEF Exit
<1>2. CASE InputHandler BY <1>1, <1>2 DEF InputHandler
<1>3. CASE Open BY <1>1, <1>3 DEF Open
<1>4. CASE ReadLogin BY <1>4 DEF ReadLogin, Continue
<1>5. CASE ReadUid BY <1>5 DEF ReadUid, Continue
<1>6. CASE ReadFullname BY <1>6 DEF ReadFullname, Continue
<1>7. CASE AfterLoop BY <1>1, <1>7 DEF AfterLoop
<1>8. CASE Finish BY <1>1, <1>8 DEF Finish
<1>. QED BY <1>2, <1>3, <1>4, <1>5, <1>6, <1>7, <1>8 DEF Next

\* What the three reading actions do when a field was there, and when not.
LEMMA LoginStep ==
  ASSUME TypeOK, ReadLogin
  PROVE  /\ pc = "login" /\ LINE' = LINE + 1 /\ UNCHANGED users
         /\ pos' = Behind /\ c' = Token(Behind) /\ login' = Text
         /\ \/ pc' = "after" /\ flags' = {}
            \/ pc' = "uid" /\ flags' = {"l_s"} /\ Text # Blank /\ c' = ";"
<1>1. c' = Token(Behind) /\ Token(Behind) \in {";", "nl", "EOF"}
  BY FieldRead DEF ReadLogin, ReadField
<1>. QED BY <1>1 DEF ReadLogin, ReadField, Continue

LEMMA UidStep ==
  ASSUME TypeOK, ReadUid
  PROVE  /\ pc = "uid" /\ UNCHANGED <<users, LINE, login>>
         /\ pos' = Behind /\ c' = Token(Behind)
         /\ \/ pc' = "after" /\ UNCHANGED flags
            \/ /\ pc' = "fullname" /\ flags' = flags \cup {"u_s"} /\ c' = ";"
               /\ Text # Blank /\ uid' = Digits[Text] /\ uid' # Blank
<1>1. c' = Token(Behind) /\ Token(Behind) \in {";", "nl", "EOF"}
  BY FieldRead DEF ReadUid, ReadField
<1>. QED BY <1>1 DEF ReadUid, ReadField, Continue

LEMMA FullnameStep ==
  ASSUME TypeOK, ReadFullname
  PROVE  /\ pc = "fullname" /\ UNCHANGED <<LINE, login, uid>>
         /\ pos' = Behind /\ c' = Token(Behind)
         /\ \/ Text = Blank /\ pc' = "after" /\ UNCHANGED <<flags, users>>
            \/ /\ Text # Blank /\ flags' = flags \cup {"fn_s"} /\ users' = Append(users, Taken)
               /\ pc' = IF c' = "EOF" THEN "after" ELSE "login"
BY DEF ReadFullname, ReadField, Continue, Taken

LEMMA CountsStep ==
  ASSUME TypeOK, LineCounts, RecordUnderWay, Next
  PROVE  LineCounts'
<1>1. Len(users) \in Nat /\ LINE \in Nat BY LenProperties DEF TypeOK
<1>2. CASE pc' = "exit" BY <1>2, Steps DEF LineCounts, readVars
<1>3. CASE /\ (pc = "start" /\ pc' = "open") \/ (pc = "open" /\ pc' = "login")
           /\ UNCHANGED readVars
  <2>1. users = <<>> => Len(users) = 0 OBVIOUS
  <2>. QED BY <1>3, <2>1 DEF LineCounts, readVars
<1>4. CASE ReadLogin
  <2>1. LINE' = Len(users) + 1 /\ users' = users /\ pc' \in {"after", "uid"}
        /\ "fn_s" \notin flags'
    BY <1>4, LoginStep DEF LineCounts
  <2>. QED BY <2>1 DEF LineCounts
<1>5. CASE ReadUid
  <2>1. LINE' = Len(users) + 1 /\ users' = users /\ pc' \in {"after", "fullname"}
        /\ "fn_s" \notin flags'
    BY <1>5, UidStep DEF LineCounts, RecordUnderWay
  <2>. QED BY <2>1 DEF LineCounts
<1>6. CASE ReadFullname
  <2>1. pc = "fullname" /\ LINE' = Len(users) + 1 BY <1>6, FullnameStep DEF LineCounts
  <2>2. CASE Text = Blank
    <3>1. users' = users /\ pc' = "after" /\ "fn_s" \notin flags'
      BY <1>6, <2>2, FullnameStep DEF RecordUnderWay
    <3>. QED BY <2>1, <3>1 DEF LineCounts
  <2>3. CASE Text # Blank
    <3>1. users' = Append(users, Taken) /\ pc' \in {"after", "login"} /\ "fn_s" \in flags'
      BY <1>6, <2>3, FullnameStep
    <3>2. Len(users') = Len(users) + 1 /\ users' # <<>> BY <2>1, <2>3, <3>1, RecordTaken
    <3>3. LINE' = Len(users') BY <2>1, <3>2
    <3>4. Len(users') + 0 = Len(users') BY <1>1, <3>2
    <3>. QED BY <3>1, <3>2, <3>3, <3>4 DEF LineCounts
  <2>. QED BY <2>2, <2>3
<1>7. CASE pc = "after" /\ pc' = "main" /\ UNCHANGED readVars
  BY <1>7 DEF LineCounts, readVars
<1>. QED BY <1>2, <1>3, <1>4, <1>5, <1>6, <1>7, Steps

LEMMA UnderWayStep ==
  ASSUME TypeOK, LineCounts, RecordUnderWay, Next
  PROVE  RecordUnderWay'
<1>1. pos \in Nat /\ Len(file) \in Nat BY Sizes
<1>2. CASE pc' \notin {"uid", "fullname"} BY <1>2 DEF RecordUnderWay
<1>3. CASE ReadLogin /\ pc' = "uid"
  <2>1. /\ pos' = pos + 2 /\ file' = file /\ login' = Text /\ flags' = {"l_s"}
        /\ file[pos + 1] = Text /\ Text \in Fields /\ file[pos + 2] = ";"
    BY <1>3, LoginStep, FieldRead, Steps
  <2>2. pos + 2 \in 1..Len(file) BY <1>3, LoginStep, FieldRead
  <2>3. (pos + 2) - 1 = pos + 1 /\ pos + 2 \in 2..Len(file) BY <1>1, <2>2
  <2>4. pos' \in 2..Len(file) /\ file[pos' - 1] = login' /\ file[pos'] = ";" BY <2>1, <2>3
  <2>. QED BY <1>3, <2>1, <2>4 DEF RecordUnderWay
<1>4. CASE ReadUid /\ pc' = "fullname"
  <2>1. /\ pos \in 2..Len(file) /\ flags = {"l_s"}
        /\ file[pos - 1] = login /\ file[pos] = ";" /\ login \in Fields
    BY <1>4, UidStep DEF RecordUnderWay
  <2>2. /\ pos' = pos + 2 /\ file' = file /\ login' = login /\ flags' = {"l_s", "u_s"}
        /\ file[pos + 1] = Text /\ Text \in Fields /\ file[pos + 2] = ";"
        /\ uid' = Digits[Text] /\ uid' # Blank
    BY <1>4, <2>1, UidStep, FieldRead, Steps
  <2>3. pos >= 2 /\ pos + 2 \in 1..Len(file)
    <3>1. pos \in 2..Len(file) /\ pos + 2 \in 1..Len(file) BY <1>4, <2>1, UidStep, FieldRead
    <3>. QED BY <1>1, <3>1
  <2>4. /\ (pos + 2) - 3 = pos - 1 /\ (pos + 2) - 2 = pos /\ (pos + 2) - 1 = pos + 1
        /\ pos + 2 \in 4..Len(file)
    BY <1>1, <2>3
  <2>5. uid' \in Fields BY <2>2, DigitsAssumption
  <2>6. /\ pos' \in 4..Len(file) /\ file[pos' - 3] = login' /\ file[pos' - 2] = ";"
        /\ file[pos'] = ";" /\ file[pos' - 1] = Text
    BY <2>1, <2>2, <2>4
  <2>. QED BY <1>4, <2>1, <2>2, <2>5, <2>6 DEF RecordUnderWay
<1>. QED BY <1>2, <1>3, <1>4, Steps, LoginStep, UidStep, FullnameStep

LEMMA ListStep ==
  ASSUME TypeOK, LineCounts, RecordUnderWay, ListInFile, Next
  PROVE  ListInFile'
<1>1. pos \in Nat /\ Len(users) \in Nat /\ users \in Seq(Record)
  BY LenProperties DEF TypeOK
<1>2. /\ \A i \in 1..Len(users) : IsRecord(users[i]) /\ users[i].at + 5 + UnderWay <= pos
      /\ \A i \in 1..Len(users) - 1 : users[i].at + 6 <= users[i + 1].at
  BY DEF ListInFile
<1>3. \A i \in 1..Len(users) : users[i].at \in Nat
  <2>1. \A i \in 1..Len(users) : users[i] \in Record BY <1>1, ElementOfSeq
  <2>. QED BY <2>1 DEF Record
<1>4. file' = file BY Steps
<1>5. \A u : IsRecord(u)' <=> IsRecord(u)
  BY <1>4 DEF IsRecord
\* The list is the same and the reader has come further.
<1>6. ASSUME users' = users, pos' \in Nat, UnderWay' \in Nat, pos' - UnderWay' >= pos - UnderWay
      PROVE  ListInFile'
  <2>1. UnderWay \in Nat BY DEF UnderWay
  <2>2. ASSUME NEW i \in 1..Len(users) PROVE users[i].at + 5 + UnderWay' <= pos'
    <3>1. users[i].at \in Nat /\ users[i].at + 5 + UnderWay <= pos BY <1>2, <1>3
    <3>2. \A a, u, q \in Nat :
             a + 5 + UnderWay <= pos /\ q - u >= pos - UnderWay => a + 5 + u <= q
      BY <1>1, <2>1
    <3>. QED BY <1>6, <3>1, <3>2
  <2>. QED BY <1>2, <1>4, <1>6, <2>2 DEF ListInFile, IsRecord
<1>7. CASE pc' \in {"start", "open", "login", "after", "main", "exit"} /\ users' = users
  <2>1. UnderWay' = 0 BY <1>7 DEF UnderWay
  <2>2. UnderWay \in Nat BY DEF UnderWay
  <2>3. pos' \in Nat /\ pos' >= pos
    <3>1. pos' = pos \/ pos' = Behind
      <4>1. UNCHANGED readVars => pos' = pos BY DEF readVars
      <4>2. UNCHANGED readVars \/ ReadLogin \/ ReadUid \/ ReadFullname BY Steps
      <4>. QED BY <4>1, <4>2, LoginStep, UidStep, FullnameStep
    <3>2. Behind \in Nat /\ Behind > pos BY FieldRead
    <3>3. CASE pos' = pos BY <1>1, <3>3
    <3>4. CASE pos' = Behind BY <1>1, <3>2, <3>4
    <3>. QED BY <3>1, <3>3, <3>4
  <2>4. pos' - 0 >= pos - UnderWay
    <3>1. \A q \in Nat : q >= pos => q - 0 >= pos - UnderWay BY <1>1, <2>2
    <3>. QED BY <2>3, <3>1
  <2>. QED BY <1>6, <1>7, <2>1, <2>3, <2>4
<1>8. CASE ReadLogin /\ pc' = "uid"
  <2>1. UnderWay = 0 /\ UnderWay' = 2 /\ users' = users /\ pos' = pos + 2
    BY <1>8, LoginStep, FieldRead DEF UnderWay
  <2>. QED BY <1>1, <1>6, <2>1
<1>9. CASE ReadUid /\ pc' = "fullname"
  <2>1. UnderWay = 2 /\ UnderWay' = 4 /\ users' = users /\ pos' = pos + 2
    BY <1>9, UidStep, FieldRead DEF UnderWay
  <2>. QED BY <1>1, <1>6, <2>1
<1>10. CASE ReadFullname /\ Text # Blank
  <2>1. /\ users' = Append(users, Taken) /\ pos' = pos + 2 /\ pc = "fullname"
        /\ pc' \in {"after", "login"}
    BY <1>10, FullnameStep, FieldRead
  <2>2. UnderWay = 4 /\ UnderWay' = 0 BY <2>1 DEF UnderWay
  <2>3. /\ IsRecord(Taken) /\ Taken.at = pos - 3
        /\ Len(users') = Len(users) + 1
        /\ \A i \in 1..Len(users) : users'[i] = users[i]
        /\ users'[Len(users) + 1] = Taken
    BY <1>10, <2>1, RecordTaken
  <2>4. \A i \in 1..Len(users) : users[i].at + 9 <= pos
    <3>1. ASSUME NEW i \in 1..Len(users) PROVE users[i].at + 9 <= pos
      <4>1. users[i].at \in Nat /\ users[i].at + 5 + 4 <= pos BY <1>2, <1>3, <2>2
      <4>. QED BY <1>1, <4>1
    <3>. QED BY <3>1
  <2>5. ASSUME NEW i \in 1..Len(users')
        PROVE  IsRecord(users'[i]) /\ users'[i].at + 5 + UnderWay' <= pos'
    <3>1. i \in 1..Len(users) \/ i = Len(users) + 1 BY <1>1, <2>3
    <3>2. CASE i \in 1..Len(users)
      <4>1. users[i].at + 9 <= pos /\ users[i].at \in Nat BY <1>3, <2>4, <3>2
      <4>2. users[i].at + 5 + 0 <= pos + 2 BY <1>1, <4>1
      <4>. QED BY <1>2, <2>1, <2>2, <2>3, <3>2, <4>2
    <3>3. CASE i = Len(users) + 1
      <4>1. (pos - 3) + 5 + 0 <= pos + 2 BY <1>1
      <4>. QED BY <2>1, <2>2, <2>3, <3>3, <4>1
    <3>. QED BY <3>1, <3>2, <3>3
  <2>6. ASSUME NEW i \in 1..Len(users') - 1 PROVE users'[i].at + 6 <= users'[i + 1].at
    <3>1. /\ i \in 1..Len(users)
          /\ (i \in 1..Len(users) - 1 /\ i + 1 \in 1..Len(users)) \/ i = Len(users)
      BY <1>1, <2>3
    <3>2. CASE i \in 1..Len(users) - 1 /\ i + 1 \in 1..Len(users)
      BY <1>2, <2>3, <3>1, <3>2
    <3>3. CASE i = Len(users)
      <4>1. users[i].at + 9 <= pos /\ users[i].at \in Nat BY <1>3, <2>4, <3>1
      <4>2. users[i].at + 6 <= pos - 3 BY <1>1, <4>1
      <4>. QED BY <2>3, <3>1, <3>3, <4>2
    <3>. QED BY <3>1, <3>2, <3>3
  <2>. QED BY <1>5, <2>5, <2>6 DEF ListInFile, IsRecord
<1>11. CASE ReadFullname /\ Text = Blank
  <2>1. pc' = "after" /\ users' = users BY <1>11, FullnameStep
  <2>. QED BY <1>7, <2>1
<1>12. pc' \in {"start", "open", "login", "uid", "fullname", "after", "main", "exit"}
  BY TypesStep DEF TypeOK
<1>13. ReadFullname \/ users' = users BY Steps, LoginStep, UidStep DEF readVars
<1>14. pc' = "uid" => ReadLogin BY Steps, UidStep, FullnameStep
<1>15. pc' = "fullname" => ReadUid BY Steps, LoginStep, FullnameStep
<1>. QED BY <1>7, <1>8, <1>9, <1>10, <1>11, <1>12, <1>13, <1>14, <1>15

LEMMA LineEndsStep ==
  ASSUME TypeOK, LineCounts, RecordUnderWay, LineEndsPassed, LoopEnd, Next
  PROVE  LineEndsPassed'
<1>. DEFINE Read == {"login", "uid", "fullname", "after", "main"}
            Kept(p) == \E i \in 1..Len(users) : users[i].at + 5 = p
            Passed(p) == Kept(p) \/ (pc = "after" /\ c = "nl" /\ p = pos)
<1>. SUFFICES ASSUME pc' \in Read, NEW p \in 1..Len(file), p <= pos', file[p] = "nl"
              PROVE  (Passed(p))'
  <2>1. file' = file BY Steps
  <2>. QED BY <2>1 DEF LineEndsPassed
<1>1. pos \in Nat /\ Len(users) \in Nat BY LenProperties DEF TypeOK
<1>2. pc \in Read /\ p <= pos => Passed(p) BY DEF LineEndsPassed
<1>3. p <= Behind => p <= pos \/ (p = Behind /\ Token(Behind) = "nl") BY FieldRead
<1>4. CASE pc = "open" /\ pc' = "login" /\ UNCHANGED readVars
  <2>1. pos' = 0 BY <1>4 DEF LineCounts, readVars
  <2>2. ~(p <= 0) OBVIOUS
  <2>. QED BY <2>1, <2>2
<1>5. CASE ReadLogin
  <2>1. pc = "login" /\ users' = users /\ pos' = Behind /\ c' = Token(Behind)
        /\ (pc' = "after" \/ c' = ";")
    BY <1>5, LoginStep
  <2>2. p <= pos \/ (p = Behind /\ c' = "nl") BY <1>3, <2>1
  <2>. QED BY <1>2, <2>1, <2>2
<1>6. CASE ReadUid
  <2>1. pc = "uid" /\ users' = users /\ pos' = Behind /\ c' = Token(Behind)
        /\ (pc' = "after" \/ c' = ";")
    BY <1>6, UidStep
  <2>2. p <= pos \/ (p = Behind /\ c' = "nl") BY <1>3, <2>1
  <2>. QED BY <1>2, <2>1, <2>2
<1>7. CASE ReadFullname /\ Text = Blank
  <2>1. pc = "fullname" /\ users' = users /\ pos' = Behind /\ c' = Token(Behind) /\ pc' = "after"
    BY <1>7, FullnameStep
  <2>2. p <= pos \/ (p = Behind /\ c' = "nl") BY <1>3, <2>1
  <2>. QED BY <1>2, <2>1, <2>2
<1>8. CASE ReadFullname /\ Text # Blank
  <2>1. pc = "fullname" /\ pos' = pos + 2 /\ Behind = pos + 2 /\ users' = Append(users, Taken)
    BY <1>8, FullnameStep, FieldRead
  <2>2. /\ Taken.at = pos - 3 /\ Len(users') = Len(users) + 1
        /\ \A i \in 1..Len(users) : users'[i] = users[i]
        /\ users'[Len(users) + 1] = Taken
    BY <1>8, <2>1, RecordTaken
  <2>3. p <= pos \/ p = pos + 2 BY <1>3, <2>1
  <2>4. CASE p <= pos
    <3>1. PICK i \in 1..Len(users) : users[i].at + 5 = p BY <1>2, <2>1, <2>4
    <3>2. i \in 1 .. Len(users) + 1 BY <1>1
    <3>. QED BY <2>2, <3>1, <3>2
  <2>5. CASE p = pos + 2
    <3>1. (pos - 3) + 5 = pos + 2 /\ Len(users) + 1 \in 1 .. Len(users) + 1 BY <1>1
    <3>. QED BY <2>2, <2>5, <3>1
  <2>. QED BY <2>3, <2>4, <2>5
<1>9. CASE pc = "after" /\ pc' = "main" /\ UNCHANGED readVars
           /\ (c = "EOF" \/ flags = {"l_s", "u_s", "fn_s"})
  <2>1. c = "EOF" BY <1>9 DEF LoopEnd
  <2>2. pos' = pos /\ users' = users BY <1>9 DEF readVars
  <2>. QED BY <1>2, <1>9, <2>1, <2>2
<1>. QED BY <1>4, <1>5, <1>6, <1>7, <1>8, <1>9, Steps

LEMMA LoopEndStep ==
  ASSUME TypeOK, LineCounts, RecordUnderWay, LoopEnd, Next
  PROVE  LoopEnd'
<1>1. pos \in Nat /\ Len(users) \in Nat BY LenProperties DEF TypeOK
<1>2. file' = file BY Steps
<1>3. Behind \in Nat \ {0} BY FieldRead
<1>4. pos' = Behind => Token(pos)' = Token(Behind) BY <1>2 DEF Token
<1>5. CASE pc' \notin {"after", "main"} BY <1>5 DEF LoopEnd
<1>6. CASE ReadLogin /\ pc' = "after"
  <2>1. pos' = Behind /\ c' = Token(Behind) /\ "fn_s" \notin flags' BY <1>6, LoginStep
  <2>. QED BY <1>3, <1>4, <1>6, <2>1 DEF LoopEnd
<1>7. CASE ReadUid /\ pc' = "after"
  <2>1. pos' = Behind /\ c' = Token(Behind) /\ "fn_s" \notin flags'
    BY <1>7, UidStep DEF RecordUnderWay
  <2>. QED BY <1>3, <1>4, <1>7, <2>1 DEF LoopEnd
<1>8. CASE ReadFullname /\ pc' = "after" /\ Text = Blank
  <2>1. pos' = Behind /\ c' = Token(Behind) /\ "fn_s" \notin flags'
    BY <1>8, FullnameStep DEF RecordUnderWay
  <2>. QED BY <1>3, <1>4, <1>8, <2>1 DEF LoopEnd
<1>9. CASE ReadFullname /\ pc' = "after" /\ Text # Blank
  <2>1. /\ pos' = Behind /\ Behind = pos + 2 /\ c' = Token(Behind) /\ c' = "EOF"
        /\ users' = Append(users, Taken) /\ pc = "fullname"
    BY <1>9, FullnameStep, FieldRead
  <2>2. /\ Taken.at = pos - 3 /\ Len(users') = Len(users) + 1 /\ users'[Len(users) + 1] = Taken
    BY <1>9, <2>1, RecordTaken
  <2>3. (pos - 3) + 5 = pos + 2 BY <1>1
  <2>4. users'[Len(users')].at + 5 = pos' BY <2>1, <2>2, <2>3
  <2>. QED BY <1>3, <1>4, <1>9, <2>1, <2>4 DEF LoopEnd
<1>10. CASE pc = "after" /\ pc' = "main" /\ N' = Count /\ UNCHANGED readVars
            /\ (c = "EOF" \/ flags = {"l_s", "u_s", "fn_s"})
  <2>1. c = "EOF" BY <1>10 DEF LoopEnd
  <2>2. pos' = pos /\ users' = users /\ c' = c /\ flags' = flags BY <1>10 DEF readVars
  <2>3. N' = Len(users) - (IF "fn_s" \in flags THEN 1 ELSE 0)
    <3>1. LINE = Len(users) + (IF "fn_s" \in flags THEN 0 ELSE 1) BY <1>10 DEF LineCounts
    <3>2. Count = Len(users) - (IF "fn_s" \in flags THEN 1 ELSE 0) BY <1>1, <3>1 DEF Count
    <3>. QED BY <1>10, <3>2
  <2>4. Token(pos)' = Token(pos) BY <1>2, <2>2 DEF Token
  <2>. QED BY <1>10, <2>1, <2>2, <2>3, <2>4 DEF LoopEnd
<1>. QED BY <1>5, <1>6, <1>7, <1>8, <1>9, <1>10, Steps, LoginStep, UidStep, FullnameStep

-----------------------------------------------------------------------------
\* The invariant.

\* The reader's place in the file, the list and the line counter agree.
THEOREM ReaderInvariant == Spec => []ReadInv
<1>1. Init => ReadInv
  <2>1. SUFFICES ASSUME Init PROVE ReadInv OBVIOUS
  <2>2. TypeOK BY <2>1 DEF Init, TypeOK
  <2>3. 1..Len(<<>>) = {} /\ 1..Len(<<>>) - 1 = {} OBVIOUS
  <2>4. pc = "start" /\ pos = 0 /\ LINE = 0 /\ users = <<>> /\ flags = {} BY <2>1 DEF Init
  <2>5. LineCounts /\ RecordUnderWay /\ LineEndsPassed /\ LoopEnd
    BY <2>4 DEF LineCounts, RecordUnderWay, LineEndsPassed, LoopEnd
  <2>6. ListInFile BY <2>3, <2>4 DEF ListInFile
  <2>. QED BY <2>2, <2>5, <2>6 DEF ReadInv
<1>2. ReadInv /\ [Next]_vars => ReadInv'
  <2>1. CASE ReadInv /\ Next
    BY <2>1, TypesStep, CountsStep, UnderWayStep, ListStep, LineEndsStep, LoopEndStep DEF ReadInv
  <2>2. CASE ReadInv /\ UNCHANGED vars
    <3>1. UNCHANGED <<args, file, pc, pos, c, LINE, login, uid, flags, users, N, status>>
      BY <2>2 DEF vars, readVars
    <3>2. TypeOK'
      <4>1. TypeOK BY <2>2 DEF ReadInv
      <4>2. /\ args \in Args /\ file \in Files /\ pos \in Nat /\ LINE \in Nat /\ N \in Nat
            /\ c \in {Blank, ";", "nl", "EOF"} /\ users \in Seq(Record)
        BY <4>1 DEF TypeOK
      <4>3. /\ pc \in {"start", "open", "login", "uid", "fullname", "after", "main", "exit"}
            /\ login \in Fields \cup {Blank} /\ uid \in Fields \cup {Blank}
            /\ flags \subseteq {"l_s", "u_s", "fn_s"} /\ status \in {-1, 0, 1, 2, 3, 139}
        BY <4>1 DEF TypeOK
      <4>. QED BY <3>1, <4>2, <4>3, ZenonT(30) DEF TypeOK
    <3>3. LineCounts' /\ RecordUnderWay' BY <2>2, <3>1 DEF ReadInv, LineCounts, RecordUnderWay
    <3>4. ListInFile' BY <2>2, <3>1 DEF ReadInv, ListInFile, UnderWay, IsRecord
    <3>5. LineEndsPassed' BY <2>2, <3>1 DEF ReadInv, LineEndsPassed
    <3>6. LoopEnd' BY <2>2, <3>1 DEF ReadInv, LoopEnd, Token
    <3>. QED BY <3>2, <3>3, <3>4, <3>5, <3>6 DEF ReadInv
  <2>. QED BY <2>1, <2>2
<1>. QED BY <1>1, <1>2, PTL DEF Spec

\* main's walk over the list meets filled nodes only, each with a record of the
\* file, in the file's order.
THEOREM ListHoldsRecords == Spec => []UsersAreRecords
<1>1. ReadInv => UsersAreRecords
  <2>1. SUFFICES ASSUME ReadInv, pc = "main" PROVE
             /\ N \in 0..Len(users)
             /\ \A i \in 1..N : IsRecord(users[i])
             /\ \A i \in 1..N - 1 : users[i].at + 6 <= users[i + 1].at
    BY DEF UsersAreRecords
  <2>2. Len(users) \in Nat /\ N \in Nat BY <2>1, LenProperties DEF ReadInv, TypeOK
  <2>3. N \in 0..Len(users)
    <3>1. N = Len(users) - (IF "fn_s" \in flags THEN 1 ELSE 0) BY <2>1 DEF ReadInv, LoopEnd
    <3>. QED BY <2>2, <3>1
  <2>4. (\A i \in 1..N : i \in 1..Len(users)) /\ \A i \in 1..N - 1 : i \in 1..Len(users) - 1
    BY <2>2, <2>3
  <2>. QED BY <2>1, <2>3, <2>4 DEF ReadInv, ListInFile
<1>. QED BY <1>1, ReaderInvariant, PTL

\* If the file is accepted, every line that has its end before the byte 255 gave
\* a user: only a record behind the last line end can be left out.
THEOREM NoLineLost == Spec => []TerminatedLinesTaken
<1>1. ReadInv => TerminatedLinesTaken
  <2>1. SUFFICES ASSUME ReadInv, pc = "main", NEW p \in 1..Len(file), file[p] = "nl",
                        \A q \in 1..p : file[q] # "ff"
                 PROVE  \E i \in 1..N : users[i].at + 5 = p
    BY DEF TerminatedLinesTaken
  <2>2. Len(users) \in Nat /\ Len(file) \in Nat /\ pos \in Nat
    BY <2>1, Sizes, LenProperties DEF ReadInv, TypeOK
  <2>3. /\ pos >= 1 /\ Token(pos) = "EOF"
        /\ "fn_s" \in flags => users[Len(users)].at + 5 = pos
        /\ N = Len(users) - (IF "fn_s" \in flags THEN 1 ELSE 0)
    BY <2>1 DEF ReadInv, LoopEnd
  <2>4. p < pos
    <3>1. pos \in Nat \ {0} BY <2>2, <2>3
    <3>2. pos > Len(file) \/ file[pos] = "ff" BY <2>1, <2>3, <3>1, Tokens DEF ReadInv
    <3>3. CASE pos > Len(file) BY <2>2, <3>3
    <3>4. CASE file[pos] = "ff"
      <4>1. pos \notin 1..p BY <2>1, <3>4
      <4>. QED BY <3>1, <4>1
    <3>. QED BY <3>2, <3>3, <3>4
  <2>5. p <= pos /\ p # pos BY <2>2, <2>4
  <2>6. PICK i \in 1..Len(users) : users[i].at + 5 = p
    BY <2>1, <2>5 DEF ReadInv, LineEndsPassed
  <2>7. "fn_s" \in flags => i # Len(users) BY <2>3, <2>5, <2>6
  <2>8. i \in 1..N BY <2>2, <2>3, <2>7
  <2>. QED BY <2>6, <2>8
<1>. QED BY <1>1, ReaderInvariant, PTL
=============================================================================
