----------------------------- MODULE ReadUsers -----------------------------
(***************************************************************************)
(* ManualUserCreation/UserGen.cpp: what usgen does before it adds anybody. *)
(* InputHandler looks at the arguments, ReadFile opens the source file and *)
(* reads its records, login;uid;description, one character at a time into  *)
(* a list, and main takes the first N nodes of the list or exits with one  *)
(* of the statuses that the head of the file lists.                        *)
(*                                                                         *)
(* The file is a sequence of tokens: separators, line ends, the byte 255,  *)
(* and fields (a maximal run of other characters).  The users that main    *)
(* takes are the lists that module UserAdd starts from.                    *)
(***************************************************************************)
EXTENDS Integers, Sequences, SequencesExt

CONSTANTS Files,     \* the source files that are tried
          Fields,    \* the fields in them
          Digits     \* Digits[f]: the digits f starts with, Blank if none

Blank == ""     \* the empty string

ASSUME FieldsAssumption == Fields \cap {Blank, ";", "nl", "ff", "EOF"} = {}
ASSUME DigitsAssumption == Digits \in [Fields -> Fields \cup {Blank}]
ASSUME FilesAssumption ==     \* two fields never touch
  \A f \in Files : /\ f \in Seq(Fields \cup {";", "nl", "ff"})
                   /\ \A i \in 1 .. Len(f) - 1 : f[i] \in Fields => f[i + 1] \notin Fields

VARIABLES args,      \* the command line
          file,      \* the source file
          pc,        \* where the program is
          pos,       \* the number of tokens read
          c,         \* the last character read, if it is no field's
          LINE,
          login, uid,    \* of the record that is read
          flags,     \* which of l_s, u_s, fn_s are set
          users,     \* the list's filled nodes; at (not in the program) is the
                     \* position of the login in the file
          N,         \* how many of them main takes
          status     \* main's exit status, or -1

readVars == <<pos, c, LINE, login, uid, flags, users>>
vars == <<args, file, pc, readVars, N, status>>

Args == {"help", "unknown", "no file name", "file", "3 unknown", "other count"}

Init == /\ args \in Args
        /\ file \in Files
        /\ pc = "start"
        /\ pos = 0 /\ c = Blank /\ LINE = 0
        /\ login = Blank /\ uid = Blank /\ flags = {}
        /\ users = <<>>
        /\ N = 0
        /\ status = -1

Exit(s) == /\ pc' = "exit"
           /\ status' = s
           /\ UNCHANGED <<args, file, readVars, N>>

-----------------------------------------------------------------------------
\* InputHandler and the two tests of its result.  With three arguments and an
\* unknown option it returns nothing, and what main then finds is undefined: an
\* empty string, a line end, the name of some file or no string at all.

InputHandler == /\ pc = "start"
                /\ \/ args = "help" /\ Exit(0)
                   \/ args \in {"unknown", "no file name", "other count"} /\ Exit(1)
                   \/ args = "3 unknown" /\ \E s \in {0, 1, 2, 139} : Exit(s)
                   \/ /\ args = "file"
                      /\ pc' = "open"
                      /\ UNCHANGED <<args, file, readVars, N, status>>

\* The name is copied without a terminating zero, so that even an existing
\* file may not be found.
Open == /\ pc = "open"
        /\ \/ pc' = "login" /\ UNCHANGED <<args, file, readVars, N, status>>
           \/ Exit(2)

-----------------------------------------------------------------------------
\* ReadFile.  A field and the character behind it, where char c equals EOF at
\* the end of the file and at the byte 255.

Token(i) == IF i > Len(file) \/ file[i] = "ff" THEN "EOF" ELSE file[i]

Text == IF Token(pos + 1) \in Fields THEN Token(pos + 1) ELSE Blank
Behind == IF Text = Blank THEN pos + 1 ELSE pos + 2

ReadField == pos' = Behind /\ c' = Token(Behind)

Continue(label) == pc' = label /\ UNCHANGED <<args, file, N, status>>

\* The head of the do loop and the login.
ReadLogin == /\ pc = "login"
             /\ LINE' = LINE + 1
             /\ ReadField
             /\ uid' = Blank
             /\ login' = Text
             /\ IF c' \in {"EOF", "nl"} \/ Text = Blank
                THEN flags' = {} /\ Continue("after")
                ELSE flags' = {"l_s"} /\ Continue("uid")
             /\ UNCHANGED users

\* Mutant of ReadUid: a line end ends the uid like a separator.
ReadUidAcrossLines == /\ pc = "uid"
                      /\ ReadField
                      /\ uid' = (IF Text = Blank THEN Blank ELSE Digits[Text])
                      /\ IF c' = "EOF" \/ uid' = Blank
                         THEN UNCHANGED flags /\ Continue("after")
                         ELSE flags' = flags \cup {"u_s"} /\ Continue("fullname")
                      /\ UNCHANGED <<LINE, login, users>>

\* Only the digits the field starts with become the uid.
ReadUid == /\ pc = "uid"
           /\ ReadField
           /\ uid' = (IF Text = Blank THEN Blank ELSE Digits[Text])
           /\ IF c' \in {"EOF", "nl"} \/ uid' = Blank
              THEN UNCHANGED flags /\ Continue("after")
              ELSE flags' = flags \cup {"u_s"} /\ Continue("fullname")
           /\ UNCHANGED <<LINE, login, users>>

\* Mutant of ReadFullname: an empty description is stored like any other.
ReadFullnameEmpty == /\ pc = "fullname"
                     /\ ReadField
                     /\ flags' = flags \cup {"fn_s"}
                     /\ users' = Append(users, [login |-> login, uid |-> uid, fullname |-> Text,
                                                at |-> pos - 3])
                     /\ Continue(IF c' = "EOF" THEN "after" ELSE "login")
                     /\ UNCHANGED <<LINE, login, uid>>

\* What ends the description is not looked at: after a separator the next
\* record begins on the same line.
ReadFullname == /\ pc = "fullname"
                /\ ReadField
                /\ IF Text = Blank
                   THEN UNCHANGED <<flags, users>> /\ Continue("after")
                   ELSE /\ flags' = flags \cup {"fn_s"}
                        /\ users' = Append(users, [login |-> login, uid |-> uid,
                                                   fullname |-> Text, at |-> pos - 3])
                        /\ Continue(IF c' = "EOF" THEN "after" ELSE "login")
                /\ UNCHANGED <<LINE, login, uid>>

\* Mutant of Count: the record that ended the loop is counted too.
CountAll == LINE

\* The last round of the loop is not counted, whatever it read.
Count == LINE - 1

\* After the loop: an error if it was left with the file not at its end, and
\* then one of the flags is not set.
AfterLoop == /\ pc = "after"
             /\ IF c # "EOF" /\ flags # {"l_s", "u_s", "fn_s"}
                THEN Exit(3)
                ELSE /\ N' = Count
                     /\ pc' = "main"
                     /\ UNCHANGED <<args, file, readVars, status>>

\* main walks N nodes of the list and adds each user (module UserAdd).
Finish == pc = "main" /\ Exit(0)

Next == \/ InputHandler \/ Open
        \/ ReadLogin \/ ReadUid \/ ReadFullname \/ AfterLoop
        \/ Finish

Spec == Init /\ [][Next]_vars

-----------------------------------------------------------------------------
Record == [login : Fields, uid : Fields, fullname : Fields, at : Nat]

TypeOK == /\ args \in Args
          /\ file \in Files
          /\ pc \in {"start", "open", "login", "uid", "fullname", "after", "main", "exit"}
          /\ pos \in Nat
          /\ c \in {Blank, ";", "nl", "EOF"}
          /\ LINE \in Nat
          /\ login \in Fields \cup {Blank} /\ uid \in Fields \cup {Blank}
          /\ flags \subseteq {"l_s", "u_s", "fn_s"}
          /\ users \in Seq(Record)
          /\ N \in Nat
          /\ status \in {-1, 0, 1, 2, 3, 139}

\* LINE runs one ahead of the list while a record is read, and not at all when
\* the loop ends behind a whole record.
LineCounts ==
  /\ pc \in {"start", "open"} => LINE = 0 /\ pos = 0 /\ users = <<>>
  /\ pc = "login" => LINE = Len(users)
  /\ pc \in {"uid", "fullname"} => LINE = Len(users) + 1
  /\ pc \in {"after", "main"} => LINE = Len(users) + (IF "fn_s" \in flags THEN 0 ELSE 1)
  /\ "fn_s" \in flags => users # <<>>

\* What is read of the current record stands at the end of what was read.
RecordUnderWay ==
  /\ pc = "uid" => /\ pos \in 2..Len(file) /\ flags = {"l_s"}
                   /\ file[pos - 1] = login /\ file[pos] = ";" /\ login \in Fields
  /\ pc = "fullname" => /\ pos \in 4..Len(file) /\ flags = {"l_s", "u_s"}
                        /\ file[pos - 3] = login /\ login \in Fields
                        /\ file[pos - 2] = ";" /\ file[pos] = ";"
                        /\ file[pos - 1] \in Fields /\ uid = Digits[file[pos - 1]]
                        /\ uid \in Fields

\* Node u of the list holds a record of the file: a login, digits that start the
\* field behind it, and the field behind that, with separators and no line end
\* between them.
IsRecord(u) == LET a == u.at
               IN /\ a >= 1 /\ a + 4 <= Len(file)
                  /\ file[a] = u.login /\ file[a + 1] = ";"
                  /\ file[a + 2] \in Fields /\ Digits[file[a + 2]] = u.uid /\ file[a + 3] = ";"
                  /\ file[a + 4] = u.fullname

\* How much of what was read belongs to the record under way.
UnderWay == CASE pc = "uid" -> 2 [] pc = "fullname" -> 4 [] OTHER -> 0

\* The whole list, not only the nodes that main will walk: records of the file,
\* one behind the other, all behind the point the reader has come to.
ListInFile ==
  /\ \A i \in 1..Len(users) : IsRecord(users[i]) /\ users[i].at + 5 + UnderWay <= pos
  /\ \A i \in 1..Len(users) - 1 : users[i].at + 6 <= users[i + 1].at

\* Every line end passed so far is behind a record of the list; one that cut a
\* record short has ended the loop.
LineEndsPassed ==
  pc \in {"login", "uid", "fullname", "after", "main"} =>
    \A p \in 1..Len(file) : p <= pos /\ file[p] = "nl" =>
       (\E i \in 1..Len(users) : users[i].at + 5 = p) \/ (pc = "after" /\ c = "nl" /\ p = pos)

\* How the loop ended: behind a whole record only at the end of the file, and
\* main counts every node but one that ended there.
LoopEnd ==
  /\ pc \in {"after", "main"} =>
       /\ pos >= 1 /\ c = Token(pos)
       /\ "fn_s" \in flags => c = "EOF" /\ users[Len(users)].at + 5 = pos
  /\ pc = "main" => c = "EOF" /\ N = Len(users) - (IF "fn_s" \in flags THEN 1 ELSE 0)

\* The inductive invariant of the reader.
ReadInv == /\ TypeOK /\ LineCounts /\ RecordUnderWay
           /\ ListInFile /\ LineEndsPassed /\ LoopEnd

\* The nodes that main walks are all filled, each with a record of the file, in
\* the file's order: never a blank node, never fields of two lines in one user.
UsersAreRecords ==
  pc = "main" => /\ N \in 0..Len(users)
                 /\ \A i \in 1..N : IsRecord(users[i])
                 /\ \A i \in 1..N - 1 : users[i].at + 6 <= users[i + 1].at

\* A file that is accepted lost no line that was read to its end: behind every
\* line end (before the byte 255, which ends the reading) a user was taken.
TerminatedLinesTaken ==
  pc = "main" => \A p \in 1..Len(file) :
                   file[p] = "nl" /\ (\A q \in 1..p : file[q] # "ff")
                     => \E i \in 1..N : users[i].at + 5 = p

\* The help text's "Format for each line of source file: <LOGIN>;<UID>;
\* <USER_DESCRIPTION>": a file of such lines gives one user for each of them,
\* whether or not a line end follows the last.
Lines == Len(SelectSeq(file, LAMBDA t : t = "nl"))
         + (IF file # <<>> /\ Last(file) # "nl" THEN 1 ELSE 0)

OfFormat == \A p \in 1..Len(file) :
              CASE p % 6 \in {1, 5} -> file[p] \in Fields
                [] p % 6 = 3 -> file[p] \in Fields /\ Digits[file[p]] = file[p]
                [] p % 6 \in {2, 4} -> file[p] = ";"
                [] OTHER -> file[p] = "nl"

EveryLineCounts == pc = "main" /\ OfFormat /\ Len(file) % 6 \in {0, 5} => N = Lines
=============================================================================
