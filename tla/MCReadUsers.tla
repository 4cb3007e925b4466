---------------------------- MODULE MCReadUsers ----------------------------
(***************************************************************************)
(* Files of up to three lines of every kind the reader tells apart, the    *)
(* last one with and without its line end, and files that hold the byte    *)
(* 255.  "7x" starts with a digit, "bo" does not.                          *)
(***************************************************************************)
EXTENDS ReadUsers

MCFields == {"al", "bo", "7", "7x"}

MCDigits == [f \in MCFields |-> IF f \in {"7", "7x"} THEN "7" ELSE Blank]

LineKinds == {<<>>,
              <<"al">>,
              <<"al", ";", "7">>,
              <<"al", ";", "7", ";">>,
              <<"al", ";", "7", ";", "bo">>,                       \* of the format
              <<"7", ";", "7", ";", "al">>,                        \* too
              <<"al", ";", "7x", ";", "bo">>,
              <<"al", ";", "bo", ";", "7">>,
              <<";", "7", ";", "bo">>,
              <<"al", ";", ";", "bo">>,
              <<"al", ";", "7", ";", "bo", ";">>,
              <<"al", ";", "7", ";", "bo", ";", "al">>,
              <<"al", ";", "7", ";", "7", ";", "7", ";", "bo">>,   \* fields shift
              <<"al", ";", "7", ";", "bo", ";", "7", ";", "7", ";", "al">>}

Ended(l) == l \o <<"nl">>

Texts == {<<>>}
         \cup LineKinds \cup {Ended(l) : l \in LineKinds}
         \cup {Ended(l) \o m : l, m \in LineKinds}
         \cup {Ended(l) \o Ended(m) : l, m \in LineKinds}
         \cup {Ended(k) \o Ended(l) \o m : k, l, m \in LineKinds}

\* Some with the byte 255 behind the first line or in a field's place.
Cut == {Ended(l) \o <<"ff">> \o m : l, m \in LineKinds}
       \cup {Ended(l) \o <<"al", ";", "ff">> \o m : l, m \in LineKinds}

MCFiles == Texts \cup Cut
=============================================================================
