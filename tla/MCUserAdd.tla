----------------------------- MODULE MCUserAdd -----------------------------
(***************************************************************************)
(* Two instances with up to two users.  An int goes up to 2 here, so that  *)
(* 3 is a uid that the cast makes negative and 6 one that getpwent cuts    *)
(* down.  The lists hold two different users, one login twice, a uid twice *)
(* with a leading zero in the second spelling, a large uid twice, and one  *)
(* login twice of which the first uid is no number; the lists of the two   *)
(* instances overlap.                                                      *)
(***************************************************************************)
EXTENDS UserAdd

CONSTANTS p1, p2

U(login, uid, spelt) == [login |-> login, uid |-> uid, spelt |-> spelt]

Different == <<U("ann", 1, "plain"), U("bob", 2, "plain")>>
SameLogins == <<U("ann", 1, "plain"), U("ann", 2, "plain")>>
SameUids == <<U("bob", 1, "plain"), U("eve", 1, "padded")>>
Large == <<U("bob", 3, "plain"), U("eve", 3, "plain")>>
One == <<U("ann", 1, "plain")>>
NoNumber == <<U("ann", 0, "no number"), U("ann", 6, "plain")>>

MCProcs == {p1, p2}
MCLogins == {"root", "ann", "bob", "eve"}

Given(a, b) == (p1 :> a) @@ (p2 :> b)

MCSources == {Given(Different, SameLogins), Given(SameUids, One), Given(Large, NoNumber)}

\* One user is enough for the race of two instances.
RaceSources == {Given(One, One)}
=============================================================================
