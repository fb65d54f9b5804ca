----------------------------- MODULE MCAutoSync -----------------------------
(* Model-checking instances of AutoSync. *)
EXTENDS AutoSync, TLC

CONSTANTS a, b, b2, r

NoOne   == {}
Owner   == {0}
Second  == {2}

\* Song b is called b2 at the subscriber's service; r is the subscriber's own.
AllSongs  == {a, b, b2, r}
TheOwners == {a, b}
TheirOwn  == {r}
OneSong   == {a}
AnyMode   == Modes
OneWay    == {"one_way"}

Keep == [s \in AllSongs |-> s]
There == [Keep EXCEPT ![b] = b2]
Home  == [Keep EXCEPT ![b2] = b]

FaithfulMatch == [i \in 1..1 |-> Keep]
EchoMatch == [i \in 1..2 |-> IF i = 1 THEN There ELSE Keep]
EchoBack  == [i \in 1..2 |-> IF i = 1 THEN Home ELSE Keep]
=============================================================================
