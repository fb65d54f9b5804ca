--------------------------- MODULE MCImportEngine ---------------------------
(* Model-checking instances of ImportEngine. *)
EXTENDS ImportEngine, TLC

CONSTANTS c1, c2

OneCaller     == {c1}
TwoCallers    == {c1, c2}
AllProviders  == {"youtube", "tidal", "chunked"}

Alike == Permutations(TwoCallers)

\* Where calls overlap, two of them and one fault, or three.
Together == overlapped => calls + crashes + lost <= 3

\* Tracks 1 and 2 are different songs with the same best match; track 3 has a
\* match of its own.
SharedFp    == <<"f1", "f2", "f3">>
SharedMatch == <<"m1", "m1", "m2">>

\* The same song twice.
TwinFp    == <<"f1", "f1">>
TwinMatch == <<"m1", "m1">>
=============================================================================
