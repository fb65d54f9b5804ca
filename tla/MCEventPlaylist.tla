-------------------------- MODULE MCEventPlaylist --------------------------
(* Model-checking instance of EventPlaylist. *)
EXTENDS EventPlaylist, TLC

CONSTANTS one, two, c1, c2

TwoSlots  == {c1, c2}
OneSong   == {one}
TwoSongs  == {one, two}
Nothing   == {}
EachKind  == {"spotify", "apple", "youtube"}
=============================================================================
