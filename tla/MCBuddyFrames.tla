--------------------------- MODULE MCBuddyFrames ---------------------------
(* Model-checking instances of BuddyFrames: memory maps. *)
EXTENDS BuddyFrames

(* Two entries with ragged ends, up to the last page level 0 has a bit for;   *)
(* the second holds a chunk of the top level.                                 *)
Ragged == {<<1, 4>>, <<6, 16>>}

(* An entry past the half that level 0 has room for. *)
PastHalf == {<<1, 4>>, <<18, 20>>}

=============================================================================
