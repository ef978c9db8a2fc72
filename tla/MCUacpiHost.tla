----------------------------- MODULE MCUacpiHost -----------------------------
(* Model-checking instance of UacpiHost. *)
EXTENDS UacpiHost

CONSTANTS h1, h2, h3

ThreeHandles == {h1, h2, h3}

==============================================================================
