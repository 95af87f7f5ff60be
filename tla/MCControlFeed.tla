--------------------------- MODULE MCControlFeed ---------------------------
(***************************************************************************)
(* Instances of ControlFeed for TLC.                                       *)
(***************************************************************************)
EXTENDS ControlFeed
CONSTANTS c1, rest, rpc

OneClient    == {c1}
OneSurface   == {rpc}
BothSurfaces == {rest, rpc}

NoMishap   == {}
AllMishaps == {"silent_write", "list_fails"}
=============================================================================
