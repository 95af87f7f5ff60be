-------------------------- MODULE MCMessageStream --------------------------
(***************************************************************************)
(* Instances of MessageStream for TLC.                                     *)
(***************************************************************************)
EXTENDS MessageStream

Checked    == [flow : {"chat", "responses"}, order : {"serial", "parallel"}]
                \cup [flow : {"agent"}, order : {"serial", "any"}]
TwoCalls   == {0, 1}
TwoOutputs == {0, 1}
TwoParts   == {0, 1}
=============================================================================
