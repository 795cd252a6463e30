--------------------------- MODULE MCProposeRelay ----------------------------
(* Instances of ProposeRelay for TLC.                                        *)
EXTENDS ProposeRelay

Call(r, p, o) == [route |-> r, ptype |-> p, operator |-> o]

\* Both routes, both kinds of proposal, with and without the operator's key.
Mixed == <<Call("consensus", "operator", TRUE), Call("amplifier", "timelock", TRUE),
           Call("amplifier", "operator", FALSE)>>
=============================================================================
