------------------------------- MODULE MCPorts -------------------------------
(***************************************************************************)
(* EventPoll for TLC: an output port that is written to by parts of a      *)
(* block and, with a large string as the second of two, by whole blocks,   *)
(* and an input port.                                                      *)
(***************************************************************************)
EXTENDS EventPoll

CONSTANTS t1, t2, p1, i1

SmallAndLarge == {<<3>>, <<1, 4>>}
OneOrBoth == {[r |-> {i1}, w |-> {p1}, timed |-> FALSE],
              [r |-> {i1}, w |-> {}, timed |-> TRUE]}
NoSelects == {}
=============================================================================
