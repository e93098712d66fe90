----------------------------- MODULE MCReactor -----------------------------
(* Small instances of Reactor for TLC.                                     *)
EXTENDS Reactor

K(op, n) == [op |-> op, len |-> n]

DataOnly   == {K("DATA", 1)}
TooLong    == {K("DATA", 5)}              \* more than High, less than Cap
AllClient  == {K("DATA", 1), K("PING", 0), K("LOST", 0), K("CLOSE", 0),
               K("ERROR", 0), K("BAD", 0)}
Answers    == {K("DATA", 1)}
AllUp      == {K("DATA", 0), K("BAD", 0)}

NoFaults   == {}
Everything == AllFaults \ {"instant"}
Refusals   == {"refuse", "eof"}
Turbulence == {"health", "instant", "adopt"}
============================================================================
