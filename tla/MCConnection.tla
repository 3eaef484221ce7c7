--------------------------- MODULE MCConnection ---------------------------
(* Two connections, PSNs modulo 4 that start on both sides of the wrap, both kinds of    *)
(* operator, and files of an earlier run, with the key of this run or another.           *)
EXTENDS Connection

MCScenarios ==
  [orderly : BOOLEAN, key : {"new"}, sfile : {"none"}, cfile : {"none"}]
    \cup [orderly : BOOLEAN, key : {"old", "new"}, sfile : {"old"}, cfile : {"old"}]
MCStartPsns == [i \in Conns |-> IF i = 1 THEN {1, PsnMod - 1} ELSE {0}]
=============================================================================
