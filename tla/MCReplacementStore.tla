-------------------------- MODULE MCReplacementStore --------------------------
(* Bytes of one bit. *)
EXTENDS ReplacementStore

MCLength == [s \in {0, 1} |-> IF s = 0 THEN 3 ELSE 1]
MCBase == [c \in Cells |-> IF c = <<0, 1>> THEN {1} ELSE {}]
MCPatterns == {<<{}, {1}>>}
MCRuns == {<<{1}, {}>>}
MCKeys == {{1}}
=============================================================================
