---------------------------- MODULE MCEditSession ----------------------------
(* Nibbles are single bits, a byte has four values. *)
EXTENDS EditSession

MCClips == {<<1, 3>>}
MCFills == {<<2, 2>>}

Bounded(content, inputs, cells, steps) ==
    [content |-> content, inputs |-> inputs, cells |-> cells, steps |-> steps]

(* One byte in a file, typed at and saved. *)
Keys == Bounded(<<1>>, {"overwrite", "insert", "delete", "save"}, 3, 2)
(* Two bytes, a paste of two, and every command. *)
Commands ==
    Bounded(<<1, 2>>, {"paste", "fill", "xor", "visual", "delete", "jump"}, 4, 2)
(* The mouse in and out of a half-typed byte. *)
Mouse == Bounded(<<1>>, {"mouse", "insert"}, 2, 2)

MCProfiles == {Keys, Commands, Mouse}
=============================================================================
