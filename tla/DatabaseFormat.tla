---------------------------- MODULE DatabaseFormat ----------------------------
(***************************************************************************)
(* SQLite (format/defs/sqlite.rs): the database header and the pages, a     *)
(* b-tree page with its cell pointers.                                     *)
(***************************************************************************)
EXTENDS FormatFile

DatabaseHeaderLen == 100
LeafHeaderLen == 8

PowersOfTwo == {2 ^ k : k \in 9..15}

(* parse_page_size: 0 when the header gives none. *)
PageSize(f) == LET raw == Word(f, 16)
               IN  IF raw = 1 THEN 65536 ELSE IF raw \in PowersOfTwo THEN raw ELSE 0

DatabaseHeader ==
    Node(Plain("SQLite Database Header"), 0,
         <<ReadOnly(0, 16)>>
         \o Fields(16, <<2, 1, 1, 1, 1, 1, 1>> \o [i \in 1..12 |-> 4], TRUE)
         \o <<ReadOnly(72, 20), Editable(92, 4), Editable(96, 4)>>)

(* BtreePageKind *)
InteriorPages == {2, 5}
BtreePages == InteriorPages \cup {10, 13}
BtreeHeaderLen(type) == IF type \in InteriorPages THEN 12 ELSE LeafHeaderLen

RawPage(number, start, len, why) ==
    Node(Name(why, "", <<number>>, why = "truncated"), start, DataRangeOf(0, len))

(* The pointers that are there, the cap's worth of them one by one. *)
CellPointers(array, available, cap) ==
    LET pointers == available \div 2
        shown == Least(pointers, cap)
    IN  When(available > 0,
             <<DataRange(array, available)>>
             \o Fields(array, [i \in 1..shown |-> 2], FALSE)
             \o DataRangeOf(array + 2 * shown, 2 * (pointers - shown)))

BtreePage(f, number, start, bytes, head, type, cap) ==
    LET array == head + BtreeHeaderLen(type)
        cutHeader == bytes < array
        wanted == 2 * Word(f, start + head + 3)
        available == Least(AtLeastZero(bytes - array), wanted)
        raw == Word(f, start + head + 5)
        content == IF raw = 0 /\ bytes = 65536 THEN 65536 ELSE raw
    IN  Node(Name("b-tree", "", <<number, type>>, cutHeader \/ available < wanted), start,
             Fields(head, <<1, 2, 2, 2, 1>>, TRUE)
             \o When(type \in InteriorPages /\ ~cutHeader, <<Editable(head + 8, 4)>>)
             \o CellPointers(array, available, cap)
             \o When(content < bytes /\ content >= array,
                     <<DataRange(content, bytes - content)>>))

(* page_struct; the first page begins with the database header. *)
DatabasePage(f, i, unit, cap) ==
    LET start == i * unit
        bytes == Least(start + unit, f.len) - start
        head == IF i = 0 THEN DatabaseHeaderLen ELSE 0
        type == Word(f, start + head)
    IN  IF bytes < head + LeafHeaderLen THEN RawPage(i + 1, start, bytes, "truncated")
        ELSE IF type \notin BtreePages
        THEN RawPage(i + 1, start, bytes, "non-b-tree or unknown")
        ELSE BtreePage(f, i + 1, start, bytes, head, type, cap)

Sqlite(f, cap) ==
    LET unit == PageSize(f)
        pages == RoundUp(f.len, unit) \div unit
        shown == Least(pages, Greatest(cap, 1))
    IN  IF f.len < DatabaseHeaderLen \/ Tag(f, 0) # "sqlite" \/ unit = 0 THEN <<>>
        ELSE <<DatabaseHeader>>
             \o [i \in 1..shown |-> DatabasePage(f, i - 1, unit, Greatest(cap, 1))]
             \o When(pages > shown, <<Marker(ThreeDots, "SQLite", shown, shown * unit)>>)

===============================================================================
