--------------------------- MODULE ExecutableFormats ---------------------------
(***************************************************************************)
(* PE and Mach-O (format/defs): what each definition finds in a file, <<>>  *)
(* when the file is not of the format.  Neither adds a marker to a list     *)
(* the cap cut short: only the description of its count says so.           *)
(***************************************************************************)
EXTENDS FormatFile

(* The first count records of a size; one is left out when the file does not *)
(* hold what is read of it.                                                *)
Records(f, at, count, size, read, Record(_, _)) ==
    LET held == SelectSeq([i \in 1..count |-> i],
                          LAMBDA i : Holds(f, at + (i - 1) * size, read))
    IN  [k \in DOMAIN held |-> Record(at + (held[k] - 1) * size, held[k] - 1)]

(* shown_count *)
ShownCount(total, cap) == Least(total, Greatest(cap, 1))

-----------------------------------------------------------------------------
(* PE: DOS header, COFF header, optional header, section table. *)

DosHeader ==
    <<ReadOnly(0, 2)>> \o Fields(2, [i \in 1..13 |-> 2], TRUE)
    \o <<Editable(36, 2), Editable(38, 2), Editable(60, 4)>>

CoffHeaderSize == 20
CoffHeader ==
    <<Editable(0, 2), ReadOnly(2, 2), Editable(4, 4), ReadOnly(8, 4), ReadOnly(12, 4),
      ReadOnly(16, 2), Editable(18, 2)>>

Pe32Plus == 523

(* The fields and the bytes that had to be read for them. *)
StandardFields(plus, size) ==
    When(size >= 28, Fields(4, <<4, 4, 4>>, FALSE) \o Fields(16, <<4, 4>>, TRUE)
                     \o When(~plus /\ size >= 32, <<Editable(24, 4)>>))

WindowsFields(plus, size) ==
    LET win == IF plus THEN 16 ELSE 24
        base == IF plus THEN 8 ELSE 4
    IN  When(size >= win + 48,
             <<Editable(win, base)>> \o Fields(win + base, <<4, 4>>, FALSE))

(* build_optional_header_fields: dropped as soon as one read fails. *)
OptionalHeader(f, at, size) ==
    LET plus == Word(f, at) = Pe32Plus
        fields == Fields(0, <<2, 1, 1>>, FALSE)
                  \o StandardFields(plus, size) \o WindowsFields(plus, size)
    IN  When(size > 0 /\ \A i \in DOMAIN fields :
                            Holds(f, at + fields[i].at, fields[i].size),
             <<Node(Plain("Optional Header"), at, fields)>>)

(* build_section_header: the range of the section's data keeps the offset of *)
(* the field before it.                                                    *)
PeSection(f, at, index) ==
    LET bytes == Word(f, at + 16)
    IN  Node(Name("Section", Tag(f, at), <<index>>, FALSE), at,
             Fields(0, <<8, 4, 4>>, TRUE) \o Fields(16, <<4, 4>>, FALSE)
             \o When(Word(f, at + 20) > 0, DataRangeOf(20, bytes))
             \o Fields(24, <<4, 4, 2, 2>>, FALSE) \o <<Editable(36, 4)>>)

SectionTable(f, at, count, cap) ==
    When(count > 0,
         <<Nest(Plain("Section Table"), at, <<ReadOnly(0, 4)>>,
                Records(f, at, ShownCount(count, cap), 40, 40,
                        LAMBDA a, i : PeSection(f, a, i)))>>)

Pe(f, cap) ==
    LET coff == Word(f, 60) + 4
        optional == Word(f, coff + 16)
    IN  IF f.len < 64 \/ Tag(f, 0) # "MZ" \/ ~Holds(f, Word(f, 60), 24)
           \/ Tag(f, Word(f, 60)) # "PE" THEN <<>>
        ELSE <<Nest(Plain("DOS Header"), 0, DosHeader,
                    <<Nest(Plain("COFF Header"), coff, CoffHeader,
                           OptionalHeader(f, coff + CoffHeaderSize, optional)
                           \o SectionTable(f, coff + CoffHeaderSize + optional,
                                           Word(f, coff + 2), cap))>>)>>

-----------------------------------------------------------------------------
(* Mach-O: header, load commands, the sections of a segment; or a fat header *)
(* and its architectures.  The tag at 0 is the magic.                      *)

MachMagics == {"macho 32 be", "macho 32 le", "macho 64 be", "macho 64 le"}
MachMagics64 == {"macho 64 be", "macho 64 le"}
FatMagics == {"fat be", "fat le"}

(* The commands the parser tells apart; the tag stands for the number. *)
Segments == {"segment", "segment 64"}

MachHeader(wide) ==
    Fields(0, <<4, 4>>, FALSE) \o <<Editable(8, 4)>> \o Fields(12, <<4, 4, 4>>, FALSE)
    \o <<Editable(24, 4)>> \o When(wide, <<ReadOnly(28, 4)>>)

(* parse_section: as in PE, the range of the data stays at the header. *)
MachSection(f, at, index, wide) ==
    LET word == IF wide THEN 8 ELSE 4
        offset == 32 + 2 * word
    IN  Node(Name("Section", Tag(f, at), <<index>>, FALSE), at,
             Fields(0, <<16, 16, word>>, TRUE) \o <<ReadOnly(32 + word, word)>>
             \o When(Word(f, at + offset) > 0, DataRangeOf(offset, Word(f, at + 32 + word))))

(* parse_segment *)
MachSegment(f, at, wide, cap) ==
    LET fileoff == IF wide THEN 40 ELSE 32
        size == Word(f, at + (IF wide THEN 48 ELSE 36))
        sections == Word(f, at + (IF wide THEN 64 ELSE 48))
        header == IF wide THEN 72 ELSE 56
    IN  When(Holds(f, at, header),
             When(size > 0, <<Node(Plain("Segment Data"), Word(f, at + fileoff),
                                   <<DataRange(0, size)>>)>>)
             \o Records(f, at + header, ShownCount(sections, cap),
                        IF wide THEN 80 ELSE 68, IF wide THEN 52 ELSE 44,
                        LAMBDA a, i : MachSection(f, a, i, wide)))

(* build_load_command: a command whose own fields cannot be read is dropped, *)
(* and the walk goes on behind it.                                         *)
LoadCommand(f, at, n, cap) ==
    LET cmd == Tag(f, at)
        own == When(Word(f, at + 4) >= 24,
                    CASE cmd = "main" -> Fields(8, <<8, 8>>, FALSE)
                      [] cmd = "uuid" -> <<ReadOnly(8, 16)>>
                      [] OTHER -> <<>>)
    IN  Entry(When(own = <<>> \/ Holds(f, at, 24),
                   <<Nest(Name("Command", cmd, <<n>>, FALSE), at,
                          Fields(0, <<4, 4>>, FALSE) \o own,
                          When(cmd \in Segments,
                               MachSegment(f, at, cmd = "segment 64", cap)))>>),
              at + Word(f, at + 4), FALSE)

LoadCommands(f, start, cap) ==
    LET count == Word(f, 16)
        end == start + Word(f, 20)
        commands == EntryWalk(start, LAMBDA at : at + 8 <= Least(end, f.len),
                              ShownCount(count, cap),
                              LAMBDA at, n : LoadCommand(f, at, n, cap))
    IN  When(count > 0 /\ Word(f, 20) > 0 /\ commands.out # <<>>,
             <<Nest(Plain("Load Commands"), start, <<ReadOnly(0, 4)>>, commands.out)>>)

FatArchitecture(f, at, index) ==
    Node(Name("Architecture", Tag(f, at), <<index>>, FALSE), at,
         <<ReadOnly(0, 4), Editable(4, 4)>> \o Fields(8, <<4, 4, 4>>, FALSE))

FatMach(f, cap) ==
    When(Holds(f, 4, 4) /\ Word(f, 4) \in 1..16,
         <<Nest(Plain("Fat Header"), 0, Fields(0, <<4, 4>>, FALSE),
                Records(f, 8, Least(Word(f, 4), cap), 20, 20,
                        LAMBDA a, i : FatArchitecture(f, a, i)))>>)

Mach(f, cap) ==
    LET wide == Tag(f, 0) \in MachMagics64
        header == IF wide THEN 32 ELSE 28
    IN  IF f.len < 4 THEN <<>>
        ELSE IF Tag(f, 0) \in FatMagics THEN FatMach(f, cap)
        ELSE When(Tag(f, 0) \in MachMagics /\ f.len >= header,
                  <<Nest(Plain("Mach Header"), 0, MachHeader(wide),
                         LoadCommands(f, header, cap))>>)

===============================================================================
