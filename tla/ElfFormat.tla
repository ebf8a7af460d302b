------------------------------- MODULE ElfFormat -------------------------------
(***************************************************************************)
(* ELF (format/defs/elf): the header, the program and section headers and   *)
(* what the parser finds behind them.  A name quotes the text the file      *)
(* holds; one cut short by its table or by the end of the file is CutText.  *)
(***************************************************************************)
EXTENDS FormatFile

CutText == "(cut)"
NoteSections == {".note", ".note.gnu.build-id"}

(* Types of segments, sections and entries that the parser tells apart. *)
Dynamic == 2
Interp == 3
NoteSegments == {4, 1685382483}          \* PT_NOTE, PT_GNU_PROPERTY
SymTab == 2
StrTab == 3
RelA == 4
SysvHash == 5
DynamicSection == 6
NoteSection == 7
NoBits == 8
Rel == 9
DynSym == 11
GnuHash == 1879048182
VerDef == 1879048189
VerNeed == 1879048190
VerSym == 1879048191
StringTags == {1, 14, 15, 29}            \* DT_NEEDED, SONAME, RPATH, RUNPATH
GnuProperty == 5

(* The parser at work: the file, the size of a word, the cap (shown_count)   *)
(* and the section headers.                                                *)
Parser(f, w, cap, sections) == [f |-> f, w |-> w, cap |-> Greatest(cap, 1), sections |-> sections]

(* read_c_string: up to the NUL, the limit, 4096 bytes or the end. *)
ElfString(f, at, max) ==
    LET room == Least(Least(max, 4096), f.len - at)
        n == TextLen(f, at)
        whole == n \in 1..room
    IN  [found |-> max > 0 /\ at < f.len, len |-> IF whole THEN n ELSE room,
         text |-> IF whole THEN Tag(f, at) ELSE CutText]

NoString == [found |-> FALSE, len |-> 0, text |-> ""]
TextOf(string) == IF string.found THEN string.text ELSE ""

(* string_struct and read_string_from_table *)
TableString(e, tables, rel) ==
    IF tables # <<>> /\ tables[1].type = StrTab /\ rel < tables[1].size
    THEN ElfString(e.f, tables[1].offset + rel, tables[1].size - rel) ELSE NoString

(* section_link_target, find_named_section: none or one. *)
Linked(e, section, types) ==
    When(section.link + 1 \in DOMAIN e.sections,
         SelectSeq(<<e.sections[section.link + 1]>>, LAMBDA s : s.type \in types))
NamedSection(e, name) ==
    LET named == SelectSeq(e.sections, LAMBDA s : s.name = name)
    IN  When(named # <<>>, <<named[1]>>)

(* data_range_struct, utf8_struct *)
RangeStruct(kind, n, at, len) == Node(Name(kind, "", n, FALSE), at, <<DataRange(0, len)>>)
TextStruct(kind, string, at) == Node(Name(kind, string.text, <<>>, FALSE), at, <<ReadOnly(0, string.len)>>)

(* The first entries of a list, and a marker where the others begin. *)
Capped(e, entries, what) ==
    SubSeq(entries, 1, Least(Len(entries), e.cap))
    \o When(Len(entries) > e.cap, <<Marker(Ellipsis, what, e.cap, entries[e.cap + 1].at)>>)

Listing(e, name, at, entries, what) ==
    When(entries # <<>>, <<Nest(name, at, <<>>, Capped(e, entries, what))>>)

(* A table of count entries of a size: those shown, and the marker. *)
TableListing(e, name, at, count, size, shown, what) ==
    <<Nest(Plain(name), at, <<>>,
           shown \o When(count > e.cap, <<Marker(Ellipsis, what, e.cap, at + e.cap * size)>>))>>

(* How many of count records of a stride are there to be read. *)
Readable(f, at, count, stride, size) ==
    IF Holds(f, at, size) THEN Least(count, (f.len - size - at) \div stride + 1) ELSE 0

-----------------------------------------------------------------------------
(* Symbols, relocations, hash tables (symbols.rs). *)

SymbolSize(e) == IF e.w = 8 THEN 24 ELSE 16
SymbolFields(e) ==
    IF e.w = 8 THEN Fields(0, <<4, 1, 1, 2, 8, 8>>, FALSE)
    ELSE <<ReadOnly(0, 4), ReadOnly(12, 1), ReadOnly(13, 1), ReadOnly(14, 2),
           ReadOnly(4, 4), ReadOnly(8, 4)>>

EntrySize(section, default) == IF section.entsize > 0 THEN section.entsize ELSE default

(* read_symbol_info: the name of the symbol and where the entry is. *)
SymbolInfo(e, table, index) ==
    LET size == EntrySize(table, SymbolSize(e))
        at == table.offset + index * size
    IN  [found |-> (index + 1) * size <= table.size /\ Holds(e.f, at, SymbolSize(e)), at |-> at,
         name |-> TableString(e, Linked(e, table, {StrTab}), Word(e.f, at))]

SymbolName(e, tables, index) ==
    IF tables = <<>> \/ ~SymbolInfo(e, tables[1], index).found THEN ""
    ELSE TextOf(SymbolInfo(e, tables[1], index).name)

SymbolStruct(e, section, index) ==
    LET symbol == SymbolInfo(e, section, index)
        info == symbol.at + (IF e.w = 8 THEN 4 ELSE 12)
    IN  Nest(Name("Symbol", TextOf(symbol.name),
                  <<index, Word(e.f, info), Word(e.f, info + 1) % 4>>, FALSE), symbol.at,
             SymbolFields(e),
             When(TextOf(symbol.name) # "",
                  <<TextStruct("String", symbol.name,
                               Linked(e, section, {StrTab})[1].offset + Word(e.f, symbol.at))>>))

(* A table that is not there, or too small for one entry, is not shown. *)
Present(e, section, size) == size > 0 /\ section.size >= size /\ section.offset < e.f.len

SymbolTable(e, section) ==
    LET size == EntrySize(section, SymbolSize(e))
        count == section.size \div size
        shown == Readable(e.f, section.offset, Least(count, e.cap), size, SymbolSize(e))
    IN  When(Present(e, section, size),
             TableListing(e, "Symbols", section.offset, count, size,
                          [i \in 1..shown |-> SymbolStruct(e, section, i - 1)], "symbols"))

(* split_relocation_info: symbol and type. *)
RelocationInfo(e, at) ==
    LET low == IF Word(e.f, 5) = 1 THEN 0 ELSE 4
    IN  IF e.w = 8 THEN <<Word(e.f, at + 4 - low), Word(e.f, at + low)>>
        ELSE <<Word(e.f, at) \div 256, Word(e.f, at) % 256>>

RelocationStruct(e, section, at, index) ==
    LET info == RelocationInfo(e, at + e.w)
    IN  Node(Name("Relocation", SymbolName(e, Linked(e, section, {SymTab, DynSym}), info[1]),
                  <<index, Word(e.f, 18), info[2]>>, FALSE), at,
             Fields(0, <<e.w, e.w>> \o When(section.type = RelA, <<e.w>>), FALSE))

(* One entry among those shown that cannot be read takes the table away. *)
RelocationTable(e, section) ==
    LET size == EntrySize(section, IF section.type = RelA THEN 3 * e.w ELSE 2 * e.w)
        count == section.size \div size
        shown == Least(count, e.cap)
    IN  When(/\ Present(e, section, size)
             /\ Readable(e.f, section.offset, shown, size, 2 * e.w) = shown,
             TableListing(e, "Relocations", section.offset, count, size,
                          [i \in 1..shown |->
                              RelocationStruct(e, section, section.offset + (i - 1) * size, i - 1)],
                          "relocations"))

SysvHashTable(e, section) ==
    LET base == section.offset
        buckets == 4 * Word(e.f, base)
    IN  When(Holds(e.f, base, 8),
             <<Nest(Plain("SysV Hash"), base, Fields(0, <<4, 4>>, FALSE),
                    <<RangeStruct("Buckets", <<>>, base + 8, buckets),
                      RangeStruct("Chains", <<>>, base + 8 + buckets,
                                  4 * Word(e.f, base + 4))>>)>>)

GnuHashTable(e, section) ==
    LET base == section.offset
        bloom == e.w * Word(e.f, base + 8)
        buckets == 4 * Word(e.f, base)
    IN  When(Holds(e.f, base, 16),
             <<Nest(Plain("GNU Hash"), base, Fields(0, <<4, 4, 4, 4>>, FALSE),
                    <<RangeStruct("Bloom Filter", <<>>, base + 16, bloom),
                      RangeStruct("Buckets", <<>>, base + 16 + bloom, buckets),
                      RangeStruct("Chains", <<>>, base + 16 + bloom + buckets,
                                  AtLeastZero(section.size - 16 - bloom - buckets))>>)>>)

(* build_string_table_struct: the empty string at 0 is not listed. *)
StringTable(e, section) ==
    LET walk == Loop(LAMBDA s :
                        LET string == TableString(e, <<section>>, s.rel)
                        IN  IF ~string.found THEN [s EXCEPT !.on = FALSE]
                            ELSE [on |-> TRUE, rel |-> s.rel + string.len,
                                  out |-> s.out \o
                                    When(s.rel # 0 \/ string.text # "",
                                         <<TextStruct("String", string,
                                                      section.offset + s.rel)>>)],
                     [on |-> TRUE, rel |-> 0, out |-> <<>>])
    IN  Listing(e, Plain("String Table Entries"), section.offset, walk.out, "strings")

-----------------------------------------------------------------------------
(* Dynamic entries, notes, properties (payloads.rs). *)

Interpreter(e, at, size) ==
    LET path == ElfString(e.f, at, size)
    IN  When(path.found, <<TextStruct("Interpreter", path, at)>>)

DynamicStruct(e, at, index, tables) ==
    LET tag == Word(e.f, at)
        string == IF tag \in StringTags THEN TableString(e, tables, Word(e.f, at + e.w))
                  ELSE NoString
    IN  Nest(Name("Dynamic", TextOf(string), <<index, tag>>, FALSE), at,
             Fields(0, <<e.w, e.w>>, FALSE),
             When(string.found,
                  <<TextStruct("String", string, tables[1].offset + Word(e.f, at + e.w))>>))

(* Up to and with the entry of tag 0; an entry that cannot be read takes    *)
(* the whole list away, whatever the cap.                                  *)
DynamicEntries(e, at, size, tables) ==
    LET unit == 2 * e.w
        count == size \div unit
        nulls == {i \in 1..Least(count, MaxSteps) : Word(e.f, at + (i - 1) * unit) = 0}
        total == IF nulls = {} THEN count ELSE Min(nulls)
    IN  When(size >= unit /\ at < e.f.len /\ Readable(e.f, at, total, unit, unit) = total,
             Listing(e, Plain("Dynamic Entries"), at,
                     [i \in 1..total |-> DynamicStruct(e, at + (i - 1) * unit, i - 1, tables)],
                     "dynamic entries"))

PropertyStruct(e, at, index) ==
    Nest(Name("Property", "", <<index, Word(e.f, at)>>, FALSE), at, Fields(0, <<4, 4>>, FALSE),
         When(Word(e.f, at + 4) > 0,
              <<RangeStruct("Property Data", <<index>>, at + 8, Word(e.f, at + 4))>>))

GnuProperties(e, start, size) ==
    LET end == start + size
        Room(at) == /\ at + 8 <= end /\ Holds(e.f, at, 8)
                    /\ at + 8 + Word(e.f, at + 4) <= end
        walk == EntryWalk(start, Room, MaxSteps,
                          LAMBDA at, n : Entry(<<PropertyStruct(e, at, n)>>,
                                               at + RoundUp(8 + Word(e.f, at + 4), e.w), FALSE))
    IN  When(start < e.f.len,
             Listing(e, Plain("GNU Properties"), start, walk.out, "GNU properties"))

NoteStruct(e, at, index) ==
    LET namesz == Word(e.f, at)
        descsz == Word(e.f, at + 4)
        name == ElfString(e.f, at + 12, namesz)
        desc == at + 12 + RoundUp(namesz, 4)
    IN  Nest(Name("Note", TextOf(name), <<index, Word(e.f, at + 8)>>, FALSE), at,
             Fields(0, <<4, 4, 4>>, FALSE),
             When(name.found, <<TextStruct("Note Name", name, at + 12)>>)
             \o When(descsz > 0,
                     IF TextOf(name) = "GNU" /\ Word(e.f, at + 8) = GnuProperty
                     THEN GnuProperties(e, desc, descsz)
                     ELSE <<RangeStruct("Note Descriptor", <<index>>, desc, descsz)>>))

Notes(e, name, start, size) ==
    LET end == start + size
        Desc(at) == at + 12 + RoundUp(Word(e.f, at), 4)
        Room(at) == /\ at + 12 <= end /\ Holds(e.f, at, 12)
                    /\ Desc(at) + Word(e.f, at + 4) <= end
        walk == EntryWalk(start, Room, MaxSteps,
                          LAMBDA at, n : Entry(<<NoteStruct(e, at, n)>>,
                                               Desc(at) + RoundUp(Word(e.f, at + 4), 4), FALSE))
    IN  When(start < e.f.len, Listing(e, name, start, walk.out, "notes"))

-----------------------------------------------------------------------------
(* Versions (versions.rs): chains of records that end at the first without  *)
(* a next one, at the end of the section or at a limit; a record that       *)
(* cannot be read, or one in it, spoils the chain (ok).                     *)
Chain(e, start, end, size, limit, next, Link(_, _)) ==
    Loop(LAMBDA s :
            IF s.at + size > end \/ s.n >= limit THEN [s EXCEPT !.on = FALSE]
            ELSE IF ~Holds(e.f, s.at, size) THEN [s EXCEPT !.on = FALSE, !.ok = FALSE]
            ELSE LET link == Link(s.at, s.n)
                     step == Word(e.f, s.at + next)
                 IN  [on |-> link.ok /\ step # 0, ok |-> link.ok, at |-> s.at + step,
                      n |-> s.n + 1, out |-> s.out \o link.out],
         [on |-> TRUE, ok |-> TRUE, at |-> start, n |-> 0, out |-> <<>>])

Link(ok, out) == [ok |-> ok, out |-> out]

(* read_string_from_table: the name at the offset that a word holds. *)
VersionName(e, section, at) ==
    TextOf(TableString(e, Linked(e, section, {StrTab}), Word(e.f, at)))

Vernaux(e, section, at, index) ==
    Node(Name("Vernaux", VersionName(e, section, at + 8), <<index, Word(e.f, at + 6)>>, FALSE),
         at, Fields(0, <<4, 2, 2, 4, 4>>, FALSE))

(* The limit on the auxiliary records keeps 16 bits of the cap. *)
Verneed(e, section, at, index) ==
    LET aux == Chain(e, at + Word(e.f, at + 8), section.offset + section.size, 16,
                     Least(Word(e.f, at + 2), e.cap % 65536), 12,
                     LAMBDA a, i : Link(TRUE, <<Vernaux(e, section, a, i)>>))
    IN  Link(aux.ok, <<Nest(Name("Verneed", VersionName(e, section, at + 4), <<index>>, FALSE), at,
                            Fields(0, <<2, 2, 4, 4, 4>>, FALSE), aux.out)>>)

Verdef(e, section, at, index) ==
    LET aux == at + Word(e.f, at + 12)
        there == aux + 8 <= section.offset + section.size
    IN  Link(there => Holds(e.f, aux, 8),
             <<Nest(Name("Verdef", "", <<index, Word(e.f, at + 4)>>, FALSE), at,
                    Fields(0, <<2, 2, 2, 2, 4, 4, 4>>, FALSE),
                    When(there, <<Node(Name("Verdaux", VersionName(e, section, aux), <<>>, FALSE),
                                       aux, Fields(0, <<4, 4>>, FALSE))>>))>>)

VersionChain(e, section, name, chain) ==
    When(Linked(e, section, {StrTab}) # <<>> /\ chain.ok /\ chain.out # <<>>,
         <<Nest(Plain(name), section.offset, <<>>, chain.out)>>)

VersionNeeds(e, section) ==
    VersionChain(e, section, "Version Needs",
                 Chain(e, section.offset, section.offset + section.size, 16, e.cap, 12,
                       LAMBDA at, n : Verneed(e, section, at, n)))

VersionDefinitions(e, section) ==
    VersionChain(e, section, "Version Definitions",
                 Chain(e, section.offset, section.offset + section.size, 20, e.cap, 16,
                       LAMBDA at, n : Verdef(e, section, at, n)))

(* version_name_map: every named version of the definitions, then of the    *)
(* needs, with no cap; the first of an index counts.                       *)
DefinedVersions(e, section) ==
    LET end == section.offset + section.size
        Named(at) == LET aux == at + Word(e.f, at + 12)
                     IN  When(aux + 4 <= end /\ Holds(e.f, aux, 4),
                              <<[index |-> Word(e.f, at + 4),
                                 name |-> VersionName(e, section, aux)]>>)
    IN  Chain(e, section.offset, end, 20, MaxSteps, 16, LAMBDA at, n : Link(TRUE, Named(at))).out

NeededVersions(e, section) ==
    LET end == section.offset + section.size
        Named(at) == Chain(e, at + Word(e.f, at + 8), end, 16, Word(e.f, at + 2), 12,
                           LAMBDA a, i : Link(TRUE, <<[index |-> Word(e.f, a + 6),
                                                       name |-> VersionName(e, section, a + 8)]>>)).out
    IN  Chain(e, section.offset, end, 16, MaxSteps, 12, LAMBDA at, n : Link(TRUE, Named(at))).out

VersionNames(e) ==
    LET Of(type, Versions(_)) ==
            FlattenSeq([i \in DOMAIN e.sections |->
                           When(e.sections[i].type = type, Versions(e.sections[i]))])
        all == Of(VerDef, LAMBDA s : DefinedVersions(e, s)) \o Of(VerNeed, LAMBDA s : NeededVersions(e, s))
    IN  SelectSeq(all, LAMBDA v : v.name # "")

VersionOf(names, index) ==
    LET found == SelectSeq(names, LAMBDA v : v.index = index)
    IN  IF found = <<>> THEN "Versym" ELSE found[1].name

(* The name quotes the version and the symbol. *)
VersionSymbols(e, section) ==
    LET count == section.size \div 2
        shown == Least(count, e.cap)
        symbols == Linked(e, section, {SymTab, DynSym})
        names == VersionNames(e)
        Versym(at, i) ==
            Node(Name(VersionOf(names, Word(e.f, at) % 32768), SymbolName(e, symbols, i),
                      <<i, Word(e.f, at)>>, FALSE),
                 at, <<ReadOnly(0, 2)>>)
    IN  When(/\ Present(e, section, 2)
             /\ Readable(e.f, section.offset, shown, 2, 2) = shown,
             TableListing(e, "Version Symbols", section.offset, count, 2,
                          [i \in 1..shown |-> Versym(section.offset + 2 * (i - 1), i - 1)],
                          "version symbols"))

-----------------------------------------------------------------------------
(* The headers (header.rs, structures.rs). *)

ElfHeader(w) ==
    <<ReadOnly(0, 16)>> \o Fields(4, <<1, 1, 1, 1>>, TRUE)
    \o Fields(16, <<2, 2, 4, w, w, w, 4, 2, 2, 2, 2, 2, 2>>, TRUE)

ProgramSize(w) == IF w = 8 THEN 56 ELSE 32
ProgramFields(w) ==
    IF w = 8 THEN Fields(0, <<4, 4, 8, 8, 8, 8, 8, 8>>, TRUE)
    ELSE <<Editable(0, 4), Editable(24, 4)>> \o Fields(4, <<4, 4, 4, 4, 4>>, TRUE)
         \o <<Editable(28, 4)>>

SectionSize(w) == 16 + 6 * w
SectionFields(w) == Fields(0, <<4, 4, w, w, w, w, 4, 4, w, w>>, TRUE)

(* A header table: its offset, the count and the size of an entry; how many *)
(* of its entries parse_program_headers and parse_section_headers find.     *)
HeaderCount(f, at, count, stride, size) ==
    IF at = 0 \/ stride < size THEN 0 ELSE Readable(f, at, count, stride, size)

Programs(f, w) ==
    LET at == Word(f, 24 + w)
        stride == Word(f, 30 + 3 * w)
        count == HeaderCount(f, at, Word(f, 32 + 3 * w), stride, ProgramSize(w))
        Info(i) == LET entry == at + (i - 1) * stride
                   IN  [index |-> i - 1, at |-> entry, type |-> Word(f, entry),
                        offset |-> Word(f, entry + w), size |-> Word(f, entry + 4 * w)]
    IN  [i \in 1..count |-> Info(i)]

Sections(f, w) ==
    LET at == Word(f, 24 + 2 * w)
        stride == Word(f, 34 + 3 * w)
        count == HeaderCount(f, at, Word(f, 36 + 3 * w), stride, SectionSize(w))
        names == Word(f, 38 + 3 * w)
        Base(i) == at + (i - 1) * stride
        Offset(i) == Word(f, Base(i) + 8 + 2 * w)
        Size(i) == Word(f, Base(i) + 8 + 3 * w)
        NameAt(rel) == IF /\ names < count /\ Word(f, Base(names + 1) + 4) = StrTab
                          /\ rel < Size(names + 1)
                       THEN ElfString(f, Offset(names + 1) + rel, Size(names + 1) - rel)
                       ELSE NoString
        Info(i) == [index |-> i - 1, at |-> Base(i), name |-> TextOf(NameAt(Word(f, Base(i)))),
                    type |-> Word(f, Base(i) + 4), offset |-> Offset(i), size |-> Size(i),
                    link |-> Word(f, Base(i) + 8 + 4 * w),
                    entsize |-> Word(f, Base(i) + 16 + 5 * w)]
    IN  [i \in 1..count |-> Info(i)]

(* build_segment_payload_children *)
SegmentPayload(e, segment) ==
    CASE segment.type = Interp -> Interpreter(e, segment.offset, segment.size)
      [] segment.type = Dynamic ->
            DynamicEntries(e, segment.offset, segment.size, NamedSection(e, ".dynstr"))
      [] segment.type \in NoteSegments ->
            Notes(e, Name("Notes", "segment", <<segment.type>>, FALSE), segment.offset, segment.size)
      [] OTHER -> <<>>

(* build_section_payload_children: by name, then by type. *)
TypePayload(e, section) ==
    CASE section.type = StrTab -> When(section.size > 0 /\ section.offset < e.f.len,
                                       StringTable(e, section))
      [] section.type \in {SymTab, DynSym} -> SymbolTable(e, section)
      [] section.type \in {Rel, RelA} -> RelocationTable(e, section)
      [] section.type = SysvHash -> SysvHashTable(e, section)
      [] section.type = GnuHash -> GnuHashTable(e, section)
      [] section.type = VerNeed -> VersionNeeds(e, section)
      [] section.type = VerDef -> VersionDefinitions(e, section)
      [] section.type = VerSym -> VersionSymbols(e, section)
      [] OTHER -> <<>>

SectionPayload(e, section) ==
    LET linked == Linked(e, section, {StrTab})
        strings == IF linked # <<>> THEN linked ELSE NamedSection(e, ".dynstr")
    IN  When(section.name = ".interp", Interpreter(e, section.offset, section.size))
        \o When(section.type = DynamicSection \/ section.name = ".dynamic",
                DynamicEntries(e, section.offset, section.size, strings))
        \o When(section.type = NoteSection \/ section.name \in NoteSections,
                Notes(e, Name("Notes", section.name, <<section.type>>, FALSE),
                      section.offset, section.size))
        \o TypePayload(e, section)

(* The range of the data is there unless it begins after the end; its length *)
(* is the one the header gives.                                            *)
DataOf(e, kind, part) ==
    When(part.size > 0 /\ part.offset < e.f.len,
         <<RangeStruct(kind, <<part.index>>, part.offset, part.size)>>)

ProgramStruct(e, segment) ==
    Nest(Name("Program Header", "", <<segment.index, segment.type>>, FALSE), segment.at,
         ProgramFields(e.w),
         SegmentPayload(e, segment) \o DataOf(e, "Segment Data", segment))

SectionStruct(e, section) ==
    Nest(Name("Section", section.name, <<section.index, section.type>>, FALSE), section.at,
         SectionFields(e.w),
         SectionPayload(e, section)
         \o When(section.type # NoBits, DataOf(e, "Section Data", section)))

(* The marker tells of the entries the header counts, found or not, at a     *)
(* place computed from the size of an entry, not from the stride.           *)
HeaderTable(e, kind, at, total, headers, size, Struct(_)) ==
    LET shown == Least(Len(headers), e.cap)
    IN  When(headers # <<>>,
             <<Nest(Name(kind, "", <<total>>, FALSE), at, <<>>,
                    [i \in 1..shown |-> Struct(headers[i])]
                    \o When(shown < total,
                            <<Marker(Ellipsis, kind, shown, at + shown * size)>>))>>)

Elf(f, cap) ==
    LET w == IF Word(f, 4) = 2 THEN 8 ELSE 4
        e == Parser(f, w, cap, Sections(f, w))
    IN  IF f.len < 16 \/ Tag(f, 0) # "elf" \/ Word(f, 4) \notin {1, 2}
           \/ Word(f, 5) \notin {1, 2} \/ f.len < 40 + 3 * w THEN <<>>
        ELSE <<Nest(Name("ELF Header", "", <<w>>, FALSE), 0, ElfHeader(w),
                    HeaderTable(e, "Program Header Table", Word(f, 24 + w),
                                Word(f, 32 + 3 * w), Programs(f, w), ProgramSize(w),
                                LAMBDA s : ProgramStruct(e, s))
                    \o HeaderTable(e, "Section Header Table", Word(f, 24 + 2 * w),
                                   Word(f, 36 + 3 * w), e.sections, SectionSize(w),
                                   LAMBDA s : SectionStruct(e, s)))>>

===============================================================================
