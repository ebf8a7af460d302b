---------------------------- MODULE ArchiveFormats ----------------------------
(***************************************************************************)
(* GZIP, TAR and ZIP (format/defs): what each definition finds in a file,   *)
(* <<>> when the file is not of the format.                                *)
(***************************************************************************)
EXTENDS FormatFile

-----------------------------------------------------------------------------
(* GZIP: a header whose flags say which optional parts follow, in order,    *)
(* the compressed data and a trailer of eight bytes.  It ignores the cap.   *)

(* One optional part: the fields it adds, the offset after it, and whether  *)
(* the file is too short for it. *)
GzipPart(flag, fields, next, cut) ==
    [flag |-> flag, fields |-> fields, next |-> next, cut |-> cut]

(* c_string_field: the NUL belongs to the field. *)
CString(f, flag, at) ==
    LET len == TextLen(f, at)
    IN  GzipPart(flag, When(len > 0, <<Editable(at, len)>>), at + len, len = 0)

GzipExtra(f, at) ==
    LET len == Word(f, at)
        cut == at + 2 + len > f.len
    IN  IF ~Holds(f, at, 2) THEN GzipPart(2, <<>>, at, TRUE)
        ELSE GzipPart(2, <<Editable(at, 2)>> \o When(~cut, DataRangeOf(at + 2, len)),
                      at + 2 + len, cut)

GzipChecksum(f, at) ==
    LET cut == ~Holds(f, at, 2)
    IN  GzipPart(1, When(~cut, <<Editable(at, 2)>>), at + 2, cut)

GzipHeader(f) ==
    FoldLeft(LAMBDA h, k :
                LET part == CASE k = 1 -> GzipExtra(f, h.next)
                              [] k = 2 -> CString(f, 3, h.next)
                              [] k = 3 -> CString(f, 4, h.next)
                              [] k = 4 -> GzipChecksum(f, h.next)
                IN  IF h.cut \/ ~Bit(Word(f, 3), part.flag) THEN h
                    ELSE [part EXCEPT !.fields = h.fields \o @],
             GzipPart(0, <<ReadOnly(0, 2)>> \o Fields(2, <<1, 1, 4, 1, 1>>, TRUE), 10, FALSE),
             <<1, 2, 3, 4>>)

Gzip(f, cap) ==
    LET header == GzipHeader(f)
        left == AtLeastZero(f.len - header.next)
    IN  IF f.len < 10 \/ Tag(f, 0) # "gzip" \/ Word(f, 2) # 8 THEN <<>>
        ELSE <<Node(Name("Gzip Header", "", <<>>, header.cut), 0, header.fields)>>
             \o (IF header.cut THEN <<>>
                 ELSE IF left < 8
                 THEN <<Node(Name("Gzip Trailer", "", <<>>, TRUE), header.next, <<>>)>>
                 ELSE When(left > 8, <<Node(Plain("Compressed Data"), header.next,
                                            <<DataRange(0, left - 8)>>)>>)
                      \o <<Node(Plain("Gzip Trailer"), f.len - 8,
                                Fields(0, <<4, 4>>, TRUE))>>)

-----------------------------------------------------------------------------
(* TAR: entries of a header block and the blocks of their data.  The number *)
(* of a text field is the one its octal digits give.                       *)

Block == 512
TarSizes == <<100, 8, 8, 8, 12, 12, 8, 1, 100, 6, 2, 32, 32, 8, 8, 155>>

TarHeader(f, at) == Holds(f, at, Block) /\ Tag(f, at + 257) = "ustar"

(* compute_checksum: the sum of the header without its checksum, here of    *)
(* the numbers that stand in it.                                           *)
TarChecksum(f, at) ==
    MapThenSumSet(LAMBDA o : f.word[o],
                  {o \in DOMAIN f.word : o \in at..(at + 511) /\ o # at + 148})

(* typeflag_has_data: neither a link nor a device, a directory or a FIFO. *)
TarHasData(flag) == flag \notin 49..54

TarEntry(f, at, n) ==
    LET size == Word(f, at + 124)
        flag == Word(f, at + 156)
        sound == Word(f, at + 148) = TarChecksum(f, at)
        cut == at + Block + size > f.len
    IN  Entry(<<Node(Name(IF sound THEN "Entry" ELSE "Entry [checksum mismatch]",
                          Tag(f, at), <<n, flag>>, cut), at,
                     Fields(0, TarSizes, TRUE)
                     \o When(~cut /\ TarHasData(flag), DataRangeOf(Block, size)))>>,
              at + Block + RoundUp(size, Block), cut)

(* Mutant: an archive that the cap cut short has no marker. *)
TarSilent(f, cap) ==
    EntryWalk(0, LAMBDA at : TarHeader(f, at), Greatest(cap, 1),
              LAMBDA at, n : TarEntry(f, at, n)).out

Tar(f, cap) ==
    LET entries == EntryWalk(0, LAMBDA at : TarHeader(f, at), Greatest(cap, 1),
                             LAMBDA at, n : TarEntry(f, at, n))
    IN  entries.out
        \o When(entries.more, <<Marker(Ellipsis, "entries", entries.n, entries.at)>>)

-----------------------------------------------------------------------------
(* ZIP: local headers and data from the front, the central directory that   *)
(* an end record at the end of the file points to.                         *)

LocalMagic == "PK 3 4"
CentralMagic == "PK 1 2"
DescriptorMagic == "PK 7 8"
EndMagic == "PK 5 6"
Zip64EndMagic == "PK 6 6"
Zip64LocatorMagic == "PK 6 7"
MaxU16 == 65535
MaxU32 == 10 ^ 9            \* stands for 2^32 - 1: more than a file of a run holds

(* find_eocd: the last record whose comment ends exactly with the file. *)
EndRecords(f) ==
    {at \in DOMAIN f.tag : /\ Tag(f, at) = EndMagic
                           /\ at >= f.len - 22 - MaxU16
                           /\ at + 22 + Word(f, at + 20) = f.len}

(* parse_zip64_eocd: the record the locator in front of the end points to. *)
Zip64Ends(f, end) ==
    {at \in {Word(f, end - 12)} : /\ end >= 20 /\ Tag(f, end - 20) = Zip64LocatorMagic
                                  /\ Holds(f, at, 56) /\ Tag(f, at) = Zip64EndMagic}

(* parse_zip64_extra_layout: the first ZIP64 record among the extra fields, *)
(* its data from first to end. *)
Zip64Extra(f, start, len) ==
    LET end == start + len
        walk == Loop(LAMBDA s :
                        LET after == s.first + 4 + Word(f, s.first + 2)
                        IN  IF s.first + 4 > end \/ after > end
                            THEN [s EXCEPT !.on = FALSE, !.end = s.first]
                            ELSE IF Word(f, s.first) = 1
                            THEN [on |-> FALSE, first |-> s.first + 4, end |-> after]
                            ELSE [s EXCEPT !.first = after],
                     [on |-> TRUE, first |-> start, end |-> start])
    IN  walk

(* zip64_layout_from_data_start: where the sizes, the offset and the disk    *)
(* that did not fit the header stand, 0 for one that is not there.          *)
Zip64Sizes == <<8, 8, 8, 4>>

Zip64Layout(extra, needed) ==
    FoldLeft(LAMBDA s, i :
                IF needed[i] /\ s.at + Zip64Sizes[i] <= extra.end
                THEN [at |-> s.at + Zip64Sizes[i], found |-> Append(s.found, s.at)]
                ELSE [s EXCEPT !.found = Append(@, 0)],
             [at |-> extra.first, found |-> <<>>], <<1, 2, 3, 4>>).found

(* add_zip64_extra_fields *)
Zip64Fields(base, layout) ==
    SelectSeq([i \in 1..4 |-> ReadOnly(layout[i] - base, Zip64Sizes[i])],
              LAMBDA x : x.at > 0)

(* The value of a header, or of the extra field that replaces it. *)
Wide(f, at, extra) == IF extra = 0 THEN Word(f, at) ELSE Word(f, extra)

ShownName(f, at, len) == IF len \in 1..256 THEN Tag(f, at) ELSE ""
NameField(at, len, edit) == When(len \in 1..256, <<Field(at, len, edit)>>)

CentralEntry(f, at, n) ==
    LET name == Word(f, at + 28)
        extra == Word(f, at + 30)
        layout == Zip64Layout(Zip64Extra(f, at + 46 + name, extra),
                              <<Word(f, at + 24) = MaxU32, Word(f, at + 20) = MaxU32,
                                Word(f, at + 42) = MaxU32, Word(f, at + 34) = MaxU16>>)
        next == at + 46 + name + extra + Word(f, at + 32)
    IN  [at |-> at, n |-> n, next |-> next, layout |-> layout,
         found |-> Holds(f, at, 46) /\ Tag(f, at) = CentralMagic /\ next <= f.len,
         name |-> ShownName(f, at + 46, name),
         size |-> Wide(f, at + 20, layout[2]), local |-> Wide(f, at + 42, layout[3]),
         zip64 |-> \/ MaxU32 \in {Word(f, at + 20), Word(f, at + 24)}
                   \/ Wide(f, at + 20, layout[2]) > MaxU32
                   \/ Wide(f, at + 24, layout[1]) > MaxU32]

CentralStruct(f, e) ==
    LET name == Word(f, e.at + 28)
        extra == Word(f, e.at + 30)
        comment == Word(f, e.at + 32)
    IN  Node(Name("Central Directory Entry", e.name, <<e.n>>, FALSE), e.at,
             <<ReadOnly(0, 4), ReadOnly(4, 2)>> \o Fields(6, <<2, 2, 2>>, TRUE)
             \o <<Editable(12, 4)>> \o Fields(12, <<2, 2>>, TRUE) \o <<ReadOnly(16, 4)>>
             \o Fields(20, <<4, 4, 2, 2, 2>>, TRUE) \o <<ReadOnly(34, 2)>>
             \o Fields(36, <<2, 4>>, TRUE) \o <<ReadOnly(42, 4)>>
             \o NameField(46, name, FALSE) \o DataRangeOf(46 + name, extra)
             \o When(comment > 0, <<ReadOnly(46 + name + extra, comment)>>)
             \o Zip64Fields(e.at, e.layout))

(* A local header whose name and extra fields lie in the file. *)
LocalHeader(f, at) ==
    LET name == Word(f, at + 26)
        extra == Word(f, at + 28)
        fields == <<ReadOnly(0, 4)>> \o Fields(4, <<2, 2, 2>>, TRUE)
                  \o <<Editable(10, 4)>> \o Fields(10, <<2, 2>>, TRUE)
                  \o <<ReadOnly(14, 4)>> \o Fields(18, <<4, 4, 2, 2>>, TRUE)
                  \o NameField(30, name, FALSE) \o DataRangeOf(30 + name, extra)
    IN  [found |-> Holds(f, at, 30) /\ at + 30 + name + extra <= f.len,
         magic |-> Tag(f, at) = LocalMagic, fields |-> fields,
         data |-> at + 30 + name + extra, name |-> ShownName(f, at + 30, name),
         size |-> Word(f, at + 18), descriptor |-> Bit(Word(f, at + 6), 3),
         layout |-> Zip64Layout(Zip64Extra(f, at + 30 + name, extra),
                                <<Word(f, at + 22) = MaxU32, Word(f, at + 18) = MaxU32,
                                  FALSE, FALSE>>)]

(* What follows the data of an entry: a signature if there is one, a         *)
(* checksum and two sizes.                                                 *)
DataDescriptor(f, e, at) ==
    LET body == IF Tag(f, at) = DescriptorMagic THEN 4 ELSE 0
        width == IF e.zip64 THEN 8 ELSE 4
    IN  When(Holds(f, at, body + 4 + 2 * width),
             <<Node(Name(IF body = 4 THEN "Data Descriptor"
                         ELSE "Data Descriptor [no signature]", e.name, <<>>, FALSE), at,
                    When(body = 4, <<ReadOnly(0, 4)>>)
                    \o Fields(body, <<4, width, width>>, FALSE))>>)

LocalStructs(f, e) ==
    LET header == LocalHeader(f, e.local)
        cut == header.data + e.size > f.len
        kind == IF header.descriptor THEN "Local File [data descriptor]" ELSE "Local File"
    IN  IF ~header.found \/ ~header.magic THEN <<>>
        ELSE <<Node(Name(kind, IF header.name = "" THEN e.name ELSE header.name,
                         <<e.n>> \o When(e.zip64, <<64>>), cut), e.local,
                    header.fields \o Zip64Fields(e.local, header.layout)
                    \o When(~cut, DataRangeOf(header.data - e.local, e.size)))>>
             \o When(header.descriptor /\ ~cut,
                     DataDescriptor(f, e, header.data + e.size))

(* detect_from_central_directory: <<>> when an entry cannot be read. *)
CentralEntries(f, first, wanted) ==
    Loop(LAMBDA s :
            LET e == CentralEntry(f, s.at, s.n)
            IN  IF s.n = wanted THEN [s EXCEPT !.on = FALSE]
                ELSE IF ~e.found THEN [s EXCEPT !.on = FALSE, !.read = FALSE]
                ELSE [s EXCEPT !.at = e.next, !.n = @ + 1, !.out = Append(@, e)],
         [on |-> TRUE, read |-> TRUE, at |-> first, n |-> 0, out |-> <<>>])

EndStructs(f, end, zip64) ==
    LET comment == Word(f, end + 20)
    IN  FlattenSeq([i \in 1..Cardinality(zip64) |->
            LET at == Max(zip64)
            IN  <<Node(Plain("ZIP64 End Of Central Directory"), at,
                       Fields(0, <<4, 8, 2, 2, 4, 4, 8, 8, 8, 8>>, FALSE)
                       \o DataRangeOf(56, AtLeastZero(Word(f, at + 4) - 44))),
                  Node(Plain("ZIP64 End Of Central Directory Locator"), end - 20,
                       Fields(0, <<4, 4, 8, 4>>, FALSE))>>])
        \o <<Node(Plain("End Of Central Directory"), end,
                  Fields(0, <<4, 2, 2, 2, 2, 4, 4, 2>>, FALSE)
                  \o When(comment > 0, <<ReadOnly(22, comment)>>))>>

CentralDirectory(f, cap, end) ==
    LET zip64 == Zip64Ends(f, end)
        total == IF zip64 = {} THEN Word(f, end + 10) ELSE Word(f, Max(zip64) + 32)
        first == IF zip64 = {} THEN Word(f, end + 16) ELSE Word(f, Max(zip64) + 48)
        entries == CentralEntries(f, first, Least(total, Greatest(cap, 1)))
        more == \/ total > entries.n
                \/ Holds(f, entries.at, 4) /\ Tag(f, entries.at) = CentralMagic
    IN  IF ~entries.read THEN <<>>
        ELSE FlattenSeq([i \in 1..entries.n |-> LocalStructs(f, entries.out[i])])
             \o [i \in 1..entries.n |-> CentralStruct(f, entries.out[i])]
             \o When(more, <<Marker(Ellipsis, "ZIP entries", entries.n, entries.at)>>)
             \o EndStructs(f, end, zip64)

(* detect_local_headers_fallback: without an end record the local headers    *)
(* are walked; a data descriptor ends the walk, as the size of the data is   *)
(* not known; a header that is not complete ends it with nothing found.      *)
FallbackStep(f, cap, s) ==
    LET header == LocalHeader(f, s.at)
        kind == IF header.descriptor THEN "Local File [data descriptor; partial scan]"
                ELSE "Local File"
        stop == [s EXCEPT !.on = FALSE]
    IN  IF ~Holds(f, s.at, 30) THEN stop
        ELSE IF s.n >= Greatest(cap, 1) THEN [stop EXCEPT !.more = header.magic]
        ELSE IF ~header.found THEN [stop EXCEPT !.out = <<>>]
        ELSE IF ~header.magic THEN stop
        ELSE [s EXCEPT
                !.on = ~header.descriptor, !.n = @ + 1, !.at = header.data + header.size,
                !.out = Append(@, Node(
                    Name(kind, header.name, When(header.name = "", <<s.n>>), FALSE), s.at,
                    header.fields
                    \o When(~header.descriptor,
                            DataRangeOf(header.data - s.at, header.size))))]

LocalHeaders(f, cap) ==
    LET walk == Loop(LAMBDA s : FallbackStep(f, cap, s),
                     [on |-> TRUE, at |-> 0, n |-> 0, more |-> FALSE, out |-> <<>>])
    IN  walk.out \o When(walk.more, <<Marker(Ellipsis, "entries", walk.n, walk.at)>>)

ZipArchive(f, cap) ==
    LET ends == EndRecords(f)
        central == IF ends = {} THEN <<>> ELSE CentralDirectory(f, cap, Max(ends))
    IN  IF f.len < 4 \/ Tag(f, 0) \notin {LocalMagic, EndMagic} THEN <<>>
        ELSE IF central # <<>> THEN central
        ELSE When(Tag(f, 0) = LocalMagic, LocalHeaders(f, cap))

===============================================================================
