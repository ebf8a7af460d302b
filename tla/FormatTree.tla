------------------------------ MODULE FormatTree ------------------------------
(***************************************************************************)
(* From a file to what the inspector lists: detection (format/detect.rs),   *)
(* the parsed tree and its rows (format/parse.rs).                         *)
(***************************************************************************)
EXTENDS MediaFormats, ArchiveFormats, CaptureFormats, DatabaseFormat,
        ExecutableFormats, ElfFormat

(* BUILTIN_FORMATS, in the order they are tried. *)
BuiltinFormats == <<"elf", "pe", "png", "zip", "sqlite", "pcapng", "pcap", "gzip",
                    "gif", "bmp", "wav", "jpeg", "tar", "macho">>

(* What the definition of that name finds, <<>> for None. *)
Detector(name, f, cap) ==
    CASE name = "elf" -> Elf(f, cap)
      [] name = "pe" -> Pe(f, cap)
      [] name = "png" -> Png(f, cap)
      [] name = "zip" -> ZipArchive(f, cap)
      [] name = "sqlite" -> Sqlite(f, cap)
      [] name = "pcapng" -> Pcapng(f, cap)
      [] name = "pcap" -> Pcap(f, cap)
      [] name = "gzip" -> Gzip(f, cap)
      [] name = "gif" -> Gif(f, cap)
      [] name = "bmp" -> Bmp(f, cap)
      [] name = "wav" -> Wav(f, cap)
      [] name = "jpeg" -> Jpeg(f, cap)
      [] name = "tar" -> Tar(f, cap)
      [] name = "macho" -> Mach(f, cap)

Auto == "auto"
None == "none"

(* detect_format_with_cap and detect_by_name_with_cap: the name of the       *)
(* definition that is used and what it finds.                              *)
Detected(f, override, cap) ==
    LET tried == IF override = Auto THEN BuiltinFormats ELSE <<override>>
        found == SelectSeq([i \in DOMAIN tried |->
                               [name |-> tried[i], structs |-> Detector(tried[i], f, cap)]],
                           LAMBDA d : d.structs # <<>>)
    IN  IF found = <<>> THEN [name |-> None, structs |-> <<>>] ELSE found[1]

-----------------------------------------------------------------------------
(* parse_field: a field that reaches beyond the end of the file is shorter   *)
(* than declared; a range keeps its length.  What it shows are the values    *)
(* that begin in it.                                                       *)
ParsedField(f, base, field) ==
    LET at == base + field.at
        size == IF field.range THEN field.size ELSE Least(field.size, AtLeastZero(f.len - at))
        Shown(values) == Restrict(values, {o \in DOMAIN values : o \in at..(at + field.size - 1)})
    IN  [at |-> at, size |-> size, declared |-> field.size,
         edit |-> field.edit, word |-> IF field.range THEN <<>> ELSE Shown(f.word),
         tag |-> IF field.range THEN <<>> ELSE Shown(f.tag)]

(* parse_struct *)
RECURSIVE ParsedStructs(_, _)
ParsedStructs(f, structs) ==
    [i \in DOMAIN structs |->
        [structs[i] EXCEPT
            !.fields = [k \in DOMAIN @ |-> ParsedField(f, structs[i].at, @[k])],
            !.children = ParsedStructs(f, @)]]

-----------------------------------------------------------------------------
(* Rows.  A path tells a structure from its siblings of the same name.       *)

HasContent(node) == node.fields # <<>> \/ node.children # <<>>

(* next_sibling_index *)
SiblingIndex(nodes, i) == Cardinality({j \in 1..(i - 1) : nodes[j].name = nodes[i].name})

PathOf(parent, nodes, i) == Append(parent, <<nodes[i].name, SiblingIndex(nodes, i)>>)

(* initial_collapsed_nodes: what lies at the depth or deeper. *)
RECURSIVE InitiallyClosed(_, _, _)
InitiallyClosed(nodes, parent, depth) ==
    UNION {LET path == PathOf(parent, nodes, i)
           IN  {p \in {path} : HasContent(nodes[i]) /\ Len(parent) >= depth}
               \cup InitiallyClosed(nodes[i].children, path, depth) : i \in DOMAIN nodes}

HeaderRow(path, full) ==
    [header |-> TRUE, path |-> path, full |-> full, at |-> 0, size |-> 0, edit |-> FALSE,
     index |-> 0]
FieldRow(field, index) ==
    [header |-> FALSE, path |-> <<>>, full |-> TRUE, at |-> field.at, size |-> field.size,
     edit |-> field.edit, index |-> index]

(* Mutant: only the fields of the closed structure itself are skipped. *)
SkippedFieldsOwn(node) == Len(node.fields)

(* count_skipped_fields *)
RECURSIVE SkippedFields(_)
SkippedFields(node) ==
    FoldLeft(LAMBDA n, child : n + SkippedFields(child), Len(node.fields), node.children)

(* flatten and walk: the rows so far and the index of the next field. *)
RECURSIVE Walked(_, _, _, _)
Walked(s, nodes, parent, closed) ==
    FoldLeft(LAMBDA t, i :
                LET node == nodes[i]
                    path == PathOf(parent, nodes, i)
                    rows == Append(t.rows, HeaderRow(path, HasContent(node)))
                IN  IF HasContent(node) /\ path \in closed
                    THEN [rows |-> rows, next |-> t.next + SkippedFields(node)]
                    ELSE Walked([rows |-> rows \o [k \in DOMAIN node.fields |->
                                             FieldRow(node.fields[k], t.next + k - 1)],
                                 next |-> t.next + Len(node.fields)],
                                node.children, path, closed),
             s, [i \in DOMAIN nodes |-> i])

Flatten(nodes, closed) == Walked([rows |-> <<>>, next |-> 0], nodes, <<>>, closed).rows

(* The fields in the order find_field_def walks them. *)
RECURSIVE FieldDefs(_)
FieldDefs(nodes) ==
    FlattenSeq([i \in DOMAIN nodes |-> nodes[i].fields \o FieldDefs(nodes[i].children)])

(* base_offset_for_path: where the structure of a path begins. *)
RECURSIVE BaseOffsets(_, _, _)
BaseOffsets(nodes, parent, target) ==
    FlattenSeq([i \in DOMAIN nodes |->
        LET path == PathOf(parent, nodes, i)
        IN  IF path = target THEN <<nodes[i].at>>
            ELSE BaseOffsets(nodes[i].children, path, target)])

(* has_pending_more_marker: a structure whose name begins with the word. *)
RECURSIVE HasMarker(_, _)
HasMarker(nodes, words) ==
    \E i \in DOMAIN nodes : \/ nodes[i].name.kind \in words
                            \/ HasMarker(nodes[i].children, words)

-----------------------------------------------------------------------------
(* What a cap may hide. *)

(* Every structure but a marker is one of the whole list, with its fields    *)
(* and with children that are so again.                                    *)
RECURSIVE PartOf(_, _)
PartOf(shown, whole) ==
    \A i \in DOMAIN shown :
        \/ shown[i].name.kind \in Markers
        \/ \E j \in DOMAIN whole :
               /\ whole[j].name = shown[i].name /\ whole[j].at = shown[i].at
               /\ whole[j].fields = shown[i].fields
               /\ PartOf(shown[i].children, whole[j].children)

(* The formats whose marker stands for all that the cap hides.  The others:  *)
(* PE and Mach-O have no marker, SQLite splits a page's pointers otherwise,  *)
(* JPEG hides an end of the image, ELF the versions of a library.           *)
Announcing == {"png", "zip", "pcapng", "pcap", "gzip", "gif", "bmp", "wav", "tar"}

(* An ELF table of relocations or versions that the file does not hold whole *)
(* is shown only as long as the cap hides what cannot be read.              *)
TablesWhole(f) ==
    LET sections == Sections(f, IF Word(f, 4) = 2 THEN 8 ELSE 4)
    IN  \A i \in DOMAIN sections :
            sections[i].type \in {Rel, RelA, VerSym, VerNeed, VerDef} =>
                sections[i].offset + sections[i].size <= f.len

(* A ZIP directory with an entry that cannot be read gives way to the local  *)
(* headers when the cap reaches that entry, and a local header that the file *)
(* does not hold leaves nothing of the format.                             *)
DirectoryWhole(f, cap) ==
    EndRecords(f) # {} => CentralDirectory(f, cap, Max(EndRecords(f))) # <<>>

Comparable(f, name, cap) ==
    /\ name \notin {None, "sqlite"}
    /\ name = "elf" => TablesWhole(f)
    /\ name = "zip" => DirectoryWhole(f, cap)

===============================================================================
