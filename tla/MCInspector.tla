------------------------------ MODULE MCInspector ------------------------------
(* Files of every format: small ones to work on, and for each definition one  *)
(* with all it knows and one that is cut short.                             *)
EXTENDS Inspector, TLC

File(len, word, tag, text) == [len |-> len, word |-> word, tag |-> tag, text |-> text]
All(functions) == FoldLeft(LAMBDA a, b : a @@ b, <<>>, functions)
Cut(f, len) == [f EXCEPT !.len = len]

(* Nothing but opening it and raising the cap. *)
Look(f) == [file |-> f, acts |-> 0, caps |-> 4, typed |-> {}, fills |-> {}, offsets |-> {},
            forced |-> {}]

-----------------------------------------------------------------------------
Chunk(at, len, type) == [word |-> at :> len, tag |-> (at + 4) :> type]
PngFile ==
    LET chunks == <<Chunk(8, 13, "IHDR"), Chunk(33, 5, "IDAT"), Chunk(50, 5, "IDAT"),
                    Chunk(67, 0, "IEND")>>
    IN  File(79, All([i \in 1..4 |-> chunks[i].word]),
             All(<<0 :> "png">> \o [i \in 1..4 |-> chunks[i].tag]), <<>>)

WavFile == File(66, 4 :> 56 @@ 16 :> 20 @@ 20 :> 1 @@ 44 :> 4 @@ 56 :> 1,
                0 :> "RIFF" @@ 8 :> "WAVE" @@ 12 :> "fmt " @@ 40 :> "LIST" @@ 48 :> "INFO"
                @@ 52 :> "data", <<>>)

GifFile == File(90, 10 :> 128
                    @@ 19 :> 33 @@ 20 :> 249 @@ 21 :> 4
                    @@ 27 :> 33 @@ 28 :> 255 @@ 29 :> 11 @@ 41 :> 3
                    @@ 46 :> 33 @@ 47 :> 1 @@ 48 :> 12
                    @@ 62 :> 33 @@ 63 :> 254 @@ 64 :> 2
                    @@ 68 :> 44 @@ 73 :> 1 @@ 75 :> 1 @@ 77 :> 128 @@ 84 :> 2 @@ 85 :> 1
                    @@ 88 :> 59,
                0 :> "GIF" @@ 3 :> "89a" @@ 30 :> "NETSCAPE", <<>>)

JpegFile == File(80, 0 :> 255 @@ 1 :> 216
                     @@ 2 :> 255 @@ 3 :> 224 @@ 4 :> 16
                     @@ 20 :> 255 @@ 21 :> 192 @@ 22 :> 8
                     @@ 30 :> 255 @@ 31 :> 254 @@ 32 :> 4
                     @@ 36 :> 255 @@ 37 :> 221 @@ 38 :> 4
                     @@ 42 :> 255 @@ 43 :> 218 @@ 44 :> 8 @@ 46 :> 1
                     @@ 54 :> 255 @@ 55 :> 0 @@ 58 :> 255 @@ 59 :> 208
                     @@ 78 :> 255 @@ 79 :> 217,
                 6 :> "JFIF", <<>>)

BmpFile == File(90, 2 :> 84 @@ 10 :> 74 @@ 14 :> 40 @@ 30 :> 3, 0 :> "BM", <<>>)
BmpV5 == File(150, 2 :> 150 @@ 10 :> 138 @@ 14 :> 124, 0 :> "BM", <<>>)
BmpCore == File(40, 2 :> 40 @@ 10 :> 32 @@ 14 :> 12, 0 :> "BM", <<>>)
BmpOdd == File(60, 2 :> 99 @@ 10 :> 70 @@ 14 :> 40 @@ 30 :> 6, 0 :> "BM", <<>>)

-----------------------------------------------------------------------------
GzipFile == File(50, 2 :> 8 @@ 3 :> 30 @@ 10 :> 2, 0 :> "gzip", 14 :> 4 @@ 18 :> 3)

TarFile == File(2560, 124 :> 100 @@ 148 :> 148 @@ 156 :> 48
                      @@ 1148 :> 0 @@ 1172 :> 53 @@ 1180 :> 53
                      @@ 1660 :> 700 @@ 1692 :> 48,
                0 :> "a" @@ 257 :> "ustar" @@ 1024 :> "b" @@ 1281 :> "ustar"
                @@ 1536 :> "c" @@ 1793 :> "ustar", <<>>)

(* Three entries, the second with sizes in its extra field and a descriptor. *)
ZipLocal(at, flags, size, name, extra) ==
    [word |-> (at + 6) :> flags @@ (at + 18) :> size @@ (at + 26) :> 1 @@ (at + 28) :> extra,
     tag |-> at :> LocalMagic @@ (at + 30) :> name]
ZipCentral(at, size, local, name, extra) ==
    [word |-> (at + 20) :> size @@ (at + 24) :> size @@ (at + 28) :> 1 @@ (at + 30) :> extra
              @@ (at + 42) :> local,
     tag |-> at :> CentralMagic @@ (at + 46) :> name]
ZipEntries ==
    <<ZipLocal(0, 0, 3, "a", 0), ZipLocal(34, 8, MaxU32, "b", 20), ZipLocal(112, 8, 2, "c", 0),
      ZipCentral(161, 3, 0, "a", 0), ZipCentral(208, MaxU32, 34, "b", 20),
      ZipCentral(275, 2, 112, "c", 0)>>
ZipFile ==
    File(344, All([i \in 1..6 |-> ZipEntries[i].word]
                  \o <<65 :> 1 @@ 67 :> 16 @@ 77 :> 3, 255 :> 1 @@ 257 :> 16 @@ 267 :> 3,
                       332 :> 3 @@ 338 :> 161>>),
         All([i \in 1..6 |-> ZipEntries[i].tag]
             \o <<88 :> DescriptorMagic, 145 :> DescriptorMagic, 322 :> EndMagic>>), <<>>)

(* One entry behind a ZIP64 end record. *)
Zip64File ==
    LET local == ZipLocal(0, 0, 3, "a", 0)
        central == ZipCentral(34, 3, 0, "a", 0)
    IN  File(179, All(<<local.word, central.word,
                        85 :> 48 @@ 113 :> 1 @@ 129 :> 34, 145 :> 81,
                        167 :> MaxU16 @@ 173 :> MaxU32>>),
             All(<<local.tag, central.tag, 81 :> Zip64EndMagic, 137 :> Zip64LocatorMagic,
                   157 :> EndMagic>>), <<>>)

-----------------------------------------------------------------------------
PcapFile == File(100, 32 :> 4 @@ 52 :> 0 @@ 68 :> 50, 0 :> "pcap us le", <<>>)

PcapngFile ==
    File(160, 4 :> 28 @@ 28 :> 1 @@ 32 :> 20 @@ 48 :> 6 @@ 52 :> 40 @@ 68 :> 5
              @@ 88 :> 3 @@ 92 :> 20 @@ 108 :> 9 @@ 112 :> 16
              @@ 124 :> 7 @@ 128 :> 14,
         0 :> SectionHeader @@ 8 :> "little", <<>>)

SqliteFile == File(2048, 16 :> 512 @@ 100 :> 13 @@ 103 :> 3 @@ 105 :> 400
                         @@ 512 :> 5 @@ 515 :> 1 @@ 517 :> 500 @@ 1536 :> 10 @@ 1539 :> 300,
                   0 :> "sqlite", <<>>)

-----------------------------------------------------------------------------
PeFile == File(400, 60 :> 64 @@ 70 :> 3 @@ 84 :> 80 @@ 88 :> Pe32Plus
                    @@ 184 :> 16 @@ 188 :> 300, 0 :> "MZ" @@ 64 :> "PE" @@ 168 :> ".text",
               <<>>)

MachFile == File(400, 16 :> 4 @@ 20 :> 296 @@ 36 :> 232 @@ 72 :> 8 @@ 80 :> 24 @@ 96 :> 2
                      @@ 144 :> 16 @@ 152 :> 360
                      @@ 268 :> 24 @@ 292 :> 24 @@ 316 :> 8,
                 0 :> "macho 64 le" @@ 32 :> "segment 64" @@ 264 :> "main" @@ 288 :> "uuid"
                 @@ 104 :> "__text", <<>>)

FatFile == File(48, 4 :> 2 @@ 16 :> 8 @@ 36 :> 9, 0 :> "fat be" @@ 8 :> "x86" @@ 28 :> "arm",
                <<>>)

-----------------------------------------------------------------------------
(* An ELF file from its headers: a program header is <<type, offset, size>>, *)
(* a section header <<name, type, offset, size, link>>, the names in section *)
(* 1; what they point to is given apart.                                   *)
Small(w) == IF w = 8 THEN 64 ELSE 52
ElfHead(w, programs, sections) ==
    LET first == Small(w)
        table == first + Len(programs) * ProgramSize(w)
        Program(i) == LET at == first + (i - 1) * ProgramSize(w)
                      IN  at :> programs[i][1] @@ (at + w) :> programs[i][2]
                          @@ (at + 4 * w) :> programs[i][3]
        Section(i) == LET at == table + (i - 1) * SectionSize(w)
                      IN  at :> sections[i][1] @@ (at + 4) :> sections[i][2]
                          @@ (at + 8 + 2 * w) :> sections[i][3]
                          @@ (at + 8 + 3 * w) :> sections[i][4]
                          @@ (at + 8 + 4 * w) :> sections[i][5]
    IN  All(<<4 :> (IF w = 8 THEN 2 ELSE 1) @@ 5 :> 1 @@ 18 :> 62
              @@ (24 + w) :> first @@ (24 + 2 * w) :> table
              @@ (30 + 3 * w) :> ProgramSize(w) @@ (32 + 3 * w) :> Len(programs)
              @@ (34 + 3 * w) :> SectionSize(w) @@ (36 + 3 * w) :> Len(sections)
              @@ (38 + 3 * w) :> 1>>
            \o [i \in 1..Len(programs) |-> Program(i)]
            \o [i \in 1..Len(sections) |-> Section(i)])

(* From 1100 on: strings "", "a", ".dynamic", then the tables. *)
ElfTables ==
    <<<<0, 0, 0, 0, 0>>, <<1, StrTab, 1100, 12, 0>>, <<0, SymTab, 1120, 72, 1>>,
      <<0, RelA, 1200, 72, 2>>, <<3, DynamicSection, 1280, 48, 1>>, <<0, NoteSection, 1340, 40, 0>>,
      <<0, SysvHash, 1400, 24, 2>>, <<0, GnuHash, 1430, 40, 2>>, <<0, VerSym, 1480, 6, 2>>,
      <<0, VerNeed, 1490, 48, 1>>, <<0, VerDef, 1540, 28, 1>>, <<0, NoBits, 1600, 64, 0>>>>
Elf64File ==
    File(1600,
         ElfHead(8, <<<<Interp, 1101, 2>>, <<Dynamic, 1280, 48>>, <<4, 1340, 40>>>>, ElfTables)
         @@ 1120 :> 1 @@ 1144 :> 1 @@ 1212 :> 1 @@ 1280 :> 1 @@ 1288 :> 1 @@ 1296 :> 5
         @@ 1340 :> 4 @@ 1344 :> 12 @@ 1348 :> GnuProperty @@ 1356 :> 2 @@ 1360 :> 4
         @@ 1400 :> 2 @@ 1404 :> 2 @@ 1430 :> 1 @@ 1438 :> 1
         @@ 1480 :> 1 @@ 1482 :> 2 @@ 1484 :> 2
         @@ 1492 :> 2 @@ 1494 :> 1 @@ 1498 :> 16 @@ 1514 :> 1 @@ 1518 :> 16
         @@ 1544 :> 2 @@ 1552 :> 20 @@ 1560 :> 1,
         0 :> "elf" @@ 1100 :> "" @@ 1101 :> "a" @@ 1103 :> ".dynamic" @@ 1352 :> "GNU",
         1100 :> 1 @@ 1101 :> 2 @@ 1103 :> 9 @@ 1352 :> 4)
Elf32File ==
    File(400, ElfHead(4, <<<<1, 300, 64>>, <<4, 340, 12>>, <<1, 0, 52>>>>,
                      <<<<0, 0, 0, 0, 0>>, <<0, StrTab, 330, 2, 0>>,
                        <<0, DynSym, 340, 32, 1>>, <<0, Rel, 372, 8, 2>>>>) @@ 376 :> 257,
         0 :> "elf", 330 :> 1)

-----------------------------------------------------------------------------
(* Files to work on: fields that decide what is parsed, structures one below  *)
(* the other, entries that come in front of others with a larger cap.        *)
Work(f, depth, typed, fills, offsets, forced) ==
    [file |-> f, acts |-> depth, caps |-> 2, typed |-> typed, fills |-> fills,
     offsets |-> offsets, forced |-> forced]

MCProfiles ==
    {Work(FatFile, 5, {0, 1}, {<<0, 4>>, <<28, 4>>}, {0, 28}, {"png", "macho"}),
     Work(Cut(PngFile, 60), 4, {0, 7}, {<<0, 8>>}, {0, 12}, {}),
     Work(Cut(GzipFile, 30), 4, {0}, {}, {14}, {}),
     Work(Elf32File, 2, {0}, {}, {}, {}), Work(ZipFile, 2, {0}, {}, {}, {})}
    \cup {Look(f) : f \in
            {PngFile, Cut(PngFile, 70), WavFile, Cut(WavFile, 50), GifFile, Cut(GifFile, 80),
             Cut(GifFile, 66), JpegFile, Cut(JpegFile, 33), BmpFile, BmpV5, BmpCore, BmpOdd,
             GzipFile, Cut(GzipFile, 15), TarFile, ZipFile, Cut(ZipFile, 340), Cut(ZipFile, 40), Zip64File,
             Cut(TarFile, 2000), PcapFile, Cut(PcapFile, 60), PcapngFile, Cut(PcapngFile, 100),
             SqliteFile, Cut(SqliteFile, 1540), PeFile, MachFile, Elf64File, Elf32File,
             Cut(Elf64File, 700), Cut(Elf64File, 1230)}}
===============================================================================
