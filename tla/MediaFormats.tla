----------------------------- MODULE MediaFormats -----------------------------
(***************************************************************************)
(* PNG, WAV, GIF, JPEG and BMP (format/defs): what each definition finds in *)
(* a file, <<>> when the file is not of the format.                        *)
(***************************************************************************)
EXTENDS FormatFile

-----------------------------------------------------------------------------
(* PNG: chunks of length, type, data and checksum. *)

PngChunk(f, at) ==
    LET len == Word(f, at)
        type == Tag(f, at + 4)
        cut == at + 12 + len > f.len
    IN  Entry(<<Node(Name("Chunk", type, <<>>, cut), at,
                     <<Editable(0, 4), ReadOnly(4, 4)>>
                     \o When(type = "IHDR" /\ len >= 13 /\ ~cut,
                             Fields(8, <<4, 4, 1, 1, 1, 1, 1>>, TRUE))
                     \o When(~cut, <<ReadOnly(8 + len, 4)>>)
                     \o When(~cut, DataRangeOf(8, len)))>>,
              at + 12 + len, cut \/ type = "IEND")

Png(f, cap) ==
    LET chunks == EntryWalk(8, LAMBDA at : at + 12 <= f.len, cap,
                            LAMBDA at, n : PngChunk(f, at))
    IN  IF f.len < 8 \/ Tag(f, 0) # "png" THEN <<>>
        ELSE <<Node(Plain("PNG Signature"), 0, <<ReadOnly(0, 8)>>)>>
             \o chunks.out
             \o When(chunks.more, <<Marker(Ellipsis, "chunks", chunks.n, chunks.at)>>)

-----------------------------------------------------------------------------
(* WAV: chunks of an identifier, a size and an even number of bytes, up to  *)
(* the size the RIFF header declares, when the file is that long.          *)

BoundedRiffEnd(f) ==
    LET declared == 8 + Word(f, 4)
    IN  IF declared >= 12 /\ declared <= f.len THEN declared ELSE f.len

(* push_if_payload_fits *)
Fitting(fields, payload) ==
    SelectSeq(fields, LAMBDA x : x.at + x.size <= 8 + payload)

WavPayload(id, payload) ==
    CASE id = "fmt " -> Fitting(Fields(8, <<2, 2, 4, 4, 2, 2, 2>>, TRUE), payload)
                        \o DataRangeOf(26, AtLeastZero(payload - 18))
      [] id \in {"fact", "LIST"} -> Fitting(<<Editable(8, 4)>>, payload)
                                    \o DataRangeOf(12, AtLeastZero(payload - 4))
      [] OTHER -> DataRangeOf(8, payload)

(* The name quotes the audio format or the kind of list. *)
WavName(f, at, n, payload, cut) ==
    LET id == Tag(f, at)
    IN  Name("Chunk", IF id = "LIST" /\ payload >= 4 THEN Tag(f, at + 8) ELSE id,
             <<n>> \o When(id = "fmt " /\ payload >= 2, <<Word(f, at + 8)>>), cut)

WavChunk(f, at, n, end) ==
    LET size == Word(f, at + 4)
        payload == Least(size, AtLeastZero(Least(f.len, end) - (at + 8)))
        next == at + 8 + size + (size % 2)
        complete == next <= end /\ next <= f.len
    IN  Entry(<<Node(WavName(f, at, n, payload, ~complete), at,
                     Fields(0, <<4, 4>>, TRUE) \o WavPayload(Tag(f, at), payload)
                     \o When(size % 2 = 1 /\ complete, <<ReadOnly(8 + size, 1)>>))>>,
              IF complete THEN next ELSE Least(end, f.len), ~complete)

Wav(f, cap) ==
    LET end == BoundedRiffEnd(f)
        chunks == EntryWalk(12, LAMBDA at : at + 8 <= end /\ at < f.len, cap,
                            LAMBDA at, n : WavChunk(f, at, n, end))
    IN  IF f.len < 12 \/ Tag(f, 0) # "RIFF" \/ Tag(f, 8) # "WAVE" THEN <<>>
        ELSE <<Node(Plain("RIFF Header"), 0,
                    <<ReadOnly(0, 4), Editable(4, 4), Editable(8, 4)>>)>>
             \o chunks.out
             \o When(end < f.len, <<Node(Plain("Trailing Data"), end,
                                         <<DataRange(0, f.len - end)>>)>>)
             \o When(chunks.more, <<Marker(Ellipsis, "WAV", chunks.n, chunks.at)>>)

-----------------------------------------------------------------------------
(* GIF: images and extensions, both ending in a chain of sub-blocks. *)

GifVersions == {"87a", "89a"}
Trailer == 59
ImageSeparator == 44
ExtensionIntroducer == 33

(* scan_sub_blocks: up to the block of size 0, or to the end of the file. *)
SubBlocks(f, start) ==
    LET scan == Loop(LAMBDA s :
                        LET size == Word(f, s.at)
                        IN  IF s.at >= f.len THEN [s EXCEPT !.on = FALSE]
                            ELSE IF size = 0
                            THEN [on |-> FALSE, at |-> s.at + 1, done |-> TRUE]
                            ELSE IF s.at + 1 + size > f.len
                            THEN [s EXCEPT !.on = FALSE]
                            ELSE [s EXCEPT !.at = @ + 1 + size],
                     [on |-> TRUE, at |-> start, done |-> FALSE])
    IN  [len |-> IF scan.done THEN scan.at - start ELSE AtLeastZero(f.len - start),
         done |-> scan.done]

ColorTableLen(packed) == 3 * 2 ^ ((packed % 8) + 1)

GifBlock(f, name, at, fields, next, complete) ==
    Entry(<<Node([name EXCEPT !.cut = ~complete], at, fields)>>,
          IF complete THEN next ELSE f.len, ~complete)

(* The block ends with the sub-blocks that begin n bytes into it. *)
GifChain(f, name, at, fields, n) ==
    LET chain == SubBlocks(f, at + n)
    IN  GifBlock(f, name, at, fields \o <<DataRange(n, chain.len)>>,
                 at + n + chain.len, chain.done)

GifImage(f, at, n) ==
    LET packed == Word(f, at + 9)
        left == AtLeastZero(f.len - (at + 10))
        table == IF Bit(packed, 7) THEN ColorTableLen(packed) ELSE 0
        shown == Least(left, table)
        name == Name("Image", "", <<n>> \o [i \in 1..4 |-> Word(f, at + 2 * i - 1)],
                     FALSE)
        head == <<ReadOnly(0, 1)>> \o Fields(1, <<2, 2, 2, 2, 1>>, TRUE)
                \o When(Bit(packed, 7), <<DataRange(10, shown)>>)
    IN  IF ~Holds(f, at, 10)
        THEN GifBlock(f, Name("Image", "", <<n>>, TRUE), at, <<>>, f.len, FALSE)
        ELSE IF left < table \/ ~Holds(f, at + 10 + table, 1)
        THEN GifBlock(f, name, at, head, f.len, FALSE)
        ELSE GifChain(f, name, at, Append(head, Editable(10 + table, 1)), 11 + table)

GraphicControl(f, at, name) ==
    LET left == f.len - at
    IN  GifBlock(f, name, at,
                 <<ReadOnly(0, 1), Editable(1, 1)>>
                 \o SelectSeq(Fields(2, <<1, 1, 2, 1>>, TRUE) \o <<ReadOnly(7, 1)>>,
                              LAMBDA x : x.at + x.size <= left),
                 at + 8, left >= 8)

(* An extension with a fixed header of the size it gives. *)
SizedExtension(f, at, name, fields) ==
    LET size == Word(f, at + 2)
        head == <<ReadOnly(0, 1), Editable(1, 1), Editable(2, 1)>>
                \o SelectSeq(fields, LAMBDA x : x.at + x.size <= f.len - at)
    IN  IF ~Holds(f, at + 2, 1) THEN GifBlock(f, name, at, <<>>, f.len, FALSE)
        ELSE IF f.len - at < 3 + size THEN GifBlock(f, name, at, head, f.len, FALSE)
        ELSE GifChain(f, name, at, head, 3 + size)

(* A complete application extension is named after its identifier. *)
ApplicationName(f, at, name) ==
    LET size == Word(f, at + 2)
    IN  IF Holds(f, at, 3 + size) /\ Holds(f, at + 3, 8)
        THEN [name EXCEPT !.tag = Tag(f, at + 3)] ELSE name

Application(f, at, name) ==
    LET size == Word(f, at + 2)
    IN  SizedExtension(f, at, ApplicationName(f, at, name),
                       When(size >= 8, <<Editable(3, 8)>>)
                       \o When(size >= 11, <<Editable(11, 3)>>))

(* The fields of a plain text header are shown only if all of it is there. *)
PlainText(f, at, name) ==
    SizedExtension(f, at, name,
                   When(Word(f, at + 2) = 12 /\ f.len - at >= 15,
                        Fields(3, <<2, 2, 2, 2, 1, 1, 1, 1>>, TRUE)))

GifExtension(f, at, n) ==
    LET label == Word(f, at + 1)
        name == Name("Extension", "", <<n, label>>, FALSE)
    IN  IF ~Holds(f, at + 1, 1)
        THEN GifBlock(f, Name("Extension", "", <<n>>, TRUE), at, <<>>, f.len, FALSE)
        ELSE CASE label = 249 -> GraphicControl(f, at, name)
               [] label = 255 -> Application(f, at, name)
               [] label = 1 -> PlainText(f, at, name)
               [] OTHER -> GifChain(f, name, at, <<ReadOnly(0, 1), Editable(1, 1)>>, 2)

(* Images and extensions are numbered apart; neither the trailer nor an     *)
(* unknown byte counts as a block.                                         *)
GifStep(f, cap, s) ==
    LET start == Word(f, s.at)
        e == IF start = ImageSeparator THEN GifImage(f, s.at, s.images)
             ELSE GifExtension(f, s.at, s.extensions)
        stop == [s EXCEPT !.on = FALSE]
    IN  IF s.at >= f.len THEN stop
        ELSE IF s.images + s.extensions >= cap THEN [stop EXCEPT !.more = TRUE]
        ELSE IF start = Trailer
        THEN [stop EXCEPT !.out = Append(@, Node(Plain("Trailer"), s.at,
                                                 <<ReadOnly(0, 1)>>))]
        ELSE IF start \notin {ImageSeparator, ExtensionIntroducer}
        THEN [stop EXCEPT !.out = Append(@, Node(Name("Unknown block", "", <<start>>,
                                                      TRUE), s.at, <<>>))]
        ELSE [s EXCEPT !.on = ~e.last, !.at = e.next, !.out = @ \o e.found,
                       !.images = IF start = ImageSeparator THEN @ + 1 ELSE @,
                       !.extensions = IF start = ImageSeparator THEN @ ELSE @ + 1]

Gif(f, cap) ==
    LET packed == Word(f, 10)
        table == IF Bit(packed, 7) THEN ColorTableLen(packed) ELSE 0
        cut == f.len - 13 < table
        blocks == Loop(LAMBDA s : GifStep(f, cap, s),
                       [on |-> ~cut, at |-> 13 + table, images |-> 0, extensions |-> 0,
                        more |-> FALSE, out |-> <<>>])
    IN  IF f.len < 13 \/ Tag(f, 0) # "GIF" \/ Tag(f, 3) \notin GifVersions THEN <<>>
        ELSE <<Node(Plain("GIF Header"), 0, <<ReadOnly(0, 3), Editable(3, 3)>>),
               Node(Plain("Logical Screen Descriptor"), 6,
                    Fields(0, <<2, 2, 1, 1, 1>>, TRUE))>>
             \o When(Bit(packed, 7),
                     <<Node(Name("Global Color Table", "", <<table \div 3>>, cut), 13,
                            <<DataRange(0, Least(table, f.len - 13))>>)>>)
             \o blocks.out
             \o When(blocks.more, <<Marker(Ellipsis, "GIF",
                                           blocks.images + blocks.extensions,
                                           blocks.at)>>)

-----------------------------------------------------------------------------
(* JPEG: markers of two bytes, most with a segment, and a scan after each   *)
(* start of scan.                                                          *)

MarkerCode(f, at) == IF Word(f, at) = 255 THEN Word(f, at + 1) ELSE -1
EndOfImage == 217
StartOfScan == 218
Restarts == 208..215
Standalone == {1} \cup 208..217
FrameHeaders == (192..207) \ {196, 200, 204}
Applications == 224..239
App0 == 224
App1 == 225
RestartInterval == 221
JpegComment == 254

(* find_scan_end: the next marker that is neither stuffing nor a restart. *)
ScanEnd(f, start) ==
    LET ends == {at \in DOMAIN f.word : /\ at >= start /\ Holds(f, at, 2)
                                        /\ MarkerCode(f, at) >= 0
                                        /\ MarkerCode(f, at) \notin {0, 255} \cup Restarts}
    IN  IF ends = {} THEN f.len ELSE Min(ends)

SegmentFields(f, at, code, len) ==
    LET selectors == 2 * Word(f, at + 4)
    IN  CASE code = App0 -> When(len >= 5, <<Editable(4, 5)>>)
                            \o When(len >= 14 /\ Holds(f, at + 4, 5)
                                    /\ Tag(f, at + 4) = "JFIF",
                                    Fields(9, <<1, 1, 1, 2, 2>>, TRUE))
          [] code = App1 -> When(len >= 6, <<Editable(4, 6)>>)
          [] code \in FrameHeaders -> When(len >= 6, Fields(4, <<1, 2, 2, 1>>, TRUE))
          [] code = StartOfScan ->
                When(len >= 3, <<Editable(4, 1)>>)
                \o When(len >= 3 /\ Holds(f, at + 4, 1) /\ len >= selectors + 4,
                        Fields(5 + selectors, <<1, 1, 1>>, TRUE))
          [] code = RestartInterval -> When(len >= 2, <<Editable(4, 2)>>)
          [] code = JpegComment -> When(len > 0, <<Editable(4, len)>>)
          [] OTHER -> <<>>

(* The names of application and comment segments quote their first bytes. *)
SegmentTag(f, at, code) ==
    IF \/ code \in Applications /\ Holds(f, at + 4, 8)
       \/ code = JpegComment /\ Holds(f, at + 4, 24)
    THEN Tag(f, at + 4) ELSE ""

StandaloneMarker(n, code, at) ==
    Node(Name("Marker", "", <<n, code>>, FALSE), at, <<ReadOnly(0, 1), Editable(1, 1)>>)

MarkerSegment(f, at, n, code, len) ==
    LET cut == at + 4 + len > f.len
    IN  Node(Name("Marker", SegmentTag(f, at, code), <<n, code>>, cut), at,
             <<ReadOnly(0, 1), Editable(1, 1), Editable(2, 2)>>
             \o SegmentFields(f, at, code, len)
             \o When(~cut, DataRangeOf(4, len)))

(* The segment at s.at, and the scan that follows a start of scan. *)
JpegSegment(f, s, code) ==
    LET len == Word(f, s.at + 2) - 2
        end == s.at + 4 + len
        scan == IF code = StartOfScan THEN ScanEnd(f, end) ELSE end
    IN  IF ~Holds(f, s.at + 2, 2) \/ len < 0 THEN [s EXCEPT !.on = FALSE]
        ELSE [s EXCEPT !.on = end <= f.len, !.at = IF end <= f.len THEN scan ELSE @,
                       !.n = @ + 1,
                       !.scans = IF end < scan THEN @ + 1 ELSE @,
                       !.out = Append(@, MarkerSegment(f, s.at, s.n, code, len))
                               \o When(end < scan,
                                       <<Node(Name("Scan Data", "", <<s.scans>>, FALSE),
                                              end, <<DataRange(0, scan - end)>>)>>)]

(* The start of the image counts as marker 0; an end of the image that the  *)
(* cap hides is not announced.                                             *)
JpegStep(f, cap, s) ==
    LET code == MarkerCode(f, s.at)
        stop == [s EXCEPT !.on = FALSE]
    IN  IF ~Holds(f, s.at, 2) THEN stop
        ELSE IF s.n >= cap THEN [stop EXCEPT !.more = code >= 0 /\ code # EndOfImage]
        ELSE IF code \in {-1, 0, 255} THEN stop
        ELSE IF code \in Standalone
        THEN [s EXCEPT !.on = code # EndOfImage, !.at = @ + 2, !.n = @ + 1,
                       !.out = Append(@, StandaloneMarker(s.n, code, s.at))]
        ELSE JpegSegment(f, s, code)

Jpeg(f, cap) ==
    LET walk == Loop(LAMBDA s : JpegStep(f, cap, s),
                     [on |-> TRUE, at |-> 2, n |-> 1, scans |-> 0, more |-> FALSE,
                      out |-> <<StandaloneMarker(0, 216, 0)>>])
    IN  IF f.len < 4 \/ MarkerCode(f, 0) # 216 THEN <<>>
        ELSE walk.out \o When(walk.more, <<Marker(Ellipsis, "markers", walk.n, walk.at)>>)

-----------------------------------------------------------------------------
(* BMP: a file header, a header of one of several sizes, masks, a palette,  *)
(* pixels, and what follows the declared size.                             *)

DibSizes == {40, 52, 56, 108, 124}

(* The end points of a version 4 header are a range without a size of its   *)
(* own, which push_if_fits never adds.                                     *)
DibFields(size, present) ==
    SelectSeq(When(size = 12, Fields(4, <<2, 2, 2, 2>>, TRUE))
              \o When(size >= 40, Fields(4, <<4, 4, 2, 2, 4, 4, 4, 4, 4, 4>>, TRUE))
              \o When(size >= 52, Fields(40, <<4, 4, 4>>, TRUE))
              \o When(size >= 56, Fields(52, <<4>>, TRUE))
              \o When(size >= 108, Fields(56, <<4>>, TRUE) \o Fields(96, <<4, 4, 4>>, TRUE))
              \o When(size >= 124, Fields(108, <<4, 4, 4, 4>>, TRUE)),
              LAMBDA x : x.at + x.size <= present)

DibHeader(size, present) ==
    LET parsed == IF size = 12 THEN 12
                  ELSE Max({4} \cup {n \in DibSizes : n <= size})
    IN  Node(Name("DIB", "", When(size \in {12, 64} \cup DibSizes, <<size>>),
                  present < size), 14,
             <<Editable(0, 4)>> \o DibFields(size, present)
             \o DataRangeOf(parsed, AtLeastZero(present - parsed)))

(* Three or four masks follow a 40-byte header, as its compression says. *)
MaskCount(f, size) ==
    IF size # 40 THEN 0
    ELSE CASE Word(f, 30) = 3 -> 3 [] Word(f, 30) = 6 -> 4 [] OTHER -> 0

BitMasks(f, at, count) ==
    LET left == AtLeastZero(f.len - at)
        whole == Least(left, 4 * count) \div 4
        cut == left < 4 * count
    IN  When(count > 0,
             <<Node(Name("Bit Masks", "", <<>>, cut), at,
                    Fields(0, [i \in 1..whole |-> 4], TRUE)
                    \o When(cut, DataRangeOf(4 * whole, left - 4 * whole)))>>)

BoundedFileEnd(f, minimum) ==
    IF Word(f, 2) >= minimum /\ Word(f, 2) <= f.len THEN Word(f, 2) ELSE f.len

(* What lies behind the headers and masks, which end at palette. *)
BmpBody(f, palette, entry) ==
    LET pixels == Word(f, 10)
        end == BoundedFileEnd(f, palette)
        colors == AtLeastZero(Least(end, pixels) - palette)
    IN  When(colors > 0,
             <<Node(Name("Color Palette", "", <<colors \div entry>>, FALSE), palette,
                    <<DataRange(0, colors)>>)>>)
        \o When(pixels < end,
                <<Node(Name("Pixel Data", "", <<>>, Word(f, 2) > f.len), pixels,
                       <<DataRange(0, end - pixels)>>)>>)
        \o When(pixels >= end /\ pixels > f.len,
                <<Node(Plain("Pixel Data (offset beyond EOF)"), pixels, <<>>)>>)
        \o When(end < f.len,
                <<Node(Plain("Trailing Data"), end, <<DataRange(0, f.len - end)>>)>>)

Bmp(f, cap) ==
    LET size == Word(f, 14)
        masks == MaskCount(f, size)
        palette == 14 + size + 4 * masks
    IN  IF f.len < 18 \/ Tag(f, 0) # "BM" \/ size < 12 THEN <<>>
        ELSE <<Node(Plain("Bitmap File Header"), 0,
                    <<ReadOnly(0, 2)>> \o Fields(2, <<4, 2, 2, 4>>, TRUE)),
               DibHeader(size, Least(f.len - 14, size))>>
             \o When(f.len - 14 >= size, BitMasks(f, 14 + size, masks))
             \o When(f.len >= palette, BmpBody(f, palette, IF size = 12 THEN 3 ELSE 4))

===============================================================================
