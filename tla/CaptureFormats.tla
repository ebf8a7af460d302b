---------------------------- MODULE CaptureFormats ----------------------------
(***************************************************************************)
(* PCAP and PCAPNG (format/defs): what each definition finds in a file,     *)
(* <<>> when the file is not of the format.  Their marker begins with       *)
(* another word than the one the other formats use.                        *)
(***************************************************************************)
EXTENDS FormatFile

-----------------------------------------------------------------------------
(* PCAP: a header whose magic gives byte order and precision, and packets.  *)

PcapMagics == {"pcap us le", "pcap us be", "pcap ns le", "pcap ns be"}

Packet(f, at, n) ==
    LET len == Word(f, at + 8)
        cut == at + 16 + len > f.len
    IN  Entry(<<Node(Name("Packet", "", <<n>>, cut), at,
                     <<Editable(0, 8)>> \o Fields(0, <<4, 4, 4, 4>>, TRUE)
                     \o DataRangeOf(16, Least(len, f.len - (at + 16))))>>,
              IF cut THEN f.len ELSE at + 16 + len, cut)

Pcap(f, cap) ==
    LET packets == EntryWalk(24, LAMBDA at : at + 16 <= f.len, Greatest(cap, 1),
                             LAMBDA at, n : Packet(f, at, n))
    IN  IF f.len < 24 \/ Tag(f, 0) \notin PcapMagics THEN <<>>
        ELSE <<Node(Name("PCAP Global Header", Tag(f, 0), <<>>, FALSE), 0,
                    <<ReadOnly(0, 4)>> \o Fields(4, <<2, 2, 4, 4, 4, 4>>, TRUE))>>
             \o packets.out
             \o When(packets.more, <<Marker(ThreeDots, "PCAP", packets.n, packets.at)>>)

-----------------------------------------------------------------------------
(* PCAPNG: blocks of a type, a length, a body and the length again.  A       *)
(* number is read in the byte order its section header gives.               *)

SectionHeader == "section"
ByteOrders == {"big", "little"}

(* truncated_block: what is there of a block that is not complete. *)
BrokenBlock(f, at, n, type, reason) ==
    Entry(<<Node(Name(reason, "", <<n, type>>, TRUE), at,
                 Fields(0, <<4, 4>>, FALSE) \o DataRangeOf(8, f.len - at - 8))>>,
          f.len, TRUE)

TrailingLength(total) == <<ReadOnly(total - 4, 4)>>

(* add_options_and_trailer *)
OptionsAndTrailer(total, at) ==
    DataRangeOf(at, AtLeastZero(total - 4 - at)) \o TrailingLength(total)

EnhancedPacket(f, at, total) ==
    LET captured == Word(f, at + 20)
    IN  Fields(8, <<4, 4, 4, 4, 4>>, FALSE)
        \o When(28 + captured <= total - 4, DataRangeOf(28, captured))
        \o OptionsAndTrailer(total, 28 + RoundUp(captured, 4))

BlockFields(f, at, type, total) ==
    CASE type = 0 -> Fields(8, <<4, 2, 2, 8>>, FALSE) \o OptionsAndTrailer(total, 24)
      [] type = 1 -> Fields(8, <<2, 2, 4>>, FALSE) \o OptionsAndTrailer(total, 16)
      [] type = 6 -> EnhancedPacket(f, at, total)
      [] type = 3 -> <<ReadOnly(8, 4)>> \o DataRangeOf(12, AtLeastZero(total - 16))
                     \o TrailingLength(total)
      [] OTHER -> DataRangeOf(8, total - 12) \o TrailingLength(total)

(* parse_block: the type 0 stands for the section header.  The names of the  *)
(* blocks with a layout of their own do not count them.                     *)
PcapngBlock(f, at, n) ==
    LET section == Tag(f, at) = SectionHeader
        type == IF section THEN 0 ELSE Word(f, at)
        total == Word(f, at + 4)
        kind == IF section THEN Tag(f, at + 8) ELSE "Block"
    IN  IF total < 12 \/ total % 4 # 0 THEN BrokenBlock(f, at, n, type, "invalid length")
        ELSE IF at + total > f.len THEN BrokenBlock(f, at, n, type, "truncated")
        ELSE Entry(<<Node(Name(kind, "", IF type \in {0, 1, 3, 6} THEN <<type>>
                                         ELSE <<n, type>>, FALSE), at,
                          Fields(0, <<4, 4>>, FALSE) \o BlockFields(f, at, type, total))>>,
                   at + total, FALSE)

(* A section header without a byte order ends the walk. *)
KnownOrder(f, at) == Tag(f, at) = SectionHeader => Tag(f, at + 8) \in ByteOrders

Pcapng(f, cap) ==
    LET blocks == EntryWalk(0, LAMBDA at : at + 12 <= f.len, Greatest(cap, 1),
                            LAMBDA at, n : IF KnownOrder(f, at) THEN PcapngBlock(f, at, n)
                                           ELSE Entry(<<>>, at, TRUE))
    IN  IF f.len < 12 \/ Tag(f, 0) # SectionHeader \/ Tag(f, 8) \notin ByteOrders
           \/ Word(f, 4) < 28 THEN <<>>
        ELSE blocks.out
             \o When(blocks.more, <<Marker(ThreeDots, "PCAPNG", blocks.n, blocks.at)>>)

===============================================================================
