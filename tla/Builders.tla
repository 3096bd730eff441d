------------------------------- MODULE Builders -------------------------------
(***************************************************************************)
(* The write side: the descriptors and sections of build.rs, the adaptation *)
(* field of packet.rs and the PES packet of pes.rs.  What is written is     *)
(* known by its size, by the length fields in it (the position behind each  *)
(* and its value) and by the flags that are set; the bytes themselves are   *)
(* left out.                                                                *)
(***************************************************************************)
EXTENDS Integers, Sequences, FiniteSets, SequencesExt

Bytes(n)         == [size |-> n, lens |-> {}, flags |-> {}]
Nothing          == Bytes(0)
Length(w, v)     ==                            \* v in w bits, in whole bytes
    [size |-> IF w > 8 THEN 2 ELSE 1, flags |-> {},
     lens |-> {<<IF w > 8 THEN 2 ELSE 1, v % 2^w>>}]
Flag(f)          == [Nothing EXCEPT !.flags = {f}]
a ++ b           == [size  |-> a.size + b.size,
                     lens  |-> a.lens \cup {<<p[1] + a.size, p[2]>> : p \in b.lens},
                     flags |-> a.flags \cup b.flags]
Joined(s)        == FoldLeft(++, Nothing, s)
Least(a, b)      == IF a < b THEN a ELSE b
CutTo(n, a)      == [a EXCEPT !.size = Least(n, @), !.lens = {p \in @ : p[1] <= n}]
Run(w, max, n)   == Length(w, Least(n, max)) ++ Bytes(Least(n, max))

------------------------------------------------------------------------------
(* Descriptors: a body beyond the length field is cut to 255 bytes.        *)
Tlv(body)  == Bytes(1) ++ Length(8, Least(body.size, 255)) ++ CutTo(255, body)

Name(n)    == Run(8, 255, n)
Optional(names, present) == Joined([i \in 1..Len(names) |->
    IF names[i] \in present THEN Flag(names[i]) ++ Bytes(1) ELSE Nothing])

RegistrationDescriptor(extra)      == Tlv(Bytes(4 + extra))
Iso639LanguageDescriptor(entries)  == Tlv(Bytes(4 * entries))
ServiceDescriptorSwapped(provider, name) == Tlv(Bytes(1) ++ Name(name) ++ Name(provider)) \* mutant
ServiceDescriptor(provider, name)  == Tlv(Bytes(1) ++ Name(provider) ++ Name(name))
NameDescriptor(n)                  == Tlv(Bytes(n))
ShortEventDescriptor(name, text)   == Tlv(Bytes(3) ++ Name(name) ++ Name(text))
ServiceListDescriptor(entries)     == Tlv(Bytes(3 * entries))
TeletextDescriptor(entries)        == Tlv(Bytes(5 * entries))
SubtitlingDescriptor(entries)      == Tlv(Bytes(8 * entries))
Ac3FamilyBody(present, tail) ==
    Bytes(1) ++ Optional(<<"component_type", "bsid", "mainid", "asvc">>, present)
             ++ Bytes(tail)
Ac3Descriptor(present, tail)       == Tlv(Ac3FamilyBody(present, tail))
AacDescriptor(present, tail) ==
    Tlv(Bytes(1) ++ IF present # {} \/ tail > 0
                    THEN Bytes(1) ++ Optional(<<"aac_type">>, present) ++ Bytes(tail)
                    ELSE Nothing)
CaDescriptor(private)              == Tlv(Bytes(4 + private))
ContentDescriptor(entries)         == Tlv(Bytes(2 * entries))
ParentalRatingDescriptor(entries)  == Tlv(Bytes(4 * entries))
LocalTimeOffsetDescriptor(entries) == Tlv(Bytes(13 * entries))
PartialTransportStreamDescriptor   == Tlv(Bytes(8))

(* The items are cut to the 255 bytes their length can announce, wherever  *)
(* that falls.                                                             *)
ItemLoop(items) == CutTo(255, Joined([i \in 1..Len(items) |->
    Name(items[i][1]) ++ Name(items[i][2])]))
ExtendedEventDescriptor(items, text) ==
    Tlv(Bytes(4) ++ Length(8, ItemLoop(items).size) ++ ItemLoop(items) ++ Name(text))

------------------------------------------------------------------------------
(* Sections.  The long form does not bound its body: the announced length  *)
(* is what twelve bits keep of it.                                         *)
LongForm(body)  == Bytes(1) ++ Length(12, 5 + body.size + 4) ++ Bytes(5) ++ body ++ Bytes(4)
ShortForm(body) == Bytes(1) ++ Length(12, Least(body.size, 4093)) ++ CutTo(4093, body)
Loop(n)         == Run(12, 4095, n)
Records(head, loops) == Joined([i \in 1..Len(loops) |-> Bytes(head) ++ Loop(loops[i])])

BuildPat(programs)        == LongForm(Bytes(4 * programs))
BuildPmt(info, streams)   == LongForm(Bytes(2) ++ Loop(info) ++ Records(3, streams))
BuildSdt(services)        == LongForm(Bytes(3) ++ Records(3, services))
BuildNit(info, streams)   ==
    LongForm(Loop(info) ++ Length(12, Least(Records(4, streams).size, 4095))
                        ++ Records(4, streams))
BuildBat(info, streams)   == BuildNit(info, streams)
BuildEitPf(events)        == LongForm(Bytes(6) ++ Records(10, events))
BuildCat(n)               == LongForm(Bytes(n))
BuildTsdt(n)              == LongForm(Bytes(n))
BuildSit(info, services)  == LongForm(Loop(info) ++ Records(2, services))
BuildTdt                  == ShortForm(Bytes(5))
BuildTot(n)               == ShortForm(Bytes(5) ++ Loop(n) ++ Bytes(4))
BuildRst(entries)         == ShortForm(Bytes(9 * entries))
BuildSt(n)                == ShortForm(Bytes(Least(n, 4093)))
BuildDit                  == ShortForm(Bytes(1))

------------------------------------------------------------------------------
(* The adaptation field.  Refused is what the encoder returns instead.     *)
Refused == [size |-> -1, lens |-> {}, flags |-> {}]
Part(f, present, part) == IF f \in present THEN Flag(f) ++ part ELSE Nothing

ExtensionParts(present) ==
    Part("ltw", present, Bytes(2)) ++ Part("piecewise_rate", present, Bytes(3))
        ++ Part("seamless_splice", present, Bytes(5))
EncodedExtension(present) ==
    Length(8, 1 + ExtensionParts(present).size) ++ Bytes(1) ++ ExtensionParts(present)

Contradicts(present, private) ==
    \/ "opcr" \in present /\ "pcr" \notin present
    \/ "seamless_splice" \in present /\ "extension" \in present
       /\ "splice_countdown" \notin present
    \/ "transport_private_data" \in present /\ private > 255

EncodedFlagsAndFields(present, private) ==
    Bytes(1) ++ Part("pcr", present, Bytes(6)) ++ Part("opcr", present, Bytes(6))
        ++ Part("splice_countdown", present, Bytes(1))
        ++ Part("transport_private_data", present, Length(8, private) ++ Bytes(private))
        ++ Part("extension", present, EncodedExtension(present))

EncodeAdaptationField(present, private, want) ==
    LET fields == EncodedFlagsAndFields(present, private)
        size   == IF fields.size + 1 < want THEN want ELSE fields.size + 1
    IN  IF want > 184 THEN Refused
        ELSE IF present = {} /\ want <= 1 THEN Length(8, 0)
        ELSE IF Contradicts(present, private) \/ fields.size + 1 > 184 THEN Refused
        ELSE Length(8, size - 1) ++ fields ++ Bytes(size - 1 - fields.size)

(* The PES packet: 16 bits of packet length, 8 of header length.           *)
EncodedPesExtension(present, pack, field2) ==
    Bytes(1) ++ Part("private_data", present, Bytes(16))
        ++ Part("pack_header", present, Length(8, pack) ++ Bytes(pack))
        ++ Part("program_packet_sequence_counter", present, Bytes(2))
        ++ Part("p_std_buffer", present, Bytes(2))
        ++ Part("extension_field_2", present, Length(7, field2) ++ Bytes(field2))

EncodedOptionalHeader(present, pack, field2) ==
    Part("pts", present, Bytes(5)) ++ Part("dts", present, Bytes(5))
        ++ Part("escr", present, Bytes(6)) ++ Part("es_rate", present, Bytes(3))
        ++ Part("trick_mode", present, Bytes(1))
        ++ Part("additional_copy_info", present, Bytes(1))
        ++ Part("previous_pes_packet_crc", present, Bytes(2))
        ++ Part("pes_extension", present, EncodedPesExtension(present, pack, field2))

EncodePes(present, pack, field2, payload, unbounded) ==
    LET header == EncodedOptionalHeader(present, pack, field2)
    IN  IF "optional_header" \notin present
        THEN IF present # {} \/ payload > 65535 THEN Refused
             ELSE Bytes(4) ++ Bytes(2) ++ Bytes(payload)
        ELSE IF \/ "dts" \in present /\ "pts" \notin present
                \/ "pes_extension" \in present
                   /\ \/ "pack_header" \in present /\ pack > 255
                      \/ "extension_field_2" \in present /\ field2 > 127
                \/ header.size > 255
                \/ ~unbounded /\ 3 + header.size + payload > 65535
             THEN Refused
        ELSE Flag("optional_header") ++ Bytes(6) ++ Bytes(2) ++ Length(8, header.size)
                ++ header ++ Bytes(payload)
=============================================================================
