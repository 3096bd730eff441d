------------------------------- MODULE Layouts -------------------------------
(***************************************************************************)
(* What a parser of this crate does to the slice it is given, item by      *)
(* item: the guards, the bytes it indexes, the lengths and counts it takes *)
(* from them, and the slices it hands on.  A layout is a sequence of       *)
(* items: below the items, the layouts of the descriptors, of the tables   *)
(* and of the packet layers.  Module Syntax says what running one does.    *)
(***************************************************************************)
EXTENDS Integers, Sequences

ItemOf(op, n, of, flag) ==                           \* of: a set of layouts
    [op |-> op, n |-> n, of |-> of, flag |-> flag]
Item(op, n, of) == ItemOf(op, n, of, "")

(* Guards: the parser gives up unless they hold of what is left.           *)
Need(n)     == Item("need", n, {})       \* at least n bytes
Exact(n)    == Item("exact", n, {})      \* n bytes
Multiple(n) == Item("multiple", n, {})   \* a number of records of n bytes
Fits(n)     == Item("fits", n, {})       \* the announced size, and n more
SizeMin(n)  == Item("sizemin", n, {})    \* the announced size is n or more
Valid       == Item("valid", 0, {})      \* a value: table_id, CRC, version, marker

(* Reading: indexing without a further check.                              *)
Read(n)  == Item("read", n, {})
Size     == Item("size", 0, {})          \* a length among the bytes read
ToTheEnd == Item("toend", 0, {})         \* all that is left, taken for a length
Capped(n) == Item("capped", n, {})       \* the length, to end n bytes before the end
Take     == Item("take", 0, {})          \* the announced bytes, as they are
All      == Item("all", 0, {})           \* the rest, as it is
Trim(n)  == Item("trim", n, {})          \* the last n bytes are not the body's

(* Parts in the same slice.                                                *)
OneOf(S)      == Item("oneof", 0, S)        \* a tag among the bytes read says which
Opt(flag, of) == ItemOf("opt", 0, {of}, flag)  \* a flag among them says whether
IfRoom(n, of) == Item("ifroom", n, {of})    \* when n bytes are left
While(n, of)  == Item("while", n, {of})     \* records, as long as n bytes are left
Times(of)     == Item("times", 0, {of})     \* as many records as a byte read counts

(* A slice of its own of the announced size.  What fails in a Try is given *)
(* raw and the parser goes on behind it; what fails in an Into fails all.  *)
(* A Body is a Try of the descriptor its tag stands for.                   *)
Into(of)     == Item("into", 0, {of})
Try(of)      == Item("try", 0, {of})
Body(family) == Item("body", 0, {family})

Byte          == <<Need(1), Read(1)>>
Flagged(flag) == Opt(flag, Byte)            \* data.get(pos)? behind a flag
Sized         == <<Size, Fits(0), Take>>    \* a counted run
Described(n)  == <<Read(n)>> \o Sized       \* a head that ends in its length

------------------------------------------------------------------------------
(* The descriptors of a program or service (descriptor.rs): the TLV loop   *)
(* and the body of each tag the crate decodes.  A body that fails its own  *)
(* guards is given raw.  The values of the fields are left out.            *)

(* ISO/IEC 13818-1 *)
VideoStream              == Byte \o <<IfRoom(2, <<Opt("mpeg2", <<Read(2)>>)>>)>>
AudioStream              == Byte
Hierarchy                == <<Need(4), Read(4)>>
Registration             == <<Need(4), Read(4), All>>
DataStreamAlignment      == Byte
TargetBackgroundGrid     == <<Need(4), Read(4)>>
VideoWindow              == <<Need(4), Read(4)>>
Ca                       == <<Need(4), Read(4), All>>
Iso639Language           == <<Multiple(4), While(4, <<Read(4)>>)>>
SystemClock              == <<Need(2), Read(2)>>
MultiplexBufferUtilization == <<Need(4), Read(4)>>
Copyright                == <<Need(4), Read(4), All>>
MaximumBitrate           == <<Need(3), Read(3)>>
PrivateDataIndicator     == <<Exact(4), Read(4)>>
SmoothingBuffer          == <<Need(6), Read(6)>>
Std                      == Byte
Ibp                      == <<Need(2), Read(2)>>
Mpeg4Video               == <<Exact(1), Read(1)>>
Mpeg4Audio               == <<Exact(1), Read(1)>>
Iod                      == <<Need(2), Read(2), All>>
Sl                       == <<Exact(2), Read(2)>>
Fmc                      == <<Multiple(3), While(3, <<Read(3)>>)>>
ExternalEsId             == <<Exact(2), Read(2)>>
MultiplexBuffer          == <<Exact(6), Read(6)>>
AvcVideo                 == <<Need(4), Read(4)>>

(* The byte of flags, and the layer bounds it announces, were added to the *)
(* descriptor later: both may be missing.                                  *)
HevcVideo == <<Need(13), Read(13),
               IfRoom(1, <<Read(1), Opt("temporal", <<IfRoom(2, <<Read(2)>>)>>)>>)>>

(* EN 300 468 *)
ServiceListInPlace       == <<Multiple(3), While(3, << >>)>>   \* mutant: the cursor stays
ServiceList              == <<Multiple(3), While(3, <<Read(3)>>)>>
SatelliteDelivery        == <<Need(11), Read(11)>>
CableDelivery            == <<Need(11), Read(11)>>
TerrestrialDelivery      == <<Need(11), Read(11)>>
CountryAvailability      == Byte \o <<Multiple(3), While(3, <<Read(3)>>)>>
Linkage                  == <<Need(7), Read(7), All>>
Component                == <<Need(6), Read(6), All>>
StreamIdentifier         == <<Exact(1), Read(1)>>
CaIdentifier             == <<Multiple(2), While(2, <<Read(2)>>)>>
Content                  == <<Need(1), Multiple(2), While(2, <<Read(2)>>)>>
ParentalRating           == <<Multiple(4), While(4, <<Read(4)>>)>>
Teletext                 == <<Need(1), Multiple(5), While(5, <<Read(5)>>)>>
LocalTimeOffset          == <<Need(1), Multiple(13), While(13, <<Read(13)>>)>>
Subtitling               == <<Need(1), Multiple(8), While(8, <<Read(8)>>)>>
PrivateDataSpecifier     == <<Need(4), Read(4)>>
ServiceMove              == <<Need(6), Read(6)>>
ShortSmoothingBuffer     == Byte \o <<All>>
FrequencyList            == Byte \o <<Multiple(4), While(4, <<Read(4)>>)>>
PartialTransportStream   == <<Need(8), Read(8)>>
Scrambling               == Byte
DataBroadcastId          == <<Need(2), Read(2), All>>
AncillaryData            == Byte
Dts                      == <<Need(5), Read(5), All>>
Aac                      == Byte \o <<IfRoom(1, <<Read(1), Flagged("aac_type"), All>>)>>
Ac3                      == Byte \o <<Flagged("component_type"), Flagged("bsid"), Flagged("mainid"),
                                      Flagged("asvc"), All>>
EnhancedAc3 == Byte \o 
    <<Flagged("component_type"), Flagged("bsid"), Flagged("mainid"), Flagged("asvc"),
      Flagged("substream1"), Flagged("substream2"), Flagged("substream3"), All>>

(* Two counted runs; the guard of the first leaves room for the length of  *)
(* the second.                                                             *)
ServiceUnbounded == <<Need(2), Read(2), Size, Take, Read(1)>> \o Sized   \* mutant: no bound
Service    == <<Need(2), Read(2), Size, Fits(1), Take, Read(1)>> \o Sized
ShortEvent == <<Need(4), Read(4), Size, Fits(1), Take, Read(1)>> \o Sized

(* The items of an extended event lie in a slice of their own, so their    *)
(* lengths are held against its end and not against the descriptor's.      *)
ExtendedEventItem == <<Read(1), Size, Fits(1), Take, Read(1)>> \o Sized
ExtendedEvent ==
    <<Need(5), Read(5), Size, Fits(1), Into(<<While(1, ExtendedEventItem)>>),
      Read(1)>> \o Sized

DataBroadcast == <<Need(4), Read(4), Size, Fits(4), Take, Read(4)>> \o Sized

SupplementaryAudio == Byte \o <<Opt("language", <<Need(3), Read(3)>>), All>>

(* The selector of an extension that is not decoded is given raw.          *)
Extension == Byte \o <<Opt("known", <<ToTheEnd, Try(SupplementaryAudio)>>), All>>
(* What each tag stands for; other tags, and the five whose body is one    *)
(* run of bytes, are given as they are.                                    *)
DescriptorBodies ==
    {VideoStream, AudioStream, Hierarchy, Registration, DataStreamAlignment,
     TargetBackgroundGrid, VideoWindow, Ca, Iso639Language, SystemClock,
     MultiplexBufferUtilization, Copyright, MaximumBitrate, PrivateDataIndicator,
     SmoothingBuffer, Std, Ibp, Mpeg4Video, Mpeg4Audio, Iod, Sl, Fmc, ExternalEsId,
     MultiplexBuffer, AvcVideo, HevcVideo, ServiceList, SatelliteDelivery,
     CableDelivery, TerrestrialDelivery, CountryAvailability, Linkage, Component,
     StreamIdentifier, CaIdentifier, Content, ParentalRating, Teletext,
     LocalTimeOffset, Subtitling, PrivateDataSpecifier, ServiceMove,
     ShortSmoothingBuffer, FrequencyList, PartialTransportStream, Scrambling,
     DataBroadcastId, AncillaryData, Dts, Aac, Ac3, EnhancedAc3, Service, ShortEvent,
     ExtendedEvent, DataBroadcast, Extension, <<All>>}

(* The iterator: a header or a body that is cut off ends it.               *)
DescriptorLoop == <<While(1, <<Need(2), Read(2), Size, Fits(0), Body("descriptor")>>)>>

------------------------------------------------------------------------------
(* The sections of the program tables (psi.rs) and of the ATSC tables      *)
(* (atsc.rs).  The descriptors of a table are handed on as bytes and read  *)
(* later, by the layouts above.                                            *)

(* The long form: the announced length covers the five bytes of the header *)
(* behind it and the CRC.                                                  *)
LongSection(body) ==
    <<Need(12), Valid, Read(3), Size, SizeMin(9), Fits(0),
      Into(<<Trim(4), Valid, Read(5)>> \o body)>>

ShortSection(body) == <<Need(3), Valid, Read(3), Size, Fits(0), Into(body)>>

ProgramAssociation == LongSection(<<While(4, <<Read(4)>>)>>)
ProgramMap         == LongSection(<<Need(4)>> \o Described(4) \o <<While(5, Described(5))>>)
ConditionalAccess  == LongSection(<<All>>)
StreamDescription  == LongSection(<<All>>)

(* Two nested loops; the inner is held against its own slice.              *)
NetworkInformation ==
    LongSection(<<Need(2)>> \o Described(2)
                \o <<Need(2), Read(2), Size, Fits(0), Into(<<While(6, Described(6))>>)>>)
BouquetAssociation == NetworkInformation

RunningStatus         == ShortSection(<<Multiple(9), While(9, <<Read(9)>>)>>)
Stuffing              == ShortSection(<<All>>)
Discontinuity         == ShortSection(Byte)
SelectionInformation  ==
    LongSection(<<Need(2)>> \o Described(2) \o <<While(1, <<Need(4)>> \o Described(4))>>)
ServiceDescription    == LongSection(<<Need(3), Read(3), While(5, Described(5))>>)
EventInformation      == LongSection(<<Need(6), Read(6), While(12, Described(12))>>)
TimeDate              == ShortSection(<<Need(5), Read(5)>>)
TimeOffset            == ShortSection(<<Need(11), Trim(4), Valid>> \o Described(7))

(* The sections of one payload, behind the pointer_field.                  *)
Sections == Byte \o Sized \o <<While(3, <<Valid>> \o Described(3))>>

------------------------------------------------------------------------------
(* ATSC A/65.                                                              *)
Psip(body) == LongSection(Byte \o <<Valid>> \o body)

(* The multiple string structure has no length of its own.                 *)
MultipleStrings ==
    Byte \o <<Times(<<Need(4), Read(4), Times(<<Need(3)>> \o Described(3))>>)>>

(* Where its place has one, it must fill it.                               *)
Text == <<Size, Fits(0), Into(MultipleStrings \o <<Exact(0)>>)>>

SystemTime      == Psip(<<Need(7), Read(7), All>>)
MasterGuide     == Psip(<<Need(2), Read(2), Times(<<Need(11)>> \o Described(11)),
                          Need(2)>> \o Described(2))
VirtualChannel  == Psip(Byte \o <<Times(<<Need(32)>> \o Described(32)),
                                  Need(2)>> \o Described(2))
RatingValue     == Byte \o Text \o Byte \o Text
RatingDimension == Byte \o Text \o Byte \o <<Times(RatingValue)>>
RatingRegion    == Psip(Byte \o Text \o Byte
                        \o <<Times(RatingDimension), Need(2)>> \o Described(2))

(* A title of no bytes is no text.                                         *)
AtscEventInformation ==
    Psip(Byte \o <<Times(<<Need(10), Read(10), Size, Fits(0),
                                  Into(<<IfRoom(1, MultipleStrings \o <<Exact(0)>>)>>),
                                  Need(2)>> \o Described(2))>>)

ExtendedText == Psip(<<Need(4), Read(4)>> \o MultipleStrings \o <<Exact(0)>>)

DccLoop == <<Need(2)>> \o Described(2)
DirectedChannelChange ==
    Psip(<<Valid>> \o Byte
         \o <<Times(<<Need(15), Read(15), Times(<<Need(9), Read(9)>> \o DccLoop)>> \o DccLoop)>>
         \o DccLoop \o <<Exact(0)>>)

Update == <<OneOf({Byte \o MultipleStrings \o <<Exact(0)>>,
                   <<Need(3), Read(3)>> \o MultipleStrings \o <<Exact(0)>>,
                   <<All>>})>>
DccSelectionCode ==
    Psip(<<Valid>> \o Byte
         \o <<Times(<<Need(2), Read(2), Size, Fits(0), Into(Update)>> \o DccLoop)>>
         \o DccLoop \o <<Exact(0)>>)

------------------------------------------------------------------------------
(* The descriptors of these tables.                                        *)
CaptionService    == Byte \o <<Times(<<Need(6), Read(6)>>)>>
ContentAdvisory   ==
    Byte \o <<Times(<<Need(2), Read(2), Times(<<Need(2), Read(2)>>)>>
                           \o Byte \o Text)>>
ServiceLocation   == <<Need(3), Read(3), Times(<<Need(6), Read(6)>>)>>
TimeShiftedService == Byte \o <<Times(<<Need(5), Read(5)>>)>>
DccRequest        == <<Need(2), Read(2)>> \o Text

AtscBodies ==
    {CaptionService, ContentAdvisory, ServiceLocation, TimeShiftedService, DccRequest,
     MultipleStrings \o <<Exact(0)>>, <<Need(4), Read(4), All>>, Byte \o Sized, <<All>>}

AtscDescriptorLoop == <<While(1, <<Need(2), Read(2), Size, Fits(0), Body("atsc")>>)>>

------------------------------------------------------------------------------
(* The packet layers: the transport packet with its adaptation field       *)
(* (packet.rs), the PES packet with its optional header (pes.rs) and the   *)
(* program stream map (ps.rs).                                             *)

Clock == <<Need(6), Read(6)>>
Stamp == <<Need(5), Read(5)>>

(* The extension's own length bounds its parts; what it leaves is reserved. *)
AdaptationExtension ==
    Byte \o <<Size, Fits(0),
              Into(<<IfRoom(1, <<Read(1),
                                 Opt("ltw", <<Need(2), Read(2)>>),
                                 Opt("piecewise_rate", <<Need(3), Read(3)>>),
                                 Opt("seamless_splice", <<Need(5), Read(5)>>)>>)>>)>>

(* An adaptation field of no bytes carries not even flags.                 *)
AdaptationField ==
    <<IfRoom(1, <<Read(1),
                  Opt("pcr", Clock),
                  Opt("opcr", Clock),
                  Opt("splice_countdown", Byte),
                  Opt("transport_private_data", Byte \o Sized),
                  Opt("extension", AdaptationExtension)>>)>>

TsPacket ==
    <<Need(188), Valid, Read(4),
      Opt("adaptation_field", <<Read(1), Size, Fits(0), Into(AdaptationField)>>),
      Opt("payload", <<All>>)>>

(* 33-bit stamps: a DTS only behind a PTS; the fourth coding is refused.   *)
PesExtension ==
    Byte \o <<Opt("private_data", <<Need(16), Read(16)>>),
              Opt("pack_header", Byte \o Sized),
              Opt("program_packet_sequence_counter", <<Need(2), Read(2)>>),
              Opt("p_std_buffer", <<Need(2), Read(2)>>),
              Opt("extension_field_2", Byte \o Sized)>>

PesOptionalHeader ==
    <<Valid,
      Opt("pts", Stamp \o <<Opt("dts", Stamp)>>),
      Opt("escr", Clock),
      Opt("es_rate", <<Need(3), Read(3)>>),
      Opt("trick_mode", Byte),
      Opt("additional_copy_info", Byte),
      Opt("previous_pes_packet_crc", <<Need(2), Read(2)>>),
      Opt("pes_extension", PesExtension)>>

PesPacket ==
    <<Need(6), Valid, Read(6),
      Opt("optional_header", <<Need(3), Read(3), Size, Fits(0), Into(PesOptionalHeader)>>),
      All>>

(* The length of the map is cut to the slice, less its CRC; that of the    *)
(* last record may run past it and is not followed.                        *)
ProgramStreamMap ==
    <<Need(10), Read(10), Size, Fits(2), Take, Read(2), Capped(4),
      Into(<<While(4, Described(4))>>)>>
==============================================================================
