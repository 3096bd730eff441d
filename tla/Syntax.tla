------------------------------- MODULE Syntax -------------------------------
(***************************************************************************)
(* The parsers of the crate at work.  Every parser is given two kinds of   *)
(* input: slices of any bytes, of the lengths around which its guards      *)
(* turn, where each flag, length and count read may have any value; and    *)
(* what the builders write, where they have the value written.  A step is  *)
(* an item of the layout.  The stack holds a frame for the slice the       *)
(* parser was given and for each slice a part of it works on.              *)
(***************************************************************************)
EXTENDS Layouts, Builders

CONSTANTS
    BodyLengths,       \* the lengths of a descriptor of any bytes
    TableLengths,      \* those of a table
    LongLengths,       \* those of the two tables whose records are long
    PacketLengths,     \* those of a packet, a section payload or a stream map
    MaxRecords,        \* the most records a count announces
    Runs,              \* the sizes of the runs the builders are given
    Lists              \* the numbers of records the builders are given

VARIABLES
    input,    \* the slice: its size, the lengths and the flags known of it
    expected, \* the sizes of the runs the builder was given
    stack,    \* the slices being read, the innermost last
    pos,      \* the cursor
    taken,    \* the sizes of the runs the parser has handed on
    verdict   \* "run", "ok" or "rejected"

vars == <<input, expected, stack, pos, taken, verdict>>

AnyOf(n)   == Flag("any") ++ Bytes(n)
Frame(layout, end, absorbs) ==
    [todo |-> layout, end |-> end, size |-> 0, absorbs |-> absorbs]
Case(in, layout, runs) == [in |-> in, layout |-> layout, runs |-> runs]

Top      == stack[Len(stack)]
Item1    == Head(Top.todo)
Left     == Top.end - pos
Free     == "any" \in input.flags
Absorbed == \E i \in 1..Len(stack) : stack[i].absorbs

(* A length has the value written there, or any value a slice of this size *)
(* tells apart from its neighbours.                                        *)
Written  == {p[2] : p \in {q \in input.lens : q[1] = pos}}
Sizes    == IF Written # {} THEN Written
            ELSE {0, 1, 2, 3, 9} \cup (Nat \cap {Left + d : d \in -5..1})

Running(op) == verdict = "run" /\ Top.todo # << >> /\ Item1.op = op
Advance(frame) == stack' = [stack EXCEPT ![Len(stack)] = frame]
Next1       == [Top EXCEPT !.todo = Tail(@)]
Becomes(todo) == Advance([Top EXCEPT !.todo = todo \o Tail(@)])

(* Giving up: the innermost part whose failure is absorbed ends, and the   *)
(* parser goes on behind its slice; with none, the whole is refused.       *)
Fail ==
    IF Absorbed
    THEN LET at == CHOOSE i \in 1..Len(stack) :
                       /\ stack[i].absorbs
                       /\ \A j \in (i + 1)..Len(stack) : ~stack[j].absorbs
         IN  /\ stack' = SubSeq(stack, 1, at - 1)
             /\ pos' = stack[at].end
             /\ UNCHANGED <<taken, verdict>>
    ELSE verdict' = "rejected" /\ UNCHANGED <<stack, pos, taken>>

Holds(item) ==
    CASE item.op = "need"     -> Left >= item.n
      [] item.op = "exact"    -> Left = item.n
      [] item.op = "multiple" -> Left % item.n = 0
      [] item.op = "fits"     -> Top.size + item.n <= Left
      [] item.op = "sizemin"  -> Top.size >= item.n

Guard ==
    /\ verdict = "run" /\ Top.todo # << >>
    /\ Item1.op \in {"need", "exact", "multiple", "fits", "sizemin"}
    /\ IF Holds(Item1) THEN Advance(Next1) /\ UNCHANGED <<pos, taken, verdict>> ELSE Fail
    /\ UNCHANGED <<input, expected>>

(* What a builder writes passes the checks of identity and CRC.            *)
CheckValue ==
    /\ Running("valid")
    /\ \/ Advance(Next1) /\ UNCHANGED <<pos, taken, verdict>>
       \/ Free /\ Fail
    /\ UNCHANGED <<input, expected>>

Index ==
    /\ Running("read")
    /\ pos' = pos + Item1.n
    /\ Advance(Next1)
    /\ UNCHANGED <<input, expected, taken, verdict>>

Measure ==
    /\ \/ Running("size") /\ \E s \in Sizes : Advance([Next1 EXCEPT !.size = s])
       \/ Running("toend") /\ Advance([Next1 EXCEPT !.size = Left])
       \/ /\ Running("capped")
          /\ Advance([Next1 EXCEPT !.size =
                         Least(@, IF Left > Item1.n THEN Left - Item1.n ELSE 0)])
    /\ UNCHANGED <<input, expected, pos, taken, verdict>>

HandOn(n) == taken' = IF Free THEN taken ELSE Append(taken, n)

TakeRun ==
    /\ \/ Running("take") /\ pos' = pos + Top.size /\ HandOn(Top.size)
       \/ Running("all")  /\ pos' = Top.end /\ HandOn(Left)
    /\ Advance(Next1)
    /\ UNCHANGED <<input, expected, verdict>>

DropTail ==
    /\ Running("trim")
    /\ Advance([Next1 EXCEPT !.end = @ - Item1.n])
    /\ UNCHANGED <<input, expected, pos, taken, verdict>>

Choose ==
    /\ \/ Running("oneof") /\ \E of \in Item1.of : Becomes(of)
       \/ /\ Running("opt")
          /\ \E present \in IF Free THEN BOOLEAN ELSE {Item1.flag \in input.flags} :
                 \E of \in Item1.of : Becomes(IF present THEN of ELSE << >>)
       \/ /\ Running("ifroom")
          /\ \E of \in Item1.of : Becomes(IF Left >= Item1.n THEN of ELSE << >>)
    /\ UNCHANGED <<input, expected, pos, taken, verdict>>

Repeat ==
    /\ \/ /\ Running("while")
          /\ \E of \in Item1.of :
                 IF Left >= Item1.n
                 THEN Advance([Top EXCEPT !.todo = of \o @])
                 ELSE Advance(Next1)
       \/ /\ Running("times")
          /\ \E of \in Item1.of, k \in 0..MaxRecords :
                 Becomes(FlattenSeq([i \in 1..k |-> of]))
    /\ UNCHANGED <<input, expected, pos, taken, verdict>>

Bodies(family) == IF family = "descriptor" THEN DescriptorBodies ELSE AtscBodies

(* A part on a slice of its own; what comes behind it starts at its end.   *)
Enter ==
    /\ \/ /\ Running("into")
          /\ \E of \in Item1.of :
                 stack' = Append([stack EXCEPT ![Len(stack)] = Next1],
                                 Frame(of, pos + Top.size, FALSE))
          /\ UNCHANGED taken
       \/ /\ Running("try")
          /\ \E of \in Item1.of :
                 stack' = Append([stack EXCEPT ![Len(stack)] = Next1],
                                 Frame(of, pos + Top.size, TRUE))
          /\ UNCHANGED taken
       \/ /\ Running("body")
          /\ \E family \in Item1.of : \E of \in Bodies(family) :
                 stack' = Append([stack EXCEPT ![Len(stack)] = Next1],
                                 Frame(of, pos + Top.size, TRUE))
          /\ taken' = IF input.lens = {} THEN taken ELSE Append(taken, Top.size)
    /\ UNCHANGED <<input, expected, pos, verdict>>

Return ==
    /\ verdict = "run" /\ Top.todo = << >>
    /\ IF Len(stack) = 1
       THEN verdict' = "ok" /\ UNCHANGED <<stack, pos>>
       ELSE /\ stack' = SubSeq(stack, 1, Len(stack) - 1)
            /\ pos' = Top.end
            /\ UNCHANGED verdict
    /\ UNCHANGED <<input, expected, taken>>

Next == Guard \/ CheckValue \/ Index \/ Measure \/ TakeRun \/ DropTail \/ Choose
        \/ Repeat \/ Enter \/ Return

------------------------------------------------------------------------------
(* The inputs.                                                             *)
Tables ==
    {ProgramAssociation, ProgramMap, ConditionalAccess, StreamDescription,
     NetworkInformation, BouquetAssociation, RunningStatus, Stuffing, Discontinuity,
     SelectionInformation, ServiceDescription, EventInformation, TimeDate, TimeOffset,
     SystemTime, MasterGuide, VirtualChannel, RatingRegion, AtscEventInformation,
     ExtendedText, DirectedChannelChange, DccSelectionCode}

AnyBytes ==
    {Case(AnyOf(n), <<ToTheEnd, Body(f)>>, << >>) :
              n \in BodyLengths, f \in {"descriptor", "atsc"}}
    \cup {Case(AnyOf(n), layout, << >>) : n \in TableLengths, layout \in Tables}
    \cup {Case(AnyOf(n), layout, << >>) :
              n \in LongLengths, layout \in {VirtualChannel, DirectedChannelChange}}
    \cup {Case(AnyOf(n), layout, << >>) :
              n \in PacketLengths, layout \in {TsPacket, PesPacket, ProgramStreamMap, Sections}}

(* A descriptor loop whose bodies are of any bytes.                        *)
LoopCases ==
    {Case(Flag("any") ++ Joined([i \in 1..2 |-> Bytes(1) ++ Run(8, 255, ns[i])]),
          layout, ns) :
        ns \in [1..2 -> {0, 4, 14}], layout \in {DescriptorLoop, AtscDescriptorLoop}}

Descriptor(body) == <<Need(2), Read(2), Size, Fits(0), Into(body)>>
Fixed == {"component_type", "bsid", "mainid", "asvc"}

DescriptorCases ==
    {Case(RegistrationDescriptor(n), Descriptor(Registration), <<n>>) : n \in Runs}
    \cup {Case(NameDescriptor(n), Descriptor(<<All>>), <<n>>) : n \in Runs}
    \cup {Case(ServiceDescriptor(p, n), Descriptor(Service), <<p, n>>) : p \in Runs, n \in Runs}
    \cup {Case(ShortEventDescriptor(p, n), Descriptor(ShortEvent), <<p, n>>) :
              p \in Runs, n \in Runs}
    \cup {Case(ExtendedEventDescriptor(items, n), Descriptor(ExtendedEvent),
               FlattenSeq(items) \o <<n>>) :
              items \in UNION {[1..k -> [1..2 -> {0, 7, 40}]] : k \in 0..2}, n \in {0, 60}}
    \cup {Case(CaDescriptor(n), Descriptor(Ca), <<n>>) : n \in Runs}
    \cup {Case(Ac3Descriptor(p, n), Descriptor(Ac3), <<n>>) : p \in SUBSET Fixed, n \in Runs}
    \cup {Case(AacDescriptor(p, n), Descriptor(Aac), IF p # {} \/ n > 0 THEN <<n>> ELSE << >>) :
              p \in SUBSET {"aac_type", "saoc_de"}, n \in Runs}
    \cup {Case(PartialTransportStreamDescriptor, Descriptor(PartialTransportStream), << >>)}
    \cup UNION {{Case(Iso639LanguageDescriptor(k), Descriptor(Iso639Language), << >>),
                 Case(ServiceListDescriptor(k), Descriptor(ServiceList), << >>),
                 Case(ParentalRatingDescriptor(k), Descriptor(ParentalRating), << >>)} :
                    k \in Lists}
    \cup UNION {{Case(TeletextDescriptor(k), Descriptor(Teletext), << >>),
                 Case(SubtitlingDescriptor(k), Descriptor(Subtitling), << >>),
                 Case(ContentDescriptor(k), Descriptor(Content), << >>),
                 Case(LocalTimeOffsetDescriptor(k), Descriptor(LocalTimeOffset), << >>)} :
                    k \in Lists \ {0}}
Loops == UNION {[1..k -> {0, 6, 300}] : k \in 0..2}
TableCases ==
    {Case(BuildPat(k), ProgramAssociation, << >>) : k \in Lists}
    \cup {Case(BuildPmt(n, ns), ProgramMap, <<n>> \o ns) : n \in {0, 6, 300}, ns \in Loops}
    \cup {Case(BuildSdt(ns), ServiceDescription, ns) : ns \in Loops}
    \cup {Case(BuildNit(n, ns), NetworkInformation, <<n>> \o ns) : n \in {0, 6}, ns \in Loops}
    \cup {Case(BuildBat(n, ns), BouquetAssociation, <<n>> \o ns) : n \in {0, 6}, ns \in Loops}
    \cup {Case(BuildEitPf(ns), EventInformation, ns) : ns \in Loops}
    \cup {Case(BuildCat(n), ConditionalAccess, <<n>>) : n \in Runs}
    \cup {Case(BuildTsdt(n), StreamDescription, <<n>>) : n \in Runs}
    \cup {Case(BuildSit(n, ns), SelectionInformation, <<n>> \o ns) : n \in {0, 6}, ns \in Loops}
    \cup {Case(BuildTdt, TimeDate, << >>), Case(BuildDit, Discontinuity, << >>)}
    \cup {Case(BuildTot(n), TimeOffset, <<n>>) : n \in Runs}
    \cup {Case(BuildRst(k), RunningStatus, << >>) : k \in Lists}
    \cup {Case(BuildSt(n), Stuffing, <<n>>) : n \in Runs}

AdaptationParts == {"discontinuity_indicator", "pcr", "opcr", "splice_countdown",
                    "transport_private_data", "extension"}
ExtensionSets   == {{}, {"ltw"}, {"ltw", "piecewise_rate"}, {"seamless_splice"}}
PesParts        == {"optional_header", "pts", "dts", "escr", "trick_mode", "pes_extension"}
PesExtSets      == {{}, {"private_data", "p_std_buffer"}, {"pack_header", "extension_field_2"}}

Accepted(cases) == {c \in cases : c.in # Refused}
PacketCases ==
    Accepted({Case(EncodeAdaptationField(p \cup IF "extension" \in p THEN e ELSE {}, n, want),
                   <<Need(1), Read(1), Size, Fits(0), Into(AdaptationField)>>,
                   IF "transport_private_data" \in p THEN <<n>> ELSE << >>) :
                  p \in SUBSET AdaptationParts, e \in ExtensionSets,
                  n \in {0, 20, 180}, want \in {0, 1, 2, 184}})
    \cup Accepted({Case(EncodePes(p \cup IF "pes_extension" \in p THEN e ELSE {},
                                  pack, field2, 50, FALSE),
                        PesPacket,
                        (IF "pes_extension" \in p /\ "pack_header" \in e
                         THEN <<pack, field2>> ELSE << >>) \o <<50>>) :
                       p \in SUBSET PesParts, e \in PesExtSets,
                       pack \in {0, 100, 240}, field2 \in {0, 127, 128}})

Init ==
    /\ \E c \in AnyBytes \cup LoopCases \cup DescriptorCases \cup TableCases \cup PacketCases :
           /\ input = c.in
           /\ expected = c.runs
           /\ stack = <<Frame(c.layout, c.in.size, FALSE)>>
    /\ pos = 0
    /\ taken = << >>
    /\ verdict = "run"

Spec == Init /\ [][Next]_vars /\ WF_vars(Next)

------------------------------------------------------------------------------
(* No parser indexes a byte outside the slice it works on, and no part of  *)
(* one is given a slice that reaches outside that of the whole, whatever   *)
(* the lengths and counts among the bytes say: Rust would panic there.     *)
NoOverrun ==
    /\ pos <= Top.end
    /\ \A i \in 2..Len(stack) : stack[i].end <= stack[i - 1].end

(* Every parser comes to an end on every slice: each round of its loops    *)
(* moves on, and a part that fails is not tried again.                     *)
Terminates == <>(verdict # "run")

(* What a builder or encoder writes, the parser of its table, descriptor   *)
(* or header accepts and takes apart into the runs it was made of; and a   *)
(* loop of descriptors is walked to its end, however the bodies of them    *)
(* fail.                                                                   *)
ReadsBack ==
    verdict # "run" /\ input.lens # {} => verdict = "ok" /\ taken = expected
=============================================================================
