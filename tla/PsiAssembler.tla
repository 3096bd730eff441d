---------------------------- MODULE PsiAssembler ----------------------------
(***************************************************************************)
(* The PsiSectionAssembler of psi.rs: how the payloads of one PID become   *)
(* sections again, behind a channel that loses, repeats and damages        *)
(* packets.                                                                *)
(*                                                                         *)
(* A section is a sequence of cells, each the byte `val' at offset `off'   *)
(* of section `sec'; the program reads only `val'.  The first Header cells *)
(* hold the table_id and the section_length, as in the code.  The sender   *)
(* is any multiplexer that follows 2.4.4: it lays the sections out one     *)
(* after the other, may end a packet with stuffing after a section, and    *)
(* sets PUSI and the pointer_field in a packet where a section starts.     *)
(* The muxer of this crate (write_psi_packet) and its section fragmenter   *)
(* (build.rs) are two of them.                                             *)
(***************************************************************************)
EXTENDS Integers, Sequences, SequencesExt, FiniteSets

CONSTANTS
    Lengths,    \* the total lengths a section may have
    Sections,   \* number of sections in a stream
    Payload,    \* bytes in the payload of a packet, 184 in the code
    MaxLen,     \* MAX_PSI_SECTION_LEN
    CCMod,      \* values of the continuity counter
    Losses,     \* most packets the channel loses or damages
    Repeats,    \* most packets the channel delivers twice
    Straddle    \* TRUE: a packet may end within the header of a section

SizeAssumption ==
    /\ MaxLen \in Nat /\ Lengths \subseteq 3 .. MaxLen /\ Sections \in Nat
    /\ Payload \in Nat /\ Payload > 3
    /\ CCMod \in Nat /\ Losses \in Nat /\ Losses + 1 < CCMod
    /\ Repeats \in Nat /\ Straddle \in BOOLEAN

VARIABLES
    stream,     \* the cells of all the sections, one after the other
    at,         \* cells of the stream that were sent
    cc,         \* counter of the next packet
    losses, repeats,    \* what the channel did so far
    hit,        \* sections with a cell in a packet lost or damaged
    inFlight, targetLen, lastCC,    \* the assembler
    delivered,  \* every section it returned
    errors,     \* how often feed() returned SectionLengthOverrun
    packet      \* the packet just delivered, which may be repeated

sender    == <<stream, at, cc>>
channel   == <<losses, repeats, hit>>
assembler == <<inFlight, targetLen, lastCC>>
vars      == <<sender, channel, assembler, delivered, errors, packet>>

None     == -1
Header   == 3
Stuffing == [sec |-> 0, off |-> 0, val |-> 255]
NoPacket == [body |-> <<>>, pusi |-> FALSE, cc |-> 0]

Cells(k, n) ==
    [j \in 1 .. n |->
        [sec |-> k, off |-> j - 1, val |-> IF j = Header THEN n - Header ELSE 0]]

SectionCells(k) ==
    LET own == {j \in DOMAIN stream : stream[j].sec = k}
    IN  SubSeq(stream, Min(own), Max(own))

------------------------------------------------------------------------------
(* PsiSectionAssembler::feed and extend_in_flight.  The state of a call is *)
(* a record: the buffer, the target, the sections returned so far and      *)
(* whether the call failed.                                                *)

State(buf, target, out, err) == [buf |-> buf, target |-> target, out |-> out, err |-> err]

Overrun == State(<<>>, None, <<>>, TRUE)        \* Err(SectionLengthOverrun)

TotalLen(h) == 3 + (h[2].val % 16) * 256 + h[3].val

TooLong(total) == total > MaxLen

(* extend_in_flight, the part that knows the target length. *)
Gather(s, bytes) ==
    LET want == s.target - Len(s.buf)
        take == IF want < Len(bytes) THEN want ELSE Len(bytes)
        buf  == s.buf \o SubSeq(bytes, 1, take)
    IN  IF Len(buf) < s.target THEN [s EXCEPT !.buf = buf]
        ELSE State(<<>>, None, Append(s.out, buf), FALSE)

(* extend_in_flight. *)
ExtendInFlight(s, bytes) ==
    IF bytes = <<>> THEN s
    ELSE IF s.target # None THEN Gather(s, bytes)
    ELSE LET want == IF Len(s.buf) < Header THEN Header - Len(s.buf) ELSE 0
             take == IF want < Len(bytes) THEN want ELSE Len(bytes)
             head == s.buf \o SubSeq(bytes, 1, take)
             more == SubSeq(bytes, take + 1, Len(bytes))
         IN  IF Len(head) < Header THEN [s EXCEPT !.buf = head]
             ELSE IF TooLong(TotalLen(head)) THEN Overrun
             ELSE LET t == State(head, TotalLen(head), s.out, FALSE)
                  IN  IF more = <<>> THEN t ELSE Gather(t, more)

(* The loop of feed over the sections that start in `rest', with nothing   *)
(* in flight.                                                              *)
StartSections(out, rest) ==
    LET loop[i \in 1 .. Len(rest) + 1] ==
            LET left  == SubSeq(rest, i, Len(rest))
                total == TotalLen(left)
            IN  IF left = <<>> \/ left[1].val = 255 THEN State(<<>>, None, <<>>, FALSE)
                ELSE IF Len(left) < Header THEN State(left, None, <<>>, FALSE)
                ELSE IF TooLong(total) THEN Overrun
                ELSE IF Len(left) < total THEN State(left, total, <<>>, FALSE)
                ELSE LET later == loop[i + total] IN
                     IF later.err THEN Overrun
                     ELSE [later EXCEPT !.out = <<SubSeq(left, 1, total)>> \o @]
    IN  IF loop[1].err THEN Overrun ELSE [loop[1] EXCEPT !.out = out \o @]

(* A PUSI=1 payload: pointer_field, the end of the section in flight (or   *)
(* its loss), then the sections that start.                                *)
FeedStart(s, body) ==
    LET ptr  == body[1].val
        rest == Tail(body)
        s1   == IF s.buf # <<>> \/ s.target # None
                THEN ExtendInFlight(s, SubSeq(rest, 1, ptr)) ELSE s
    IN  IF ptr > Len(rest) THEN State(<<>>, None, <<>>, FALSE)
        ELSE IF s1.err THEN s1
        ELSE StartSections(s1.out, SubSeq(rest, ptr + 1, Len(rest)))

(* A PUSI=0 payload: skipped unless a section of known length is in        *)
(* flight.                                                                 *)
FeedContinuation(s, body) == IF s.target = None THEN s ELSE ExtendInFlight(s, body)

(* A skipped count discards what is in flight. *)
AfterAnyCount(count) ==         \* mutant: the counter is not looked at
    State(inFlight, targetLen, <<>>, FALSE)

AfterCountNoWrap(count) ==      \* mutant: the counter after 15 is not 0
    IF lastCC # None /\ count # lastCC + 1
    THEN State(<<>>, None, <<>>, FALSE)
    ELSE State(inFlight, targetLen, <<>>, FALSE)

AfterCount(count) ==
    IF lastCC # None /\ count # (lastCC + 1) % CCMod
    THEN State(<<>>, None, <<>>, FALSE)
    ELSE State(inFlight, targetLen, <<>>, FALSE)

Feed(p) ==
    LET s == IF p.pusi THEN FeedStart(AfterCount(p.cc), p.body)
                       ELSE FeedContinuation(AfterCount(p.cc), p.body)
    IN  /\ inFlight' = s.buf
        /\ targetLen' = s.target
        /\ lastCC' = p.cc
        /\ delivered' = delivered \o s.out
        /\ errors' = IF s.err THEN errors + 1 ELSE errors

------------------------------------------------------------------------------
(* The sender.  A packet holds the next n cells of the stream; it starts   *)
(* sections iff one of the n is the first of its section, and is filled    *)
(* with stuffing, which may only follow the end of a section.              *)
Starts(n)    == {j \in 1 .. n : stream[at + j].off = 0}
Room(n)      == IF Starts(n) = {} THEN Payload ELSE Payload - 1
EndsSection(i) == i \in {j \in DOMAIN stream : j = Len(stream) \/ stream[j + 1].off = 0}

Fits(n) ==
    /\ at + n <= Len(stream)
    /\ n <= Room(n)
    /\ n < Room(n) => EndsSection(at + n)
    /\ ~Straddle /\ ~EndsSection(at + n) => stream[at + n].off >= Header - 1

Packet(n) ==
    LET cells == SubSeq(stream, at + 1, at + n)
        first == CHOOSE j \in Starts(n) : \A k \in Starts(n) : j <= k
        fill  == [j \in 1 .. Room(n) - n |-> Stuffing]
    IN  IF Starts(n) = {}
        THEN [body |-> cells \o fill, pusi |-> FALSE, cc |-> cc]
        ELSE [body |-> <<[sec |-> 0, off |-> 0, val |-> first - 1]>> \o cells \o fill,
              pusi |-> TRUE, cc |-> cc]

SectionsIn(p) == {p.body[j].sec : j \in DOMAIN p.body} \ {0}

(* Damage the length fields or the pointer of a packet cannot be trusted   *)
(* with: a pointer past the payload, a section past MAX_PSI_SECTION_LEN.   *)
Damaged(p) ==
    IF ~p.pusi THEN {}
    ELSE {[p EXCEPT !.body[1].val = Payload]} \cup
         {[p EXCEPT !.body[j].val = MaxLen] :
             j \in {i \in DOMAIN p.body : p.body[i].off = Header - 1}}

Init ==
    /\ stream \in {FlattenSeq([k \in 1 .. Sections |-> Cells(k, n[k])]) :
                       n \in [1 .. Sections -> Lengths]}
    /\ at = 0 /\ cc = 0
    /\ losses = 0 /\ repeats = 0 /\ hit = {}
    /\ inFlight = <<>> /\ targetLen = None /\ lastCC = None
    /\ delivered = <<>> /\ errors = 0
    /\ packet = NoPacket

Send(n) ==
    /\ Fits(n)
    /\ at' = at + n
    /\ cc' = (cc + 1) % CCMod
    /\ UNCHANGED stream

Deliver ==
    \E n \in 1 .. Payload :
        /\ Send(n)
        /\ Feed(Packet(n))
        /\ packet' = Packet(n)
        /\ UNCHANGED channel

Lose ==
    /\ losses < Losses
    /\ \E n \in 1 .. Payload :
        /\ Send(n)
        /\ hit' = hit \cup SectionsIn(Packet(n))
    /\ losses' = losses + 1
    /\ packet' = NoPacket
    /\ UNCHANGED <<assembler, delivered, errors, repeats>>

Damage ==
    /\ losses < Losses
    /\ \E n \in 1 .. Payload :
        /\ Send(n)
        /\ \E p \in Damaged(Packet(n)) : Feed(p)
        /\ hit' = hit \cup SectionsIn(Packet(n))
    /\ losses' = losses + 1
    /\ packet' = NoPacket
    /\ UNCHANGED repeats

Repeat ==
    /\ repeats < Repeats
    /\ packet # NoPacket
    /\ Feed(packet)
    /\ packet' = NoPacket
    /\ repeats' = repeats + 1
    /\ UNCHANGED <<sender, losses, hit>>

Next == Deliver \/ Lose \/ Damage \/ Repeat

Spec == Init /\ [][Next]_vars

------------------------------------------------------------------------------
TypeOK ==
    /\ \A k \in 1 .. Sections : Len(SectionCells(k)) \in Lengths
    /\ at \in 0 .. Len(stream) /\ cc \in 0 .. CCMod - 1
    /\ losses \in 0 .. Losses /\ repeats \in 0 .. Repeats
    /\ hit \subseteq 1 .. Sections
    /\ targetLen \in Header .. MaxLen \cup {None}
    /\ lastCC \in 0 .. CCMod - 1 \cup {None}
    /\ Len(inFlight) < (IF targetLen = None THEN Header ELSE targetLen)
    /\ errors \in 0 .. Losses

(* The sections sent to their last cell. *)
Sent == {k \in 1 .. Sections : at > 0 /\ (stream[at].sec > k \/
                                 (stream[at].sec = k /\ EndsSection(at)))}

(* While no packet is repeated, feed() returns the sections that were      *)
(* sent, once, complete and in order, but for those that a lost or damaged *)
(* packet carried a part of: a loss costs no section but those it touched. *)
LossIsLocal ==
    repeats = 0 =>
        /\ {delivered[i][1].sec : i \in DOMAIN delivered} = Sent \ hit
        /\ \A i, j \in DOMAIN delivered :
               i < j => delivered[i][1].sec < delivered[j][1].sec

(* Every section feed() returns is one that was sent, never bytes of two,  *)
(* whatever is lost, damaged or repeated.                                  *)
NoMisassembly == \A i \in DOMAIN delivered : delivered[i] = SectionCells(delivered[i][1].sec)
==============================================================================
