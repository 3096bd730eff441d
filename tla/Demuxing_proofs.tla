--------------------------- MODULE Demuxing_proofs ---------------------------
(***************************************************************************)
(* What is proved of the demuxer's machines, in the names of Demuxing.     *)
(*                                                                         *)
(* The seek (module PcrSeek): its guarantees, for files of any length, any *)
(* program clock over less than one turn of a ring of any size, and any    *)
(* tail window.                                                            *)
(*                                                                         *)
(* The packet reader, the section assembler and the timeline, each proved  *)
(* in a module of its own: RP, SP and TP are R, S and T of Demuxing with   *)
(* their lemmas; that they are the same is shown definition by definition. *)
(***************************************************************************)
EXTENDS Demuxing, TLAPS

------------------------------------------------------------------------------
(* The seek.                                                               *)

HeadKnown == FirstOf(Carriers(0, Packets), first)
TailKnown == LastOf(Carriers(0, Packets), last)

(* What a member of Carriers is. *)
LEMMA CarrierRange ==
    ASSUME TypeOK, NEW a \in Int, NEW b \in Int, NEW k \in Carriers(a, b)
    PROVE  /\ k \in Packet /\ k \in Int /\ a <= k /\ k < b
           /\ pcr[k] \in 0 .. 2 * M - 1
           /\ k \in Carriers(0, Packets)
    BY SeekAssumption DEF TypeOK, Files, Carriers, Packet

(* The clock runs forward over less than a turn of the ring. *)
LEMMA ClockOrder ==
    ASSUME TypeOK, NEW j \in Carriers(0, Packets), NEW k \in Carriers(0, Packets), j < k
    PROVE  pcr[j] < pcr[k] /\ pcr[k] - pcr[j] < M
    BY DEF TypeOK, Files, Steady, Carriers

(* Unwrapping at the first PCR recovers the time elapsed since it: the     *)
(* ring arithmetic of pcr_ext_90k and of pcr_span_27mhz is exact.          *)
LEMMA UnwrapIsExact ==
    ASSUME TypeOK, HeadKnown, NEW k \in Carriers(0, Packets)
    PROVE  /\ PcrExt(k) = Elapsed(k) /\ PcrExt(k) \in Nat
           /\ Span(k) = pcr[k] - pcr[first] /\ Span(k) \in 0 .. M - 1
<1>1. first \in Carriers(0, Packets) /\ first <= k
    BY DEF HeadKnown, FirstOf
<1>2. pcr[k] \in 0 .. 2 * M - 1 /\ pcr[first] \in 0 .. 2 * M - 1
    BY <1>1, CarrierRange, SeekAssumption DEF Packet
<1>3. pcr[first] <= pcr[k] /\ pcr[k] - pcr[first] < M
    <2>1. CASE first = k
        BY <2>1, <1>2, SeekAssumption
    <2>2. CASE first < k
        BY <2>2, <1>1, <1>2, ClockOrder, SeekAssumption
    <2> QED BY <1>1, <2>1, <2>2, CarrierRange, SeekAssumption DEF Packet
<1> QED
    BY <1>2, <1>3, SeekAssumption DEF PcrExt, Elapsed, Span, base_90khz, Ring

(* The clock order, as the bisection sees it. *)
LEMMA ExtOrder ==
    ASSUME TypeOK, HeadKnown,
           NEW j \in Carriers(0, Packets), NEW k \in Carriers(0, Packets), j <= k
    PROVE  PcrExt(j) <= PcrExt(k)
<1>1. PcrExt(j) = Elapsed(j) /\ PcrExt(k) = Elapsed(k)
    BY UnwrapIsExact
<1>2. first \in Carriers(0, Packets)
    BY DEF HeadKnown, FirstOf
<1>3. /\ pcr[j] \in Int /\ pcr[k] \in Int /\ pcr[first] \in Int
      /\ j \in Int /\ k \in Int
    BY <1>2, CarrierRange, SeekAssumption DEF Packet
<1>4. pcr[j] <= pcr[k]
    BY <1>3, ClockOrder
<1>5. base_90khz(first) \in Int
    BY <1>3, SeekAssumption DEF base_90khz, Ring
<1> QED BY <1>1, <1>3, <1>4, <1>5 DEF Elapsed

(* The inductive invariant. *)
SpanKnown == Seekable => duration = pcr[last] - pcr[first]

SeekInvariant ==
    TypeOK /\ Anchored /\ Bracket /\ SpanKnown /\ NeverOvershoots /\ LandsNext

LEMMA InitialInvariant == Init => SeekInvariant
    BY SeekAssumption
    DEF Init, SeekInvariant, TypeOK, Packet, Anchored, Seekable, Bracket,
        SpanKnown, NeverOvershoots, LandsNext

(* While the file and the anchors stay, so does everything said of them.   *)
LEMMA FrameRule ==
    ASSUME UNCHANGED probe
    PROVE  /\ HeadKnown' = HeadKnown /\ TailKnown' = TailKnown
           /\ \A k \in Packet : PcrExt(k)' = PcrExt(k) /\ Elapsed(k)' = Elapsed(k)
           /\ \A a, b : Carriers(a, b)' = Carriers(a, b)
    BY DEF probe, HeadKnown, TailKnown, FirstOf, LastOf, Carriers, PcrExt, Elapsed, base_90khz

(* The probe of the head finds the first PCR. *)
LEMMA HeadStep ==
    ASSUME SeekInvariant, ProbeHead
    PROVE  SeekInvariant'
<1>1. pc = "open" /\ pc' \in {"unseekable", "tail"}
    BY DEF ProbeHead
<1>2. TypeOK'
    BY DEF SeekInvariant, TypeOK, ProbeHead, search
<1>3. pc' = "tail" => HeadKnown'
    BY DEF ProbeHead, HeadKnown, FirstOf, Carriers
<1> QED
    BY <1>1, <1>2, <1>3
    DEF SeekInvariant, Anchored, HeadKnown, Seekable, Bracket, SpanKnown,
        NeverOvershoots, LandsNext

(* An empty tail window is doubled. *)
LEMMA EmptyTailStep ==
    ASSUME SeekInvariant, ProbeTailEmpty
    PROVE  SeekInvariant'
<1>1. pc = "tail" /\ pc' \in {"unseekable", "tail"}
    BY DEF ProbeTailEmpty
<1>2. TypeOK'
    BY SeekAssumption DEF SeekInvariant, TypeOK, ProbeTailEmpty, search
<1>3. HeadKnown'
    BY <1>1 DEF ProbeTailEmpty, SeekInvariant, Anchored, HeadKnown, FirstOf, Carriers
<1> QED
    BY <1>1, <1>2, <1>3
    DEF SeekInvariant, Anchored, HeadKnown, Seekable, Bracket, SpanKnown,
        NeverOvershoots, LandsNext

(* The last PCR of a tail window is the last PCR of the file, and the span *)
(* to it is the time that passes.                                          *)
LEMMA FoundTailStep ==
    ASSUME SeekInvariant, ProbeTailFound
    PROVE  SeekInvariant'
<1>1. PICK k \in Packet :
          /\ LastOf(Carriers(TailStart, Packets), k)
          /\ IF k <= first
             THEN pc' = "unseekable" /\ UNCHANGED <<last, duration>>
             ELSE pc' = "ready" /\ last' = k /\ duration' = Span(k)
    BY DEF ProbeTailFound
<1>2. pc = "tail" /\ UNCHANGED <<pcr, window, first, search>>
    BY DEF ProbeTailFound
<1>3. HeadKnown /\ TypeOK
    BY <1>2 DEF SeekInvariant, Anchored, HeadKnown
<1>4. TailStart \in Int
    BY <1>3, SeekAssumption DEF TypeOK, TailStart
<1>5. k \in Carriers(0, Packets) /\ LastOf(Carriers(0, Packets), k)
    <2>1. k \in Carriers(TailStart, Packets) /\ k \in Carriers(0, Packets)
        BY <1>1, <1>3, <1>4, CarrierRange, SeekAssumption DEF LastOf
    <2>2. ASSUME NEW j \in Carriers(0, Packets) PROVE j <= k
        BY <1>1, <1>4, <2>1, SeekAssumption DEF LastOf, Carriers, Packet
    <2> QED BY <2>1, <2>2 DEF LastOf
<1>6. Span(k) = pcr[k] - pcr[first] /\ Span(k) \in 0 .. M - 1
    BY <1>3, <1>5, UnwrapIsExact
<1>7. TypeOK'
    BY <1>1, <1>2, <1>3, <1>6 DEF TypeOK, search
<1>8. HeadKnown'
    BY <1>2, <1>3 DEF HeadKnown, FirstOf, Carriers
<1>9. pc' = "ready" => TailKnown' /\ duration' = pcr'[last'] - pcr'[first']
    BY <1>1, <1>2, <1>5, <1>6 DEF TailKnown, LastOf, Carriers
<1>10. pc' \in {"ready", "unseekable"}
    BY <1>1
<1> QED
    BY <1>7, <1>8, <1>9, <1>10
    DEF SeekInvariant, Anchored, HeadKnown, TailKnown, Seekable, Bracket, SpanKnown,
        NeverOvershoots, LandsNext

(* What every step between the anchors relies on. *)
LEMMA Anchors ==
    ASSUME SeekInvariant, Seekable
    PROVE  /\ TypeOK /\ HeadKnown /\ TailKnown
           /\ first \in Carriers(0, Packets) /\ last \in Carriers(0, Packets)
           /\ first <= last
           /\ duration = pcr[last] - pcr[first]
    BY DEF SeekInvariant, Anchored, Seekable, SpanKnown, HeadKnown, TailKnown, FirstOf, LastOf

(* A step of a seek keeps the anchors and the duration. *)
LEMMA AnchorsStay ==
    ASSUME SeekInvariant, Seekable, Seekable', UNCHANGED probe
    PROVE  Anchored' /\ SpanKnown'
<1>1. HeadKnown' /\ TailKnown'
    BY Anchors, FrameRule
<1>2. duration' = pcr'[last'] - pcr'[first']
    BY Anchors DEF probe
<1> QED BY <1>1, <1>2 DEF Anchored, SpanKnown, HeadKnown, TailKnown

(* A landing that is the last PCR at or before the target, or that has no  *)
(* later PCR at or before it but in the next packet.                       *)
LEMMA SeekStep ==
    ASSUME SeekInvariant, NEW t \in Nat, Seek(t)
    PROVE  SeekInvariant'
<1>1. Seekable /\ Seekable' /\ UNCHANGED probe /\ target' = t
    BY DEF Seek, Seekable
<1>2. /\ TypeOK /\ HeadKnown /\ TailKnown /\ first <= last
      /\ first \in Carriers(0, Packets) /\ last \in Carriers(0, Packets)
    BY <1>1, Anchors
<1>3. TypeOK'
    BY <1>1, <1>2, SeekAssumption DEF TypeOK, Seek, probe, Packet
<1>4. first \in Packet /\ last \in Packet /\ first \in Int /\ last \in Int
    BY <1>2 DEF TypeOK, Packet
<1>5. PcrExt(first) \in Nat /\ PcrExt(last) \in Nat
    BY <1>2, UnwrapIsExact
<1>6. Bracket'
    <2> SUFFICES ASSUME pc' = "search" PROVE Bracket'
        BY DEF Bracket
    <2>1. /\ lo' = first /\ hi' = last /\ best' = first
          /\ ~(t <= PcrExt(first)) /\ ~(t >= PcrExt(last))
        BY DEF Seek
    <2>2. \A k \in Carriers(last, Packets) : PcrExt(k) > t
        <3> TAKE k \in Carriers(last, Packets)
        <3>1. k \in Carriers(0, Packets) /\ last <= k
            BY <1>2, <1>4, CarrierRange, SeekAssumption
        <3>2. k = last
            BY <1>2, <1>4, <3>1 DEF TailKnown, LastOf, Carriers, Packet
        <3> QED BY <2>1, <3>2, <1>5
    <2>3. /\ \A k \in Packet : PcrExt(k)' = PcrExt(k)
          /\ \A a, b : Carriers(a, b)' = Carriers(a, b)
        BY <1>1, FrameRule
    <2>4. PcrExt(first)' = PcrExt(first) /\ first' = first
        BY <2>3, <1>1, <1>4 DEF probe
    <2>5. \A k \in Carriers(hi, Packets)' : PcrExt(k)' > target'
        BY <1>1, <2>1, <2>2, <2>3 DEF Carriers, probe
    <2>7. best' \in Carriers(0, Packets)'
        BY <1>1, <1>2, <2>1 DEF Carriers, probe
    <2>6. PcrExt(best)' <= target'
        BY <2>1, <2>4, <1>1, <1>5 DEF PcrExt, base_90khz, probe
    <2> QED BY <1>2, <1>4, <2>1, <2>5, <2>6, <2>7 DEF Bracket
<1>7. NeverOvershoots' /\ LandsNext'
    <2> SUFFICES ASSUME pc' = "landed" PROVE NeverOvershoots' /\ LandsNext'
        BY DEF NeverOvershoots, LandsNext
    <2>1. CASE best' = first /\ t <= PcrExt(first)
        <3>1. \A k \in Carriers(first + 2, Packets) : Elapsed(k) > t
            <4> TAKE k \in Carriers(first + 2, Packets)
            <4>1. k \in Carriers(0, Packets) /\ first < k /\ k \in Int
                BY <1>2, <1>4, CarrierRange, SeekAssumption
            <4>2. pcr[first] < pcr[k]
                BY <1>2, <4>1, ClockOrder
            <4>3. pcr[first] \in Int /\ pcr[k] \in Int
                BY <1>2, <4>1, CarrierRange, SeekAssumption
            <4>4. Elapsed(k) = PcrExt(k) /\ Elapsed(first) = PcrExt(first)
                BY <1>2, <4>1, UnwrapIsExact
            <4>5. base_90khz(first) \in Int
                BY <4>3, SeekAssumption DEF base_90khz, Ring
            <4> QED BY <2>1, <4>2, <4>3, <4>4, <4>5 DEF Elapsed
        <3> QED BY <1>1, <1>2, <2>1, <3>1
                DEF NeverOvershoots, LandsNext, Elapsed, base_90khz, Carriers, probe
    <2>2. CASE best' = last /\ t >= PcrExt(last)
        <3>1. \A k \in Carriers(last + 2, Packets) : FALSE
            BY <1>2, <1>4, SeekAssumption DEF TailKnown, LastOf, Carriers, Packet
        <3>2. Elapsed(last) <= t
            BY <1>2, <2>2, UnwrapIsExact
        <3> QED BY <1>1, <1>2, <2>2, <3>1, <3>2
                DEF NeverOvershoots, LandsNext, Elapsed, base_90khz, Carriers, probe
    <2> QED BY <2>1, <2>2 DEF Seek
<1>8. Anchored' /\ SpanKnown'
    BY <1>1, AnchorsStay
<1> QED BY <1>3, <1>6, <1>7, <1>8 DEF SeekInvariant

(* The facts a turn of the loop starts from. *)
LEMMA Searching ==
    ASSUME SeekInvariant, pc = "search"
    PROVE  /\ Seekable /\ TypeOK /\ HeadKnown
           /\ lo \in Int /\ hi \in Int /\ best \in Int /\ target \in Int
           /\ best \in Packet /\ hi <= Packets
           /\ lo <= hi /\ lo \in {best, best + 1}
           /\ best \in Carriers(0, Packets) /\ PcrExt(best) <= target
           /\ \A k \in Carriers(hi, Packets) : PcrExt(k) > target
           /\ hi - lo > 1 => Mid \in Int /\ lo <= Mid /\ Mid < hi
    BY Anchors, SeekAssumption
    DEF SeekInvariant, Seekable, TypeOK, Bracket, Packet, Mid

(* Either end of the bracket moves inward. *)
LEMMA HiMovesDown ==
    ASSUME NEW l \in Int, NEW h \in Int, NEW m \in Int, NEW x \in Int,
           l <= m, m <= x, x < h
    PROVE  l <= x /\ x + l < h + l
    OBVIOUS

LEMMA LoMovesUp ==
    ASSUME NEW l \in Int, NEW h \in Int, NEW m \in Int, NEW x \in Int,
           l <= m, m <= x, x < h
    PROVE  x + 1 \in Int /\ x + 1 <= h /\ h + l < h + (x + 1)
    OBVIOUS

LEMMA InRange ==
    ASSUME NEW l \in Int, NEW h \in Int, NEW b \in Packet, l \in {b, b + 1}, l <= h, h <= Packets
    PROVE  l \in 0 .. Packets /\ h \in 0 .. Packets
    BY SeekAssumption DEF Packet

(* A turn of the loop keeps the bracket and narrows it. *)
LEMMA BisectStep ==
    ASSUME SeekInvariant, BisectSparse \/ BisectBelow \/ BisectAbove
    PROVE  SeekInvariant' /\ NarrowsStep
<1>1. /\ pc = "search" /\ hi - lo > 1 /\ UNCHANGED <<pc, target, probe>>
      /\ Seekable /\ Seekable'
    BY DEF BisectSparse, BisectBelow, BisectAbove, Seekable
<1>2. \A k \in Packet : PcrExt(k)' = PcrExt(k)
    BY <1>1, FrameRule
<1>3. ASSUME BisectSparse
      PROVE  /\ best' = best /\ lo' = lo /\ hi' = Mid
             /\ \A k \in Carriers(Mid, Packets) : PcrExt(k) > target
    BY <1>1, <1>3, Searching DEF BisectSparse, Carriers, Packet
<1>4. ASSUME BisectBelow
      PROVE  /\ best' \in Carriers(Mid, hi) /\ lo' = best' + 1 /\ hi' = hi
             /\ PcrExt(best') <= target
    BY <1>4 DEF BisectBelow, FirstOf
<1>5. ASSUME BisectAbove
      PROVE  /\ best' = best /\ lo' = lo /\ hi' \in Carriers(Mid, hi)
             /\ \A k \in Carriers(hi', Packets) : PcrExt(k) > target
    <2>1. PICK k \in Packet :
              FirstOf(Carriers(Mid, hi), k) /\ PcrExt(k) > target /\ hi' = k
        BY <1>5 DEF BisectAbove
    <2>2. k \in Carriers(Mid, hi) /\ k \in Carriers(0, Packets) /\ k \in Int
        BY <1>1, <2>1, Searching, CarrierRange DEF FirstOf
    <2>3. ASSUME NEW j \in Carriers(k, Packets) PROVE PcrExt(j) > target
        <3>1. j \in Carriers(0, Packets) /\ k <= j
            BY <1>1, <2>2, Searching, CarrierRange, SeekAssumption
        <3>2. PcrExt(k) <= PcrExt(j) /\ PcrExt(k) \in Nat /\ PcrExt(j) \in Nat
            BY <1>1, <2>2, <3>1, Searching, ExtOrder, UnwrapIsExact
        <3> QED BY <1>1, <2>1, <3>2, Searching
    <2> QED BY <1>5, <2>1, <2>2, <2>3 DEF BisectAbove
<1>6. /\ lo \in Int /\ hi \in Int /\ best \in Packet /\ lo \in {best, best + 1}
      /\ Mid \in Int /\ lo <= Mid /\ Mid < hi /\ hi <= Packets
      /\ best \in Carriers(0, Packets) /\ PcrExt(best) <= target
      /\ \A k \in Carriers(hi, Packets) : PcrExt(k) > target
    BY <1>1, Searching
<1>11. /\ lo' \in Int /\ hi' \in Int /\ best' \in Packet
       /\ lo' <= hi' /\ lo' \in {best', best' + 1} /\ hi' <= Packets
       /\ hi' + lo < hi + lo'
    <2>1. CASE BisectSparse
        <3>1. best' = best /\ lo' = lo /\ hi' = Mid
            BY <1>3, <2>1
        <3>2. lo <= Mid /\ Mid + lo < hi + lo /\ Mid <= Packets
            BY <1>6, HiMovesDown, SeekAssumption
        <3> QED BY <1>6, <3>1, <3>2
    <2>2. CASE BisectBelow
        <3>1. best' \in Packet /\ best' \in Int /\ Mid <= best' /\ best' < hi
            BY <1>1, <1>4, <1>6, <2>2, Searching, CarrierRange
        <3>2. lo' = best' + 1 /\ hi' = hi
            BY <1>4, <2>2
        <3>3. best' + 1 \in Int /\ best' + 1 <= hi /\ hi + lo < hi + (best' + 1)
            BY <1>6, <3>1, LoMovesUp
        <3> QED BY <1>6, <3>1, <3>2, <3>3
    <2>3. CASE BisectAbove
        <3>1. hi' \in Int /\ Mid <= hi' /\ hi' < hi
            BY <1>1, <1>5, <1>6, <2>3, Searching, CarrierRange
        <3>2. lo' = lo /\ best' = best
            BY <1>5, <2>3
        <3>3. lo <= hi' /\ hi' + lo < hi + lo
            BY <1>6, <3>1, HiMovesDown
        <3>4. hi' <= Packets
            BY <1>6, <3>1, SeekAssumption
        <3> QED BY <1>6, <3>1, <3>2, <3>3, <3>4
    <2> QED BY <2>1, <2>2, <2>3
<1>12. /\ best' \in Carriers(0, Packets) /\ PcrExt(best') <= target
       /\ \A k \in Carriers(hi', Packets) : PcrExt(k) > target
    <2>1. CASE BisectSparse
        BY <1>3, <1>6, <2>1
    <2>2. CASE BisectBelow
        <3>1. best' \in Carriers(0, Packets)
            BY <1>1, <1>4, <1>6, <2>2, Searching, CarrierRange
        <3> QED BY <1>4, <1>6, <2>2, <3>1
    <2>3. CASE BisectAbove
        BY <1>5, <1>6, <2>3
    <2> QED BY <2>1, <2>2, <2>3
<1>7. TypeOK'
    <2>1. lo' \in 0 .. Packets /\ hi' \in 0 .. Packets
        BY <1>11, InRange
    <2> QED BY <1>1, <1>11, <2>1, Searching DEF TypeOK, probe
<1>8. Bracket'
    <2>1. \A k \in Carriers(hi, Packets)' : PcrExt(k)' > target'
        BY <1>1, <1>2, <1>12 DEF Carriers, probe
    <2>2. PcrExt(best)' <= target'
        BY <1>1, <1>12 DEF PcrExt, base_90khz, probe
    <2>3. best' \in Carriers(0, Packets)'
        BY <1>1, <1>12 DEF Carriers, probe
    <2> QED BY <1>11, <2>1, <2>2, <2>3 DEF Bracket
<1>9. NarrowsStep
    BY <1>11 DEF NarrowsStep
<1>10. NeverOvershoots' /\ LandsNext'
    BY <1>1 DEF NeverOvershoots, LandsNext
<1> QED BY <1>1, <1>7, <1>8, <1>9, <1>10, AnchorsStay DEF SeekInvariant

(* When the loop ends only the packet at lo is left unexamined. *)
LEMMA LandStep ==
    ASSUME SeekInvariant, Land
    PROVE  SeekInvariant'
<1>1. /\ pc = "search" /\ pc' = "landed" /\ hi - lo <= 1 /\ UNCHANGED <<probe, search>>
      /\ Seekable /\ Seekable'
    BY DEF Land, Seekable
<1>2. TypeOK'
    BY <1>1 DEF SeekInvariant, TypeOK, probe, search
<1>3. Elapsed(best) <= target
    BY <1>1, Searching, UnwrapIsExact
<1>4. ASSUME NEW k \in Carriers(best + 2, Packets) PROVE Elapsed(k) > target
    <2>1. k \in Carriers(0, Packets) /\ k \in Carriers(hi, Packets)
        BY <1>1, Searching DEF Carriers, Packet
    <2> QED BY <1>1, <2>1, Searching, UnwrapIsExact
<1>5. NeverOvershoots' /\ LandsNext'
    BY <1>1, <1>3, <1>4, Searching
    DEF NeverOvershoots, LandsNext, Elapsed, base_90khz, Carriers, probe, search
<1>6. Bracket'
    BY <1>1 DEF Bracket
<1> QED BY <1>1, <1>2, <1>5, <1>6, AnchorsStay DEF SeekInvariant

(* A stuttering step changes nothing. *)
LEMMA StutterStep ==
    ASSUME SeekInvariant, UNCHANGED vars
    PROVE  SeekInvariant'
    BY DEF vars, SeekInvariant, TypeOK, Anchored, Seekable, Bracket, SpanKnown,
           NeverOvershoots, LandsNext, FirstOf, LastOf, Carriers, PcrExt, Elapsed,
           base_90khz

(* Every step keeps the invariant, and every turn of the loop narrows. *)
LEMMA InvariantStep ==
    ASSUME SeekInvariant, [Next]_vars
    PROVE  SeekInvariant' /\ [NarrowsStep]_vars
<1>1. CASE ProbeHead
    BY <1>1, HeadStep DEF ProbeHead, NarrowsStep
<1>2. CASE ProbeTailEmpty
    BY <1>2, EmptyTailStep DEF ProbeTailEmpty, NarrowsStep
<1>3. CASE ProbeTailFound
    BY <1>3, FoundTailStep DEF ProbeTailFound, NarrowsStep
<1>4. CASE BisectSparse \/ BisectBelow \/ BisectAbove
    BY <1>4, BisectStep
<1>5. CASE Land
    BY <1>5, LandStep DEF Land, NarrowsStep
<1>6. ASSUME NEW t \in 0 .. 2 * M, Seek(t)
      PROVE  SeekInvariant' /\ NarrowsStep
    <2>1. t \in Nat
        BY SeekAssumption
    <2> QED BY <1>6, <2>1, SeekStep DEF Seek, NarrowsStep
<1>7. CASE UNCHANGED vars
    BY <1>7, StutterStep
<1> QED BY <1>1, <1>2, <1>3, <1>4, <1>5, <1>6, <1>7 DEF Next, Probe, Bisect

(* The anchors are the ends of the clock, so their distance bounds all.    *)
LEMMA SpanIsExact == SeekInvariant => DurationIsExact
<1> SUFFICES ASSUME SeekInvariant, Seekable
             PROVE  /\ \A j, k \in Carriers(0, Packets) : pcr[k] - pcr[j] <= duration
                    /\ \E j, k \in Carriers(0, Packets) : pcr[k] - pcr[j] = duration
    BY DEF DurationIsExact
<1>1. /\ TypeOK /\ duration = pcr[last] - pcr[first]
      /\ first \in Carriers(0, Packets) /\ last \in Carriers(0, Packets)
      /\ \A k \in Carriers(0, Packets) : first <= k /\ k <= last
    BY Anchors DEF HeadKnown, TailKnown, FirstOf, LastOf
<1>2. \A k \in Carriers(0, Packets) : k \in Int /\ pcr[k] \in Int
    BY <1>1, CarrierRange, SeekAssumption
<1>3. ASSUME NEW j \in Carriers(0, Packets), NEW k \in Carriers(0, Packets), j <= k
      PROVE  pcr[j] <= pcr[k]
    BY <1>1, <1>2, <1>3, ClockOrder
<1>4. ASSUME NEW j \in Carriers(0, Packets), NEW k \in Carriers(0, Packets)
      PROVE  pcr[k] - pcr[j] <= duration
    <2>1. pcr[first] <= pcr[j] /\ pcr[k] <= pcr[last]
        BY <1>1, <1>3
    <2> QED BY <1>1, <1>2, <2>1
<1> QED BY <1>1, <1>4

(* The loop invariant of the bisection and the exactness of the duration   *)
(* hold in every state of every run of locate_pcr_at_or_before, for every  *)
(* file and target.                                                        *)
THEOREM SeekCorrect == Spec => [](TypeOK /\ Bracket /\ DurationIsExact)
<1>1. SeekInvariant => TypeOK /\ Bracket /\ DurationIsExact
    BY SpanIsExact DEF SeekInvariant
<1> QED BY <1>1, InitialInvariant, InvariantStep, PTL DEF Spec

(* What a caller of seek_by_pcr relies on: the landing is at or before the *)
(* target and no PCR but one in the next packet lies between them.         *)
THEOREM LandingCorrect == Spec => []LandingIsExact
<1>1. SeekInvariant => LandingIsExact
    BY DEF SeekInvariant, LandingIsExact
<1> QED BY <1>1, InitialInvariant, InvariantStep, PTL DEF Spec

(* The loop of locate_pcr_at_or_before narrows its bracket in every turn,  *)
(* so it ends within as many turns as the file has packets.                *)
THEOREM LoopNarrows == Spec => Narrows
    BY InitialInvariant, InvariantStep, PTL DEF Spec, Narrows

------------------------------------------------------------------------------
(* The timeline, the reader and the assembler, in the names of Demuxing.   *)
TP == INSTANCE Timeline_proofs WITH M <- Turn
RP == INSTANCE PacketReader_proofs WITH Packets <- FilePackets, pc <- reading
SP == INSTANCE PsiAssembler_proofs WITH Straddle <- CutHeaders, stream <- sections

------------------------------------------------------------------------------
(* The timeline.                                                           *)
LEMMA SameTimeline ==
    /\ T!vars = TP!vars
    /\ T!Init <=> TP!Init
    /\ T!Next <=> TP!Next
    /\ T!PtsExact <=> TP!PtsExact
    /\ (T!SameAxis /\ T!IndexAxis /\ T!PcrAxis) <=> (TP!SameAxis /\ TP!IndexAxis /\ TP!PcrAxis)
<1>1. T!vars = TP!vars
    BY DEF T!vars, TP!vars
<1>2. T!Init <=> TP!Init
    BY DEF T!None, TP!None, T!NewTracker, TP!NewTracker, T!Unit, TP!Unit, T!FirstUnits,
           TP!FirstUnits, T!Init, TP!Init
<1>3. T!Reveal <=> TP!Reveal
    BY DEF T!Unit, TP!Unit, T!LaterUnits, TP!LaterUnits, T!Reveal, TP!Reveal
<1>4. T!FinishPes <=> TP!FinishPes
    BY DEF T!None, TP!None, T!Threshold, TP!Threshold, T!NewTracker, TP!NewTracker,
           T!Seeded, TP!Seeded, T!Extended, TP!Extended, T!AbsDiff, TP!AbsDiff,
           T!NearestEpoch, TP!NearestEpoch, T!TimestampEvent, TP!TimestampEvent,
           T!ObserveTimestamp, TP!ObserveTimestamp, T!DtsTracker, TP!DtsTracker,
           T!FinishPes, TP!FinishPes
<1>5. T!SeekByPcr <=> TP!SeekByPcr
    BY DEF T!None, TP!None, T!NewTracker, TP!NewTracker, T!Seeded, TP!Seeded, T!PcrExt,
           TP!PcrExt, T!Reposition, TP!Reposition, T!WithinOneTurn, TP!WithinOneTurn,
           T!SeekByPcr, TP!SeekByPcr
<1>6. T!SeekToAccessPoint <=> TP!SeekToAccessPoint
    BY DEF T!None, TP!None, T!NewTracker, TP!NewTracker, T!Seeded, TP!Seeded, T!AbsDiff,
           TP!AbsDiff, T!NearestEpoch, TP!NearestEpoch, T!ExtendNear, TP!ExtendNear,
           T!IndexPts, TP!IndexPts, T!Reposition, TP!Reposition, T!SeekToAccessPoint,
           TP!SeekToAccessPoint
<1>7. T!Next <=> TP!Next
    BY <1>3, <1>4, <1>5, <1>6, Zenon DEF T!Next, TP!Next
<1>8. T!PtsExact <=> TP!PtsExact
    BY DEF T!PtsExact, TP!PtsExact
<1>9. T!SameAxis <=> TP!SameAxis
    BY DEF T!SameAxis, TP!SameAxis, T!None, TP!None
<1>10. T!IndexAxis <=> TP!IndexAxis
    BY DEF T!AbsDiff, TP!AbsDiff, T!NearestEpoch, TP!NearestEpoch, T!ExtendNear,
           TP!ExtendNear, T!IndexPts, TP!IndexPts, T!IndexAxis, TP!IndexAxis
<1>11. T!PcrAxis <=> TP!PcrAxis
    BY DEF T!PcrExt, TP!PcrExt, T!WithinOneTurn, TP!WithinOneTurn, T!PcrAxis, TP!PcrAxis
<1> QED BY <1>1, <1>2, <1>7, <1>8, <1>9, <1>10, <1>11, Zenon

(* Where no frame is shown out of order the timeline's stream is linear.   *)
LEMMA LinearTimeline ==
    ASSUME Reorder = FALSE, Straddle = FALSE
    PROVE  TP!Linear
    BY TimelineAssumption
    DEF TP!Linear, T!ModulusAssumption, TP!ModulusAssumption, T!StepAssumption,
        TP!StepAssumption

(* The demuxer's PTS, DTS, access-point index and PCRs are on one axis and *)
(* are the true times, whichever units and seeks there are, when PTS do    *)
(* not go back and no wrap falls between the first PCR and the first PTS   *)
(* (demuxer.rs: finish_pes, reposition; clock.rs: PtsTracker).             *)
THEOREM DemuxerTimesAreTrue ==
    ASSUME Reorder = FALSE, Straddle = FALSE
    PROVE  AllSpec => [](PtsExact /\ AxesAgree)
<1> DEFINE Inv == machine = "timeline" => TP!TimelineInvariant
<1>1. TP!Linear
    BY LinearTimeline
<1>2. AllInit => Inv
    <2> SUFFICES ASSUME AllInit, machine = "timeline" PROVE TP!TimelineInvariant
        OBVIOUS
    <2>1. T!Init
        BY DEF AllInit
    <2> QED BY <1>1, <2>1, SameTimeline, TP!InitialInvariant
<1>3. Inv /\ [AllNext]_allVars => Inv'
    <2> SUFFICES ASSUME Inv, [AllNext]_allVars, machine' = "timeline"
                 PROVE  TP!TimelineInvariant'
        OBVIOUS
    <2>1. machine = "timeline" /\ [T!Next]_(T!vars)
        BY DEF AllNext, allVars, timeVars, T!vars, ReaderAlone, PsiAlone, TimeAlone, SeekAlone
    <2>2. [TP!Next]_(TP!vars)
        BY <2>1, SameTimeline DEF T!vars, TP!vars
    <2> QED BY <1>1, <2>1, <2>2, TP!StepKeepsInvariant
<1>4. Inv => PtsExact /\ AxesAgree
    <2> SUFFICES ASSUME Inv, machine = "timeline"
                 PROVE  T!PtsExact /\ T!SameAxis /\ T!IndexAxis /\ T!PcrAxis
        BY DEF PtsExact, AxesAgree
    <2>1. TP!PtsExact /\ TP!SameAxis /\ TP!IndexAxis /\ TP!PcrAxis
        BY <1>1, TP!InvariantGivesProperties
    <2> QED BY <2>1, SameTimeline, Zenon
<1> QED BY <1>2, <1>3, <1>4, PTL DEF AllSpec

(* The four ways the demuxer unwraps a time are one axis: DTS, the index   *)
(* of access points and the PCRs are where the PTS are, before a seek and  *)
(* behind it (demuxer.rs: finish_pes, scan_random_access_points; clock.rs: *)
(* PtsTracker::observe, extend_near).                                      *)
THEOREM DemuxerAxesAgree ==
    ASSUME Reorder = FALSE, Straddle = FALSE
    PROVE  AllSpec => []AxesAgree
<1>1. PtsExact /\ AxesAgree => AxesAgree
    OBVIOUS
<1> QED BY <1>1, DemuxerTimesAreTrue, PTL

------------------------------------------------------------------------------
(* The packet reader.                                                      *)
LEMMA SameReader ==
    /\ R!vars = RP!vars
    /\ R!Init <=> RP!Init
    /\ R!Next <=> RP!Next
    /\ R!Clear <=> RP!Clear
    /\ R!LongCorruptionIsReported <=> RP!LongCorruptionIsReported
<1>1. R!vars = RP!vars
    BY DEF R!vars, RP!vars
<1>2. R!Init <=> RP!Init
    <2>1. R!Coincidental = RP!Coincidental
        BY DEF R!Coincidental, RP!Coincidental
    <2>2. \A k : R!SyncPosition(k) = RP!SyncPosition(k)
        BY DEF R!SyncPosition, RP!SyncPosition
    <2>3. \A s, tail, c : R!FileOf(s, tail, c) = RP!FileOf(s, tail, c)
        BY <2>2 DEF R!FileOf, RP!FileOf
    <2>4. \A s : R!Files(s) = RP!Files(s)
        BY <2>1, <2>3 DEF R!Files, RP!Files
    <2> QED BY <2>4 DEF R!Init, RP!Init
<1>3. R!ReadOnePacket <=> RP!ReadOnePacket
    BY DEF R!Err, RP!Err, R!Input, RP!Input, R!IsSync, RP!IsSync, R!Return, RP!Return,
           R!ReadOnePacket, RP!ReadOnePacket
<1>4. R!ResyncChunk <=> RP!ResyncChunk
    BY DEF R!Err, RP!Err, R!ProbeLen, RP!ProbeLen, R!Input, RP!Input, R!IsSync, RP!IsSync,
           R!Return, RP!Return, R!Reject, RP!Reject, R!PushBack, RP!PushBack, R!ResyncChunk,
           RP!ResyncChunk
<1>5. R!ResyncFails <=> RP!ResyncFails
    BY DEF R!Err, RP!Err, R!Return, RP!Return, R!ResyncFails, RP!ResyncFails
<1>6. R!FinishOpen <=> RP!FinishOpen
    BY DEF R!Position, RP!Position, R!FinishOpen, RP!FinishOpen
<1>7. R!Next <=> RP!Next
    BY <1>3, <1>4, <1>5, <1>6, Zenon DEF R!Next, RP!Next
<1>8. R!Clear <=> RP!Clear
    BY DEF R!Clear, RP!Clear, R!Lone, RP!Lone, R!SyncPosition, RP!SyncPosition
<1>9. R!LongCorruptionIsReported <=> RP!LongCorruptionIsReported
    BY <1>8 DEF R!LongCorruptionIsReported, RP!LongCorruptionIsReported, R!Err, RP!Err,
                R!ProbeLen, RP!ProbeLen
<1> QED BY <1>1, <1>2, <1>7, <1>8, <1>9

(* Both instances number the delivered packets alike.                      *)
LEMMA SameNumbers == R!Numbers = RP!Numbers /\ R!Numbers' = RP!Numbers'
    BY DEF R!Err, RP!Err, R!PacketAt, RP!PacketAt, R!Number, RP!Number, R!Numbers,
           RP!Numbers

(* The reader's parameters are those of its theorems.                      *)
LEMMA CleanReader ==
    ASSUME CorruptHeader = FALSE
    PROVE  RP!Clean
    BY ReaderAssumption
    DEF RP!Clean, R!LayoutAssumption, RP!LayoutAssumption, R!FileAssumption, RP!FileAssumption

(* The demuxer passes over no corruption longer than RESYNC_PACKET_LIMIT   *)
(* chunks without an error, and hands on no byte twice, whatever the file  *)
(* (demuxer.rs: read_one_packet, resync).                                  *)
THEOREM DemuxerReportsCorruption ==
    ASSUME CorruptHeader = FALSE
    PROVE  AllSpec => []LongCorruptionIsReported
<1> DEFINE Inv == machine = "reader" => RP!ReadsWell
<1>1. RP!Clean
    BY CleanReader
<1>2. AllInit => Inv
    <2> SUFFICES ASSUME AllInit, machine = "reader" PROVE RP!ReadsWell
        OBVIOUS
    <2>1. R!Init
        BY DEF AllInit
    <2> QED BY <1>1, <2>1, SameReader, RP!ReadsWellBegins
<1>3. Inv /\ [AllNext]_allVars => Inv'
    <2> SUFFICES ASSUME Inv, [AllNext]_allVars, machine' = "reader"
                 PROVE  RP!ReadsWell'
        OBVIOUS
    <2>1. machine = "reader" /\ [RP!Next]_(RP!vars)
        BY SameReader
        DEF AllNext, allVars, readerVars, R!vars, RP!vars,
            ReaderAlone, PsiAlone, TimeAlone, SeekAlone
    <2> QED BY <1>1, <2>1, RP!ReadsWellGoesOn
<1>4. Inv => LongCorruptionIsReported
    BY <1>1, SameReader, RP!ReadsWellGives DEF LongCorruptionIsReported
<1> QED BY <1>2, <1>3, <1>4, PTL DEF AllSpec

(* The sound packets, and the packets handed on, while the reader reads a  *)
(* clear file.                                                             *)
Owed     == IF ClearFile THEN sound ELSE {}
HandedOn == IF ClearFile THEN R!Numbers ELSE <<>>

(* Delivery of this module is that of the reader.                          *)
LEMMA SameDelivery ==
    ASSUME ClearFile, ClearFile', R!Numbers = RP!Numbers,
           R!Numbers' = RP!Numbers', RP!D!Deliver
    PROVE  D!Deliver
<1>1. D!Left = RP!D!Left
    BY Zenon DEF D!Left, RP!D!Left, D!Range, RP!D!Range
<1>2. D!Min(D!Left) = RP!D!Min(RP!D!Left)
    BY <1>1, Zenon DEF D!Min, RP!D!Min
<1> QED BY <1>1, <1>2 DEF D!Deliver, RP!D!Deliver

(* The safety half of ReaderDelivers: the packets of a clear file that are *)
(* not corrupted come out in order, once each, with none left out before a *)
(* later one, whatever is lost between them (demuxer.rs: read_one_packet,  *)
(* resync, with_selector).                                                 *)
THEOREM DemuxerDeliversInOrder ==
    ASSUME CorruptHeader = FALSE
    PROVE  AllSpec => D!Init /\ [][D!Deliver]_<<Owed, HandedOn>>
<1> DEFINE Inv == ClearFile => RP!ReaderInvariant /\ RP!DeliveredOK
<1>1. RP!Clean
    BY CleanReader
<1>2. AllInit => Inv /\ D!Init
    <2>1. ASSUME AllInit, ClearFile
          PROVE  RP!ReaderInvariant /\ RP!DeliveredOK /\ D!Init
        <3>1. R!Init /\ RP!Clear
            BY <2>1, SameReader DEF AllInit, ClearFile
        <3>2. RP!ReaderInvariant /\ RP!DeliveredOK /\ RP!D!Init
            BY <1>1, <3>1, SameReader, RP!InitialInvariant, RP!DeliveryBegins
        <3> QED BY <2>1, <3>2, SameNumbers DEF D!Init, RP!D!Init
    <2>2. ASSUME AllInit, ~ClearFile PROVE D!Init
        BY <2>2 DEF D!Init
    <2> QED BY <2>1, <2>2
<1>3. Inv /\ [AllNext]_allVars => Inv' /\ [D!Deliver]_<<Owed, HandedOn>>
    <2> SUFFICES ASSUME Inv, [AllNext]_allVars
                 PROVE  Inv' /\ [D!Deliver]_<<Owed, HandedOn>>
        OBVIOUS
    <2>1. ClearFile' <=> ClearFile
        <3>1. machine' = machine
            BY DEF AllNext, allVars, ReaderAlone, PsiAlone, TimeAlone, SeekAlone
        <3>2. CASE machine = "reader"
            <4>1. [RP!Next]_(RP!vars)
                BY <3>2, SameReader
                DEF AllNext, allVars, readerVars, R!vars, RP!vars,
                    ReaderAlone, PsiAlone, TimeAlone, SeekAlone
            <4>2. UNCHANGED <<file, sound>>
                BY <4>1, RP!ClearStays
            <4>3. R!Clear' <=> R!Clear
                BY <4>2 DEF R!Clear, R!Lone
            <4> QED BY <3>1, <4>3 DEF ClearFile
        <3> QED BY <3>1, <3>2 DEF ClearFile
    <2>2. CASE ~ClearFile
        BY <2>1, <2>2 DEF Owed, HandedOn
    <2>3. CASE ClearFile
        <3>1. [RP!Next]_(RP!vars)
            BY <2>3, SameReader
            DEF AllNext, allVars, readerVars, R!vars, RP!vars,
                ReaderAlone, PsiAlone, TimeAlone, SeekAlone, ClearFile
        <3>2. /\ RP!ReaderInvariant' /\ RP!DeliveredOK'
              /\ [RP!D!Deliver]_<<sound, RP!Numbers>>
            BY <1>1, <2>3, <3>1, RP!StepKeepsInvariant, RP!StepDelivers
        <3>3. R!Numbers = RP!Numbers /\ R!Numbers' = RP!Numbers'
            BY SameNumbers
        <3>4. CASE RP!D!Deliver
            BY <2>1, <2>3, <3>2, <3>3, <3>4, SameDelivery
        <3>5. CASE UNCHANGED <<sound, RP!Numbers>>
            BY <2>1, <2>3, <3>2, <3>3, <3>5 DEF Owed, HandedOn
        <3> QED BY <3>2, <3>4, <3>5
    <2> QED BY <2>2, <2>3
<1> QED BY <1>2, <1>3, PTL DEF AllSpec

------------------------------------------------------------------------------
(* The section assembler.                                                  *)
LEMMA SameFeed == \A p : S!Feed(p) <=> SP!Feed(p)
<1>1. \A buf, len, out, err : S!State(buf, len, out, err) = SP!State(buf, len, out, err)
    BY DEF S!State, SP!State
<1>2. S!None = SP!None
    BY DEF S!None, SP!None
<1>3. \A s, bytes : S!ExtendInFlight(s, bytes) = SP!ExtendInFlight(s, bytes)
    BY DEF S!State, SP!State, S!None, SP!None, S!Header, SP!Header, S!Overrun, SP!Overrun,
           S!TotalLen, SP!TotalLen, S!TooLong, SP!TooLong, S!Gather, SP!Gather,
           S!ExtendInFlight, SP!ExtendInFlight
<1>4. \A out, rest : S!StartSections(out, rest) = SP!StartSections(out, rest)
    BY DEF S!State, SP!State, S!None, SP!None, S!Header, SP!Header, S!Overrun, SP!Overrun,
           S!TotalLen, SP!TotalLen, S!TooLong, SP!TooLong, S!StartSections, SP!StartSections
<1>5. \A s, body : S!FeedStart(s, body) = SP!FeedStart(s, body)
    BY <1>1, <1>2, <1>3, <1>4, ZenonT(30) DEF S!FeedStart, SP!FeedStart
<1>6. \A s, body : S!FeedContinuation(s, body) = SP!FeedContinuation(s, body)
    BY <1>2, <1>3 DEF S!FeedContinuation, SP!FeedContinuation
<1>7. \A count : S!AfterCount(count) = SP!AfterCount(count)
    BY <1>1, <1>2 DEF S!AfterCount, SP!AfterCount
<1> QED BY <1>5, <1>6, <1>7, Zenon DEF S!Feed, SP!Feed

LEMMA SameSender ==
    /\ S!Header = SP!Header /\ S!NoPacket = SP!NoPacket
    /\ \A n : S!Send(n) <=> SP!Send(n)
    /\ \A n : S!Packet(n) = SP!Packet(n)
    /\ \A p : S!SectionsIn(p) = SP!SectionsIn(p)
    /\ \A p : S!Damaged(p) = SP!Damaged(p)
<1>1. S!Header = SP!Header /\ S!NoPacket = SP!NoPacket /\ S!Stuffing = SP!Stuffing
    BY DEF S!Header, SP!Header, S!NoPacket, SP!NoPacket, S!Stuffing, SP!Stuffing
<1>2. \A n : S!Starts(n) = SP!Starts(n)
    BY DEF S!Starts, SP!Starts
<1>3. \A n : S!Room(n) = SP!Room(n)
    BY <1>2 DEF S!Room, SP!Room
<1>4. \A i : S!EndsSection(i) <=> SP!EndsSection(i)
    BY DEF S!EndsSection, SP!EndsSection
<1>5. \A n : S!Fits(n) <=> SP!Fits(n)
    BY <1>1, <1>3, <1>4 DEF S!Fits, SP!Fits
<1>6. \A n : S!Send(n) <=> SP!Send(n)
    BY <1>5 DEF S!Send, SP!Send
<1>7. \A n : S!Packet(n) = SP!Packet(n)
    BY <1>1, <1>2, <1>3 DEF S!Packet, SP!Packet
<1>8. \A p : S!SectionsIn(p) = SP!SectionsIn(p)
    BY DEF S!SectionsIn, SP!SectionsIn
<1>9. \A p : S!Damaged(p) = SP!Damaged(p)
    BY <1>1 DEF S!Damaged, SP!Damaged
<1> QED BY <1>1, <1>6, <1>7, <1>8, <1>9

LEMMA SameAssembler ==
    /\ S!vars = SP!vars
    /\ S!Init <=> SP!Init
    /\ S!Next <=> SP!Next
    /\ S!LossIsLocal <=> SP!LossIsLocal
    /\ S!NoMisassembly <=> SP!NoMisassembly
<1>1. S!vars = SP!vars
    BY DEF S!vars, SP!vars, S!sender, SP!sender, S!channel, SP!channel, S!assembler,
           SP!assembler
<1>2. S!Init <=> SP!Init
    <2>1. \A k, n : S!Cells(k, n) = SP!Cells(k, n)
        BY DEF S!Cells, SP!Cells, S!Header, SP!Header
    <2>2. \A seqs : S!FlattenSeq(seqs) = SP!FlattenSeq(seqs)
        BY DEF S!FlattenSeq, SP!FlattenSeq
    <2> QED BY <2>1, <2>2 DEF S!Init, SP!Init, S!None, SP!None, S!NoPacket, SP!NoPacket
<1>3. S!Deliver <=> SP!Deliver
    BY SameSender, SameFeed DEF S!Deliver, SP!Deliver, S!channel, SP!channel
<1>4. S!Lose <=> SP!Lose
    BY SameSender DEF S!Lose, SP!Lose, S!assembler, SP!assembler
<1>5. S!Damage <=> SP!Damage
    BY SameSender, SameFeed DEF S!Damage, SP!Damage
<1>6. S!Repeat <=> SP!Repeat
    BY SameSender, SameFeed DEF S!Repeat, SP!Repeat, S!sender, SP!sender
<1>7. S!Next <=> SP!Next
    BY <1>3, <1>4, <1>5, <1>6, Zenon DEF S!Next, SP!Next
<1>8. S!LossIsLocal <=> SP!LossIsLocal
    BY DEF S!LossIsLocal, SP!LossIsLocal, S!Sent, SP!Sent, S!EndsSection, SP!EndsSection
<1>9. \A k : S!SectionCells(k) = SP!SectionCells(k)
    BY DEF S!SectionCells, SP!SectionCells, S!Min, SP!Min, S!Max, SP!Max
<1>10. S!NoMisassembly <=> SP!NoMisassembly
    BY <1>9, Zenon DEF S!NoMisassembly, SP!NoMisassembly
<1> QED BY <1>1, <1>2, <1>7, <1>8, <1>10

(* No packet ends within the header of a section.                          *)
LEMMA CleanSections ==
    ASSUME CutHeaders = FALSE
    PROVE  SP!Clean
    BY SectionAssumption DEF SP!Clean, S!SizeAssumption, SP!SizeAssumption

(* Whatever packets are lost, damaged or repeated, the demuxer's assembler *)
(* returns the sections of a PID but for those a lost or damaged packet    *)
(* carried a part of, and never bytes of two as one (psi.rs:               *)
(* PsiSectionAssembler).                                                   *)
THEOREM DemuxerSectionsSurvive ==
    ASSUME CutHeaders = FALSE
    PROVE  AllSpec => []SectionsSurvive
<1> DEFINE Inv == machine = "sections" => SP!Held
<1>1. SP!Clean
    BY CleanSections
<1>2. AllInit => Inv
    <2> SUFFICES ASSUME AllInit, machine = "sections" PROVE SP!Held
        OBVIOUS
    <2>1. S!Init
        BY DEF AllInit
    <2> QED BY <1>1, <2>1, SameAssembler, SP!HeldFirst
<1>3. Inv /\ [AllNext]_allVars => Inv'
    <2> SUFFICES ASSUME Inv, [AllNext]_allVars, machine' = "sections" PROVE SP!Held'
        OBVIOUS
    <2>1. machine = "sections" /\ [SP!Next]_(SP!vars)
        BY SameAssembler
        DEF AllNext, allVars, psiVars, S!vars, SP!vars, S!sender, SP!sender, S!channel,
            SP!channel, S!assembler, SP!assembler,
            ReaderAlone, PsiAlone, TimeAlone, SeekAlone
    <2> QED BY <1>1, <2>1, SP!HeldNext
<1>4. Inv => SectionsSurvive
    <2>1. SP!Held => SP!LossIsLocal /\ SP!NoMisassembly
        BY <1>1, SP!HeldKeeps
    <2> QED BY <2>1, SameAssembler, Zenon DEF SectionsSurvive
<1> QED BY <1>2, <1>3, <1>4, PTL DEF AllSpec

------------------------------------------------------------------------------
(* The duration probe and the seek.  Their machine begins as it would      *)
(* alone, and steps as it would or not at all.                             *)

(* The duration the demuxer reports is the distance of the first PCR from  *)
(* the last, and a PCR seek lands at or before its target with no PCR but  *)
(* one in the next packet between them (demuxer.rs: probe_duration,        *)
(* locate_pcr_at_or_before).                                               *)
THEOREM DemuxerSeeksExactly == AllSpec => [](DurationIsExact /\ LandingIsExact)
<1>1. AllInit => SeekInvariant
    BY InitialInvariant, Zenon DEF AllInit, SeekIdle
<1>2. SeekInvariant /\ [AllNext]_allVars => SeekInvariant'
    <2>1. [AllNext]_allVars => [Next]_vars
        BY DEF AllNext, allVars, seekVars, ReaderAlone, PsiAlone, TimeAlone, SeekAlone
    <2> QED BY <2>1, InvariantStep
<1>3. SeekInvariant => DurationIsExact /\ LandingIsExact
    BY SpanIsExact DEF SeekInvariant, LandingIsExact
<1> QED BY <1>1, <1>2, <1>3, PTL DEF AllSpec
==============================================================================
