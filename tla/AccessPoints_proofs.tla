------------------------ MODULE AccessPoints_proofs ------------------------
(***************************************************************************)
(* The keyframe seek, for files of any length with any access points, PCRs *)
(* and targets: the scan of a window and the index choose the same, and    *)
(* the unit promised is the one that is delivered.                         *)
(*                                                                         *)
(* What the scan keeps is compared, packet by packet, with what there was  *)
(* to see (Knows); what the index chooses is the last of all there is, so  *)
(* a window that sees anything in time sees that.                          *)
(***************************************************************************)
EXTENDS AccessPoints, FiniteSetTheorems, WellFoundedInduction, TLAPS

------------------------------------------------------------------------------
(* Least and greatest elements, and functions by recursion over numbers.   *)
LEMMA LeastElement ==
    ASSUME NEW S, S \subseteq Nat, S # {}
    PROVE  \E x \in S : \A y \in S : x <= y
<1>1. PICK x \in S : \A y \in S : <<y, x>> \notin OpToRel(<, Nat)
    BY NatLessThanWellFounded, WFMin, Zenon
<1>2. ASSUME NEW y \in S PROVE <<y, x>> \in Nat \X Nat
    OBVIOUS
<1>3. ASSUME NEW y \in S PROVE ~ (y < x)
    BY <1>1, <1>2, Zenon DEF OpToRel
<1>4. ASSUME NEW y \in S PROVE x <= y
    BY <1>3
<1> QED BY <1>4

LEMMA GreatestElement ==
    ASSUME NEW S, NEW n \in Nat, S \subseteq 0 .. n, S # {}
    PROVE  \E x \in S : \A y \in S : y <= x
<1> DEFINE gaps == {n - x : x \in S}
<1>1. gaps \subseteq Nat /\ gaps # {}
    <2>1. ASSUME NEW x \in S PROVE n - x \in Nat
        <3>1. x \in 0 .. n
            OBVIOUS
        <3> QED BY <3>1
    <2> QED BY <2>1
<1>2. PICK g \in gaps : \A y \in gaps : g <= y
    <2> HIDE DEF gaps
    <2> QED BY <1>1, LeastElement
<1>3. PICK x \in S : g = n - x
    BY <1>2
<1>4. ASSUME NEW y \in S PROVE y <= x
    <2>1. n - y \in gaps
        OBVIOUS
    <2>2. n - x <= n - y
        BY <2>1, <1>2, <1>3
    <2> QED BY <2>2
<1> QED BY <1>4

(* What the steps from a on make of what came first,                       *)
Iterates(T, a, n, first, step) ==
    \E f \in [a .. n -> T] : f[a] = first /\ \A i \in a + 1 .. n : f[i] = step[i][f[i - 1]]

(* which exists for any number of steps.                                   *)
LEMMA Recursion ==
    ASSUME NEW T, NEW a \in Nat, NEW n \in Nat, a <= n, NEW first \in T,
           NEW step \in [a + 1 .. n -> [T -> T]]
    PROVE  Iterates(T, a, n, first, step)
<1> DEFINE Upto(f, k) == /\ f \in [a .. k -> T] /\ f[a] = first
                         /\ \A i \in a + 1 .. k : f[i] = step[i][f[i - 1]]
           Bad == {k \in a .. n : ~ \E f : Upto(f, k)}
<1>1. SUFFICES ASSUME Bad # {} PROVE FALSE
    BY n \in a .. n DEF Iterates
<1>2. PICK k \in Bad : \A y \in Bad : k <= y
    <2>1. Bad \subseteq Nat
        OBVIOUS
    <2> HIDE DEF Bad
    <2> QED BY <1>1, <2>1, LeastElement
<1>3. CASE k = a
    <2>1. Upto([i \in a .. a |-> first], a)
        OBVIOUS
    <2> QED BY <2>1, <1>2, <1>3
<1>4. CASE k # a
    <2>1. k - 1 \in a .. n /\ k \in a + 1 .. n /\ ~ (k <= k - 1)
        BY <1>2, <1>4
    <2>2. PICK f : Upto(f, k - 1)
        BY <2>1, <1>2
    <2> DEFINE h == [i \in a .. k |-> IF i = k THEN step[k][f[k - 1]] ELSE f[i]]
    <2>3. f[k - 1] \in T /\ step[k][f[k - 1]] \in T
        BY <2>1, <2>2
    <2>4. h \in [a .. k -> T] /\ h[a] = first
        BY <2>1, <2>2, <2>3
    <2>5. ASSUME NEW i \in a + 1 .. k PROVE h[i] = step[i][h[i - 1]]
        <3>1. i - 1 \in a .. k /\ i - 1 # k /\ h[i - 1] = f[i - 1]
            BY <2>1
        <3>2. CASE i = k
            BY <3>1, <3>2
        <3>3. CASE i # k
            <4>1. i \in a + 1 .. k - 1 /\ h[i] = f[i]
                BY <3>3, <2>1
            <4> QED BY <4>1, <3>1, <2>2
        <3> QED BY <3>2, <3>3
    <2>6. Upto(h, k)
        BY <2>4, <2>5
    <2> QED BY <2>6, <1>2
<1> QED BY <1>3, <1>4

------------------------------------------------------------------------------
(* The packets of the file.                                                *)
FileOK ==
    /\ file \in [Packet -> Shapes] /\ index = ScannedIndex
    /\ target \in Nat /\ wanted \in Streams \cup {AnyStream}

LEMMA ShapeFacts ==
    \A s \in Shapes : /\ s.stream \in Streams /\ s.rai \in BOOLEAN /\ s.start \in BOOLEAN
                      /\ s.delay \in {None, 1, 2, 3, 4} /\ s.delay - 3 <= Grace
<1>1. \A s \in Shapes : s.delay - 3 <= Grace
    BY GraceCoversReordering
<1>2. \A s \in Shapes : /\ s.stream \in Streams /\ s.rai \in BOOLEAN /\ s.start \in BOOLEAN
                        /\ s.delay \in {None, 1, 2, 3, 4}
    <2>1. ASSUME NEW a, NEW b, NEW c, NEW d, NEW e
          PROVE  /\ Shape(a, b, c, d, e).stream = a /\ Shape(a, b, c, d, e).rai = b
                 /\ Shape(a, b, c, d, e).start = c /\ Shape(a, b, c, d, e).delay = e
        BY DEF Shape
    <2>2. ASSUME NEW s \in Shapes
          PROVE  \E a \in Streams, b \in BOOLEAN, c \in BOOLEAN, d \in BOOLEAN,
                    e \in {None, 1, 2, 3, 4} : s = Shape(a, b, c, d, e)
        BY DEF Shapes, Streams
    <2> QED BY <2>1, <2>2
<1> QED BY <1>1, <1>2

LEMMA PacketFacts ==
    ASSUME FileOK, NEW k \in Packet
    PROVE  /\ k \in Nat /\ 1 <= k /\ k <= Packets
           /\ file[k].stream \in Streams
           /\ Pts(k) = None \/ (Pts(k) \in Nat /\ Clock(k) < Pts(k) /\ Pts(k) <= Clock(k) + 3 + Grace)
<1>1. k \in Nat /\ 1 <= k /\ k <= Packets
    BY BoundAssumption DEF Packet
<1>2. file[k] \in Shapes
    BY DEF FileOK
<1>3. /\ file[k].stream \in Streams /\ file[k].delay \in {None, 1, 2, 3, 4}
      /\ file[k].delay - 3 <= Grace
    BY <1>2, ShapeFacts
<1>4. Pts(k) = None \/ (Pts(k) \in Nat /\ Clock(k) < Pts(k) /\ Pts(k) <= Clock(k) + 3 + Grace)
    BY <1>1, <1>3, StepAssumption DEF Pts, Clock, None
<1> QED BY <1>1, <1>3, <1>4

(* Once a unit lies past the target by more than pictures are reordered,   *)
(* so does all behind it.                                                  *)
LEMMA PastGrace ==
    ASSUME FileOK, NEW k \in Packet, NEW j \in Packet, k < j,
           Pts(k) # None, Pts(j) # None, Pts(k) > target + Grace
    PROVE  Pts(j) > target
<1>1. /\ Pts(k) \in Nat /\ Pts(k) <= Clock(k) + 3 + Grace /\ k \in Nat
      /\ Pts(j) \in Nat /\ Clock(j) < Pts(j) /\ j \in Nat
    BY PacketFacts
<1> QED BY <1>1, StepAssumption DEF FileOK, Clock

LEMMA SameStream ==
    ASSUME FileOK, NEW k \in Packet, NEW wish, k \in Of(wish), NEW s \in Of(file[k].stream)
    PROVE  s \in Packet /\ file[s].stream = file[k].stream /\ s \in Of(wish)
<1>1. file[k].stream \in Streams
    BY PacketFacts
<1> QED BY <1>1 DEF Of, Streams, AnyStream

(* One stream is asked for: what is of it.                                 *)
LEMMA OneStream ==
    ASSUME FileOK, wanted \in Streams, NEW k \in Of(wanted)
    PROVE  k \in Packet /\ file[k].stream = wanted /\ Of(file[k].stream) = Of(wanted)
    BY DEF Of, Streams, AnyStream

(* A flagged packet announces one unit at most,                            *)
LEMMA AnnouncesFacts ==
    ASSUME FileOK, NEW k \in Packet, NEW s \in Announces(k)
    PROVE  /\ s \in Packet /\ k <= s /\ file[s].start /\ s \in Of(file[k].stream)
           /\ \A j \in k .. s - 1 : j \in Of(file[k].stream) => ~file[j].start
<1>1. s \in k .. Packets /\ k \in 1 .. Packets
    BY DEF Announces, Starts, Packet
<1>2. s \in Packet /\ k <= s
    BY <1>1, BoundAssumption DEF Packet
<1>3. /\ file[s].start /\ s \in Of(file[k].stream)
      /\ \A j \in k .. s - 1 : j \in Of(file[k].stream) => ~file[j].start
    BY DEF Announces, Starts
<1> QED BY <1>2, <1>3

(* a later one none before it,                                             *)
LEMMA AnnouncesInOrder ==
    ASSUME FileOK, wanted \in Streams, NEW k \in Of(wanted), NEW l \in Of(wanted), k <= l,
           NEW s \in Announces(k), NEW r \in Announces(l)
    PROVE  s <= r
<1>1. k \in Packet /\ l \in Packet /\ Of(file[k].stream) = Of(wanted) /\ Of(file[l].stream) = Of(wanted)
    BY OneStream
<1>2. s \in Packet /\ k <= s /\ \A j \in k .. s - 1 : j \in Of(wanted) => ~file[j].start
    BY <1>1, AnnouncesFacts
<1>3. r \in Packet /\ l <= r /\ file[r].start /\ r \in Of(wanted)
    BY <1>1, AnnouncesFacts
<1>4. k \in Nat /\ s \in Nat /\ r \in Nat /\ l \in Nat
    BY <1>1, <1>2, <1>3, PacketFacts
<1>5. r < s => r \in k .. s - 1
    BY <1>3, <1>4
<1> QED BY <1>2, <1>3, <1>4, <1>5

(* and a unit is its own announcement.                                     *)
LEMMA AnnouncesItself ==
    ASSUME FileOK, NEW s \in Packet, file[s].start PROVE s \in Announces(s)
<1>1. s \in Nat /\ s \in s .. Packets /\ s .. s - 1 = {}
    BY PacketFacts, BoundAssumption
<1>2. s \in Of(file[s].stream)
    BY DEF Of
<1> QED BY <1>1, <1>2 DEF Announces, Starts
------------------------------------------------------------------------------
(* The index.                                                              *)

(* A flagged packet of what is asked for whose unit is not past the        *)
(* target, and an aligned unit that is not.                                *)
Flagged(k, s) ==
    k \in Indicated /\ k \in Of(wanted) /\ s \in Announces(k) /\ Pts(s) # None /\ Pts(s) <= target
Aligned(s) ==
    s \in Packet /\ s \in Of(wanted) /\ file[s].start /\ file[s].dai /\ Pts(s) # None /\ Pts(s) <= target

LEMMA PointFacts ==
    ASSUME FileOK, NEW p \in index
    PROVE  /\ p.off \in Packet /\ p.pts \in Nat /\ p.kind \in {"rai", "dai"} /\ p # NoPoint
           /\ p = Point(p.off, p.pts, p.kind)
           /\ \E s \in Announces(p.off) :
                  /\ Pts(s) = p.pts
                  /\ p.kind = "rai" => p.off \in Indicated
                  /\ p.kind = "dai" => s = p.off /\ ~Announced(s) /\ file[s].dai
<1>1. CASE \E e \in {a \in Indicated \X Starts(1) : a[2] \in Announces(a[1]) /\ Pts(a[2]) # None} :
               p = Point(e[1], Pts(e[2]), "rai")
    <2>1. PICK k \in Indicated, s \in Starts(1) :
              s \in Announces(k) /\ Pts(s) # None /\ p = Point(k, Pts(s), "rai")
        BY <1>1
    <2>2. k \in Packet
        BY DEF Indicated
    <2>3. s \in Packet
        BY <2>1, <2>2, AnnouncesFacts
    <2>4. Pts(s) \in Nat
        BY <2>1, <2>3, PacketFacts
    <2>5. p.off = k /\ p.pts = Pts(s) /\ p.kind = "rai"
        BY <2>1 DEF Point
    <2>6. k # 0
        BY <2>2, PacketFacts
    <2> QED BY <2>1, <2>2, <2>4, <2>5, <2>6 DEF NoPoint, Point
<1>2. CASE \E s \in {j \in Starts(1) : ~Announced(j) /\ file[j].dai /\ Pts(j) # None} :
               p = Point(s, Pts(s), "dai")
    <2>1. PICK s \in Starts(1) : ~Announced(s) /\ file[s].dai /\ Pts(s) # None /\ p = Point(s, Pts(s), "dai")
        BY <1>2
    <2>2. s \in Packet /\ file[s].start
        BY DEF Starts, Packet
    <2>3. Pts(s) \in Nat /\ s # 0
        BY <2>1, <2>2, PacketFacts
    <2>4. s \in Announces(s)
        BY <2>2, AnnouncesItself
    <2>5. p.off = s /\ p.pts = Pts(s) /\ p.kind = "dai"
        BY <2>1 DEF Point
    <2> QED BY <2>1, <2>2, <2>3, <2>4, <2>5 DEF NoPoint, Point
<1> QED BY <1>1, <1>2 DEF FileOK, ScannedIndex

LEMMA FlaggedIsPoint ==
    ASSUME FileOK, NEW k, NEW s, Flagged(k, s)
    PROVE  /\ Point(k, Pts(s), "rai") \in index
           /\ k \in Packet /\ s \in Packet /\ Pts(s) \in Nat /\ Pts(s) <= target
<1>1. k \in Packet /\ k \in Indicated /\ s \in Announces(k) /\ Pts(s) # None
    BY DEF Flagged, Indicated
<1>2. s \in Packet /\ k <= s /\ file[s].start
    BY <1>1, AnnouncesFacts
<1>3. s \in Starts(1)
    BY <1>2 DEF Starts, Packet
<1>4. <<k, s>> \in Indicated \X Starts(1)
    BY <1>1, <1>3
<1>5. <<k, s>> \in {a \in Indicated \X Starts(1) : a[2] \in Announces(a[1]) /\ Pts(a[2]) # None}
    BY <1>4, <1>1
<1>6. Point(k, Pts(s), "rai") \in ScannedIndex
    BY <1>5 DEF ScannedIndex
<1>7. Pts(s) \in Nat
    BY <1>1, <1>2, PacketFacts
<1> QED BY <1>1, <1>2, <1>6, <1>7 DEF FileOK, Flagged

(* Where nothing is flagged, every aligned unit is a point.                *)
LEMMA AlignedIsPoint ==
    ASSUME FileOK, wanted \in Streams, Indicated \cap Of(wanted) = {}, NEW s, Aligned(s)
    PROVE  Point(s, Pts(s), "dai") \in index /\ s \in Packet /\ Pts(s) \in Nat /\ Pts(s) <= target
<1>1. s \in Packet /\ s \in Of(wanted) /\ file[s].start /\ file[s].dai /\ Pts(s) # None
    BY DEF Aligned
<1>2. s \in Starts(1)
    BY <1>1 DEF Starts, Packet
<1>3. ~Announced(s)
    <2>1. SUFFICES ASSUME NEW k \in 1 .. s, file[k].rai, s \in Announces(k) PROVE FALSE
        BY DEF Announced
    <2>2. k \in Packet
        <3>1. s \in Nat /\ s <= Packets
            BY <1>1, PacketFacts
        <3> QED BY <3>1, BoundAssumption DEF Packet
    <2>3. s \in Of(file[k].stream)
        BY <2>1, <2>2, AnnouncesFacts
    <2>4. file[s].stream = file[k].stream
        BY <2>2, <2>3, SameStream, k \in Of(AnyStream) DEF Of
    <2>5. file[k].stream = wanted
        BY <1>1, <2>4, OneStream
    <2>6. k \in Of(wanted) /\ k \in Indicated
        BY <2>1, <2>2, <2>5 DEF Of, Indicated
    <2> QED BY <2>6
<1>4. Point(s, Pts(s), "dai") \in ScannedIndex
    BY <1>1, <1>2, <1>3 DEF ScannedIndex
<1>5. Pts(s) \in Nat
    BY <1>1, PacketFacts
<1> QED BY <1>1, <1>4, <1>5 DEF FileOK, Aligned

LEMMA LastPoint ==
    ASSUME FileOK, NEW S \in SUBSET index, S # {}
    PROVE  LastOf(S) \in S /\ \A q \in S : q.off <= LastOf(S).off
<1> DEFINE offs == {p.off : p \in S}
<1>1. offs \subseteq 0 .. Packets /\ offs # {}
    <2>1. ASSUME NEW p \in S PROVE p.off \in 0 .. Packets
        <3>1. p.off \in Packet
            BY PointFacts
        <3> QED BY <3>1, PacketFacts
    <2> QED BY <2>1
<1>2. PICK x \in offs : \A y \in offs : y <= x
    <2>1. Packets \in Nat
        BY BoundAssumption
    <2> HIDE DEF offs
    <2> QED BY <1>1, <2>1, GreatestElement
<1>3. \E p \in S : \A q \in S : q.off <= p.off
    BY <1>2
<1> QED BY <1>3 DEF LastOf

LEMMA FirstPoint ==
    ASSUME FileOK, NEW S \in SUBSET index, S # {}
    PROVE  FirstOf(S) \in S
<1> DEFINE offs == {p.off : p \in S}
<1>1. offs \subseteq Nat /\ offs # {}
    <2>1. ASSUME NEW p \in S PROVE p.off \in Nat
        <3>1. p.off \in Packet
            BY PointFacts
        <3> QED BY <3>1, PacketFacts
    <2> QED BY <2>1
<1>2. PICK x \in offs : \A y \in offs : x <= y
    <2> HIDE DEF offs
    <2> QED BY <1>1, LeastElement
<1>3. \E p \in S : \A q \in S : p.off <= q.off
    BY <1>2
<1> QED BY <1>3 DEF FirstOf

------------------------------------------------------------------------------
(* What the index chooses.                                                 *)
OfKind(kind) == {p \in index : p.kind = kind /\ p.off \in Of(wanted)}
InTime(kind) == {p \in OfKind(kind) : p.pts <= target}

LEMMA IndexChoice ==
    ViaIndex = IF InTime("rai") # {} THEN LastOf(InTime("rai"))
               ELSE IF InTime("dai") # {} THEN LastOf(InTime("dai"))
               ELSE IF OfKind("rai") # {} THEN FirstOf(OfKind("rai"))
               ELSE IF OfKind("dai") # {} THEN FirstOf(OfKind("dai"))
               ELSE NoPoint
    BY DEF ViaIndex, InTime, OfKind

LEMMA IndicatorChoice ==
    ViaIndicator = IF InTime("rai") # {} THEN LastOf(InTime("rai"))
                   ELSE IF OfKind("rai") # {} THEN FirstOf(OfKind("rai"))
                   ELSE NoPoint
    BY DEF ViaIndicator, InTime, OfKind

LEMMA ChoiceIsPoint ==
    ASSUME FileOK
    PROVE  /\ ViaIndex = NoPoint \/ (ViaIndex \in index /\ ViaIndex.off \in Of(wanted))
           /\ ViaIndicator = NoPoint \/ (ViaIndicator \in index /\ ViaIndicator.off \in Of(wanted))
<1>1. ASSUME NEW kind
      PROVE  /\ InTime(kind) \in SUBSET index /\ OfKind(kind) \in SUBSET index
             /\ \A p \in OfKind(kind) : p.off \in Of(wanted)
             /\ \A p \in InTime(kind) : p.off \in Of(wanted)
    BY DEF InTime, OfKind
<1>2. ASSUME NEW kind, InTime(kind) # {}
      PROVE  LastOf(InTime(kind)) \in index /\ LastOf(InTime(kind)).off \in Of(wanted)
    BY <1>1, <1>2, LastPoint
<1>3. ASSUME NEW kind, OfKind(kind) # {}
      PROVE  FirstOf(OfKind(kind)) \in index /\ FirstOf(OfKind(kind)).off \in Of(wanted)
    BY <1>1, <1>3, FirstPoint
<1> QED BY <1>2, <1>3, IndexChoice, IndicatorChoice

(* The indicator alone chooses what the index does, or has to clamp.       *)
LEMMA ChoicesAgree ==
    ASSUME FileOK, ViaIndicator # NoPoint
    PROVE  ViaIndicator = ViaIndex \/ ViaIndicator.pts > target
<1>1. CASE InTime("rai") # {}
    BY <1>1, IndexChoice, IndicatorChoice
<1>2. CASE InTime("rai") = {} /\ OfKind("rai") # {}
    <2> DEFINE p == FirstOf(OfKind("rai"))
    <2>1. OfKind("rai") \in SUBSET index
        BY DEF OfKind
    <2>2. p \in OfKind("rai")
        BY <1>2, <2>1, FirstPoint
    <2>3. ~(p.pts <= target)
        BY <1>2, <2>2 DEF InTime
    <2>4. p.pts \in Nat /\ target \in Nat
        BY <2>1, <2>2, PointFacts DEF FileOK
    <2>5. ViaIndicator = p
        BY <1>2, IndicatorChoice
    <2> HIDE DEF p
    <2> QED BY <2>3, <2>4, <2>5
<1> QED BY <1>1, <1>2, IndicatorChoice

(* Where a flagged unit is in time, the last flagged one is chosen,        *)
LEMMA FlaggedChosen ==
    ASSUME FileOK, NEW k, NEW s, Flagged(k, s)
    PROVE  \E l, r : Flagged(l, r) /\ ViaIndex = Point(l, Pts(r), "rai") /\ k <= l
<1> DEFINE q == Point(k, Pts(s), "rai")
           p == LastOf(InTime("rai"))
<1>1. q \in index /\ q.off = k /\ q.pts <= target /\ q.kind = "rai" /\ k \in Of(wanted)
    <2>1. q.off = k /\ q.pts = Pts(s) /\ q.kind = "rai"
        BY DEF Point
    <2> QED BY <2>1, FlaggedIsPoint DEF Flagged
<1>2. q \in InTime("rai") /\ InTime("rai") \in SUBSET index
    BY <1>1 DEF InTime, OfKind
<1> HIDE DEF q, p
<1>3. p \in InTime("rai") /\ q.off <= p.off
    BY <1>2, LastPoint DEF p
<1>4. ViaIndex = p
    BY <1>2, IndexChoice DEF p
<1>5. p \in index /\ p.kind = "rai" /\ p.off \in Of(wanted) /\ p.pts <= target
    BY <1>3 DEF InTime, OfKind
<1>6. PICK r \in Announces(p.off) : Pts(r) = p.pts /\ p.off \in Indicated
    BY <1>5, PointFacts
<1>7. p = Point(p.off, Pts(r), "rai") /\ Pts(r) # None
    BY <1>5, <1>6, PointFacts DEF None
<1>8. Flagged(p.off, r)
    BY <1>5, <1>6, <1>7 DEF Flagged
<1> QED BY <1>1, <1>3, <1>4, <1>7, <1>8

(* and where nothing is flagged and an aligned unit is in time, the last   *)
(* aligned one.                                                            *)
LEMMA AlignedChosen ==
    ASSUME FileOK, wanted \in Streams, Indicated \cap Of(wanted) = {}, NEW s, Aligned(s)
    PROVE  \E r : Aligned(r) /\ ViaIndex = Point(r, Pts(r), "dai") /\ s <= r
<1> DEFINE q == Point(s, Pts(s), "dai")
           p == LastOf(InTime("dai"))
<1>1. q \in index /\ q.off = s /\ q.pts <= target /\ q.kind = "dai" /\ s \in Of(wanted)
    <2>1. q.off = s /\ q.pts = Pts(s) /\ q.kind = "dai"
        BY DEF Point
    <2> QED BY <2>1, AlignedIsPoint DEF Aligned
<1>2. q \in InTime("dai") /\ InTime("dai") \in SUBSET index
    BY <1>1 DEF InTime, OfKind
<1> HIDE DEF q, p
<1>3. p \in InTime("dai") /\ q.off <= p.off
    BY <1>2, LastPoint DEF p
<1>4. InTime("rai") = {}
    <2>1. SUFFICES ASSUME NEW x \in InTime("rai") PROVE FALSE
        OBVIOUS
    <2>2. x \in index /\ x.kind = "rai" /\ x.off \in Of(wanted)
        BY <2>1 DEF InTime, OfKind
    <2>3. x.off \in Indicated
        BY <2>2, PointFacts
    <2> QED BY <2>2, <2>3
<1>5. ViaIndex = p
    BY <1>2, <1>4, IndexChoice DEF p
<1>6. p \in index /\ p.kind = "dai" /\ p.off \in Of(wanted) /\ p.pts <= target
    BY <1>3 DEF InTime, OfKind
<1>7. PICK r \in Announces(p.off) : Pts(r) = p.pts /\ r = p.off /\ file[r].dai
    BY <1>6, PointFacts
<1>8. p = Point(r, Pts(r), "dai") /\ Pts(r) # None /\ r \in Packet
    BY <1>6, <1>7, PointFacts DEF None
<1>9. file[r].start
    BY <1>7, <1>8, AnnouncesFacts
<1>10. Aligned(r)
    BY <1>6, <1>7, <1>8, <1>9 DEF Aligned
<1> QED BY <1>1, <1>3, <1>5, <1>7, <1>8, <1>10

(* A point of the index is where the unit is that is delivered from there. *)
Delivers(p) ==
    \E s \in Announces(p.off) \cap Of(wanted) :
        /\ Pts(s) = p.pts
        /\ p.kind = "rai" =>
               \E k \in p.off .. s : k \in Of(file[s].stream) /\ file[k].rai

LEMMA PointDelivers ==
    ASSUME FileOK, NEW p \in index, p.off \in Of(wanted)
    PROVE  Delivers(p)
<1>1. p.off \in Packet
    BY PointFacts
<1>2. PICK s \in Announces(p.off) : Pts(s) = p.pts /\ (p.kind = "rai" => p.off \in Indicated)
    BY PointFacts
<1>3. s \in Packet /\ p.off <= s /\ s \in Of(file[p.off].stream)
    BY <1>1, <1>2, AnnouncesFacts
<1>4. s \in Of(wanted) /\ file[s].stream = file[p.off].stream
    BY <1>1, <1>3, SameStream
<1>5. p.off \in p.off .. s /\ p.off \in Of(file[s].stream)
    BY <1>1, <1>3, <1>4, PacketFacts DEF Of
<1> QED BY <1>2, <1>4, <1>5 DEF Delivers, Indicated

------------------------------------------------------------------------------
(* The scan of a window.                                                   *)
ScanPoints == [off : Nat, pts : Nat \cup {None}, kind : {"none", "rai", "dai"}]
Scans == [pending : Packet \cup {None}, rai : ScanPoints, dai : ScanPoints, done : BOOLEAN]
NoScan == Scan(None, NoPoint, NoPoint, FALSE)

LEMMA NoScanTyped == NoScan \in Scans
    BY DEF NoScan, Scans, Scan, ScanPoints, NoPoint, Point

Pending(s, k) == IF file[k].rai /\ s.pending = None THEN k ELSE s.pending
Hit(k) == Pts(k) <= target

(* The four ways a packet is taken.                                        *)
LEMMA ScanCases ==
    ASSUME FileOK, NEW s \in Scans, NEW k \in Packet
    PROVE  /\ s.done \/ k \notin Of(wanted) => ScanPacket(s, k) = s
           /\ ~s.done /\ k \in Of(wanted) /\ ~file[k].start =>
                  ScanPacket(s, k) = Scan(Pending(s, k), s.rai, s.dai, s.done)
           /\ ~s.done /\ k \in Of(wanted) /\ file[k].start /\ Pts(k) = None =>
                  ScanPacket(s, k) = Scan(None, s.rai, s.dai, s.done)
           /\ ~s.done /\ k \in Of(wanted) /\ file[k].start /\ Pts(k) # None =>
                  ScanPacket(s, k) =
                      Scan(None,
                           IF Pending(s, k) # None /\ Hit(k) THEN Point(Pending(s, k), Pts(k), "rai") ELSE s.rai,
                           IF Pending(s, k) = None /\ Hit(k) /\ file[k].dai THEN Point(k, Pts(k), "dai") ELSE s.dai,
                           Pts(k) > target + Grace)
<1>1. \A p : [s EXCEPT !.pending = p] = Scan(p, s.rai, s.dai, s.done)
    BY DEF Scans, Scan
<1> QED BY <1>1 DEF ScanPacket, ScanStart, Pending, Hit

LEMMA ScanTyped ==
    ASSUME FileOK, NEW s \in Scans, NEW k \in Packet
    PROVE  ScanPacket(s, k) \in Scans
<1>1. /\ s.pending \in Packet \cup {None} /\ s.rai \in ScanPoints /\ s.dai \in ScanPoints
      /\ s.done \in BOOLEAN
    BY DEF Scans
<1>2. Pending(s, k) \in Packet \cup {None}
    BY <1>1 DEF Pending
<1>3. ASSUME NEW a \in Packet \cup {None}, NEW b \in ScanPoints, NEW c \in ScanPoints, NEW d \in BOOLEAN
      PROVE  Scan(a, b, c, d) \in Scans
    BY DEF Scan, Scans
<1>4. CASE s.done \/ k \notin Of(wanted)
    BY <1>4, ScanCases
<1>5. CASE ~s.done /\ k \in Of(wanted) /\ ~file[k].start
    BY <1>1, <1>2, <1>3, <1>5, ScanCases
<1>6. CASE ~s.done /\ k \in Of(wanted) /\ file[k].start /\ Pts(k) = None
    BY <1>1, <1>3, <1>6, ScanCases
<1>7. CASE ~s.done /\ k \in Of(wanted) /\ file[k].start /\ Pts(k) # None
    <2>1. Pts(k) \in Nat /\ \A p \in Packet : p \in Nat
        BY <1>7, PacketFacts
    <2>2. ASSUME NEW p \in Packet, NEW kind \in {"rai", "dai"} PROVE Point(p, Pts(k), kind) \in ScanPoints
        BY <2>1 DEF Point, ScanPoints
    <2> DEFINE b == IF Pending(s, k) # None /\ Hit(k) THEN Point(Pending(s, k), Pts(k), "rai") ELSE s.rai
               c == IF Pending(s, k) = None /\ Hit(k) /\ file[k].dai THEN Point(k, Pts(k), "dai") ELSE s.dai
    <2>3. b \in ScanPoints /\ c \in ScanPoints
        BY <1>1, <1>2, <2>2
    <2>4. ScanPacket(s, k) = Scan(None, b, c, Pts(k) > target + Grace)
        BY <1>7, ScanCases
    <2> HIDE DEF b, c
    <2>5. (Pts(k) > target + Grace) \in BOOLEAN
        OBVIOUS
    <2> QED BY <1>3, <2>3, <2>4, <2>5
<1> QED BY <1>4, <1>5, <1>6, <1>7

(* The scan a packet at a time.                                            *)
LEMMA WindowSteps ==
    ASSUME FileOK, NEW from \in Packet
    PROVE  \E f : /\ f \in [from - 1 .. Packets -> Scans]
                  /\ f[from - 1] = NoScan
                  /\ \A k \in from .. Packets : f[k] = ScanPacket(f[k - 1], k)
                  /\ Window(from) = f[Packets]
<1> DEFINE Is(f) == f = [k \in from - 1 .. Packets |->
                            IF k = from - 1 THEN NoScan ELSE ScanPacket(f[k - 1], k)]
           g == CHOOSE f : Is(f)
           take == [k \in from .. Packets |-> [s \in Scans |-> ScanPacket(s, k)]]
<1>1. from - 1 \in Nat /\ Packets \in Nat /\ from - 1 <= Packets /\ (from - 1) + 1 = from /\ from \in Nat
    BY PacketFacts, BoundAssumption
<1>2. \A k \in from .. Packets : k \in Packet
    BY <1>1, PacketFacts DEF Packet
<1>3. take \in [from .. Packets -> [Scans -> Scans]]
    BY <1>2, ScanTyped
<1>4. PICK f \in [from - 1 .. Packets -> Scans] :
          f[from - 1] = NoScan /\ \A k \in from .. Packets : f[k] = take[k][f[k - 1]]
    <2> HIDE DEF take, g, Is
    <2>1. Iterates(Scans, from - 1, Packets, NoScan, take)
        BY <1>1, <1>3, NoScanTyped, Recursion
    <2> QED BY <2>1, <1>1 DEF Iterates
<1>5. ASSUME NEW k \in from .. Packets PROVE f[k] = ScanPacket(f[k - 1], k)
    <2>1. k - 1 \in from - 1 .. Packets
        BY <1>1
    <2>2. f[k - 1] \in Scans
        BY <2>1
    <2> QED BY <2>2, <1>4
<1>6. Is(f)
    <2>1. ASSUME NEW k \in from - 1 .. Packets
          PROVE  f[k] = IF k = from - 1 THEN NoScan ELSE ScanPacket(f[k - 1], k)
        <3>1. k # from - 1 => k \in from .. Packets
            BY <1>1
        <3> QED BY <3>1, <1>4, <1>5
    <2> QED BY <2>1
<1>7. Is(g)
    <2> HIDE DEF Is
    <2> QED BY <1>6
<1>8. Window(from) = g[Packets]
    BY DEF Window, NoScan
<1> HIDE DEF g
<1>9. /\ g \in [from - 1 .. Packets -> Scans] /\ g[from - 1] = NoScan
      /\ \A k \in from .. Packets : g[k] = ScanPacket(g[k - 1], k)
    <2>1. ASSUME NEW k \in from - 1 .. Packets
          PROVE  g[k] = IF k = from - 1 THEN NoScan ELSE ScanPacket(g[k - 1], k)
        BY <1>7
    <2>2. \A k \in from - 1 .. Packets : g[k] = f[k]
        <3> DEFINE wrong == {k \in from - 1 .. Packets : g[k] # f[k]}
        <3> SUFFICES ASSUME wrong # {} PROVE FALSE
            OBVIOUS
        <3>1. PICK k \in wrong : \A j \in wrong : k <= j
            <4>1. wrong \subseteq Nat
                BY <1>1
            <4> HIDE DEF wrong
            <4> QED BY <4>1, LeastElement
        <3>2. k # from - 1
            BY <2>1, <3>1, <1>4, <1>1
        <3>3. k \in from .. Packets /\ k - 1 \in from - 1 .. Packets /\ ~(k <= k - 1)
            BY <1>1, <3>1, <3>2
        <3>4. g[k - 1] = f[k - 1]
            BY <3>1, <3>3
        <3> QED BY <2>1, <3>1, <3>2, <3>3, <3>4, <1>5
    <2>3. \A k \in from .. Packets : k \in from - 1 .. Packets /\ k # from - 1
        BY <1>1
    <2>4. from - 1 \in from - 1 .. Packets
        BY <1>1
    <2>5. g = [k \in from - 1 .. Packets |-> g[k]]
        BY <1>7
    <2>6. g \in [from - 1 .. Packets -> Scans]
        BY <2>2, <2>5, <1>4
    <2> QED BY <2>1, <2>3, <2>4, <2>6
<1> QED BY <1>8, <1>9

------------------------------------------------------------------------------
(* What the scan has seen of the packets from one to another.              *)

(* a flagged packet whose unit is in time, an aligned unit in time,        *)
SeenFlagged(from, k, p, r) == Flagged(p, r) /\ from <= p /\ r <= k
SeenAligned(from, k, r)    == Aligned(r) /\ from <= r /\ r <= k

(* a flagged packet whose unit is yet to come,                             *)
Waiting(from, k, p) ==
    /\ p \in from .. k /\ p \in Of(wanted) /\ file[p].rai
    /\ \A j \in p .. k : j \in Of(wanted) => ~file[j].start

(* and what it keeps: the last of the flagged, with the packet that        *)
(* announced it; the last of the aligned, while nothing is flagged; the    *)
(* packet that waits; and that it has done when all else is past the       *)
(* target.                                                                 *)
KnowsFlagged(from, k, s) ==
    IF s.rai = NoPoint THEN \A p, r : ~SeenFlagged(from, k, p, r)
    ELSE \E p, r : /\ SeenFlagged(from, k, p, r) /\ s.rai = Point(p, Pts(r), "rai")
                   /\ \A q, t : SeenFlagged(from, k, q, t) => t <= r
KnowsAligned(from, k, s) ==
    Indicated \cap Of(wanted) = {} =>
        IF s.dai = NoPoint THEN \A r : ~SeenAligned(from, k, r)
        ELSE \E r : /\ SeenAligned(from, k, r) /\ s.dai = Point(r, Pts(r), "dai")
                    /\ \A t : SeenAligned(from, k, t) => t <= r
KnowsWaiting(from, k, s) ==
    ~s.done => IF s.pending = None THEN \A p : ~Waiting(from, k, p)
               ELSE Waiting(from, k, s.pending)
KnowsDone(from, k, s) ==
    s.done => \E d \in from .. k : Pts(d) # None /\ Pts(d) > target + Grace
Knows(from, k, s) ==
    KnowsFlagged(from, k, s) /\ KnowsAligned(from, k, s) /\ KnowsWaiting(from, k, s) /\ KnowsDone(from, k, s)

(* What is seen with a packet more.                                        *)
LEMMA SeesFlagged ==
    ASSUME FileOK, NEW from \in Packet, NEW k \in from .. Packets, NEW p, NEW r
    PROVE  SeenFlagged(from, k, p, r) <=>
               SeenFlagged(from, k - 1, p, r) \/ (r = k /\ from <= p /\ Flagged(p, k))
<1>1. from \in Nat /\ k \in Nat
    BY PacketFacts, BoundAssumption
<1>2. Flagged(p, r) => r \in Nat
    BY FlaggedIsPoint, PacketFacts
<1> QED BY <1>1, <1>2 DEF SeenFlagged

LEMMA SeesAligned ==
    ASSUME FileOK, NEW from \in Packet, NEW k \in from .. Packets, NEW r
    PROVE  SeenAligned(from, k, r) <=> SeenAligned(from, k - 1, r) \/ (r = k /\ Aligned(k))
<1>1. from \in Nat /\ k \in Nat
    BY PacketFacts, BoundAssumption
<1>2. Aligned(r) => r \in Nat
    BY PacketFacts DEF Aligned
<1> QED BY <1>1, <1>2 DEF SeenAligned

LEMMA Waits ==
    ASSUME FileOK, NEW from \in Packet, NEW k \in from .. Packets, NEW p
    PROVE  Waiting(from, k, p) <=>
               /\ k \in Of(wanted) => ~file[k].start
               /\ Waiting(from, k - 1, p) \/ (p = k /\ k \in Of(wanted) /\ file[k].rai)
<1>1. from \in Nat /\ k \in Nat /\ from <= k
    BY PacketFacts, BoundAssumption
<1>2. p \in from .. k <=> (p \in from .. k - 1 \/ p = k)
    BY <1>1
<1>3. CASE p \in from .. k - 1
    <2>1. p \in Nat /\ p # k /\ p <= k - 1
        BY <1>1, <1>3
    <2>2. ASSUME NEW j PROVE j \in p .. k <=> (j \in p .. k - 1 \/ j = k)
        BY <1>1, <2>1
    <2>3. (\A j \in p .. k : j \in Of(wanted) => ~file[j].start) <=>
              /\ \A j \in p .. k - 1 : j \in Of(wanted) => ~file[j].start
              /\ k \in Of(wanted) => ~file[k].start
        BY <2>2
    <2> QED BY <1>2, <1>3, <2>1, <2>3 DEF Waiting
<1>4. CASE p = k
    <2>1. p .. k = {k} /\ p \in from .. k /\ p \notin from .. k - 1
        BY <1>1, <1>4
    <2> QED BY <1>4, <2>1 DEF Waiting
<1>5. CASE p # k /\ p \notin from .. k - 1
    BY <1>2, <1>5 DEF Waiting
<1> QED BY <1>3, <1>4, <1>5

(* A unit that is announced waits up to it, or announces itself.           *)
LEMMA FlaggedNow ==
    ASSUME FileOK, wanted \in Streams, NEW from \in Packet, NEW k \in from .. Packets, NEW p
    PROVE  (from <= p /\ Flagged(p, k)) <=>
               /\ k \in Of(wanted) /\ file[k].start /\ Pts(k) # None /\ Hit(k)
               /\ Waiting(from, k - 1, p) \/ (p = k /\ file[k].rai)
<1>1. from \in Nat /\ k \in Nat /\ from <= k /\ k \in Packet
    BY PacketFacts, BoundAssumption DEF Packet
<1>2. ASSUME from <= p, Flagged(p, k)
      PROVE  /\ k \in Of(wanted) /\ file[k].start /\ Pts(k) # None /\ Hit(k)
             /\ Waiting(from, k - 1, p) \/ (p = k /\ file[k].rai)
    <2>1. p \in Packet /\ p \in Of(wanted) /\ file[p].rai /\ k \in Announces(p) /\ Pts(k) # None /\ Hit(k)
        BY <1>2 DEF Flagged, Indicated, Hit
    <2>2. Of(file[p].stream) = Of(wanted)
        BY <2>1, OneStream
    <2>3. p <= k /\ file[k].start /\ k \in Of(wanted) /\ \A j \in p .. k - 1 : j \in Of(wanted) => ~file[j].start
        BY <2>1, <2>2, AnnouncesFacts
    <2>4. p \in Nat
        BY <2>1, PacketFacts
    <2>5. p # k => p \in from .. k - 1
        BY <1>1, <1>2, <2>3, <2>4
    <2> QED BY <2>1, <2>3, <2>5 DEF Waiting
<1>3. ASSUME k \in Of(wanted), file[k].start, Pts(k) # None, Hit(k), Waiting(from, k - 1, p) \/ (p = k /\ file[k].rai)
      PROVE  from <= p /\ Flagged(p, k)
    <2>1. p \in Packet /\ p \in Nat /\ from <= p /\ p <= k /\ p \in Of(wanted) /\ file[p].rai
        <3>1. CASE p = k
            BY <3>1, <1>1, <1>3 DEF Waiting
        <3>2. CASE p # k
            <4>1. p \in from .. k - 1 /\ p \in Of(wanted) /\ file[p].rai
                BY <3>2, <1>3 DEF Waiting
            <4> QED BY <4>1, <1>1, OneStream
        <3> QED BY <3>1, <3>2
    <2>2. Of(file[p].stream) = Of(wanted)
        BY <2>1, OneStream
    <2>3. \A j \in p .. k - 1 : j \in Of(wanted) => ~file[j].start
        <3>1. CASE p = k
            BY <3>1, <1>1
        <3>2. CASE p # k
            BY <3>2, <1>3 DEF Waiting
        <3> QED BY <3>1, <3>2
    <2>4. k \in p .. Packets
        BY <1>1, <2>1, PacketFacts, BoundAssumption
    <2>5. k \in Announces(p)
        BY <2>2, <2>3, <2>4, <1>3 DEF Announces, Starts
    <2> QED BY <2>1, <2>5, <1>3 DEF Flagged, Indicated, Hit
<1> QED BY <1>2, <1>3

(* What is known of the flagged and of the aligned, when a packet brings   *)
(* none, and when it brings one.                                           *)
LEMMA NoMoreFlagged ==
    ASSUME FileOK, NEW from \in Packet, NEW k \in from .. Packets, NEW s, NEW z, z.rai = s.rai,
           KnowsFlagged(from, k - 1, s), \A p : from <= p => ~Flagged(p, k)
    PROVE  KnowsFlagged(from, k, z)
<1>1. \A p, r : SeenFlagged(from, k, p, r) <=> SeenFlagged(from, k - 1, p, r)
    BY SeesFlagged
<1> QED BY <1>1, Zenon DEF KnowsFlagged

LEMMA NoMoreAligned ==
    ASSUME FileOK, NEW from \in Packet, NEW k \in from .. Packets, NEW s, NEW z, z.dai = s.dai,
           KnowsAligned(from, k - 1, s), Indicated \cap Of(wanted) = {} => ~Aligned(k)
    PROVE  KnowsAligned(from, k, z)
<1>1. Indicated \cap Of(wanted) = {} =>
          \A r : SeenAligned(from, k, r) <=> SeenAligned(from, k - 1, r)
    BY SeesAligned
<1> QED BY <1>1, Zenon DEF KnowsAligned

LEMMA OneMoreFlagged ==
    ASSUME FileOK, NEW from \in Packet, NEW k \in from .. Packets, NEW z, NEW p,
           from <= p, Flagged(p, k), z.rai = Point(p, Pts(k), "rai")
    PROVE  KnowsFlagged(from, k, z)
<1>1. SeenFlagged(from, k, p, k)
    BY SeesFlagged
<1>2. \A q, t : SeenFlagged(from, k, q, t) => t <= k
    BY DEF SeenFlagged
<1>3. z.rai # NoPoint
    <2>1. Point(p, Pts(k), "rai") \in index
        BY FlaggedIsPoint
    <2> QED BY <2>1, PointFacts
<1> QED BY <1>1, <1>2, <1>3 DEF KnowsFlagged

LEMMA OneMoreAligned ==
    ASSUME FileOK, wanted \in Streams, NEW from \in Packet, NEW k \in from .. Packets, NEW z,
           Indicated \cap Of(wanted) = {} => Aligned(k) /\ z.dai = Point(k, Pts(k), "dai")
    PROVE  KnowsAligned(from, k, z)
<1> SUFFICES ASSUME Indicated \cap Of(wanted) = {}
             PROVE  \E r : /\ SeenAligned(from, k, r) /\ z.dai = Point(r, Pts(r), "dai")
                           /\ \A t : SeenAligned(from, k, t) => t <= r
    <2>1. Indicated \cap Of(wanted) = {} => Point(k, Pts(k), "dai") \in index
        BY AlignedIsPoint
    <2>2. Indicated \cap Of(wanted) = {} => z.dai # NoPoint
        BY <2>1, PointFacts
    <2> QED BY <2>2 DEF KnowsAligned
<1>1. SeenAligned(from, k, k)
    BY SeesAligned
<1>2. \A t : SeenAligned(from, k, t) => t <= k
    BY DEF SeenAligned
<1> QED BY <1>1, <1>2

------------------------------------------------------------------------------
(* A packet more.                                                          *)
LEMMA NothingSeen ==
    ASSUME FileOK, NEW from \in Packet PROVE Knows(from, from - 1, NoScan)
<1>1. from \in Nat
    BY PacketFacts
<1>2. NoScan.rai = NoPoint /\ NoScan.dai = NoPoint /\ NoScan.pending = None /\ NoScan.done = FALSE
    BY DEF NoScan, Scan
<1>3. \A p, r : ~SeenFlagged(from, from - 1, p, r)
    <2>1. ASSUME NEW p, NEW r, SeenFlagged(from, from - 1, p, r) PROVE FALSE
        <3>1. p \in Packet /\ r \in Packet /\ from <= p /\ r <= from - 1 /\ r \in Announces(p)
            BY <2>1, FlaggedIsPoint DEF SeenFlagged, Flagged
        <3>2. p <= r /\ p \in Nat /\ r \in Nat
            BY <3>1, AnnouncesFacts, PacketFacts
        <3> QED BY <1>1, <3>1, <3>2
    <2> QED BY <2>1
<1>4. \A r : ~SeenAligned(from, from - 1, r)
    <2>1. ASSUME NEW r, SeenAligned(from, from - 1, r) PROVE FALSE
        <3>1. r \in Nat /\ from <= r /\ r <= from - 1
            BY <2>1, PacketFacts DEF SeenAligned, Aligned
        <3> QED BY <1>1, <3>1
    <2> QED BY <2>1
<1>5. \A p : ~Waiting(from, from - 1, p)
    BY <1>1 DEF Waiting
<1> QED BY <1>2, <1>3, <1>4, <1>5 DEF Knows, KnowsFlagged, KnowsAligned, KnowsWaiting, KnowsDone

LEMMA KeepsSeeing ==
    ASSUME FileOK, wanted \in Streams, NEW from \in Packet, NEW k \in from .. Packets,
           NEW s \in Scans, Knows(from, k - 1, s)
    PROVE  Knows(from, k, ScanPacket(s, k))
<1> DEFINE z == ScanPacket(s, k)
<1>1. from \in Nat /\ k \in Nat /\ from <= k /\ k \in Packet
    BY PacketFacts, BoundAssumption DEF Packet
<1>2. /\ KnowsFlagged(from, k - 1, s) /\ KnowsAligned(from, k - 1, s)
      /\ KnowsWaiting(from, k - 1, s) /\ KnowsDone(from, k - 1, s)
    BY DEF Knows
<1>3. s.done \in BOOLEAN /\ s.pending \in Packet \cup {None}
    BY DEF Scans
<1>4. ASSUME NEW a, NEW b, NEW c, NEW d
      PROVE  Scan(a, b, c, d).pending = a /\ Scan(a, b, c, d).rai = b /\ Scan(a, b, c, d).dai = c
             /\ Scan(a, b, c, d).done = d
    BY DEF Scan
<1>5. ASSUME s.done PROVE \E d \in from .. k : Pts(d) # None /\ Pts(d) > target + Grace
    <2>1. PICK d \in from .. k - 1 : Pts(d) # None /\ Pts(d) > target + Grace
        BY <1>2, <1>5 DEF KnowsDone
    <2>2. d \in from .. k
        BY <1>1, <2>1
    <2> QED BY <2>1, <2>2
<1> HIDE DEF z
<1> SUFFICES Knows(from, k, z)
    BY DEF z
<1>6. CASE s.done
    <2>1. z = s
        BY <1>1, <1>6, ScanCases DEF z
    <2>2. PICK d \in from .. k - 1 : Pts(d) # None /\ Pts(d) > target + Grace
        BY <1>2, <1>6 DEF KnowsDone
    <2>3. d \in Packet /\ d < k
        BY <1>1, <2>2, PacketFacts, BoundAssumption DEF Packet
    <2>4. Pts(k) # None => Pts(k) > target
        BY <1>1, <2>2, <2>3, PastGrace
    <2>5. ~(Pts(k) # None /\ Pts(k) <= target)
        BY <1>1, <2>4, PacketFacts DEF FileOK
    <2>6. KnowsFlagged(from, k, z)
        BY <1>2, <2>1, <2>5, NoMoreFlagged DEF Flagged
    <2>7. KnowsAligned(from, k, z)
        BY <1>2, <2>1, <2>5, NoMoreAligned DEF Aligned
    <2>8. KnowsDone(from, k, z) /\ KnowsWaiting(from, k, z)
        BY <1>5, <1>6, <2>1 DEF KnowsDone, KnowsWaiting
    <2> QED BY <2>6, <2>7, <2>8 DEF Knows
<1>7. CASE ~s.done /\ k \notin Of(wanted)
    <2>1. z = s
        BY <1>1, <1>7, ScanCases DEF z
    <2>2. \A p : from <= p => ~Flagged(p, k)
        BY <1>7, FlaggedNow
    <2>3. KnowsFlagged(from, k, z)
        BY <1>2, <2>1, <2>2, NoMoreFlagged
    <2>4. KnowsAligned(from, k, z)
        BY <1>2, <1>7, <2>1, NoMoreAligned DEF Aligned
    <2>5. \A p : Waiting(from, k, p) <=> Waiting(from, k - 1, p)
        BY <1>7, Waits
    <2>6. KnowsWaiting(from, k, z) /\ KnowsDone(from, k, z)
        BY <1>2, <1>7, <2>1, <2>5 DEF KnowsWaiting, KnowsDone
    <2> QED BY <2>3, <2>4, <2>6 DEF Knows
<1>8. CASE ~s.done /\ k \in Of(wanted) /\ ~file[k].start
    <2>1. z = Scan(Pending(s, k), s.rai, s.dai, s.done)
        BY <1>1, <1>8, ScanCases DEF z
    <2>2. z.pending = Pending(s, k) /\ z.rai = s.rai /\ z.dai = s.dai /\ z.done = s.done
        BY <2>1, <1>4
    <2>3. \A p : from <= p => ~Flagged(p, k)
        BY <1>8, FlaggedNow
    <2>4. KnowsFlagged(from, k, z)
        BY <1>2, <2>2, <2>3, NoMoreFlagged
    <2>5. KnowsAligned(from, k, z)
        BY <1>2, <1>8, <2>2, NoMoreAligned DEF Aligned
    <2>6. \A p : Waiting(from, k, p) <=> Waiting(from, k - 1, p) \/ (p = k /\ file[k].rai)
        BY <1>8, Waits
    <2>7. IF s.pending = None THEN \A p : ~Waiting(from, k - 1, p) ELSE Waiting(from, k - 1, s.pending)
        BY <1>2, <1>8 DEF KnowsWaiting
    <2>8. k # None
        BY <1>1 DEF None
    <2>9. KnowsWaiting(from, k, z)
        BY <2>2, <2>6, <2>7, <2>8 DEF KnowsWaiting, Pending
    <2>10. KnowsDone(from, k, z)
        BY <1>8, <2>2 DEF KnowsDone
    <2> QED BY <2>4, <2>5, <2>9, <2>10 DEF Knows
<1>9. CASE ~s.done /\ k \in Of(wanted) /\ file[k].start
    <2>1. \A p : ~Waiting(from, k, p)
        BY <1>9, Waits
    <2>2. IF s.pending = None THEN \A p : ~Waiting(from, k - 1, p) ELSE Waiting(from, k - 1, s.pending)
        BY <1>2, <1>9 DEF KnowsWaiting
    <2>3. k # None
        BY <1>1 DEF None
    <2>4. IF Pending(s, k) = None THEN \A p : ~(Waiting(from, k - 1, p) \/ (p = k /\ file[k].rai))
          ELSE Waiting(from, k - 1, Pending(s, k)) \/ (Pending(s, k) = k /\ file[k].rai)
        BY <2>2, <2>3 DEF Pending
    <2>5. CASE Pts(k) = None
        <3>1. z = Scan(None, s.rai, s.dai, s.done)
            BY <1>1, <1>9, <2>5, ScanCases DEF z
        <3>2. z.pending = None /\ z.rai = s.rai /\ z.dai = s.dai /\ z.done = s.done
            BY <3>1, <1>4
        <3>3. KnowsFlagged(from, k, z)
            BY <1>2, <2>5, <3>2, NoMoreFlagged DEF Flagged
        <3>4. KnowsAligned(from, k, z)
            BY <1>2, <2>5, <3>2, NoMoreAligned DEF Aligned
        <3>5. KnowsWaiting(from, k, z) /\ KnowsDone(from, k, z)
            BY <1>9, <2>1, <3>2 DEF KnowsWaiting, KnowsDone
        <3> QED BY <3>3, <3>4, <3>5 DEF Knows
    <2>6. CASE Pts(k) # None
        <3> DEFINE b == IF Pending(s, k) # None /\ Hit(k) THEN Point(Pending(s, k), Pts(k), "rai") ELSE s.rai
                   c == IF Pending(s, k) = None /\ Hit(k) /\ file[k].dai THEN Point(k, Pts(k), "dai") ELSE s.dai
        <3>1. z = Scan(None, b, c, Pts(k) > target + Grace)
            BY <1>1, <1>9, <2>6, ScanCases DEF z
        <3>2. z.pending = None /\ z.rai = b /\ z.dai = c /\ z.done = (Pts(k) > target + Grace)
            <4> HIDE DEF b, c
            <4> QED BY <3>1, <1>4
        <3>3. KnowsFlagged(from, k, z)
            <4>1. CASE Pending(s, k) # None /\ Hit(k)
                <5>1. from <= Pending(s, k) /\ Flagged(Pending(s, k), k)
                    BY <1>9, <2>4, <2>6, <4>1, FlaggedNow
                <5>2. z.rai = Point(Pending(s, k), Pts(k), "rai")
                    BY <3>2, <4>1
                <5> QED BY <5>1, <5>2, OneMoreFlagged
            <4>2. CASE ~(Pending(s, k) # None /\ Hit(k))
                <5>1. \A p : from <= p => ~Flagged(p, k)
                    BY <2>4, <4>2, FlaggedNow
                <5>2. z.rai = s.rai
                    BY <3>2, <4>2
                <5> QED BY <1>2, <5>1, <5>2, NoMoreFlagged
            <4> QED BY <4>1, <4>2
        <3>4. KnowsAligned(from, k, z)
            <4>1. Indicated \cap Of(wanted) = {} => Pending(s, k) = None
                <5>1. Waiting(from, k - 1, Pending(s, k)) => Pending(s, k) \in Indicated \cap Of(wanted)
                    BY OneStream DEF Waiting, Indicated
                <5>2. Pending(s, k) = k /\ file[k].rai => k \in Indicated \cap Of(wanted)
                    BY <1>1, <1>9 DEF Indicated
                <5> QED BY <2>4, <5>1, <5>2
            <4>2. CASE Hit(k) /\ file[k].dai
                <5>1. Aligned(k)
                    BY <1>1, <1>9, <2>6, <4>2 DEF Aligned, Hit
                <5>2. Indicated \cap Of(wanted) = {} => z.dai = Point(k, Pts(k), "dai")
                    BY <3>2, <4>1, <4>2
                <5> QED BY <5>1, <5>2, OneMoreAligned
            <4>3. CASE ~(Hit(k) /\ file[k].dai)
                <5>1. ~Aligned(k) /\ z.dai = s.dai
                    BY <3>2, <4>3 DEF Aligned, Hit
                <5> QED BY <1>2, <5>1, NoMoreAligned
            <4> QED BY <4>2, <4>3
        <3>5. KnowsWaiting(from, k, z)
            BY <2>1, <3>2 DEF KnowsWaiting
        <3>6. KnowsDone(from, k, z)
            <4>1. k \in from .. k
                BY <1>1
            <4>2. z.done => Pts(k) > target + Grace
                BY <3>2
            <4> HIDE DEF b, c
            <4> QED BY <2>6, <4>1, <4>2 DEF KnowsDone
        <3> QED BY <3>3, <3>4, <3>5, <3>6 DEF Knows
    <2> QED BY <2>5, <2>6
<1> QED BY <1>3, <1>6, <1>7, <1>8, <1>9

(* The scan of the window has seen all from there on.                      *)
LEMMA WindowKnows ==
    ASSUME FileOK, wanted \in Streams, NEW from \in Packet
    PROVE  Knows(from, Packets, Window(from))
<1>1. PICK f : /\ f \in [from - 1 .. Packets -> Scans] /\ f[from - 1] = NoScan
               /\ \A k \in from .. Packets : f[k] = ScanPacket(f[k - 1], k)
               /\ Window(from) = f[Packets]
    BY WindowSteps
<1>2. from \in Nat /\ Packets \in Nat /\ from <= Packets
    BY PacketFacts, BoundAssumption
<1> DEFINE wrong == {k \in from - 1 .. Packets : ~Knows(from, k, f[k])}
<1>3. wrong = {}
    <2> SUFFICES ASSUME wrong # {} PROVE FALSE
        OBVIOUS
    <2>1. PICK k \in wrong : \A j \in wrong : k <= j
        <3>1. wrong \subseteq Nat
            BY <1>2, PacketFacts
        <3> HIDE DEF wrong
        <3> QED BY <3>1, LeastElement
    <2>2. k # from - 1
        BY <2>1, <1>1, NothingSeen
    <2>3. k \in from .. Packets /\ k - 1 \in from - 1 .. Packets /\ ~(k <= k - 1)
        BY <1>2, <2>1, <2>2
    <2>4. Knows(from, k - 1, f[k - 1]) /\ f[k - 1] \in Scans
        BY <1>1, <2>1, <2>3
    <2>5. Knows(from, k, f[k])
        BY <1>1, <2>3, <2>4, KeepsSeeing
    <2> QED BY <2>1, <2>5
<1>4. Packets \in from - 1 .. Packets
    BY <1>2
<1> QED BY <1>1, <1>3, <1>4

------------------------------------------------------------------------------
(* What a seek lands on: what the index chooses, where it is delivered; or *)
(* a PCR where the index has nothing.                                      *)
Right(p) ==
    LET chosen == ViaIndex
    IN  IF p.kind = "pcr" THEN chosen = NoPoint
        ELSE \/ p.pts = chosen.pts /\ p.kind = chosen.kind
             \/ p.pts > target /\ p = ViaIndicator
Good(p) == Right(p) /\ (p.kind # "pcr" => Delivers(p))

LEMMA FlaggedLands ==
    ASSUME FileOK, wanted \in Streams, NEW from \in Packet, Window(from).rai # NoPoint
    PROVE  Good(Window(from).rai)
<1> DEFINE q == Window(from).rai
<1>1. Knows(from, Packets, Window(from))
    BY WindowKnows
<1>2. PICK p, r : /\ SeenFlagged(from, Packets, p, r) /\ q = Point(p, Pts(r), "rai")
                  /\ \A l, t : SeenFlagged(from, Packets, l, t) => t <= r
    BY <1>1 DEF Knows, KnowsFlagged
<1>3. Flagged(p, r) /\ from <= p
    BY <1>2 DEF SeenFlagged
<1>4. PICK l, t : Flagged(l, t) /\ ViaIndex = Point(l, Pts(t), "rai") /\ p <= l
    BY <1>3, FlaggedChosen
<1>5. /\ p \in Packet /\ l \in Packet /\ r \in Packet /\ t \in Packet
      /\ p \in Of(wanted) /\ l \in Of(wanted) /\ r \in Announces(p) /\ t \in Announces(l)
    BY <1>3, <1>4, FlaggedIsPoint DEF Flagged
<1>6. r <= t
    BY <1>4, <1>5, AnnouncesInOrder
<1>7. /\ from \in Nat /\ p \in Nat /\ l \in Nat /\ r \in Nat /\ t \in Nat /\ t <= Packets
    BY <1>5, PacketFacts
<1>8. t <= r
    BY <1>2, <1>3, <1>4, <1>7 DEF SeenFlagged
<1>9. r = t
    BY <1>6, <1>7, <1>8
<1>10. q.off = p /\ q.pts = Pts(r) /\ q.kind = "rai" /\ ViaIndex.pts = Pts(r) /\ ViaIndex.kind = "rai"
    BY <1>2, <1>4, <1>9 DEF Point
<1>11. q \in index
    BY <1>2, <1>3, FlaggedIsPoint
<1>12. Delivers(q)
    BY <1>5, <1>10, <1>11, PointDelivers
<1> HIDE DEF q
<1>13. Good(q)
    BY <1>10, <1>12 DEF Good, Right
<1> QED BY <1>13 DEF q

LEMMA AlignedLands ==
    ASSUME FileOK, wanted \in Streams, NEW from \in Packet, Window(from).dai # NoPoint,
           Indicated \cap Of(wanted) = {}
    PROVE  Good(Window(from).dai)
<1> DEFINE q == Window(from).dai
<1>1. Knows(from, Packets, Window(from))
    BY WindowKnows
<1>2. PICK r : /\ SeenAligned(from, Packets, r) /\ q = Point(r, Pts(r), "dai")
               /\ \A t : SeenAligned(from, Packets, t) => t <= r
    BY <1>1 DEF Knows, KnowsAligned
<1>3. Aligned(r) /\ from <= r
    BY <1>2 DEF SeenAligned
<1>4. PICK t : Aligned(t) /\ ViaIndex = Point(t, Pts(t), "dai") /\ r <= t
    BY <1>3, AlignedChosen
<1>5. r \in Packet /\ t \in Packet /\ r \in Of(wanted)
    BY <1>3, <1>4 DEF Aligned
<1>6. from \in Nat /\ r \in Nat /\ t \in Nat /\ t <= Packets
    BY <1>5, PacketFacts
<1>7. t <= r
    BY <1>2, <1>3, <1>4, <1>6 DEF SeenAligned
<1>8. r = t
    BY <1>4, <1>6, <1>7
<1>9. q.off = r /\ q.kind = "dai" /\ ViaIndex = q
    BY <1>2, <1>4, <1>8 DEF Point
<1>10. q \in index
    BY <1>2, <1>3, AlignedIsPoint
<1>11. Delivers(q)
    BY <1>5, <1>9, <1>10, PointDelivers
<1> HIDE DEF q
<1>12. Good(q)
    BY <1>9, <1>11 DEF Good, Right
<1> QED BY <1>12 DEF q

LEMMA IndexLands ==
    ASSUME FileOK, ViaIndex # NoPoint PROVE Good(ViaIndex)
<1>1. ViaIndex \in index /\ ViaIndex.off \in Of(wanted)
    BY ChoiceIsPoint
<1>2. Delivers(ViaIndex) /\ ViaIndex.kind \in {"rai", "dai"}
    BY <1>1, PointDelivers, PointFacts
<1> QED BY <1>2 DEF Good, Right

LEMMA IndicatorLands ==
    ASSUME FileOK, ViaIndicator # NoPoint PROVE Good(ViaIndicator)
<1>1. ViaIndicator \in index /\ ViaIndicator.off \in Of(wanted)
    BY ChoiceIsPoint
<1>2. Delivers(ViaIndicator) /\ ViaIndicator.kind \in {"rai", "dai"}
    BY <1>1, PointDelivers, PointFacts
<1>3. ViaIndicator = ViaIndex \/ ViaIndicator.pts > target
    BY ChoicesAgree
<1> QED BY <1>2, <1>3 DEF Good, Right

(* Where the bisection may land.                                           *)
LEMMA LocatedIsPcr ==
    ASSUME pcrs \subseteq Packet, Anchored, NEW t, NEW k \in Located(t)
    PROVE  k \in Packet
<1>1. pcrs # {}
    BY FS_EmptySet DEF Anchored
<1>2. pcrs \subseteq 0 .. Packets /\ pcrs \subseteq Nat /\ Packets \in Nat
    BY BoundAssumption DEF Packet
<1>3. FirstPcr \in pcrs
    <2>1. \E x \in pcrs : \A y \in pcrs : x <= y
        BY <1>1, <1>2, LeastElement
    <2> QED BY <2>1 DEF FirstPcr, Min
<1>4. LastPcr \in pcrs
    <2>1. PICK x \in pcrs : \A y \in pcrs : y <= x
        BY <1>1, <1>2, GreatestElement
    <2>2. \A y \in pcrs : x >= y
        BY <1>2, <2>1
    <2> QED BY <2>1, <2>2 DEF LastPcr, Max
<1> QED BY <1>3, <1>4 DEF Located
------------------------------------------------------------------------------
(* The seek.  While it runs, nothing has been landed on.                   *)
SeekTypes ==
    /\ FileOK /\ pcrs \subseteq Packet
    /\ pc \in {"idle", "window", "indicated"}
    /\ pc = "window" => wanted \in Streams
    /\ pc # "idle" => landing = NoPoint
LandedWell == pc = "idle" /\ landing # NoPoint => Good(landing)
SeekInvariant == SeekTypes /\ LandedWell

(* A scan that is under way has moved the input; where seek_to is called,  *)
(* it ends in a landing.                                                   *)
ScanMoves == direct = FALSE /\ (astray => pc = "window" /\ Anchored /\ ~cached)

(* A step that ends a seek.                                                *)
Lands == pc' = "idle" /\ (landing' = NoPoint \/ Good(landing'))
Same  == UNCHANGED <<file, pcrs, index, wanted, target>>

LEMMA LandKeeps ==
    ASSUME SeekInvariant, Lands, Same PROVE SeekInvariant'
<1>1. FileOK' /\ pcrs' \subseteq Packet
    BY DEF SeekInvariant, SeekTypes, FileOK, Same, ScannedIndex, Indicated, Starts, Announces,
           Announced, Of, Pts
<1>2. Good(landing') => Good(landing)'
    BY DEF Same, Good, Right, Delivers, ViaIndex, ViaIndicator, Announces, Starts, Of, Pts
<1> QED BY <1>1, <1>2 DEF Lands, SeekInvariant, SeekTypes, LandedWell

------------------------------------------------------------------------------
(* One lemma an action.                                                    *)
LEMMA LandViaIndexLands ==
    ASSUME SeekInvariant, LandViaIndex
    PROVE  Lands /\ (direct = FALSE /\ Anchored => landing' # NoPoint)
<1>1. FileOK /\ pcrs \subseteq Packet
    BY DEF SeekInvariant, SeekTypes
<1>2. CASE ViaIndex # NoPoint
    BY <1>1, <1>2, IndexLands DEF LandViaIndex, Land, Lands
<1>3. CASE ViaIndex = NoPoint
    <2>1. LandOnPcr
        BY <1>3 DEF LandViaIndex
    <2>2. CASE direct \/ ~Anchored
        <3>1. Land(NoPoint)
            BY <2>1, <2>2 DEF LandOnPcr
        <3> QED BY <2>2, <3>1 DEF Land, Lands
    <2>3. CASE ~(direct \/ ~Anchored)
        <3>1. PICK k \in Located(target) : Land(Point(k, Clock(k), "pcr"))
            BY <2>1, <2>3 DEF LandOnPcr
        <3> DEFINE p == Point(k, Clock(k), "pcr")
        <3>2. p.off = k /\ p.kind = "pcr" /\ NoPoint.kind = "none"
            BY DEF Point, NoPoint
        <3>3. landing' = p /\ pc' = "idle"
            BY <3>1 DEF Land
        <3> HIDE DEF p
        <3>4. Good(p)
            BY <1>3, <3>2 DEF Good, Right
        <3> QED BY <3>2, <3>3, <3>4 DEF Lands
    <2> QED BY <2>2, <2>3
<1> QED BY <1>2, <1>3

LEMMA RoundLands ==
    ASSUME SeekInvariant, Round
    PROVE  /\ Lands \/ UNCHANGED <<pc, landing, cached>>
           /\ Lands /\ direct = FALSE => landing' # NoPoint
<1>1. FileOK /\ pcrs \subseteq Packet /\ wanted \in Streams /\ pc = "window" /\ Anchored /\ landing = NoPoint
    BY DEF SeekInvariant, SeekTypes, Round
<1>2. PICK from \in Located(probe) :
          RoundAnnounced(Window(from)) \/ RoundAligned(Window(from)) \/ RoundEmpty(from, Window(from))
    BY DEF Round
<1>3. from \in Packet
    BY <1>1, LocatedIsPcr
<1>4. CASE RoundAnnounced(Window(from))
    BY <1>1, <1>3, <1>4, FlaggedLands DEF RoundAnnounced, Land, Lands
<1>5. CASE RoundAligned(Window(from))
    <2>1. CASE Indicated \cap Of(wanted) # {}
        BY <1>1, <1>5, <2>1, LandViaIndexLands DEF RoundAligned
    <2>2. CASE Indicated \cap Of(wanted) = {}
        BY <1>1, <1>3, <1>5, <2>2, AlignedLands DEF RoundAligned, Land, Lands
    <2> QED BY <2>1, <2>2
<1>6. CASE RoundEmpty(from, Window(from))
    <2>1. CASE from <= FirstPcr
        BY <1>1, <1>6, <2>1, LandViaIndexLands DEF RoundEmpty
    <2>2. CASE ~(from <= FirstPcr)
        <3>1. UNCHANGED <<cached, pc, landing>>
            BY <1>6, <2>2 DEF RoundEmpty
        <3> QED BY <1>1, <3>1 DEF Lands
    <2> QED BY <2>1, <2>2
<1> QED BY <1>2, <1>4, <1>5, <1>6

LEMMA SeekBegins == Init => SeekInvariant /\ ScanMoves
<1> SUFFICES ASSUME Init PROVE SeekInvariant /\ ScanMoves
    OBVIOUS
<1> QED BY DEF Init, SeekInvariant, SeekTypes, FileOK, LandedWell, ScanMoves

LEMMA StillTypes ==
    ASSUME SeekInvariant, UNCHANGED <<file, pcrs, index>>, target' \in Nat,
           wanted' \in Streams \cup {AnyStream}
    PROVE  FileOK' /\ pcrs' \subseteq Packet
    BY DEF SeekInvariant, SeekTypes, FileOK, ScannedIndex, Indicated, Starts, Announces,
           Announced, Of, Pts

LEMMA SeekContinues ==
    ASSUME SeekInvariant, [Next]_vars PROVE SeekInvariant'
<1>1. CASE CacheIndex
    <2>1. FileOK' /\ pcrs' \subseteq Packet
        BY <1>1, StillTypes DEF CacheIndex, SeekInvariant, SeekTypes, FileOK
    <2> QED BY <1>1, <2>1 DEF CacheIndex, SeekInvariant, SeekTypes, LandedWell
<1>2. CASE Seek
    <2>1. /\ wanted' \in Streams \cup {AnyStream} /\ pc' \in {"window", "indicated"}
          /\ pc' = "window" => wanted' \in Streams
          /\ target' \in Nat /\ landing' = NoPoint
        BY <1>2, BoundAssumption DEF Seek
    <2>2. FileOK' /\ pcrs' \subseteq Packet
        BY <1>2, <2>1, StillTypes DEF Seek
    <2> QED BY <2>1, <2>2 DEF SeekInvariant, SeekTypes, LandedWell
<1>3. CASE SeekByIndicator
    <2>1. Lands
        BY <1>3, IndicatorLands DEF SeekByIndicator, Land, Lands, SeekInvariant, SeekTypes
    <2> QED BY <1>3, <2>1, LandKeeps DEF SeekByIndicator, Same
<1>4. CASE SeekByIndex
    <2>1. Lands
        BY <1>4, LandViaIndexLands DEF SeekByIndex
    <2> QED BY <1>4, <2>1, LandKeeps DEF SeekByIndex, Same
<1>5. CASE Round
    <2>1. CASE Lands
        BY <1>5, <2>1, LandKeeps DEF Round, Same
    <2>2. CASE UNCHANGED <<pc, landing, cached>>
        <3>1. UNCHANGED <<file, pcrs, index, wanted, target>>
            BY <1>5 DEF Round
        <3>2. FileOK' /\ pcrs' \subseteq Packet
            BY <3>1, StillTypes DEF SeekInvariant, SeekTypes, FileOK
        <3>3. pc = "window"
            BY <1>5 DEF Round
        <3> QED BY <2>2, <3>1, <3>2, <3>3 DEF SeekInvariant, SeekTypes, LandedWell
    <2> QED BY <1>5, <2>1, <2>2, RoundLands
<1>6. CASE UNCHANGED vars
    <2>1. FileOK' /\ pcrs' \subseteq Packet
        BY <1>6, StillTypes DEF vars, SeekInvariant, SeekTypes, FileOK
    <2>2. Good(landing) => Good(landing)'
        BY <1>6 DEF vars, Good, Right, Delivers, ViaIndex, ViaIndicator, Announces, Starts, Of, Pts
    <2> QED BY <1>6, <2>1, <2>2 DEF vars, SeekInvariant, SeekTypes, LandedWell
<1> QED BY <1>1, <1>2, <1>3, <1>4, <1>5, <1>6 DEF Next

LEMMA ScanReturns ==
    ASSUME SeekInvariant, ScanMoves, Direct \subseteq {FALSE}, [Next]_vars PROVE ScanMoves'
<1>1. CASE CacheIndex
    BY <1>1 DEF CacheIndex, ScanMoves
<1>2. CASE Seek
    BY <1>2 DEF Seek, ScanMoves
<1>3. CASE SeekByIndicator
    BY <1>3 DEF SeekByIndicator, Reposition, ScanMoves
<1>4. CASE SeekByIndex
    <2>1. ~astray /\ astray' = (astray /\ landing' = NoPoint) /\ direct' = direct
        BY <1>4 DEF SeekByIndex, Reposition, ScanMoves
    <2> QED BY <2>1 DEF ScanMoves
<1>5. CASE Round
    <2>1. /\ astray' = (landing' = NoPoint) /\ pc = "window" /\ ~cached /\ Anchored
          /\ pcrs' = pcrs /\ direct' = direct
        BY <1>5 DEF Round
    <2>2. CASE Lands
        <3>1. landing' # NoPoint
            BY <1>5, <2>2, RoundLands DEF ScanMoves
        <3> QED BY <2>1, <3>1 DEF ScanMoves
    <2>3. CASE UNCHANGED <<pc, landing, cached>>
        BY <2>1, <2>3 DEF ScanMoves, Anchored
    <2> QED BY <1>5, <2>2, <2>3, RoundLands
<1>6. CASE UNCHANGED vars
    BY <1>6 DEF vars, ScanMoves, Anchored
<1> QED BY <1>1, <1>2, <1>3, <1>4, <1>5, <1>6 DEF Next

(* For files of any length, any PCRs and targets, any first step back:     *)
(* seek_to_access_point returns the time and the kind of point that the    *)
(* full index would have chosen, whichever window it looked at and whether *)
(* the index is cached or not; seek_to_random_access the same, or clamps   *)
(* (demuxer.rs).                                                           *)
THEOREM SeeksLikeTheIndex == Spec => []SameAsIndex
<1>1. Init => SeekInvariant
    BY SeekBegins
<1>2. SeekInvariant /\ [Next]_vars => SeekInvariant'
    BY SeekContinues
<1>3. SeekInvariant => SameAsIndex
    BY DEF SeekInvariant, LandedWell, Good, Right, SameAsIndex, Landed
<1> QED BY <1>1, <1>2, <1>3, PTL DEF Spec

(* For the same files: from where a seek landed, the first unit that comes *)
(* is the one whose time was returned, behind its indicator if it has one; *)
(* and where seek_to is called, whose last resort is the PCR, no scan is   *)
(* left where it stopped (demuxer.rs: seek_to, scan_access_points_window). *)
THEOREM SeeksDeliver ==
    ASSUME Direct \subseteq {FALSE} PROVE Spec => []DeliversTheLanding
<1>1. Init => SeekInvariant /\ ScanMoves
    BY SeekBegins
<1>2. SeekInvariant /\ ScanMoves /\ [Next]_vars => SeekInvariant' /\ ScanMoves'
    BY SeekContinues, ScanReturns
<1>3. SeekInvariant /\ ScanMoves => DeliversTheLanding
    <2> SUFFICES ASSUME SeekInvariant, ScanMoves PROVE DeliversTheLanding
        OBVIOUS
    <2>1. pc = "idle" => ~astray
        BY DEF ScanMoves
    <2>2. Landed /\ landing.kind # "pcr" => Delivers(landing)
        BY DEF SeekInvariant, LandedWell, Good, Landed
    <2> QED BY <2>1, <2>2 DEF DeliversTheLanding, Delivers
<1> QED BY <1>1, <1>2, <1>3, PTL DEF Spec

=============================================================================
