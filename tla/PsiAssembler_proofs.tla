------------------------- MODULE PsiAssembler_proofs -------------------------
(***************************************************************************)
(* Proofs about PsiAssembler: where no packet ends within the header of a  *)
(* section, what feed() returns is what was sent but for the sections that *)
(* a lost or damaged packet carried a part of (LossIsLocal), and never     *)
(* bytes of two sections (NoMisassembly), for any sections, any packing    *)
(* that 2.4.4 allows and any number of losses below the counter's period.  *)
(*                                                                         *)
(* The argument.  The counter tells the assembler exactly whether a packet *)
(* was lost since the last one it was fed (CountOK), so when it goes on    *)
(* with a section in flight it holds that section up to the cell before    *)
(* the packet (FlightOK).  A good packet then returns the sections that    *)
(* end in it, in order, and leaves the one it ends within (FeedEmpty,      *)
(* FeedHeld); a damaged one leaves nothing (FeedDamaged, FeedSpoilt).      *)
(***************************************************************************)
EXTENDS PsiAssembler, SequenceTheorems, WellFoundedInduction, TLAPS

(* A packet ends behind the length of the section it ends within.          *)
Clean == SizeAssumption /\ Straddle = FALSE

Cell == [sec : Nat, off : Nat, val : Nat]

(* How the sections lie in the stream: section k fills the positions       *)
(* e[k - 1] + 1 .. e[k].                                                   *)
Size(e, k) == e[k] - e[k - 1]

Layout(e) ==
    /\ e \in [0 .. Sections -> Nat]
    /\ e[0] = 0
    /\ \A k \in 1 .. Sections : Size(e, k) \in Lengths
    /\ stream \in Seq(Cell)
    /\ Len(stream) = e[Sections]
    /\ \A k \in 1 .. Sections : \A j \in 1 .. Size(e, k) :
           stream[e[k - 1] + j] =
               [sec |-> k, off |-> j - 1, val |-> IF j = Header THEN Size(e, k) - Header ELSE 0]

(* Section k is sent in part when p cells are.                             *)
Within(e, k, p) == e[k - 1] < p /\ p < e[k]

(* A packet ends with a section, or behind the length of the next.         *)
Cut(e, p) == p \in 0 .. e[Sections] /\ \A k \in 1 .. Sections : Within(e, k, p) => e[k - 1] + 3 <= p

(* The cells m .. n of s.                                                  *)
Part(s, m, n) == SubSeq(s, m, n)

Whole(e, k) == Part(stream, e[k - 1] + 1, e[k])

(* The assembler holds nothing, or section k to its cell at p.             *)
Empty(s)          == s.buf = <<>> /\ s.target = None
Holds(e, s, k, p) ==
    /\ k \in 1 .. Sections /\ Within(e, k, p) /\ e[k - 1] + 3 <= p
    /\ s.buf = Part(stream, e[k - 1] + 1, p) /\ s.target = Size(e, k)

InFlight == [buf |-> inFlight, target |-> targetLen, out |-> <<>>, err |-> FALSE]

(* Nothing was lost since the last packet that was fed.                    *)
Fresh == lastCC # None /\ cc = (lastCC + 1) % CCMod

SenderOK(e) ==
    /\ Cut(e, at) /\ cc \in 0 .. CCMod - 1
    /\ losses \in 0 .. Losses /\ repeats \in Nat
    /\ hit \subseteq 1 .. Sections /\ \A k \in hit : e[k - 1] < at

CountOK ==
    /\ lastCC \in 0 .. CCMod - 1 \cup {None}
    /\ lastCC # None => \E d \in 0 .. losses : cc = (lastCC + 1 + d) % CCMod
    /\ lastCC = None => Empty(InFlight)

FlightOK(e) == Fresh => Empty(InFlight) \/ \E k \in 1 .. Sections : Holds(e, InFlight, k, at)

WholeOK(e) ==
    /\ delivered \in Seq(Seq(Cell))
    /\ \A i \in 1 .. Len(delivered) : \E k \in 1 .. Sections : delivered[i] = Whole(e, k)

(* While no packet is repeated, what is in flight is what no loss touched. *)
KeptOK(e) ==
    repeats = 0 =>
        \A k \in 1 .. Sections : Within(e, k, at) =>
            (k \in hit <=> ~ (Fresh /\ ~ Empty(InFlight)))

(* d are the sections that end at or before p but for those of h, in order. *)
InOrder(e, d, p, h) ==
    /\ {d[i][1].sec : i \in DOMAIN d} = {k \in 1 .. Sections : e[k] <= p} \ h
    /\ \A i, j \in DOMAIN d : i < j => d[i][1].sec < d[j][1].sec

OrderOK(e) == repeats = 0 => InOrder(e, delivered, at, hit)

(* The state of a call that did not fail.                                  *)
Ok(buf, target, out) == State(buf, target, out, FALSE)

------------------------------------------------------------------------------
(* Induction: a set of numbers that is not empty has a least element.      *)
LEMMA LeastElement ==
    ASSUME NEW S, S \subseteq Nat, S # {}
    PROVE  \E x \in S : \A y \in S : x <= y
<1>1. PICK x \in S : \A y \in S : <<y, x>> \notin OpToRel(<, Nat)
    BY NatLessThanWellFounded, WFMin, Zenon
<1>2. ASSUME NEW y \in S PROVE <<y, x>> \in Nat \X Nat
    OBVIOUS
<1>3. ASSUME NEW y \in S PROVE ~ (y < x)
    BY <1>1, <1>2, Zenon DEF OpToRel
<1>4. ASSUME NEW y \in S PROVE x <= y
    BY <1>3
<1> QED BY <1>4

(* Where the sections lie.                                                 *)
LEMMA Numbers ==
    ASSUME Clean
    PROVE  /\ MaxLen \in Nat /\ Sections \in Nat /\ Payload \in Nat /\ Payload > 3
           /\ CCMod \in Nat /\ Losses \in Nat /\ Losses + 1 < CCMod
           /\ \A n \in Lengths : n \in Nat /\ 3 <= n /\ n <= MaxLen
    BY DEF Clean, SizeAssumption

LEMMA Bounds ==
    ASSUME Clean, NEW e, Layout(e), NEW k \in 1 .. Sections
    PROVE  /\ e[k] \in Nat /\ e[k - 1] \in Nat /\ k - 1 \in 0 .. Sections /\ k \in 0 .. Sections
           /\ Size(e, k) = e[k] - e[k - 1] /\ Size(e, k) \in Nat
           /\ 3 <= Size(e, k) /\ Size(e, k) <= MaxLen /\ e[k - 1] + 3 <= e[k]
<1>1. k - 1 \in 0 .. Sections /\ k \in 0 .. Sections
    BY Numbers
<1>2. e[k] \in Nat /\ e[k - 1] \in Nat /\ Size(e, k) \in Lengths
    BY <1>1 DEF Layout
<1>3. Size(e, k) = e[k] - e[k - 1]
    BY DEF Size
<1> QED BY <1>1, <1>2, <1>3, Numbers

(* Sections follow each other.                                             *)
LEMMA Rising ==
    ASSUME Clean, NEW e, Layout(e), NEW k \in 0 .. Sections, NEW l \in 0 .. Sections, k < l
    PROVE  e[k] + 3 <= e[l]
<1> DEFINE Bad == {m \in Nat : m \in k + 1 .. Sections /\ ~ (e[k] + 3 <= e[m])}
<1>1. SUFFICES ASSUME Bad # {} PROVE FALSE
    <2>1. l \in Nat /\ l \in k + 1 .. Sections
        BY Numbers
    <2> QED BY <2>1
<1>2. PICK m \in Bad : \A y \in Bad : m <= y
    BY <1>1, LeastElement
<1>3. m \in 1 .. Sections /\ m \in k + 1 .. Sections
    BY <1>2, Numbers
<1>4. e[m - 1] + 3 <= e[m] /\ e[m - 1] \in Nat /\ e[m] \in Nat /\ e[k] \in Nat
    BY <1>3, Bounds DEF Layout
<1>5. CASE m = k + 1
    BY <1>2, <1>4, <1>5
<1>6. CASE m # k + 1
    <2>1. m - 1 \in Nat /\ m - 1 \in k + 1 .. Sections /\ ~ (m <= m - 1)
        BY <1>3, <1>6, Numbers
    <2>2. e[k] + 3 <= e[m - 1]
        BY <1>2, <2>1
    <2> QED BY <1>2, <1>4, <2>2
<1> QED BY <1>5, <1>6

LEMMA Ordered ==
    ASSUME Clean, NEW e, Layout(e), NEW k \in 0 .. Sections, NEW l \in 0 .. Sections
    PROVE  /\ e[k] \in Nat /\ e[l] \in Nat /\ e[Sections] \in Nat
           /\ k <= l <=> e[k] <= e[l]
           /\ e[k] <= e[Sections]
<1>1. e[k] \in Nat /\ e[l] \in Nat /\ Sections \in 0 .. Sections /\ e[Sections] \in Nat
    BY Numbers DEF Layout
<1>2. k < l => e[k] + 3 <= e[l]
    BY Rising
<1>3. l < k => e[l] + 3 <= e[k]
    BY Rising
<1>4. k < Sections => e[k] + 3 <= e[Sections]
    BY <1>1, Rising
<1>5. k = l => e[k] = e[l]
    OBVIOUS
<1>6. k = Sections \/ k < Sections
    BY Numbers
<1> QED BY <1>1, <1>2, <1>3, <1>4, <1>5, <1>6

(* Every cell is in a section.                                             *)
LEMMA Locate ==
    ASSUME Clean, NEW e, Layout(e), NEW p \in 1 .. e[Sections]
    PROVE  \E k \in 1 .. Sections : e[k - 1] < p /\ p <= e[k]
<1> DEFINE S == {k \in Nat : k <= Sections /\ p <= e[k]}
<1>1. e[Sections] \in Nat /\ Sections \in Nat /\ p \in Nat /\ p > 0
    BY Ordered, Numbers
<1>2. Sections \in S
    BY <1>1
<1>3. PICK k \in S : \A y \in S : k <= y
    BY <1>2, LeastElement
<1>4. k # 0
    BY <1>1, <1>3 DEF Layout
<1>5. k \in 1 .. Sections /\ k - 1 \in Nat /\ k - 1 <= Sections /\ ~ (k <= k - 1)
    BY <1>1, <1>3, <1>4
<1>6. ~ (p <= e[k - 1])
    BY <1>3, <1>5
<1>7. e[k - 1] \in Nat
    BY <1>5, Bounds
<1> QED BY <1>1, <1>3, <1>5, <1>6, <1>7

(* The cell of a section at a position of the stream.                      *)
LEMMA CellAt ==
    ASSUME Clean, NEW e, Layout(e), NEW k \in 1 .. Sections, NEW p, p \in Int, e[k - 1] < p, p <= e[k]
    PROVE  /\ p \in 1 .. Len(stream) /\ stream[p] \in Cell
           /\ stream[p].sec = k /\ stream[p].off = p - 1 - e[k - 1]
           /\ stream[p].val = IF p - e[k - 1] = Header THEN Size(e, k) - Header ELSE 0
<1>1. e[k] \in Nat /\ e[k - 1] \in Nat /\ Size(e, k) = e[k] - e[k - 1] /\ e[k] <= e[Sections]
      /\ e[Sections] \in Nat
    BY Bounds, Ordered
<1>2. p - e[k - 1] \in 1 .. Size(e, k) /\ e[k - 1] + (p - e[k - 1]) = p
    BY <1>1
<1> DEFINE j == p - e[k - 1]
<1>3. stream[e[k - 1] + j] = [sec |-> k, off |-> j - 1,
                              val |-> IF j = Header THEN Size(e, k) - Header ELSE 0]
    BY <1>2 DEF Layout
<1>4. p \in 1 .. Len(stream)
    BY <1>1, <1>2 DEF Layout
<1>5. stream[p] \in Cell
    BY <1>4, ElementOfSeq DEF Layout
<1>6. j - 1 = p - 1 - e[k - 1]
    BY <1>1
<1> QED BY <1>2, <1>3, <1>4, <1>5, <1>6

(* No two sections have a cell in common.                                  *)
LEMMA OneSection ==
    ASSUME Clean, NEW e, Layout(e), NEW k \in 1 .. Sections, NEW l \in 1 .. Sections,
           NEW p \in Int, e[k - 1] < p, p <= e[k], e[l - 1] < p, p <= e[l]
    PROVE  k = l
    BY CellAt

(* Where a section starts and where one ends.                              *)
LEMMA StartsAndEnds ==
    ASSUME Clean, NEW e, Layout(e), NEW p \in 1 .. e[Sections]
    PROVE  /\ stream[p].off = 0 <=> \E k \in 1 .. Sections : p = e[k - 1] + 1
           /\ EndsSection(p) <=> \E k \in 1 .. Sections : p = e[k]
           /\ stream[p].off >= Header - 1 <=>
                  \E k \in 1 .. Sections : e[k - 1] + 3 <= p /\ p <= e[k]
<1>1. e[Sections] \in Nat /\ p \in Int /\ Len(stream) = e[Sections] /\ p \in DOMAIN stream
    <2>1. e[Sections] \in Nat /\ Len(stream) = e[Sections] /\ stream \in Seq(Cell)
        BY Ordered, Numbers DEF Layout
    <2> QED BY <2>1, LenProperties
<1>2. PICK k \in 1 .. Sections : e[k - 1] < p /\ p <= e[k]
    BY Locate
<1>3. stream[p].sec = k /\ stream[p].off = p - 1 - e[k - 1]
    BY <1>1, <1>2, CellAt
<1>4. e[k] \in Nat /\ e[k - 1] \in Nat /\ e[k - 1] + 3 <= e[k]
    BY Bounds
<1>5. \A l \in 1 .. Sections : e[l] \in Nat /\ e[l - 1] \in Nat /\ e[l - 1] + 3 <= e[l]
    BY Bounds
<1>6. \A l \in 1 .. Sections : e[l - 1] < p /\ p <= e[l] => l = k
    BY <1>1, <1>2, OneSection
<1>7. stream[p].off = 0 <=> \E l \in 1 .. Sections : p = e[l - 1] + 1
    <2>1. ASSUME NEW l \in 1 .. Sections, p = e[l - 1] + 1 PROVE stream[p].off = 0
        <3>1. l = k
            BY <1>1, <1>5, <1>6, <2>1
        <3> QED BY <2>1, <3>1, <1>3, <1>4
    <2>2. ASSUME stream[p].off = 0 PROVE p = e[k - 1] + 1
        BY <2>2, <1>1, <1>3, <1>4
    <2> QED BY <2>1, <2>2
<1>8. stream[p].off >= Header - 1 <=> \E l \in 1 .. Sections : e[l - 1] + 3 <= p /\ p <= e[l]
    <2>1. ASSUME NEW l \in 1 .. Sections, e[l - 1] + 3 <= p, p <= e[l]
          PROVE  stream[p].off >= Header - 1
        <3>1. l = k
            BY <1>1, <1>5, <1>6, <2>1
        <3> QED BY <2>1, <3>1, <1>1, <1>3, <1>4 DEF Header
    <2>2. ASSUME stream[p].off >= Header - 1 PROVE e[k - 1] + 3 <= p /\ p <= e[k]
        BY <2>2, <1>1, <1>2, <1>3, <1>4 DEF Header
    <2> QED BY <2>1, <2>2
<1>9. EndsSection(p) <=> p = Len(stream) \/ stream[p + 1].off = 0
    BY <1>1 DEF EndsSection
<1>10. EndsSection(p) <=> \E l \in 1 .. Sections : p = e[l]
    <2>1. ASSUME NEW l \in 1 .. Sections, p = e[l] PROVE EndsSection(p)
        <3>1. CASE l = Sections
            BY <3>1, <2>1, <1>1, <1>9
        <3>2. CASE l # Sections
            <4>1. l + 1 \in 1 .. Sections /\ l + 1 - 1 = l
                BY <3>2, Numbers
            <4>2. e[l] < p + 1 /\ p + 1 <= e[l + 1] /\ p + 1 \in Int
                BY <4>1, <2>1, <1>1, <1>5
            <4>3. stream[p + 1].off = (p + 1) - 1 - e[l]
                BY <4>1, <4>2, CellAt
            <4> QED BY <4>3, <2>1, <1>5, <1>9
        <3> QED BY <3>1, <3>2
    <2>2. ASSUME EndsSection(p), p # e[k] PROVE FALSE
        <3>1. p < e[k]
            BY <1>1, <1>2, <1>4, <2>2
        <3>2. e[k - 1] < p + 1 /\ p + 1 <= e[k] /\ p + 1 \in Int
            BY <3>1, <1>1, <1>2, <1>4
        <3>3. stream[p + 1].off = (p + 1) - 1 - e[k - 1]
            BY <3>2, CellAt
        <3>4. p # Len(stream)
            <4>1. e[k] <= e[Sections]
                BY <1>2, Ordered, Bounds
            <4> QED BY <4>1, <3>1, <1>1, <1>4
        <3> QED BY <3>3, <3>4, <2>2, <1>1, <1>2, <1>4, <1>9
    <2> QED BY <2>1, <2>2
<1> QED BY <1>7, <1>8, <1>10

(* A section taken out of the stream.                                      *)
LEMMA WholeSection ==
    ASSUME Clean, NEW e, Layout(e), NEW k \in 1 .. Sections
    PROVE  /\ Whole(e, k) \in Seq(Cell) /\ Len(Whole(e, k)) = Size(e, k)
           /\ Whole(e, k)[1].sec = k
           /\ SectionCells(k) = Whole(e, k)
<1> DEFINE a == e[k - 1] + 1
           b == e[k]
<1>1. /\ a \in Nat /\ b \in Nat /\ a + 2 <= b /\ b <= Len(stream) /\ 1 <= a
      /\ Size(e, k) = (b - a) + 1 /\ e[k - 1] = a - 1
    <2>1. e[k] <= e[Sections] /\ Len(stream) = e[Sections]
        BY Ordered, Bounds DEF Layout
    <2> QED BY <2>1, Bounds
<1>2. \A p \in a .. b : stream[p] \in Cell /\ stream[p].sec = k /\ p \in DOMAIN stream
    <2>1. DOMAIN stream = 1 .. Len(stream)
        BY LenProperties DEF Layout
    <2> TAKE p \in a .. b
    <2>2. p \in Int /\ e[k - 1] < p /\ p <= e[k]
        BY <1>1
    <2> QED BY <2>1, <2>2, CellAt
<1>3. {j \in DOMAIN stream : stream[j].sec = k} = a .. b
    <2>1. ASSUME NEW j \in DOMAIN stream, stream[j].sec = k PROVE j \in a .. b
        <3>1. j \in 1 .. e[Sections] /\ j \in Int
            BY LenProperties DEF Layout
        <3>2. PICK l \in 1 .. Sections : e[l - 1] < j /\ j <= e[l]
            BY <3>1, Locate
        <3>3. l = k
            BY <3>1, <3>2, <2>1, CellAt
        <3> QED BY <3>1, <3>2, <3>3, <1>1
    <2> QED BY <2>1, <1>2
<1>4. Whole(e, k) = SubSeq(stream, a, b)
    BY DEF Whole, Part
<1> HIDE DEF a, b
<1>5. /\ SubSeq(stream, a, b) \in Seq(Cell)
      /\ Len(SubSeq(stream, a, b)) = IF a <= b THEN (b - a) + 1 ELSE 0
      /\ SubSeq(stream, a, b)[1] = stream[(a + 1) - 1]
    <2>1. 1 \in 1 .. (b - a) + 1
        BY <1>1
    <2> QED BY <2>1, <1>1, <1>2, SubSeqProperties
<1>6. stream[(a + 1) - 1].sec = k
    BY <1>1, <1>2
<1>7. Min(a .. b) = a /\ Max(a .. b) = b
    BY <1>1 DEF Min, Max
<1>8. SectionCells(k) = SubSeq(stream, a, b)
    BY <1>3, <1>7 DEF SectionCells
<1> QED BY <1>1, <1>4, <1>5, <1>6, <1>8

(* The sections sent whole are those that end at or before `at'.           *)
LEMMA SentSections ==
    ASSUME Clean, NEW e, Layout(e), at \in 0 .. e[Sections]
    PROVE  Sent = {k \in 1 .. Sections : e[k] <= at}
<1>1. \A k \in 1 .. Sections : /\ e[k] \in Nat /\ e[k - 1] \in Nat /\ e[k - 1] + 3 <= e[k]
                               /\ k - 1 \in 0 .. Sections /\ k \in 0 .. Sections
    BY Bounds
<1>2. CASE at = 0
    BY <1>1, <1>2 DEF Sent
<1>3. CASE at # 0
    <2>1. at \in 1 .. e[Sections] /\ at \in Nat
        BY <1>3, Numbers, Ordered
    <2>2. PICK m \in 1 .. Sections : e[m - 1] < at /\ at <= e[m]
        BY <2>1, Locate
    <2>3. stream[at].sec = m
        BY <2>1, <2>2, CellAt
    <2>4. ASSUME NEW k \in 1 .. Sections
          PROVE  e[k] <= at <=> m > k \/ (m = k /\ EndsSection(at))
        <3>1. CASE k < m
            <4>1. k <= m - 1
                BY <3>1
            <4>2. e[k] <= e[m - 1]
                BY <4>1, <1>1, Ordered
            <4> QED BY <3>1, <4>2, <2>1, <2>2, <1>1
        <3>2. CASE k > m
            <4>1. e[m] + 3 <= e[k]
                BY <3>2, <1>1, Rising
            <4> QED BY <3>2, <4>1, <2>1, <2>2, <1>1
        <3>3. CASE k = m
            <4>1. EndsSection(at) <=> \E l \in 1 .. Sections : at = e[l]
                BY <2>1, StartsAndEnds
            <4>2. ASSUME NEW l \in 1 .. Sections, at = e[l] PROVE l = m
                BY <4>2, <1>1, <2>1, <2>2, OneSection
            <4>3. EndsSection(at) <=> at = e[m]
                BY <4>1, <4>2
            <4> QED BY <3>3, <4>3, <2>1, <2>2, <1>1
        <3> QED BY <3>1, <3>2, <3>3
    <2>5. at > 0
        BY <2>1
    <2> QED BY <2>3, <2>4, <2>5 DEF Sent
<1> QED BY <1>2, <1>3

------------------------------------------------------------------------------
(* The stream of Init lies so.  g[i] is the first i sections one after the *)
(* other.                                                                  *)
Joined(g, seqs, m) ==
    g = [i \in 1 .. m |-> IF i = 1 THEN seqs[i] ELSE g[i - 1] \o seqs[i]]

LEMMA JoinedExists ==
    ASSUME NEW seqs, NEW m \in Nat
    PROVE  \E g : Joined(g, seqs, m)
<1> DEFINE Bad == {k \in Nat : ~ \E g : Joined(g, seqs, k)}
<1>1. SUFFICES ASSUME Bad # {} PROVE FALSE
    OBVIOUS
<1>2. PICK k \in Bad : \A y \in Bad : k <= y
    BY <1>1, LeastElement
<1>3. CASE k = 0
    <2> DEFINE g == [i \in 1 .. 0 |-> IF i = 1 THEN seqs[i] ELSE <<>>]
    <2>1. g = [i \in 1 .. 0 |-> IF i = 1 THEN seqs[i] ELSE g[i - 1] \o seqs[i]]
        OBVIOUS
    <2> HIDE DEF g
    <2>2. Joined(g, seqs, 0)
        BY <2>1, Zenon DEF Joined
    <2> QED BY <2>2, <1>2, <1>3
<1>4. CASE k # 0
    <2>1. k - 1 \in Nat /\ k \in Nat /\ ~ (k <= k - 1)
        BY <1>2, <1>4
    <2>2. PICK g : Joined(g, seqs, k - 1)
        BY <2>1, <1>2
    <2> DEFINE last == IF k = 1 THEN seqs[k] ELSE g[k - 1] \o seqs[k]
               h == [i \in 1 .. k |-> IF i = k THEN last ELSE g[i]]
    <2>3. ASSUME NEW i \in 1 .. k
          PROVE  h[i] = IF i = 1 THEN seqs[i] ELSE h[i - 1] \o seqs[i]
        <3>1. CASE i = k /\ i # 1
            <4>1. i - 1 \in 1 .. k /\ i - 1 # k
                BY <3>1, <2>1
            <4> QED BY <4>1, <3>1
        <3>2. CASE i = k /\ i = 1
            BY <3>2
        <3>3. CASE i # k
            <4>1. i \in 1 .. k - 1
                BY <3>3, <2>1
            <4>2. g[i] = IF i = 1 THEN seqs[i] ELSE g[i - 1] \o seqs[i]
                BY <4>1, <2>2 DEF Joined
            <4>3. h[i] = g[i]
                BY <3>3
            <4>4. i = 1 \/ h[i - 1] = g[i - 1]
                <5>1. i = 1 \/ (i - 1 \in 1 .. k /\ i - 1 # k)
                    BY <4>1, <2>1
                <5> QED BY <5>1
            <4> HIDE DEF h
            <4> QED BY <4>2, <4>3, <4>4, Zenon
        <3> QED BY <3>1, <3>2, <3>3
    <2>4. Joined(h, seqs, k)
        BY <2>3, Zenon DEF Joined
    <2> QED BY <2>4, <1>2
<1> QED BY <1>3, <1>4

(* A section's cells.                                                      *)
LEMMA SectionIsCells ==
    ASSUME Clean, NEW k \in 1 .. Sections, NEW n \in Lengths
    PROVE  Cells(k, n) \in Seq(Cell) /\ Len(Cells(k, n)) = n
<1>1. n \in Nat /\ n >= 3 /\ k \in Nat
    BY Numbers
<1>2. \A j \in 1 .. n :
        [sec |-> k, off |-> j - 1, val |-> IF j = Header THEN n - Header ELSE 0] \in Cell
    <2> TAKE j \in 1 .. n
    <2>1. j - 1 \in Nat /\ (IF j = Header THEN n - Header ELSE 0) \in Nat
        BY <1>1 DEF Header
    <2> QED BY <2>1, <1>1 DEF Cell
<1>3. Cells(k, n) \in [1 .. n -> Cell]
    BY <1>2, Zenon DEF Cells
<1> QED BY <1>1, <1>3

LEMMA InitialLayout ==
    ASSUME Clean, Init
    PROVE  \E e : Layout(e)
<1>1. PICK n \in [1 .. Sections -> Lengths] :
          stream = FlattenSeq([k \in 1 .. Sections |-> Cells(k, n[k])])
    BY DEF Init
<1> DEFINE seqs == [k \in 1 .. Sections |-> Cells(k, n[k])]
<1>2. Sections \in Nat /\ Len(seqs) = Sections
    BY Numbers
<1>3. \A k \in 1 .. Sections : /\ seqs[k] = Cells(k, n[k]) /\ n[k] \in Lengths /\ n[k] \in Nat
                               /\ seqs[k] \in Seq(Cell) /\ Len(seqs[k]) = n[k]
    BY SectionIsCells, Numbers
<1>4. CASE Sections = 0
    <2> DEFINE e == [k \in 0 .. 0 |-> 0]
    <2>1. stream = seqs
        BY <1>1, <1>2, <1>4 DEF FlattenSeq
    <2>2. seqs \in [1 .. 0 -> Cell]
        BY <1>4
    <2>3. stream \in Seq(Cell) /\ Len(stream) = 0
        BY <2>1, <2>2, <1>2, <1>4
    <2>4. 1 .. Sections = {}
        BY <1>4
    <2>5. Layout(e)
        BY <1>4, <2>3, <2>4 DEF Layout
    <2> QED BY <2>5
<1>5. CASE Sections # 0
    <2> DEFINE g == CHOOSE f : Joined(f, seqs, Len(seqs))
    <2>1. Joined(g, seqs, Sections)
        BY <1>2, JoinedExists
    <2>2. stream = g[Sections]
        <3>1. FlattenSeq(seqs) = g[Len(seqs)]
            BY <1>2, <1>5, Zenon DEF FlattenSeq, Joined
        <3> QED BY <3>1, <1>1, <1>2
    <2> HIDE DEF g, seqs
    <2>3. ASSUME NEW i \in 1 .. Sections
          PROVE  g[i] = IF i = 1 THEN seqs[i] ELSE g[i - 1] \o seqs[i]
        BY <2>1, Zenon DEF Joined
    <2>4. \A i \in 1 .. Sections : g[i] \in Seq(Cell)
        <3> DEFINE Bad == {i \in Nat : i \in 1 .. Sections /\ g[i] \notin Seq(Cell)}
        <3>1. SUFFICES ASSUME Bad # {} PROVE FALSE
            BY <1>2
        <3>2. PICK i \in Bad : \A y \in Bad : i <= y
            BY <3>1, LeastElement
        <3>3. i \in 1 .. Sections /\ g[i] \notin Seq(Cell)
            BY <3>2
        <3>4. i # 1
            BY <3>3, <2>3, <1>3
        <3>5. i - 1 \in 1 .. Sections /\ i - 1 \in Nat /\ ~ (i <= i - 1)
            BY <3>3, <3>4, <1>2
        <3>6. g[i - 1] \in Seq(Cell)
            BY <3>2, <3>5
        <3> QED BY <3>3, <3>4, <3>6, <2>3, <1>3, ConcatProperties, ZenonT(30)
    <2> DEFINE e == [i \in 0 .. Sections |-> IF i = 0 THEN 0 ELSE Len(g[i])]
    <2>5. e \in [0 .. Sections -> Nat] /\ e[0] = 0
        <3>1. \A i \in 1 .. Sections : Len(g[i]) \in Nat
            BY <2>4, LenProperties
        <3> QED BY <3>1, <1>2
    <2>6. ASSUME NEW i \in 1 .. Sections
          PROVE  /\ e[i] = e[i - 1] + n[i] /\ e[i] = Len(g[i])
                 /\ \A j \in 1 .. n[i] : g[i][e[i - 1] + j] = seqs[i][j]
                 /\ i # 1 => \A j \in 1 .. e[i - 1] : g[i][j] = g[i - 1][j]
        <3>1. e[i] = Len(g[i]) /\ i - 1 \in 0 .. Sections /\ i \in 0 .. Sections
            BY <1>2
        <3>2. CASE i = 1
            <4>1. e[i - 1] = 0 /\ g[i] = seqs[i]
                BY <3>2, <2>3, <2>5
            <4> QED BY <4>1, <3>1, <3>2, <1>3
        <3>3. CASE i # 1
            <4>1. i - 1 \in 1 .. Sections /\ i - 1 # 0
                BY <3>3, <1>2
            <4>2. g[i] = g[i - 1] \o seqs[i] /\ g[i - 1] \in Seq(Cell)
                BY <3>3, <4>1, <2>3, <2>4
            <4>3. e[i - 1] = Len(g[i - 1]) /\ e[i - 1] \in Nat
                BY <4>1, <3>1, <2>5
            <4>4. /\ Len(g[i]) = Len(g[i - 1]) + Len(seqs[i])
                  /\ \A j \in 1 .. Len(g[i - 1]) + Len(seqs[i]) :
                         g[i][j] = IF j <= Len(g[i - 1]) THEN g[i - 1][j]
                                   ELSE seqs[i][j - Len(g[i - 1])]
                <5> DEFINE u == g[i - 1]
                           v == seqs[i]
                <5>1. u \in Seq(Cell) /\ v \in Seq(Cell) /\ g[i] = u \o v
                    BY <1>3, <4>2
                <5> HIDE DEF u, v
                <5>2. /\ Len(u \o v) = Len(u) + Len(v)
                      /\ \A j \in 1 .. Len(u) + Len(v) :
                             (u \o v)[j] = IF j <= Len(u) THEN u[j] ELSE v[j - Len(u)]
                    BY <5>1, ConcatProperties
                <5> QED BY <5>1, <5>2 DEF u, v
            <4> HIDE DEF e
            <4>5. /\ Len(g[i]) = e[i - 1] + n[i]
                  /\ \A j \in 1 .. e[i - 1] + n[i] :
                         g[i][j] = IF j <= e[i - 1] THEN g[i - 1][j] ELSE seqs[i][j - e[i - 1]]
                BY <4>4, <4>3, <1>3
            <4>6. n[i] \in Nat
                BY <1>3
            <4>7. ASSUME NEW j \in 1 .. n[i] PROVE g[i][e[i - 1] + j] = seqs[i][j]
                <5>1. /\ e[i - 1] + j \in 1 .. e[i - 1] + n[i]
                      /\ ~ (e[i - 1] + j <= e[i - 1]) /\ (e[i - 1] + j) - e[i - 1] = j
                    BY <4>3, <4>6
                <5> QED BY <4>5, <5>1
            <4>8. ASSUME NEW j \in 1 .. e[i - 1] PROVE g[i][j] = g[i - 1][j]
                <5>1. j \in 1 .. e[i - 1] + n[i] /\ j <= e[i - 1]
                    BY <4>3, <4>6
                <5> QED BY <4>5, <5>1
            <4> QED BY <4>5, <4>7, <4>8, <3>1
        <3> QED BY <3>2, <3>3
    <2> HIDE DEF e
    <2>7. ASSUME NEW i \in 1 .. Sections, NEW l \in 1 .. Sections, i <= l
          PROVE  e[i] <= e[l] /\ \A j \in 1 .. e[i] : g[l][j] = g[i][j]
        <3> DEFINE Good(m) == e[i] <= e[m] /\ \A j \in 1 .. e[i] : g[m][j] = g[i][j]
                   Bad == {m \in Nat : m \in i .. Sections /\ ~ Good(m)}
        <3>1. SUFFICES ASSUME Bad # {} PROVE FALSE
            <4>1. l \in Nat /\ l \in i .. Sections
                BY <1>2, <2>7
            <4> QED BY <4>1
        <3>2. PICK m \in Bad : \A y \in Bad : m <= y
            BY <3>1, LeastElement
        <3>3. m \in i .. Sections /\ ~ Good(m) /\ m \in 1 .. Sections
            BY <3>2, <1>2
        <3>4. \A k \in 0 .. Sections : e[k] \in Nat
            BY <2>5
        <3>5. m # i
            BY <3>3, <3>4
        <3>6. m - 1 \in i .. Sections /\ m - 1 \in Nat /\ ~ (m <= m - 1) /\ m # 1
              /\ m - 1 \in 0 .. Sections /\ i \in 0 .. Sections
            BY <3>3, <3>5, <1>2
        <3>7. Good(m - 1)
            BY <3>2, <3>6
        <3>8. e[m] = e[m - 1] + n[m] /\ n[m] \in Nat
              /\ \A j \in 1 .. e[m - 1] : g[m][j] = g[m - 1][j]
            BY <2>6, <1>3, <3>3, <3>6
        <3>9. e[m - 1] \in Nat /\ e[i] \in Nat
            BY <3>4, <3>6
        <3>10. e[i] <= e[m]
            BY <3>7, <3>8, <3>9
        <3>11. ASSUME NEW j \in 1 .. e[i] PROVE g[m][j] = g[i][j]
            <4>1. j \in 1 .. e[m - 1]
                BY <3>7, <3>9
            <4> QED BY <4>1, <3>7, <3>8
        <3> QED BY <3>3, <3>10, <3>11
    <2>8. Sections \in 1 .. Sections
        BY <1>2, <1>5
    <2>9. \A k \in 1 .. Sections : Size(e, k) = n[k]
        <3> TAKE k \in 1 .. Sections
        <3>1. k - 1 \in 0 .. Sections
            BY <1>2
        <3>2. e[k - 1] \in Nat /\ n[k] \in Nat /\ e[k] = e[k - 1] + n[k]
            BY <2>5, <2>6, <1>3, <3>1
        <3> QED BY <3>2 DEF Size
    <2>10. stream \in Seq(Cell) /\ Len(stream) = e[Sections]
        BY <2>2, <2>4, <2>6, <2>8
    <2>11. ASSUME NEW k \in 1 .. Sections, NEW j \in 1 .. Size(e, k)
           PROVE  stream[e[k - 1] + j] =
                      [sec |-> k, off |-> j - 1,
                       val |-> IF j = Header THEN Size(e, k) - Header ELSE 0]
        <3>1. k - 1 \in 0 .. Sections /\ k <= Sections
            BY <1>2
        <3>2. e[k - 1] \in Nat /\ n[k] \in Nat /\ e[k] = e[k - 1] + n[k] /\ j \in 1 .. n[k]
            BY <2>5, <2>6, <2>9, <1>3, <3>1
        <3>3. e[k - 1] + j \in 1 .. e[k]
            BY <3>2
        <3>4. stream[e[k - 1] + j] = seqs[k][j]
            BY <3>1, <3>2, <3>3, <2>2, <2>6, <2>7, <2>8, ZenonT(30)
        <3>5. seqs[k] = Cells(k, n[k])
            BY <1>3
        <3> QED BY <3>2, <3>4, <3>5, <2>9 DEF Cells
    <2>12. \A k \in 1 .. Sections : Size(e, k) \in Lengths
        BY <2>9, <1>3
    <2>13. Layout(e)
        BY <2>5, <2>10, <2>11, <2>12, Zenon DEF Layout
    <2> QED BY <2>13
<1> QED BY <1>4, <1>5

------------------------------------------------------------------------------
(* The loop of StartSections.  g[i] is what it makes of the bytes from i.  *)
LoopBody(g, rest, i) ==
    LET left  == SubSeq(rest, i, Len(rest))
        total == TotalLen(left)
    IN  IF left = <<>> \/ left[1].val = 255 THEN State(<<>>, None, <<>>, FALSE)
        ELSE IF Len(left) < Header THEN State(left, None, <<>>, FALSE)
        ELSE IF TooLong(total) THEN Overrun
        ELSE IF Len(left) < total THEN State(left, total, <<>>, FALSE)
        ELSE LET later == g[i + total] IN
             IF later.err THEN Overrun
             ELSE [later EXCEPT !.out = <<SubSeq(left, 1, total)>> \o @]

Loop(g, rest, a) == g = [i \in a .. Len(rest) + 1 |-> LoopBody(g, rest, i)]

LEMMA LeftOver ==
    ASSUME NEW rest \in Seq(Cell), NEW i \in 1 .. Len(rest) + 1
    PROVE  LET left == SubSeq(rest, i, Len(rest)) IN
           /\ left \in Seq(Cell) /\ Len(left) = (Len(rest) - i) + 1
           /\ \A j \in 1 .. (Len(rest) - i) + 1 : left[j] = rest[(i + j) - 1]
           /\ left = <<>> <=> i = Len(rest) + 1
<1>1. Len(rest) \in Nat /\ i \in Int /\ i >= 1
    BY LenProperties
<1>2. \A j \in i .. Len(rest) : rest[j] \in Cell
    BY <1>1, ElementOfSeq
<1> DEFINE n == Len(rest)
           left == SubSeq(rest, i, n)
<1>3. n \in Nat /\ i <= n + 1
    BY <1>1
<1>4. /\ left \in Seq(Cell)
      /\ Len(left) = IF i <= n THEN n - i + 1 ELSE 0
      /\ \A j \in 1 .. n - i + 1 : left[j] = rest[i + j - 1]
    <2>1. \A j \in i .. n : rest[j] \in Cell
        BY <1>2
    <2> HIDE DEF n
    <2> QED BY <2>1, <1>1, <1>3, SubSeqProperties
<1> HIDE DEF left, n
<1>5. Len(left) = (n - i) + 1
    BY <1>1, <1>3, <1>4
<1>6. left = <<>> <=> i = n + 1
    BY <1>1, <1>3, <1>4, <1>5, EmptySeq
<1> QED BY <1>4, <1>5, <1>6 DEF left, n

(* The loop looks ahead only.                                              *)
LEMMA BodyAgrees ==
    ASSUME NEW rest \in Seq(Cell), NEW i \in 1 .. Len(rest) + 1, NEW g, NEW h,
           \A j \in i + 1 .. Len(rest) + 1 : g[j] = h[j]
    PROVE  LoopBody(g, rest, i) = LoopBody(h, rest, i)
<1> DEFINE left  == SubSeq(rest, i, Len(rest))
           total == TotalLen(left)
<1>1. /\ left \in Seq(Cell) /\ Len(left) = (Len(rest) - i) + 1 /\ Len(rest) \in Nat
      /\ Len(left) \in Nat
    BY LeftOver, LenProperties
<1>2. CASE left = <<>> \/ left[1].val = 255 \/ Len(left) < Header
    BY <1>2 DEF LoopBody
<1>3. CASE ~ (Len(left) < Header)
    <2>1. left[2] \in Cell /\ left[3] \in Cell
        BY <1>1, <1>3, ElementOfSeq DEF Header
    <2>2. total \in Nat /\ total >= 3
        <3> DEFINE x == left[2].val
                   y == left[3].val
        <3>1. x \in Nat /\ y \in Nat
            BY <2>1 DEF Cell
        <3>2. total = 3 + (x % 16) * 256 + y
            BY DEF TotalLen
        <3> HIDE DEF x, y, total
        <3>3. x % 16 \in Nat
            BY <3>1
        <3> QED BY <3>1, <3>2, <3>3
    <2>3. CASE Len(left) < total
        BY <2>3 DEF LoopBody
    <2>4. CASE ~ (Len(left) < total)
        <3> HIDE DEF total, left
        <3>1. i + total \in i + 1 .. Len(rest) + 1
            BY <2>2, <2>4, <1>1
        <3>2. g[i + total] = h[i + total]
            BY <3>1
        <3> QED BY <3>2, Zenon DEF LoopBody, total, left
    <2> QED BY <2>3, <2>4
<1> QED BY <1>2, <1>3

LEMMA LoopExists ==
    ASSUME NEW rest \in Seq(Cell)
    PROVE  \E g : Loop(g, rest, 1)
<1> DEFINE N == Len(rest) + 1
           Bad == {k \in Nat : k <= N /\ ~ \E g : Loop(g, rest, (N - k) + 1)}
<1>1. N \in Nat /\ N >= 1 /\ (N - N) + 1 = 1
    BY LenProperties
<1>2. SUFFICES ASSUME Bad # {} PROVE FALSE
    BY <1>1
<1>3. PICK k \in Bad : \A y \in Bad : k <= y
    BY <1>2, LeastElement
<1>4. k \in Nat /\ k <= N /\ ~ \E g : Loop(g, rest, (N - k) + 1)
    BY <1>3
<1>5. CASE k = 0
    <2> DEFINE g == [i \in (N - k) + 1 .. N |-> 0]
    <2>1. (N - k) + 1 .. N = {}
        BY <1>1, <1>5
    <2>2. g = [i \in (N - k) + 1 .. N |-> LoopBody(g, rest, i)]
        BY <2>1
    <2> HIDE DEF g
    <2>3. Loop(g, rest, (N - k) + 1)
        BY <2>2 DEF Loop
    <2> QED BY <2>3, <1>4
<1>6. CASE k # 0
    <2> DEFINE a == (N - k) + 1
    <2>1. k - 1 \in Nat /\ ~ (k <= k - 1) /\ k - 1 <= N /\ (N - (k - 1)) + 1 = a + 1
          /\ a \in 1 .. N
        BY <1>1, <1>4, <1>6
    <2>2. PICK g : Loop(g, rest, a + 1)
        BY <2>1, <1>3
    <2> HIDE DEF a, N
    <2> DEFINE h == [i \in a .. N |-> IF i = a THEN LoopBody(g, rest, a) ELSE g[i]]
    <2>3. \A j \in a + 1 .. N : g[j] = h[j]
        BY <2>1, <1>1
    <2>4. ASSUME NEW i \in a .. N PROVE h[i] = LoopBody(h, rest, i)
        <3>1. i \in 1 .. N /\ \A j \in i + 1 .. N : g[j] = h[j]
            BY <2>1, <2>3, <1>1
        <3>2. h[i] = IF i = a THEN LoopBody(g, rest, a) ELSE g[i]
            OBVIOUS
        <3> HIDE DEF h
        <3>3. LoopBody(g, rest, i) = LoopBody(h, rest, i)
            BY <3>1, BodyAgrees DEF N
        <3>4. i # a => i \in a + 1 .. N
            BY <2>1, <1>1
        <3>5. i # a => g[i] = LoopBody(g, rest, i)
            BY <3>4, <2>2, Zenon DEF Loop, N
        <3> QED BY <3>2, <3>3, <3>5
    <2>5. h = [i \in a .. N |-> LoopBody(h, rest, i)]
        <3>1. h = [i \in a .. N |-> h[i]]
            OBVIOUS
        <3> HIDE DEF h
        <3> QED BY <3>1, <2>4, Zenon
    <2> HIDE DEF h
    <2>6. Loop(h, rest, a)
        BY <2>5 DEF Loop, N
    <2> QED BY <2>6, <1>4 DEF a
<1> QED BY <1>5, <1>6

(* Nothing left, or stuffing.                                              *)
LEMMA BodyEnd ==
    ASSUME NEW rest \in Seq(Cell), NEW i \in 1 .. Len(rest) + 1, NEW g,
           i = Len(rest) + 1 \/ rest[i].val = 255
    PROVE  LoopBody(g, rest, i) = Ok(<<>>, None, <<>>)
<1> DEFINE left == SubSeq(rest, i, Len(rest))
<1>1. /\ left = <<>> <=> i = Len(rest) + 1
      /\ \A j \in 1 .. (Len(rest) - i) + 1 : left[j] = rest[(i + j) - 1]
    BY LeftOver
<1>2. i # Len(rest) + 1 => 1 \in 1 .. (Len(rest) - i) + 1 /\ (i + 1) - 1 = i
    BY LenProperties
<1>3. left = <<>> \/ left[1].val = 255
    BY <1>1, <1>2
<1> QED BY <1>3 DEF LoopBody, Ok

(* The header of a section of length n at i.                               *)
HeaderAt(rest, i, n) ==
    rest[i].val = 0 /\ rest[i + 1].val = 0 /\ rest[i + 2].val = n - Header

LEMMA HeaderRead ==
    ASSUME Clean, NEW rest \in Seq(Cell), NEW i \in 1 .. Len(rest) + 1, NEW n \in Nat,
           i + 2 <= Len(rest), HeaderAt(rest, i, n)
    PROVE  LET left == SubSeq(rest, i, Len(rest)) IN
           /\ left # <<>> /\ left[1].val # 255 /\ ~ (Len(left) < Header)
           /\ TotalLen(left) = n /\ Len(left) = (Len(rest) - i) + 1
           /\ TooLong(TotalLen(left)) <=> n > MaxLen
<1> DEFINE left == SubSeq(rest, i, Len(rest))
<1>1. /\ Len(left) = (Len(rest) - i) + 1
      /\ \A j \in 1 .. (Len(rest) - i) + 1 : left[j] = rest[(i + j) - 1]
      /\ left = <<>> <=> i = Len(rest) + 1
    BY LeftOver
<1>2. Len(rest) \in Nat
    BY LenProperties
<1>3. /\ 1 \in 1 .. (Len(rest) - i) + 1 /\ 2 \in 1 .. (Len(rest) - i) + 1
      /\ 3 \in 1 .. (Len(rest) - i) + 1
      /\ (i + 1) - 1 = i /\ (i + 2) - 1 = i + 1 /\ (i + 3) - 1 = i + 2
    BY <1>2
<1>4. left[1].val = 0 /\ left[2].val = 0 /\ left[3].val = n - 3
    BY <1>1, <1>3 DEF HeaderAt, Header
<1>5. TotalLen(left) = 3 + (0 % 16) * 256 + (n - 3)
    BY <1>4 DEF TotalLen
<1>6. TotalLen(left) = n
    BY <1>5
<1>7. ~ (Len(left) < Header) /\ left # <<>> /\ left[1].val # 255
    BY <1>1, <1>2, <1>4 DEF Header
<1>8. TooLong(TotalLen(left)) <=> n > MaxLen
    BY <1>6 DEF TooLong
<1> QED BY <1>1, <1>6, <1>7, <1>8

LEMMA BodyOver ==
    ASSUME Clean, NEW rest \in Seq(Cell), NEW i \in 1 .. Len(rest) + 1, NEW n \in Nat, NEW g,
           i + 2 <= Len(rest), HeaderAt(rest, i, n), n > MaxLen
    PROVE  LoopBody(g, rest, i) = Overrun
<1> DEFINE left == SubSeq(rest, i, Len(rest))
<1>1. /\ left # <<>> /\ left[1].val # 255 /\ ~ (Len(left) < Header)
      /\ TotalLen(left) = n /\ Len(left) = (Len(rest) - i) + 1
      /\ TooLong(TotalLen(left)) <=> n > MaxLen
    BY HeaderRead
<1> HIDE DEF left
<1> QED BY <1>1, Zenon DEF LoopBody, left

LEMMA BodyPart ==
    ASSUME Clean, NEW rest \in Seq(Cell), NEW i \in 1 .. Len(rest) + 1, NEW n \in Nat, NEW g,
           i + 2 <= Len(rest), HeaderAt(rest, i, n), n <= MaxLen, (Len(rest) - i) + 1 < n
    PROVE  LoopBody(g, rest, i) = Ok(Part(rest, i, Len(rest)), n, <<>>)
<1> DEFINE left == SubSeq(rest, i, Len(rest))
<1>1. /\ left # <<>> /\ left[1].val # 255 /\ ~ (Len(left) < Header)
      /\ TotalLen(left) = n /\ Len(left) = (Len(rest) - i) + 1
      /\ TooLong(TotalLen(left)) <=> n > MaxLen
    BY HeaderRead
<1>2. ~ TooLong(TotalLen(left)) /\ Len(left) < n
    BY <1>1, Numbers
<1> HIDE DEF left
<1> QED BY <1>1, <1>2, Zenon DEF LoopBody, left, Ok, Part

(* A section of length n that ends at z, before j.                         *)
SectionAt(rest, i, n, z, j) ==
    /\ rest \in Seq(Cell) /\ i \in 1 .. Len(rest) + 1 /\ n \in Nat
    /\ z \in Int /\ j \in Int /\ z = (i + n) - 1 /\ j = i + n
    /\ HeaderAt(rest, i, n) /\ 3 <= n /\ n <= MaxLen /\ z <= Len(rest)

(* What a section in front makes of the rest of the loop.                  *)
InFront(one, later) == IF later.err THEN Overrun ELSE [later EXCEPT !.out = <<one>> \o @]

LEMMA BodyIs ==
    ASSUME Clean, NEW rest, NEW i, NEW n, NEW z, NEW j, NEW g, SectionAt(rest, i, n, z, j)
    PROVE  LoopBody(g, rest, i) = InFront(Part(rest, i, z), g[j])
<1> USE DEF SectionAt
<1> DEFINE left == SubSeq(rest, i, Len(rest))
           one  == SubSeq(left, 1, n)
           later == g[j]
<1>1. Len(rest) \in Nat /\ i + 2 <= Len(rest)
    BY LenProperties
<1>2. /\ left # <<>> /\ left[1].val # 255 /\ ~ (Len(left) < Header)
      /\ TotalLen(left) = n /\ Len(left) = (Len(rest) - i) + 1
      /\ TooLong(TotalLen(left)) <=> n > MaxLen
    BY <1>1, HeaderRead
<1>3. ~ TooLong(TotalLen(left)) /\ ~ (Len(left) < n)
    BY <1>1, <1>2, Numbers, SMTT(30)
<1>4. one = Part(rest, i, z)
    <2>1. left \in Seq(Cell)
        BY LeftOver
    <2>2. i \in 1 .. Len(rest) /\ Len(rest) \in 1 .. Len(rest) /\ 1 \in 1 .. Len(rest) - i + 1
          /\ n \in 1 .. Len(rest) - i + 1 /\ i + 1 - 1 = i /\ i + n - 1 = z
        BY <1>1
    <2>3. one = SubSeq(rest, i + 1 - 1, i + n - 1)
        BY <2>2, SubSeqOfSubSeq
    <2> QED BY <2>2, <2>3 DEF Part
<1> HIDE DEF left
<1>5. later = g[i + n]
    OBVIOUS
<1> HIDE DEF later
<1>6. LoopBody(g, rest, i) = IF later.err THEN Overrun
                             ELSE [later EXCEPT !.out = <<one>> \o @]
    BY <1>2, <1>3, <1>5, Zenon DEF LoopBody, left
<1> HIDE DEF one
<1> QED BY <1>4, <1>6, Zenon DEF later, InFront

LEMMA BodyFails ==
    ASSUME Clean, NEW rest, NEW i, NEW n, NEW z, NEW j, NEW g, SectionAt(rest, i, n, z, j),
           g[j] = Overrun
    PROVE  LoopBody(g, rest, i) = Overrun
<1> DEFINE later == g[j]
<1>1. later = Overrun
    OBVIOUS
<1>2. LoopBody(g, rest, i) = InFront(Part(rest, i, z), later)
    BY BodyIs
<1> HIDE DEF later
<1>3. later.err
    BY <1>1, Zenon DEF Overrun, State
<1> QED BY <1>2, <1>3, Zenon DEF InFront

LEMMA BodyWhole ==
    ASSUME Clean, NEW rest, NEW i, NEW n, NEW z, NEW j, NEW g, SectionAt(rest, i, n, z, j),
           NEW b, NEW t, NEW o, g[j] = Ok(b, t, o)
    PROVE  LoopBody(g, rest, i) = Ok(b, t, <<Part(rest, i, z)>> \o o)
<1> DEFINE later == g[j]
           one == Part(rest, i, z)
           x == <<one>> \o o
           f == FALSE
<1>1. later = Ok(b, t, o)
    OBVIOUS
<1>2. LoopBody(g, rest, i) = InFront(one, later)
    BY BodyIs
<1> HIDE DEF later, one
<1>3. ~ later.err
    BY <1>1, Zenon DEF State, Ok
<1>4. later.out = o
    BY <1>1 DEF State, Ok
<1>5. [later EXCEPT !.out = <<one>> \o @] = [later EXCEPT !.out = x]
    BY <1>4
<1> HIDE DEF x, f
<1>6. [State(b, t, o, f) EXCEPT !.out = x] = State(b, t, x, f)
    BY DEF State
<1>7. [later EXCEPT !.out = x] = Ok(b, t, x)
    BY <1>1, <1>6, Zenon DEF f, Ok
<1> QED BY <1>2, <1>3, <1>5, <1>7, Zenon DEF x, one, InFront

------------------------------------------------------------------------------
(* The bytes of a packet: the cells from + 1 .. to and, where a section    *)
(* ends, stuffing.                                                         *)
Carried(e, rest, from, to) ==
    /\ rest \in Seq(Cell) /\ to - from <= Len(rest)
    /\ \A j \in 1 .. to - from : rest[j] = stream[from + j]
    /\ \A j \in (to - from) + 1 .. Len(rest) : rest[j].val = 255
    /\ to - from < Len(rest) => \E k \in 1 .. Sections : to = e[k]

(* Section hi is the last that ends at or before `to'.                     *)
LastEnd(e, to, hi) == hi \in 0 .. Sections /\ e[hi] <= to /\ (hi < Sections => to < e[hi + 1])

(* The sections lo + 1 .. hi.                                              *)
Run(e, lo, hi) == [i \in 1 .. hi - lo |-> Whole(e, lo + i)]

(* What is left of section hi + 1 behind `to'.                             *)
TipBuf(e, hi, to)    == IF e[hi] < to THEN Part(stream, e[hi] + 1, to) ELSE <<>>
TipTarget(e, hi, to) == IF e[hi] < to THEN Size(e, hi + 1) ELSE None

LEMMA Lasts ==
    ASSUME Clean, NEW e, Layout(e), NEW to \in 0 .. e[Sections]
    PROVE  \E hi : LastEnd(e, to, hi)
<1> DEFINE S == {k \in Nat : k <= Sections /\ to <= e[k]}
<1>1. e[Sections] \in Nat /\ Sections \in Nat /\ to \in Nat
    BY Ordered, Numbers
<1>2. Sections \in S
    BY <1>1
<1>3. PICK k \in S : \A y \in S : k <= y
    BY <1>2, LeastElement
<1>4. CASE to = e[k]
    <2>1. k \in 0 .. Sections
        BY <1>1, <1>3
    <2>2. k < Sections => e[k] + 3 <= e[k + 1] /\ e[k + 1] \in Nat
        <3> SUFFICES ASSUME k < Sections PROVE e[k] + 3 <= e[k + 1] /\ e[k + 1] \in Nat
            OBVIOUS
        <3>1. k + 1 \in 1 .. Sections /\ (k + 1) - 1 = k
            BY <1>1, <1>3
        <3> QED BY <3>1, Bounds
    <2> QED BY <2>1, <2>2, <1>1, <1>4 DEF LastEnd
<1>5. CASE to # e[k]
    <2>1. k # 0
        BY <1>1, <1>3, <1>5 DEF Layout
    <2>2. k \in 1 .. Sections /\ k - 1 \in Nat /\ k - 1 <= Sections /\ ~ (k <= k - 1)
          /\ (k - 1) + 1 = k /\ k - 1 \in 0 .. Sections
        BY <1>1, <1>3, <2>1
    <2>3. ~ (to <= e[k - 1])
        BY <1>3, <2>2
    <2>4. e[k - 1] \in Nat /\ e[k] \in Nat /\ to < e[k]
        BY <1>1, <1>3, <1>5, <2>2, Bounds
    <2>5. LastEnd(e, to, k - 1)
        BY <2>2, <2>3, <2>4, <1>1 DEF LastEnd
    <2> QED BY <2>5
<1> QED BY <1>4, <1>5

LEMMA LastOrdered ==
    ASSUME Clean, NEW e, Layout(e), NEW to \in Int, NEW hi, LastEnd(e, to, hi),
           NEW k \in 0 .. Sections
    PROVE  /\ k <= hi <=> e[k] <= to
           /\ hi \in Nat /\ e[hi] \in Nat /\ e[k] \in Nat
<1>1. hi \in 0 .. Sections /\ e[hi] <= to /\ hi \in Nat /\ Sections \in Nat
    BY Numbers DEF LastEnd
<1>2. k <= hi <=> e[k] <= e[hi]
    BY <1>1, Ordered
<1>3. e[hi] \in Nat /\ e[k] \in Nat
    BY <1>1, Ordered
<1>4. ASSUME k > hi PROVE e[k] > to
    <2>1. hi < Sections /\ hi + 1 \in 0 .. Sections /\ hi + 1 <= k
        BY <1>1, <1>4
    <2>2. to < e[hi + 1]
        BY <2>1 DEF LastEnd
    <2>3. e[hi + 1] <= e[k] /\ e[hi + 1] \in Nat
        BY <2>1, Ordered
    <2> QED BY <2>2, <2>3, <1>3
<1> QED BY <1>1, <1>2, <1>3, <1>4

(* The bytes m .. n of such bytes are the cells c .. b of the stream.      *)
StretchOf(e, rest, from, to, m, n, c, b) ==
    /\ from \in Nat /\ to \in Nat /\ to <= e[Sections] /\ Carried(e, rest, from, to)
    /\ c \in Nat /\ b \in Nat /\ from < c /\ c <= b + 1 /\ b <= to
    /\ m \in Int /\ n \in Int /\ m = c - from /\ n = b - from

LEMMA Stretch ==
    ASSUME Clean, NEW e, Layout(e), NEW rest, NEW from, NEW to,
           NEW m, NEW n, NEW c, NEW b, StretchOf(e, rest, from, to, m, n, c, b)
    PROVE  /\ Part(rest, m, n) = Part(stream, c, b)
           /\ Part(stream, c, b) \in Seq(Cell)
           /\ Len(Part(stream, c, b)) = (b - c) + 1
<1> USE DEF StretchOf
<1>1. rest \in Seq(Cell) /\ Len(rest) \in Nat /\ to - from <= Len(rest)
      /\ stream \in Seq(Cell) /\ Len(stream) = e[Sections] /\ e[Sections] \in Nat
    BY LenProperties, Ordered, Numbers DEF Carried, Layout
<1> DEFINE s == SubSeq(rest, m, n)
           t == SubSeq(stream, c, b)
<1>2. (n - m) + 1 = (b - c) + 1 /\ m >= 1 /\ n <= Len(rest) /\ c >= 1 /\ b <= Len(stream)
      /\ m + from = c /\ n <= to - from
    BY <1>1
<1>3. \A i \in m .. n : rest[i] \in Cell
    <2>1. m .. n \subseteq 1 .. Len(rest)
        BY <1>2, <1>1
    <2> QED BY <2>1, <1>1, ElementOfSeq
<1>4. \A i \in c .. b : stream[i] \in Cell
    <2>1. c .. b \subseteq 1 .. Len(stream)
        BY <1>2, <1>1
    <2> QED BY <2>1, <1>1, ElementOfSeq
<1>5. \A i \in 1 .. to - from : rest[i] = stream[from + i]
    BY DEF Carried
<1>6. /\ s \in Seq(Cell) /\ Len(s) = IF m <= n THEN n - m + 1 ELSE 0
      /\ \A i \in 1 .. n - m + 1 : s[i] = rest[m + i - 1]
    BY <1>2, <1>3, SubSeqProperties
<1>7. /\ t \in Seq(Cell) /\ Len(t) = IF c <= b THEN b - c + 1 ELSE 0
      /\ \A i \in 1 .. b - c + 1 : t[i] = stream[c + i - 1]
    BY <1>2, <1>4, SubSeqProperties
<1> HIDE DEF s, t
<1>8. Len(s) = (b - c) + 1 /\ Len(t) = (b - c) + 1
    BY <1>2, <1>6, <1>7
<1>9. \A i \in 1 .. Len(s) : s[i] = t[i]
    <2> TAKE i \in 1 .. Len(s)
    <2>1. i \in 1 .. n - m + 1 /\ i \in 1 .. b - c + 1 /\ m + i - 1 \in 1 .. to - from
          /\ from + (m + i - 1) = c + i - 1
        BY <1>2, <1>8
    <2> QED BY <2>1, <1>5, <1>6, <1>7
<1>10. s = t
    BY <1>6, <1>7, <1>8, <1>9, SeqEqual
<1>11. s = Part(rest, m, n) /\ t = Part(stream, c, b)
    BY DEF s, t, Part
<1> QED BY <1>7, <1>8, <1>10, <1>11

(* The bytes behind a position.                                            *)
LEMMA CarriedSuffix ==
    ASSUME Clean, NEW e, Layout(e), NEW rest, NEW from \in Nat, NEW to \in Nat,
           Carried(e, rest, from, to), NEW q \in Nat, from <= q, q <= to
    PROVE  Carried(e, SubSeq(rest, (q - from) + 1, Len(rest)), q, to)
<1> DEFINE i == (q - from) + 1
           left == SubSeq(rest, i, Len(rest))
<1>1. rest \in Seq(Cell) /\ Len(rest) \in Nat /\ to - from <= Len(rest)
    BY LenProperties DEF Carried
<1>2. i \in 1 .. Len(rest) + 1
    BY <1>1
<1>3. /\ left \in Seq(Cell) /\ Len(left) = (Len(rest) - i) + 1
      /\ \A j \in 1 .. (Len(rest) - i) + 1 : left[j] = rest[(i + j) - 1]
    BY <1>1, <1>2, LeftOver
<1> HIDE DEF left
<1>4. to - q <= Len(left) /\ (to - q < Len(left) => to - from < Len(rest))
    BY <1>1, <1>3
<1>5. ASSUME NEW j \in 1 .. to - q PROVE left[j] = stream[q + j]
    <2>1. j \in 1 .. (Len(rest) - i) + 1 /\ (i + j) - 1 \in 1 .. to - from
          /\ from + ((i + j) - 1) = q + j
        BY <1>1
    <2> QED BY <2>1, <1>3 DEF Carried
<1>6. ASSUME NEW j \in (to - q) + 1 .. Len(left) PROVE left[j].val = 255
    <2>1. j \in 1 .. (Len(rest) - i) + 1 /\ (i + j) - 1 \in (to - from) + 1 .. Len(rest)
        BY <1>1, <1>3
    <2>2. left[j] = rest[(i + j) - 1]
        BY <2>1, <1>3
    <2>3. rest[(i + j) - 1].val = 255
        BY <2>1 DEF Carried
    <2> QED BY <2>2, <2>3
<1> QED BY <1>3, <1>4, <1>5, <1>6 DEF Carried, left

(* The header of a section that starts in the packet.                      *)
LEMMA CarriedHeader ==
    ASSUME Clean, NEW e, Layout(e), NEW rest, NEW from \in Nat, NEW to \in Nat,
           NEW m \in 0 .. Sections - 1, from <= e[m], e[m] + 3 <= to,
           \A j \in 1 .. 3 :
               rest[(e[m] - from) + j] = stream[from + ((e[m] - from) + j)]
    PROVE  HeaderAt(rest, (e[m] - from) + 1, Size(e, m + 1))
<1>1. m + 1 \in 1 .. Sections /\ (m + 1) - 1 = m
    BY Numbers
<1>2. e[m] \in Nat /\ e[m + 1] \in Nat /\ e[m] + 3 <= e[m + 1]
    BY <1>1, Bounds
<1>3. \A j \in 1 .. 3 : /\ from + ((e[m] - from) + j) = e[m] + j
                        /\ e[m] + j \in Int /\ e[m] < e[m] + j /\ e[m] + j <= e[m + 1]
                        /\ (e[m] + j) - e[m] = j
    BY <1>2
<1>4. \A j \in 1 .. 3 :
          stream[e[m] + j].val = IF j = Header THEN Size(e, m + 1) - Header ELSE 0
    <2> DEFINE k == m + 1
    <2>1. k \in 1 .. Sections /\ e[k - 1] = e[m]
        BY <1>1
    <2> HIDE DEF k
    <2> TAKE j \in 1 .. 3
    <2>2. /\ e[m] + j \in Int /\ e[k - 1] < e[m] + j /\ e[m] + j <= e[k]
          /\ (e[m] + j) - e[k - 1] = j
        BY <1>3, <2>1 DEF k
    <2>3. stream[e[m] + j].val = IF (e[m] + j) - e[k - 1] = Header THEN Size(e, k) - Header ELSE 0
        BY <2>1, <2>2, CellAt
    <2> QED BY <2>2, <2>3 DEF k
<1>5. \A j \in 1 .. 3 :
          rest[(e[m] - from) + j].val = IF j = Header THEN Size(e, m + 1) - Header ELSE 0
    BY <1>3, <1>4
<1>6. ((e[m] - from) + 1) + 1 = (e[m] - from) + 2 /\ ((e[m] - from) + 1) + 2 = (e[m] - from) + 3
    BY <1>2
<1> QED BY <1>5, <1>6 DEF HeaderAt, Header

(* Runs of sections.                                                       *)
LEMMA RunIsSeq ==
    ASSUME Clean, NEW e, Layout(e), NEW lo \in 0 .. Sections, NEW hi \in -1 .. Sections
    PROVE  /\ Run(e, lo, hi) \in Seq(Seq(Cell))
           /\ Len(Run(e, lo, hi)) = IF lo <= hi THEN hi - lo ELSE 0
           /\ \A i \in 1 .. hi - lo : Run(e, lo, hi)[i] = Whole(e, lo + i)
           /\ hi <= lo => Run(e, lo, hi) = <<>>
<1>1. lo \in Nat /\ hi \in Int /\ Sections \in Nat
    BY Numbers
<1>2. \A i \in 1 .. hi - lo : Run(e, lo, hi)[i] = Whole(e, lo + i)
    BY DEF Run
<1>3. CASE hi <= lo
    <2>1. 1 .. hi - lo = {}
        BY <1>1, <1>3
    <2>2. Run(e, lo, hi) = <<>>
        BY <2>1 DEF Run
    <2> QED BY <2>2, <1>1, <1>2, <1>3, EmptySeq
<1>4. CASE lo < hi
    <2> DEFINE n == hi - lo
    <2>1. n \in Nat /\ lo <= hi /\ ~ (hi <= lo)
        BY <1>1, <1>4
    <2>2. \A i \in 1 .. n : Whole(e, lo + i) \in Seq(Cell)
        <3> TAKE i \in 1 .. n
        <3>1. lo + i \in 1 .. Sections
            BY <1>1, <1>4
        <3> QED BY <3>1, WholeSection
    <2> HIDE DEF n
    <2> DEFINE r == [i \in 1 .. n |-> Whole(e, lo + i)]
    <2>3. r \in [1 .. n -> Seq(Cell)]
        BY <2>2, Zenon
    <2> HIDE DEF r
    <2>5. r \in Seq(Seq(Cell)) /\ Len(r) = n
        BY <2>1, <2>3
    <2>6. Run(e, lo, hi) = r
        BY DEF Run, r, n
    <2> QED BY <2>1, <2>5, <2>6, <1>2 DEF n
<1> QED BY <1>1, <1>3, <1>4

LEMMA RunPrepend ==
    ASSUME Clean, NEW e, Layout(e), NEW m \in 0 .. Sections, NEW hi \in 0 .. Sections, m < hi,
           NEW k \in Nat, k = m + 1
    PROVE  <<Whole(e, k)>> \o Run(e, k, hi) = Run(e, m, hi)
<1> DEFINE w == Whole(e, k)
           r == Run(e, k, hi)
           t == Run(e, m, hi)
           u == <<w>>
           n == hi - m
<1>1. k \in 1 .. Sections /\ k \in 0 .. Sections /\ hi \in -1 .. Sections /\ m \in Nat
      /\ hi \in Nat
    BY Numbers
<1>2. w \in Seq(Cell)
    BY <1>1, WholeSection
<1>3. n \in Nat /\ n >= 1 /\ hi - k = n - 1 /\ m <= hi /\ k <= hi
    BY <1>1
<1>4. /\ r \in Seq(Seq(Cell)) /\ Len(r) = n - 1
      /\ \A i \in 1 .. n - 1 : r[i] = Whole(e, k + i)
    BY <1>1, <1>3, RunIsSeq
<1>5. /\ t \in Seq(Seq(Cell)) /\ Len(t) = n
      /\ \A i \in 1 .. n : t[i] = Whole(e, m + i)
    BY <1>1, <1>3, RunIsSeq
<1> HIDE DEF n, r, t, w
<1>6. u \in Seq(Seq(Cell)) /\ Len(u) = 1 /\ u[1] = w
    BY <1>2
<1> HIDE DEF u
<1>7. /\ u \o r \in Seq(Seq(Cell)) /\ Len(u \o r) = Len(u) + Len(r)
      /\ \A i \in 1 .. Len(u) + Len(r) : (u \o r)[i] = IF i <= Len(u) THEN u[i] ELSE r[i - Len(u)]
    BY <1>4, <1>6, ConcatProperties
<1>8. Len(u \o r) = n /\ \A i \in 1 .. n : (u \o r)[i] = IF i <= 1 THEN u[i] ELSE r[i - 1]
    BY <1>3, <1>4, <1>6, <1>7, SMTT(30)
<1>9. ASSUME NEW i \in 1 .. n PROVE (u \o r)[i] = t[i]
    <2>1. CASE i = 1
        <3>1. t[1] = w
            BY <2>1, <1>5 DEF w
        <3> QED BY <3>1, <2>1, <1>6, <1>8
    <2>2. CASE i # 1
        <3>1. i - 1 \in 1 .. n - 1 /\ k + (i - 1) = m + i /\ ~ (i <= 1)
            BY <2>2, <1>1, <1>3
        <3>2. r[i - 1] = Whole(e, m + i)
            BY <3>1, <1>4
        <3> QED BY <3>1, <3>2, <1>5, <1>8
    <2> QED BY <2>1, <2>2
<1> DEFINE v == u \o r
<1>10. v \in Seq(Seq(Cell)) /\ Len(v) = Len(t) /\ \A i \in 1 .. Len(v) : v[i] = t[i]
    BY <1>5, <1>7, <1>8, <1>9
<1> HIDE DEF v
<1>11. v = t
    BY <1>5, <1>10, SeqEqual
<1> QED BY <1>11 DEF v, u, r, t, w

(* The loop over good bytes: from the start of section m + 1 on it returns *)
(* the sections that end in the packet and keeps the one that does not.    *)
LEMMA LoopGood ==
    ASSUME Clean, NEW e, Layout(e), NEW rest, NEW f \in 0 .. Sections, NEW to \in Nat,
           Cut(e, to), e[f] <= to, Carried(e, rest, e[f], to), NEW hi, LastEnd(e, to, hi),
           NEW g, Loop(g, rest, 1), NEW m \in f .. hi
    PROVE  g[(e[m] - e[f]) + 1] =
               Ok(TipBuf(e, hi, to), TipTarget(e, hi, to), Run(e, m, hi))
<1> DEFINE from == e[f]
           At(k) == (e[k] - from) + 1
           Good(k) == g[At(k)] = Ok(TipBuf(e, hi, to), TipTarget(e, hi, to), Run(e, k, hi))
           Bad == {d \in Nat : d <= hi - f /\ ~ Good(hi - d)}
<1>1. /\ from \in Nat /\ hi \in 0 .. Sections /\ hi \in Nat /\ e[hi] <= to /\ e[hi] \in Nat
      /\ Sections \in Nat /\ f <= hi /\ f \in Nat /\ from <= to /\ to <= e[Sections]
      /\ e[Sections] \in Nat
    <2>1. f <= hi <=> e[f] <= to
        BY LastOrdered
    <2> QED BY <2>1, LastOrdered, Ordered, Numbers DEF LastEnd, Cut
<1>2. SUFFICES ASSUME Bad # {} PROVE FALSE
    <2>1. hi - m \in Nat /\ hi - m <= hi - f /\ hi - (hi - m) = m
        BY <1>1
    <2>2. Good(m)
        BY <2>1, <1>2
    <2> QED BY <2>2
<1>3. PICK d \in Bad : \A y \in Bad : d <= y
    BY <1>2, LeastElement
<1> DEFINE l == hi - d
<1>4. d \in Nat /\ d <= hi - f /\ ~ Good(l)
    BY <1>3
<1> HIDE DEF Bad
<1>5. l \in f .. hi /\ l \in 0 .. Sections
    BY <1>1, <1>4
<1>6. /\ rest \in Seq(Cell) /\ Len(rest) \in Nat /\ to - from <= Len(rest)
    BY LenProperties DEF Carried
<1>7. e[l] \in Nat /\ from <= e[l] /\ e[l] <= to
    BY <1>1, <1>5, LastOrdered, Ordered
<1>8. At(l) \in 1 .. Len(rest) + 1
    BY <1>1, <1>6, <1>7
<1>9. g[At(l)] = LoopBody(g, rest, At(l))
    BY <1>8, Zenon DEF Loop
<1>10. CASE l = hi /\ e[hi] = to
    <2>1. At(l) = Len(rest) + 1 \/ rest[At(l)].val = 255
        <3>1. ASSUME At(l) # Len(rest) + 1 PROVE rest[At(l)].val = 255
            <4>1. At(l) \in (to - from) + 1 .. Len(rest)
                BY <3>1, <1>1, <1>6, <1>8, <1>10
            <4> QED BY <4>1 DEF Carried
        <3> QED BY <3>1
    <2>2. LoopBody(g, rest, At(l)) = Ok(<<>>, None, <<>>)
        <3> DEFINE a == At(l)
        <3>1. a \in 1 .. Len(rest) + 1 /\ (a = Len(rest) + 1 \/ rest[a].val = 255)
            BY <2>1, <1>8
        <3> HIDE DEF a
        <3>2. LoopBody(g, rest, a) = Ok(<<>>, None, <<>>)
            BY <3>1, <1>6, BodyEnd
        <3> QED BY <3>2 DEF a
    <2>3. TipBuf(e, hi, to) = <<>> /\ TipTarget(e, hi, to) = None
        BY <1>1, <1>10 DEF TipBuf, TipTarget
    <2>4. Run(e, l, hi) = <<>>
        <3>1. hi \in -1 .. Sections /\ hi <= l
            BY <1>1, <1>10
        <3> QED BY <3>1, <1>5, RunIsSeq
    <2>5. Good(l)
        BY <2>2, <2>3, <2>4, <1>9, Zenon
    <2> QED BY <2>5, <1>4
<1>11. CASE l = hi /\ e[hi] # to
    <2> DEFINE k == hi + 1
               n == Size(e, k)
    <2>1. e[hi] < to /\ hi < Sections
        <3>1. hi # Sections
            BY <1>1, <1>11
        <3> QED BY <3>1, <1>1, <1>11
    <2>2. k \in 1 .. Sections /\ k - 1 = hi /\ hi \in 0 .. Sections - 1
        BY <2>1, <1>1
    <2>3. to < e[k] /\ e[k] \in Nat /\ n \in Nat /\ n <= MaxLen /\ n = e[k] - e[hi]
        BY <2>1, <2>2, Bounds DEF LastEnd
    <2>4. e[hi] + 3 <= to
        BY <2>1, <2>2, <2>3 DEF Cut, Within
    <2>5. Len(rest) = to - from
        <3>1. ASSUME to - from < Len(rest) PROVE FALSE
            <4>1. PICK j \in 1 .. Sections : to = e[j]
                BY <3>1 DEF Carried
            <4>2. j \in 0 .. Sections
                BY <1>1
            <4>3. j <= hi <=> e[j] <= to
                BY <4>2, LastOrdered
            <4>4. e[j] <= e[hi]
                BY <4>1, <4>2, <4>3, <1>1, Ordered
            <4> QED BY <4>1, <4>4, <2>1, <1>1
        <3> QED BY <3>1, <1>1, <1>6
    <2>6. HeaderAt(rest, At(l), n)
        <3>1. \A j \in 1 .. 3 : (e[hi] - from) + j \in 1 .. to - from
            BY <2>4, <1>1, <1>5, <1>7, <1>11
        <3>2. \A j \in 1 .. 3 :
                  rest[(e[hi] - from) + j] = stream[from + ((e[hi] - from) + j)]
            BY <3>1 DEF Carried
        <3>3. from <= e[hi]
            BY <1>7, <1>11
        <3> HIDE DEF from
        <3>4. HeaderAt(rest, (e[hi] - from) + 1, Size(e, hi + 1))
            BY <3>2, <3>3, <2>2, <2>4, <1>1, CarriedHeader
        <3> QED BY <3>4, <1>11
    <2>7. At(l) + 2 <= Len(rest) /\ (Len(rest) - At(l)) + 1 < n /\ Len(rest) = to - from
        <3> DEFINE x == e[hi]
                   y == e[k]
        <3>1. At(l) = (x - from) + 1 /\ x \in Nat /\ from \in Nat /\ y \in Nat /\ n = y - x
              /\ to < y /\ x + 3 <= to /\ Len(rest) = to - from
            BY <2>3, <2>4, <2>5, <1>1, <1>7, <1>11
        <3> HIDE DEF x, y, n, from
        <3> QED BY <3>1
    <2>8. Part(rest, At(l), Len(rest)) = Part(stream, e[hi] + 1, to)
        <3>1. from <= e[hi]
            BY <1>7, <1>11
        <3> HIDE DEF from
        <3>2. Carried(e, rest, from, to)
            BY DEF from
        <3>3. Part(rest, (e[hi] - from) + 1, to - from) = Part(stream, e[hi] + 1, to)
            <4> DEFINE c == e[hi] + 1
                       x == (e[hi] - from) + 1
                       y == to - from
            <4>1. /\ to <= to /\ from \in Nat /\ to <= e[Sections] /\ c \in Nat /\ from < c
                  /\ c <= to + 1 /\ x \in Int /\ y \in Int /\ x = c - from /\ y = to - from
                BY <1>1, <3>1
            <4> HIDE DEF c, x, y
            <4>2. StretchOf(e, rest, from, to, x, y, c, to)
                BY <4>1, <3>2 DEF StretchOf
            <4>3. Part(rest, x, y) = Part(stream, c, to)
                BY <4>2, Stretch
            <4> QED BY <4>3 DEF c, x, y
        <3> QED BY <3>3, <2>5, <1>11
    <2> DEFINE a == At(l)
    <2>9. a \in 1 .. Len(rest) + 1 /\ HeaderAt(rest, a, n) /\ a + 2 <= Len(rest)
          /\ (Len(rest) - a) + 1 < n /\ n \in Nat /\ n <= MaxLen
        BY <1>8, <2>3, <2>6, <2>7
    <2> HIDE DEF a, n
    <2>10. LoopBody(g, rest, a) = Ok(Part(rest, a, Len(rest)), n, <<>>)
        BY <2>9, <1>6, BodyPart
    <2>11. TipBuf(e, hi, to) = Part(stream, e[hi] + 1, to) /\ TipTarget(e, hi, to) = n
        BY <2>1 DEF TipBuf, TipTarget, n
    <2>12. Run(e, l, hi) = <<>>
        <3>1. hi \in -1 .. Sections /\ hi <= l
            BY <1>1, <1>11
        <3> QED BY <3>1, <1>5, RunIsSeq
    <2>13. Good(l)
        BY <2>8, <2>10, <2>11, <2>12, <1>9, Zenon DEF a
    <2> QED BY <2>13, <1>4
<1>12. CASE l # hi
    <2> DEFINE k == l + 1
               n == Size(e, k)
    <2>1. k \in 1 .. Sections /\ k - 1 = l /\ k \in f .. hi /\ k \in 0 .. Sections
          /\ l \in 0 .. Sections - 1 /\ l < hi
        BY <1>1, <1>5, <1>12
    <2>2. e[k] \in Nat /\ n \in Nat /\ n <= MaxLen /\ 3 <= n /\ n = e[k] - e[l] /\ e[l] + 3 <= e[k]
        BY <2>1, Bounds
    <2>3. e[k] <= to
        BY <2>1, LastOrdered
    <2>4. HeaderAt(rest, At(l), n)
        <3>1. \A j \in 1 .. 3 : (e[l] - from) + j \in 1 .. to - from
            BY <2>2, <2>3, <1>1, <1>7
        <3>2. \A j \in 1 .. 3 :
                  rest[(e[l] - from) + j] = stream[from + ((e[l] - from) + j)]
            BY <3>1 DEF Carried
        <3>3. from <= e[l] /\ e[l] + 3 <= to
            BY <1>1, <1>7, <2>2, <2>3
        <3> HIDE DEF from, l
        <3> QED BY <3>2, <3>3, <2>1, <1>1, CarriedHeader
    <2>5. At(l) + n = At(k) /\ (At(l) + n) - 1 <= Len(rest) /\ (At(l) + n) - 1 = e[k] - from
        <3> DEFINE x == e[l]
                   y == e[k]
        <3>1. At(l) = (x - from) + 1 /\ At(k) = (y - from) + 1 /\ x \in Nat /\ from \in Nat
              /\ y \in Nat /\ n = y - x /\ y <= to /\ to - from <= Len(rest) /\ Len(rest) \in Nat
            BY <2>2, <2>3, <1>1, <1>6, <1>7
        <3> HIDE DEF x, y, n, from
        <3>2. At(l) + n = At(k) /\ (At(l) + n) - 1 = y - from
            BY <3>1
        <3>3. (At(l) + n) - 1 <= Len(rest)
            BY <3>1, <3>2
        <3> QED BY <3>2, <3>3 DEF y
    <2>6. Part(rest, At(l), (At(l) + n) - 1) = Whole(e, k)
        <3>1. from <= e[l] /\ e[l] <= e[k] /\ Carried(e, rest, from, to)
            BY <1>7, <2>2
        <3> HIDE DEF from, l, n
        <3>2. Part(rest, (e[l] - from) + 1, e[k] - from) = Part(stream, e[l] + 1, e[k])
            <4> DEFINE b == e[k]
                       c == e[l] + 1
                       x == (e[l] - from) + 1
                       y == e[k] - from
            <4>1. /\ b <= to /\ from \in Nat /\ to <= e[Sections] /\ c \in Nat /\ from < c /\ b \in Nat
                  /\ c <= b + 1 /\ x \in Int /\ y \in Int /\ x = c - from /\ y = b - from
                BY <1>1, <1>7, <2>2, <2>3, <3>1
            <4> HIDE DEF c, x, y, b
            <4>2. StretchOf(e, rest, from, to, x, y, c, b)
                BY <4>1, <3>1 DEF StretchOf
            <4>3. Part(rest, x, y) = Part(stream, c, b)
                BY <4>2, Stretch
            <4> QED BY <4>3 DEF c, x, y, b
        <3> QED BY <3>2, <2>1, <2>5 DEF Whole
    <2>7. Good(k)
        <3>1. d - 1 \in Nat /\ d - 1 <= hi - f /\ ~ (d <= d - 1) /\ hi - (d - 1) = k
            BY <1>1, <1>4, <1>12
        <3> QED BY <3>1, <1>3 DEF Bad
    <2> DEFINE a == At(l)
               b == TipBuf(e, hi, to)
               t == TipTarget(e, hi, to)
               o == Run(e, k, hi)
    <2> DEFINE j == a + n
               z == (a + n) - 1
    <2>8. /\ a \in 1 .. Len(rest) + 1 /\ HeaderAt(rest, a, n) /\ z <= Len(rest)
          /\ j \in Int /\ z \in Int /\ z = (a + n) - 1 /\ j = a + n
          /\ g[j] = Ok(b, t, o) /\ Part(rest, a, z) = Whole(e, k)
        BY <1>8, <2>2, <2>4, <2>5, <2>6, <2>7
    <2> HIDE DEF a, b, t, o, n, j, z
    <2>9. LoopBody(g, rest, a) = Ok(b, t, <<Part(rest, a, z)>> \o o)
        <3>1. n \in Nat /\ 3 <= n /\ n <= MaxLen
            BY <2>2 DEF n
        <3>2. SectionAt(rest, a, n, z, j)
            BY <3>1, <2>8, <1>6 DEF SectionAt
        <3> QED BY <3>2, <2>8, BodyWhole
    <2>10. <<Whole(e, k)>> \o o = Run(e, l, hi)
        <3>1. k \in Nat /\ k = l + 1 /\ l < hi /\ hi \in 0 .. Sections
            BY <1>1, <2>1
        <3> HIDE DEF l, k
        <3> QED BY <3>1, <1>5, RunPrepend DEF o
    <2>11. Good(l)
        BY <2>8, <2>9, <2>10, <1>9, Zenon DEF a, b, t
    <2> QED BY <2>11, <1>4
<1> QED BY <1>5, <1>10, <1>11, <1>12

(* Bytes among which the length of section w + 1 is damaged.               *)
DamagedAt(e, rest, from, to, w) ==
    /\ rest \in Seq(Cell) /\ to - from <= Len(rest)
    /\ w \in 0 .. Sections - 1 /\ from <= e[w] /\ e[w] + 3 <= to
    /\ \A j \in 1 .. to - from : j # (e[w] - from) + 3 => rest[j] = stream[from + j]
    /\ rest[(e[w] - from) + 3].val = MaxLen

LEMMA LoopDamaged ==
    ASSUME Clean, NEW e, Layout(e), NEW rest, NEW f \in 0 .. Sections, NEW to \in Nat,
           NEW w, DamagedAt(e, rest, e[f], to, w), NEW g, Loop(g, rest, 1)
    PROVE  g[1] = Overrun
<1> DEFINE from == e[f]
           At(k) == (e[k] - from) + 1
           Good(k) == g[At(k)] = Overrun
           Bad == {d \in Nat : d <= w - f /\ ~ Good(w - d)}
<1>1. /\ from \in Nat /\ w \in 0 .. Sections - 1 /\ w \in 0 .. Sections /\ w \in Nat
      /\ Sections \in Nat /\ f <= w /\ f \in Nat /\ e[w] \in Nat /\ from <= e[w]
      /\ e[w] + 3 <= to /\ w + 1 \in 1 .. Sections
    <2>1. w \in 0 .. Sections - 1 /\ w \in 0 .. Sections /\ w \in Nat /\ f \in Nat
          /\ w + 1 \in 1 .. Sections
        BY Numbers DEF DamagedAt
    <2>2. f <= w <=> e[f] <= e[w]
        BY <2>1, Ordered
    <2> QED BY <2>1, <2>2, Ordered, Numbers DEF DamagedAt
<1>2. SUFFICES ASSUME Bad # {} PROVE FALSE
    <2>1. w - f \in Nat /\ w - f <= w - f /\ w - (w - f) = f
        BY <1>1
    <2>2. Good(f)
        BY <2>1, <1>2
    <2>3. At(f) = 1
        BY <1>1
    <2> QED BY <2>2, <2>3
<1>3. PICK d \in Bad : \A y \in Bad : d <= y
    BY <1>2, LeastElement
<1> DEFINE l == w - d
<1>4. d \in Nat /\ d <= w - f /\ ~ Good(l)
    BY <1>3
<1> HIDE DEF Bad
<1>5. l \in f .. w /\ l \in 0 .. Sections /\ l \in 0 .. Sections - 1
    BY <1>1, <1>4
<1>6. /\ rest \in Seq(Cell) /\ Len(rest) \in Nat /\ to - from <= Len(rest)
    BY LenProperties DEF DamagedAt
<1>7. e[l] \in Nat /\ from <= e[l] /\ e[l] <= e[w]
    <2>1. from <= e[l]
        <3>1. f <= l
            BY <1>5
        <3> HIDE DEF l
        <3> QED BY <3>1, <1>5, Ordered
    <2>2. e[l] <= e[w] /\ e[l] \in Nat
        <3>1. l <= w
            BY <1>5
        <3> HIDE DEF l
        <3> QED BY <3>1, <1>1, <1>5, Ordered
    <2> QED BY <2>1, <2>2
<1>8. At(l) \in 1 .. Len(rest) + 1
    BY <1>1, <1>6, <1>7, SMTT(30)
<1>9. g[At(l)] = LoopBody(g, rest, At(l))
    BY <1>8, Zenon DEF Loop
<1>10. \A j \in 1 .. to - from : j # (e[w] - from) + 3 => rest[j] = stream[from + j]
    BY DEF DamagedAt
<1>11. CASE l = w
    <2> DEFINE a == At(w)
               n == MaxLen + 3
               k == w + 1
    <2>1. k \in 1 .. Sections /\ k - 1 = w
        BY <1>1
    <2>2. e[k] \in Nat /\ e[w] + 3 <= e[k]
        BY <2>1, Bounds
    <2>3. \A j \in 1 .. 2 : stream[e[w] + j].val = 0
        <3> HIDE DEF k
        <3> TAKE j \in 1 .. 2
        <3>1. /\ e[w] + j \in Int /\ e[k - 1] < e[w] + j /\ e[w] + j <= e[k]
              /\ (e[w] + j) - e[k - 1] # Header
            BY <2>1, <2>2, <1>1 DEF Header
        <3> QED BY <3>1, <2>1, CellAt
    <2>4. \A j \in 1 .. 2 : rest[(e[w] - from) + j].val = 0
        <3> TAKE j \in 1 .. 2
        <3>1. (e[w] - from) + j \in 1 .. to - from /\ (e[w] - from) + j # (e[w] - from) + 3
              /\ from + ((e[w] - from) + j) = e[w] + j
            BY <1>1
        <3>2. rest[(e[w] - from) + j] = stream[e[w] + j]
            BY <3>1, <1>10
        <3> QED BY <3>2, <2>3
    <2>5. rest[(e[w] - from) + 3].val = MaxLen
        BY DEF DamagedAt
    <2>6. (e[w] - from) + 1 = a /\ (e[w] - from) + 2 = a + 1 /\ (e[w] - from) + 3 = a + 2
          /\ n - Header = MaxLen /\ n \in Nat /\ n > MaxLen /\ a + 2 <= Len(rest)
          /\ a \in 1 .. Len(rest) + 1
        <3> DEFINE x == e[w]
        <3>1. x \in Nat /\ from \in Nat /\ from <= x /\ x + 3 <= to /\ to - from <= Len(rest)
              /\ Len(rest) \in Nat /\ MaxLen \in Nat /\ Header = 3
              /\ a = (x - from) + 1 /\ n = MaxLen + 3
            BY <1>1, <1>6, Numbers DEF Header
        <3> HIDE DEF x, from, a, n
        <3>2. (x - from) + 2 = a + 1 /\ (x - from) + 3 = a + 2 /\ n - Header = MaxLen
            BY <3>1
        <3>3. n \in Nat /\ n > MaxLen /\ a + 2 <= Len(rest) /\ a \in 1 .. Len(rest) + 1
            BY <3>1
        <3> QED BY <3>1, <3>2, <3>3 DEF x
    <2> HIDE DEF a, n
    <2>7. HeaderAt(rest, a, n)
        BY <2>4, <2>5, <2>6 DEF HeaderAt
    <2>8. LoopBody(g, rest, a) = Overrun
        BY <2>6, <2>7, <1>6, BodyOver
    <2> QED BY <2>8, <1>4, <1>9, <1>11 DEF a
<1>12. CASE l # w
    <2> DEFINE k == l + 1
               n == Size(e, k)
    <2>1. k \in 1 .. Sections /\ k - 1 = l /\ k \in f .. w /\ k \in 0 .. Sections /\ k <= w
        BY <1>1, <1>5, <1>12
    <2>2. e[k] \in Nat /\ n \in Nat /\ n <= MaxLen /\ 3 <= n /\ n = e[k] - e[l] /\ e[l] + 3 <= e[k]
        BY <2>1, Bounds
    <2>3. e[k] <= e[w]
        <3> HIDE DEF k
        <3> QED BY <2>1, <1>1, Ordered
    <2>4. HeaderAt(rest, At(l), n)
        <3>1. \A j \in 1 .. 3 : /\ (e[l] - from) + j \in 1 .. to - from
                                /\ (e[l] - from) + j # (e[w] - from) + 3
            BY <2>2, <2>3, <1>1, <1>7
        <3>2. \A j \in 1 .. 3 :
                  rest[(e[l] - from) + j] = stream[from + ((e[l] - from) + j)]
            BY <3>1, <1>10
        <3>3. from <= e[l] /\ e[l] + 3 <= to
            BY <1>1, <1>7, <2>2, <2>3
        <3> HIDE DEF from, l
        <3> QED BY <3>2, <3>3, <1>1, <1>5, CarriedHeader
    <2> DEFINE a == At(l)
               j == a + n
               z == (a + n) - 1
    <2>5. j = At(k) /\ z <= Len(rest) /\ a \in Int
        <3> DEFINE x == e[l]
                   y == e[k]
        <3>1. a = (x - from) + 1 /\ At(k) = (y - from) + 1 /\ x \in Nat /\ from \in Nat
              /\ y \in Nat /\ n = y - x /\ y <= e[w] /\ e[w] + 3 <= to /\ e[w] \in Nat
              /\ to - from <= Len(rest) /\ Len(rest) \in Nat
            BY <2>2, <2>3, <1>1, <1>6, <1>7
        <3> HIDE DEF x, y, n, from
        <3> QED BY <3>1, SMTT(30)
    <2>6. g[j] = Overrun
        <3>1. d - 1 \in Nat /\ d - 1 <= w - f /\ ~ (d <= d - 1) /\ w - (d - 1) = k
            BY <1>1, <1>4, <1>12
        <3> QED BY <3>1, <2>5, <1>3 DEF Bad
    <2>7. /\ a \in 1 .. Len(rest) + 1 /\ HeaderAt(rest, a, n) /\ z <= Len(rest)
          /\ j \in Int /\ z \in Int /\ z = (a + n) - 1 /\ j = a + n
        BY <1>8, <2>2, <2>4, <2>5
    <2>8. n \in Nat /\ 3 <= n /\ n <= MaxLen
        BY <2>2 DEF n
    <2> HIDE DEF a, n, j, z
    <2>9. SectionAt(rest, a, n, z, j)
        BY <2>7, <2>8, <1>6 DEF SectionAt
    <2>10. LoopBody(g, rest, a) = Overrun
        BY <2>6, <2>9, BodyFails
    <2> QED BY <2>10, <1>4, <1>9 DEF a
<1> QED BY <1>11, <1>12

(* The sections that start in a packet.                                    *)
LEMMA StartsByLoop ==
    ASSUME NEW out, NEW rest \in Seq(Cell)
    PROVE  \E g : /\ Loop(g, rest, 1)
                  /\ StartSections(out, rest) =
                         IF g[1].err THEN Overrun ELSE [g[1] EXCEPT !.out = out \o @]
<1> DEFINE g == CHOOSE h : Loop(h, rest, 1)
<1>1. Loop(g, rest, 1)
    BY LoopExists
<1>2. StartSections(out, rest) = IF g[1].err THEN Overrun ELSE [g[1] EXCEPT !.out = out \o @]
    BY Zenon DEF StartSections, Loop, LoopBody
<1> QED BY <1>1, <1>2

LEMMA StartGood ==
    ASSUME Clean, NEW e, Layout(e), NEW rest, NEW f \in 0 .. Sections, NEW to \in Nat,
           Cut(e, to), e[f] <= to, Carried(e, rest, e[f], to), NEW hi, LastEnd(e, to, hi), NEW out
    PROVE  StartSections(out, rest) =
               Ok(TipBuf(e, hi, to), TipTarget(e, hi, to), out \o Run(e, f, hi))
<1>1. rest \in Seq(Cell)
    BY DEF Carried
<1>2. PICK g : /\ Loop(g, rest, 1)
               /\ StartSections(out, rest) =
                      IF g[1].err THEN Overrun ELSE [g[1] EXCEPT !.out = out \o @]
    BY <1>1, StartsByLoop
<1>3. f \in f .. hi /\ e[f] \in Nat /\ (e[f] - e[f]) + 1 = 1
    <2>1. f <= hi <=> e[f] <= to
        BY LastOrdered
    <2>2. hi \in Nat /\ e[f] \in Nat
        BY LastOrdered
    <2> QED BY <2>1, <2>2
<1> DEFINE b == TipBuf(e, hi, to)
           t == TipTarget(e, hi, to)
           o == Run(e, f, hi)
           x == out \o o
<1>4. g[1] = Ok(b, t, o)
    <2>1. g[(e[f] - e[f]) + 1] = Ok(b, t, o)
        BY <1>2, <1>3, LoopGood
    <2> QED BY <2>1, <1>3
<1> HIDE DEF b, t, o
<1>5. ~ g[1].err
    <2> DEFINE v == g[1]
    <2>1. v = Ok(b, t, o)
        BY <1>4
    <2> HIDE DEF v
    <2>2. ~ v.err
        BY <2>1, Zenon DEF State, Ok
    <2> QED BY <2>2 DEF v
<1>6. [g[1] EXCEPT !.out = out \o @] = Ok(b, t, x)
    <2>1. g[1].out = o
        BY <1>4 DEF State, Ok
    <2>2. [g[1] EXCEPT !.out = out \o @] = [g[1] EXCEPT !.out = x]
        BY <2>1
    <2> HIDE DEF x
    <2> DEFINE q == FALSE
    <2> HIDE DEF q
    <2>3. [State(b, t, o, q) EXCEPT !.out = x] = State(b, t, x, q)
        BY DEF State
    <2> QED BY <2>2, <2>3, <1>4, Zenon DEF q, Ok
<1> QED BY <1>2, <1>5, <1>6, Zenon DEF b, t, o

LEMMA StartDamaged ==
    ASSUME Clean, NEW e, Layout(e), NEW rest, NEW f \in 0 .. Sections, NEW to \in Nat,
           NEW w, DamagedAt(e, rest, e[f], to, w), NEW out
    PROVE  StartSections(out, rest) = Overrun
<1>1. rest \in Seq(Cell)
    BY DEF DamagedAt
<1>2. PICK g : /\ Loop(g, rest, 1)
               /\ StartSections(out, rest) =
                      IF g[1].err THEN Overrun ELSE [g[1] EXCEPT !.out = out \o @]
    BY <1>1, StartsByLoop
<1>3. g[1] = Overrun
    BY <1>2, LoopDamaged
<1>4. g[1].err
    <2> DEFINE v == g[1]
    <2>1. v = Overrun
        BY <1>3
    <2> HIDE DEF v
    <2>2. v.err
        BY <2>1, Zenon DEF Overrun, State
    <2> QED BY <2>2 DEF v
<1> QED BY <1>2, <1>4, Zenon

------------------------------------------------------------------------------
(* Going on with the section in flight.                                    *)
LEMMA CarriedPrefix ==
    ASSUME Clean, NEW e, Layout(e), NEW rest \in Seq(Cell), NEW from \in Nat,
           NEW f \in 1 .. Sections, from <= e[f], e[f] - from <= Len(rest),
           \A j \in 1 .. e[f] - from : rest[j] = stream[from + j]
    PROVE  Carried(e, SubSeq(rest, 1, e[f] - from), from, e[f])
<1> DEFINE q == e[f]
           n == q - from
           left == SubSeq(rest, 1, n)
<1>1. q \in Nat /\ n \in Nat /\ Len(rest) \in Nat /\ n <= Len(rest) /\ 1 \in Int /\ n \in Int
    BY Bounds, LenProperties
<1>2. \A i \in 1 .. n : rest[i] \in Cell
    <2>1. 1 .. n \subseteq 1 .. Len(rest)
        BY <1>1
    <2> QED BY <2>1, ElementOfSeq
<1>3. \A j \in 1 .. n : rest[j] = stream[from + j]
    OBVIOUS
<1> HIDE DEF n
<1>4. /\ left \in Seq(Cell) /\ Len(left) = IF 1 <= n THEN n - 1 + 1 ELSE 0
      /\ \A i \in 1 .. n - 1 + 1 : left[i] = rest[1 + i - 1]
    BY <1>1, <1>2, SubSeqProperties
<1> HIDE DEF left
<1>5. Len(left) = n
    BY <1>1, <1>4
<1>6. \A j \in 1 .. n : left[j] = stream[from + j]
    <2> TAKE j \in 1 .. n
    <2>1. j \in 1 .. n - 1 + 1 /\ 1 + j - 1 = j
        BY <1>1
    <2>2. left[j] = rest[j]
        BY <2>1, <1>4
    <2> QED BY <2>2, <1>3
<1>7. n + 1 .. n = {} /\ ~ (n < n)
    BY <1>1
<1>8. Carried(e, left, from, q)
    BY <1>1, <1>4, <1>5, <1>6, <1>7 DEF Carried, n
<1> QED BY <1>8 DEF left, n

LEMMA Gathered ==
    ASSUME Clean, NEW e, Layout(e), NEW bytes, NEW from \in Nat, NEW to \in Nat,
           Carried(e, bytes, from, to), from < to,
           NEW s, NEW b, NEW t, s = Ok(b, t, <<>>), NEW k, Holds(e, s, k, from), to <= e[k]
    PROVE  ExtendInFlight(s, bytes) =
               IF to = e[k] THEN Ok(<<>>, None, <<Whole(e, k)>>)
               ELSE Ok(Part(stream, e[k - 1] + 1, to), Size(e, k), <<>>)
<1> DEFINE a == e[k - 1]
           z == e[k]
           bb == Part(stream, a + 1, from)
           m == to - from
           new == SubSeq(bytes, 1, m)
           all == Part(stream, a + 1, to)
<1>1. s.buf = b /\ s.target = t /\ s.out = <<>>
    BY DEF Ok, State
<1>2. /\ k \in 1 .. Sections /\ a < from /\ from < z /\ a + 3 <= from
      /\ b = bb /\ t = Size(e, k)
    BY <1>1 DEF Holds, Within
<1>3. /\ a \in Nat /\ z \in Nat /\ Size(e, k) = z - a /\ 3 <= Size(e, k) /\ z <= e[Sections]
      /\ e[Sections] \in Nat /\ Len(stream) = e[Sections] /\ stream \in Seq(Cell)
    BY <1>2, Bounds, Ordered DEF Layout
<1>4. bytes \in Seq(Cell) /\ Len(bytes) \in Nat /\ m <= Len(bytes) /\ m \in Nat /\ m > 0
    BY LenProperties DEF Carried
<1>5. to = z \/ Len(bytes) = m
    <2>1. ASSUME m < Len(bytes), to # z PROVE FALSE
        <3>1. PICK j \in 1 .. Sections : to = e[j]
            BY <2>1 DEF Carried
        <3>2. e[j - 1] < to /\ to <= e[j]
            BY <3>1, Bounds
        <3>3. j = k
            <4>1. to \in Int /\ e[k - 1] < to /\ to <= e[k]
                BY <1>2, <1>3
            <4> QED BY <3>2, <4>1, <1>2, OneSection
        <3> QED BY <3>1, <3>3, <2>1
    <2> QED BY <2>1, <1>4
<1>6. bb \in Seq(Cell) /\ Len(bb) = from - a
    <2> DEFINE c == a + 1
    <2>1. \A i \in c .. from : stream[i] \in Cell
        <3>1. c .. from \subseteq 1 .. Len(stream)
            BY <1>2, <1>3, SMTT(30)
        <3> QED BY <3>1, <1>3, ElementOfSeq
    <2>2. c \in Int /\ from \in Int /\ c <= from /\ from - c + 1 = from - a
        BY <1>2, <1>3, SMTT(30)
    <2> HIDE DEF c
    <2>3. SubSeq(stream, c, from) \in Seq(Cell)
          /\ Len(SubSeq(stream, c, from)) = IF c <= from THEN from - c + 1 ELSE 0
        BY <2>1, <2>2, SubSeqProperties
    <2> QED BY <2>2, <2>3 DEF Part, c
<1>7. /\ new = Part(stream, from + 1, to) /\ new \in Seq(Cell) /\ Len(new) = m
    <2> DEFINE c == from + 1
               i == 1
    <2>1. /\ from \in Nat /\ to \in Nat /\ to <= e[Sections] /\ c \in Nat /\ from < c
          /\ c <= to + 1 /\ to <= to /\ i \in Int /\ m \in Int /\ i = c - from
          /\ m = to - from /\ (to - c) + 1 = m
        BY <1>3, <1>4
    <2> HIDE DEF c, i, m
    <2>2. StretchOf(e, bytes, from, to, i, m, c, to)
        BY <2>1 DEF StretchOf
    <2>3. /\ Part(bytes, i, m) = Part(stream, c, to) /\ Part(stream, c, to) \in Seq(Cell)
          /\ Len(Part(stream, c, to)) = (to - c) + 1
        BY <2>2, Stretch
    <2>4. new = Part(bytes, i, m)
        BY DEF Part, i
    <2> QED BY <2>1, <2>3, <2>4 DEF c
<1>8. bb \o new = all
    <2> DEFINE c == a + 1
    <2>1. c \in 1 .. Len(stream) + 1 /\ from \in c - 1 .. Len(stream) /\ to \in from .. Len(stream)
        BY <1>2, <1>3, SMTT(30)
    <2> HIDE DEF c
    <2>2. SubSeq(stream, c, from) \o SubSeq(stream, from + 1, to) = SubSeq(stream, c, to)
        BY <2>1, <1>3, ConcatAdjacentSubSeq
    <2>3. bb = SubSeq(stream, c, from) /\ all = SubSeq(stream, c, to)
          /\ new = SubSeq(stream, from + 1, to)
        BY <1>7 DEF Part, c
    <2> QED BY <2>2, <2>3
<1>9. Len(all) = to - a
    <2>1. Len(bb \o new) = Len(bb) + Len(new)
        BY <1>6, <1>7, ConcatProperties
    <2> QED BY <2>1, <1>3, <1>6, <1>7, <1>8, SMTT(30)
<1>10. bytes # <<>> /\ t # None
    BY <1>2, <1>3, <1>4, EmptySeq DEF None
<1> DEFINE want == t - Len(b)
           take == IF want < Len(bytes) THEN want ELSE Len(bytes)
<1>11. want = z - from
    BY <1>2, <1>3, <1>6
<1>12. take = m
    <2>1. take = IF want < Len(bytes) THEN want ELSE Len(bytes)
        OBVIOUS
    <2>2. z \in Nat /\ to <= z /\ m = to - from /\ m <= Len(bytes) /\ Len(bytes) \in Nat
        BY <1>3, <1>4
    <2> HIDE DEF take, want, m, z
    <2> QED BY <1>5, <1>11, <2>1, <2>2
<1> HIDE DEF bb, new, all, m, take, want
<1>13. Gather(s, bytes) =
           IF Len(all) < t THEN [s EXCEPT !.buf = all] ELSE State(<<>>, None, Append(s.out, all), FALSE)
    <2>1. s.buf \o SubSeq(bytes, 1, take) = all
        BY <1>1, <1>2, <1>8, <1>12 DEF new
    <2>2. s.target - Len(s.buf) = want
        BY <1>1 DEF want
    <2>3. (IF want < Len(bytes) THEN want ELSE Len(bytes)) = take
        BY DEF take
    <2> QED BY <2>1, <2>2, <2>3, <1>1, Zenon DEF Gather
<1>14. ExtendInFlight(s, bytes) = Gather(s, bytes)
    BY <1>1, <1>10, Zenon DEF ExtendInFlight
<1>15. CASE to = z
    <2>1. ~ (Len(all) < t)
        BY <1>2, <1>3, <1>9, <1>15
    <2>2. Append(s.out, all) = <<Whole(e, k)>>
        <3>1. Whole(e, k) = all
            BY <1>15 DEF Whole, all
        <3> DEFINE w == Whole(e, k)
        <3> HIDE DEF w
        <3>2. Append(<<>>, w) = <<w>>
            OBVIOUS
        <3> QED BY <3>1, <3>2, <1>1 DEF w
    <2>3. ExtendInFlight(s, bytes) = Ok(<<>>, None, <<Whole(e, k)>>)
        BY <2>1, <2>2, <1>13, <1>14, Zenon DEF Ok
    <2> QED BY <2>3, <1>15
<1>16. CASE to # z
    <2>1. Len(all) < t
        BY <1>2, <1>3, <1>9, <1>16, SMTT(30)
    <2>2. [s EXCEPT !.buf = all] = Ok(all, t, <<>>)
        <3> DEFINE f == FALSE
                   o == <<>>
        <3> HIDE DEF f, o
        <3>1. [State(b, t, o, f) EXCEPT !.buf = all] = State(all, t, o, f)
            BY DEF State
        <3> QED BY <3>1, Zenon DEF f, o, Ok
    <2>3. ExtendInFlight(s, bytes) = Ok(all, t, <<>>)
        BY <2>1, <2>2, <1>13, <1>14, Zenon
    <2> QED BY <2>3, <1>2, <1>16 DEF all
<1> QED BY <1>15, <1>16

------------------------------------------------------------------------------
(* A packet that carries the cells from + 1 .. to.  Section f + 1 is the   *)
(* first that starts in it.                                                *)
StartBody(e, body, from, to, f) ==
    /\ f \in 0 .. Sections - 1 /\ from <= e[f] /\ e[f] < to
    /\ f = 0 \/ e[f - 1] < from
    /\ body \in Seq(Cell) /\ body # <<>> /\ body[1].val = e[f] - from

Packed(e, p, from, to) ==
    /\ Cut(e, from) /\ Cut(e, to) /\ from < to
    /\ p.pusi => \E f : StartBody(e, p.body, from, to, f) /\ Carried(e, Tail(p.body), from, to)
    /\ ~ p.pusi => /\ \A k \in 0 .. Sections - 1 : ~ (from <= e[k] /\ e[k] < to)
                   /\ Carried(e, p.body, from, to)

(* Section lo is the first that ends at or behind `from'.                  *)
FirstEnd(e, from, lo) == lo \in 0 .. Sections /\ from <= e[lo] /\ (lo > 0 => e[lo - 1] < from)

LEMMA Firsts ==
    ASSUME Clean, NEW e, Layout(e), NEW from \in 0 .. e[Sections]
    PROVE  \E lo : FirstEnd(e, from, lo)
<1> DEFINE S == {k \in Nat : k <= Sections /\ from <= e[k]}
<1>1. e[Sections] \in Nat /\ Sections \in Nat /\ from \in Nat
    BY Ordered, Numbers
<1>2. Sections \in S
    BY <1>1
<1>3. PICK k \in S : \A y \in S : k <= y
    BY <1>2, LeastElement
<1>4. k \in 0 .. Sections /\ from <= e[k]
    BY <1>1, <1>3
<1>5. ASSUME k > 0 PROVE e[k - 1] < from
    <2>1. k - 1 \in Nat /\ k - 1 <= Sections /\ ~ (k <= k - 1) /\ k \in 1 .. Sections
        BY <1>1, <1>3, <1>5
    <2>2. ~ (from <= e[k - 1])
        BY <1>3, <2>1
    <2>3. e[k - 1] \in Nat
        BY <2>1, Bounds
    <2> QED BY <2>2, <2>3, <1>1
<1> QED BY <1>4, <1>5 DEF FirstEnd

LEMMA FirstOrdered ==
    ASSUME Clean, NEW e, Layout(e), NEW from \in Nat, NEW lo, FirstEnd(e, from, lo),
           NEW k \in 0 .. Sections
    PROVE  /\ lo <= k <=> from <= e[k]
           /\ lo \in Nat /\ e[lo] \in Nat /\ e[k] \in Nat
<1>1. lo \in 0 .. Sections /\ from <= e[lo] /\ lo \in Nat /\ Sections \in Nat
    BY Numbers DEF FirstEnd
<1>2. lo <= k <=> e[lo] <= e[k]
    BY <1>1, Ordered
<1>3. e[lo] \in Nat /\ e[k] \in Nat
    BY <1>1, Ordered
<1>4. ASSUME k < lo PROVE e[k] < from
    <2>1. lo > 0 /\ lo - 1 \in 0 .. Sections /\ k <= lo - 1
        BY <1>1, <1>4
    <2>2. e[lo - 1] < from
        BY <2>1 DEF FirstEnd
    <2>3. e[k] <= e[lo - 1] /\ e[lo - 1] \in Nat
        BY <2>1, Ordered
    <2> QED BY <2>2, <2>3, <1>3
<1> QED BY <1>1, <1>2, <1>3, <1>4

(* The section in flight is that one.                                      *)
LEMMA HeldIsFirst ==
    ASSUME Clean, NEW e, Layout(e), NEW from \in Nat, NEW k \in 1 .. Sections, Within(e, k, from)
    PROVE  FirstEnd(e, from, k)
<1>1. e[k] \in Nat /\ e[k - 1] \in Nat /\ k \in 0 .. Sections
    BY Bounds
<1> QED BY <1>1 DEF Within, FirstEnd

LEMMA OneFirst ==
    ASSUME Clean, NEW e, Layout(e), NEW from \in Nat, NEW k, NEW l,
           FirstEnd(e, from, k), FirstEnd(e, from, l)
    PROVE  k = l
<1>1. k \in 0 .. Sections /\ l \in 0 .. Sections /\ from <= e[k] /\ from <= e[l]
    BY DEF FirstEnd
<1>2. k <= l /\ l <= k /\ k \in Nat /\ l \in Nat
    BY <1>1, FirstOrdered
<1> QED BY <1>2

LEMMA StartIsFirst ==
    ASSUME Clean, NEW e, Layout(e), NEW body, NEW from \in Nat, NEW to, NEW f,
           StartBody(e, body, from, to, f)
    PROVE  FirstEnd(e, from, f) /\ f \in 0 .. Sections /\ e[f] \in Nat
<1>1. f \in 0 .. Sections /\ f \in Nat
    BY Numbers DEF StartBody
<1>2. f > 0 => e[f - 1] < from
    BY <1>1 DEF StartBody
<1>3. e[f] \in Nat
    BY <1>1, Ordered
<1> QED BY <1>1, <1>2, <1>3 DEF StartBody, FirstEnd

(* What a call leaves when it goes on at section a: the sections that end  *)
(* in the packet, and the one it ends within.                              *)
Fed(e, to, a, s) ==
    \E hi : /\ LastEnd(e, to, hi)
            /\ a <= hi => s = Ok(TipBuf(e, hi, to), TipTarget(e, hi, to), Run(e, a, hi))
            /\ hi < a => s = Ok(<<>>, None, <<>>)

Feed0(s, p) == IF p.pusi THEN FeedStart(s, p.body) ELSE FeedContinuation(s, p.body)

(* The payload behind the pointer_field.                                   *)
LEMMA BehindPointer ==
    ASSUME Clean, NEW e, Layout(e), NEW body, NEW from \in Nat, NEW to \in Nat, to <= e[Sections],
           NEW f, StartBody(e, body, from, to, f), NEW rest, rest = Tail(body),
           Carried(e, rest, from, to)
    PROVE  /\ ~ (body[1].val > Len(rest))
           /\ Carried(e, SubSeq(rest, body[1].val + 1, Len(rest)), e[f], to)
           /\ f >= 1 => Carried(e, SubSeq(rest, 1, body[1].val), from, e[f])
<1>1. /\ f \in 0 .. Sections /\ e[f] \in Nat /\ from <= e[f] /\ e[f] <= to
      /\ body[1].val = e[f] - from
    <2>1. FirstEnd(e, from, f) /\ f \in 0 .. Sections /\ e[f] \in Nat
        BY StartIsFirst
    <2> QED BY <2>1 DEF StartBody
<1>2. rest \in Seq(Cell) /\ Len(rest) \in Nat /\ to - from <= Len(rest)
    BY LenProperties DEF Carried
<1>3. ~ (body[1].val > Len(rest)) /\ e[f] - from <= Len(rest)
    BY <1>1, <1>2
<1>4. Carried(e, SubSeq(rest, (e[f] - from) + 1, Len(rest)), e[f], to)
    BY <1>1, CarriedSuffix
<1>5. ASSUME f >= 1 PROVE Carried(e, SubSeq(rest, 1, e[f] - from), from, e[f])
    <2>1. \A j \in 1 .. e[f] - from : rest[j] = stream[from + j]
        <3> TAKE j \in 1 .. e[f] - from
        <3>1. j \in 1 .. to - from
            BY <1>1
        <3> QED BY <3>1 DEF Carried
    <2>2. f \in 1 .. Sections
        BY <1>1, <1>5, Numbers
    <2> QED BY <2>1, <2>2, <1>1, <1>2, <1>3, CarriedPrefix
<1> QED BY <1>1, <1>3, <1>4, <1>5

LEMMA FeedEmpty ==
    ASSUME Clean, NEW e, Layout(e), NEW from \in Nat, NEW to \in Nat, NEW p, Packed(e, p, from, to),
           NEW lo, FirstEnd(e, from, lo)
    PROVE  Fed(e, to, lo, Feed0(Ok(<<>>, None, <<>>), p))
<1> DEFINE s == Ok(<<>>, None, <<>>)
<1>1. s.buf = <<>> /\ s.target = None /\ s.out = <<>>
    BY DEF Ok, State
<1>2. ~ s.err
    BY Zenon DEF Ok, State
<1> HIDE DEF s
<1>3. /\ to <= e[Sections] /\ to \in 0 .. e[Sections] /\ Cut(e, to) /\ from < to
      /\ lo \in 0 .. Sections /\ e[lo] \in Nat /\ lo \in Nat /\ Sections \in Nat
    <2>1. Sections \in 0 .. Sections
        BY Numbers
    <2> QED BY <2>1, FirstOrdered, Numbers DEF Packed, Cut, FirstEnd
<1>4. PICK hi : LastEnd(e, to, hi)
    BY <1>3, Lasts
<1>5. hi \in 0 .. Sections /\ hi \in Nat /\ e[hi] \in Nat /\ e[hi] <= to
    BY <1>3, <1>4, LastOrdered DEF LastEnd
<1>6. CASE p.pusi
    <2> DEFINE body == p.body
               rest == Tail(body)
               q    == body[1].val
               more == SubSeq(rest, q + 1, Len(rest))
    <2>1. PICK f : StartBody(e, body, from, to, f) /\ Carried(e, rest, from, to)
        BY <1>6 DEF Packed
    <2>2. ~ (q > Len(rest)) /\ Carried(e, more, e[f], to)
        BY <2>1, <1>3, BehindPointer
    <2>3. f = lo /\ e[f] <= to /\ f \in 0 .. Sections
        <3>1. FirstEnd(e, from, f) /\ e[f] \in Nat /\ f \in 0 .. Sections
            BY <2>1, StartIsFirst
        <3> QED BY <3>1, <2>1, OneFirst DEF StartBody
    <2>4. lo <= hi
        BY <2>3, <1>3, <1>4, <1>5, LastOrdered
    <2> HIDE DEF more, q
    <2>5. StartSections(<<>>, more) =
              Ok(TipBuf(e, hi, to), TipTarget(e, hi, to), <<>> \o Run(e, lo, hi))
        <3>1. Carried(e, more, e[lo], to) /\ e[lo] <= to
            BY <2>2, <2>3
        <3> DEFINE out == <<>>
        <3> HIDE DEF out
        <3>2. StartSections(out, more) =
                  Ok(TipBuf(e, hi, to), TipTarget(e, hi, to), out \o Run(e, lo, hi))
            BY <3>1, <1>3, <1>4, StartGood
        <3> QED BY <3>2 DEF out
    <2>6. <<>> \o Run(e, lo, hi) = Run(e, lo, hi)
        <3>1. Run(e, lo, hi) \in Seq(Seq(Cell))
            BY <1>3, <1>5, RunIsSeq
        <3> QED BY <3>1, ConcatEmptySeq
    <2>7. Feed0(s, p) = StartSections(<<>>, more)
        BY <1>1, <1>2, <1>6, <2>2, Zenon DEF Feed0, FeedStart, more, q
    <2>8. Feed0(s, p) = Ok(TipBuf(e, hi, to), TipTarget(e, hi, to), Run(e, lo, hi))
        BY <2>5, <2>6, <2>7
    <2>9. ~ (hi < lo)
        BY <2>4, <1>3, <1>5
    <2> QED BY <2>8, <2>9, <1>4 DEF Fed, s
<1>7. CASE ~ p.pusi
    <2>1. Feed0(s, p) = s
        BY <1>1, <1>7, Zenon DEF Feed0, FeedContinuation
    <2>2. lo = Sections \/ to <= e[lo]
        <3>1. lo # Sections => lo \in 0 .. Sections - 1
            BY <1>3
        <3>2. lo \in 0 .. Sections - 1 => ~ (from <= e[lo] /\ e[lo] < to)
            BY <1>7 DEF Packed
        <3>3. from <= e[lo]
            BY DEF FirstEnd
        <3> QED BY <3>1, <3>2, <3>3, <1>3
    <2>3. to <= e[lo]
        BY <2>2, <1>3
    <2>4. CASE lo <= hi
        <3>1. e[hi] = to /\ hi <= lo
            <4>1. e[lo] <= to
                BY <2>4, <1>3, <1>4, LastOrdered
            <4>2. /\ lo <= hi <=> e[lo] <= e[hi]
                  /\ hi <= lo <=> e[hi] <= e[lo]
                BY <1>3, <1>5, Ordered
            <4>3. e[lo] = to /\ e[lo] <= e[hi]
                BY <4>1, <4>2, <2>3, <2>4, <1>3
            <4> QED BY <4>2, <4>3, <1>3, <1>5
        <3>2. TipBuf(e, hi, to) = <<>> /\ TipTarget(e, hi, to) = None
            BY <3>1, <1>5 DEF TipBuf, TipTarget
        <3>3. Run(e, lo, hi) = <<>>
            BY <3>1, <1>3, <1>5, RunIsSeq
        <3>4. ~ (hi < lo)
            BY <2>4, <1>3, <1>5
        <3> QED BY <3>2, <3>3, <3>4, <2>1, <1>4 DEF Fed, s
    <2>5. CASE ~ (lo <= hi)
        BY <2>1, <2>5, <1>4 DEF Fed, s
    <2> QED BY <2>4, <2>5
<1> QED BY <1>6, <1>7 DEF s

LEMMA FeedHeld ==
    ASSUME Clean, NEW e, Layout(e), NEW from \in Nat, NEW to \in Nat, NEW p, Packed(e, p, from, to),
           NEW s, NEW b, NEW t, s = Ok(b, t, <<>>), NEW k, Holds(e, s, k, from)
    PROVE  Fed(e, to, k - 1, Feed0(s, p))
<1>1. s.buf = b /\ s.target = t /\ s.out = <<>>
    BY DEF Ok, State
<1>2. /\ to <= e[Sections] /\ to \in 0 .. e[Sections] /\ Cut(e, to) /\ from < to
      /\ Sections \in Nat /\ e[Sections] \in Nat
    <2>1. Sections \in 0 .. Sections
        BY Numbers
    <2> QED BY <2>1, Ordered, Numbers DEF Packed, Cut
<1>3. /\ k \in 1 .. Sections /\ Within(e, k, from) /\ e[k] \in Nat /\ e[k - 1] \in Nat
      /\ k \in 0 .. Sections /\ k - 1 \in 0 .. Sections /\ from < e[k] /\ e[k - 1] < from
      /\ t # None
    <2>1. k \in 1 .. Sections /\ Within(e, k, from) /\ t = Size(e, k)
        BY <1>1 DEF Holds
    <2>2. Size(e, k) # None
        BY <2>1, Bounds DEF None
    <2> QED BY <2>1, <2>2, Bounds DEF Within
<1>4. FirstEnd(e, from, k)
    BY <1>3, HeldIsFirst
<1>5. PICK hi : LastEnd(e, to, hi)
    BY <1>2, Lasts
<1>6. hi \in 0 .. Sections /\ hi \in Nat /\ e[hi] \in Nat /\ e[hi] <= to
    BY <1>3, <1>5, LastOrdered DEF LastEnd
<1>7. k - 1 <= hi /\ ~ (hi < k - 1)
    <2>1. e[k - 1] <= to
        BY <1>2, <1>3
    <2> DEFINE l == k - 1
    <2>2. l \in 0 .. Sections /\ e[l] <= to /\ l \in Int
        BY <2>1, <1>3
    <2> HIDE DEF l
    <2>3. l <= hi
        BY <2>2, <1>5, LastOrdered
    <2> QED BY <2>2, <2>3, <1>6 DEF l
<1> SUFFICES Feed0(s, p) = Ok(TipBuf(e, hi, to), TipTarget(e, hi, to), Run(e, k - 1, hi))
    BY <1>5, <1>7, Zenon DEF Fed
<1>8. CASE p.pusi
    <2> DEFINE body == p.body
               rest == Tail(body)
               q    == body[1].val
               front == SubSeq(rest, 1, q)
               more == SubSeq(rest, q + 1, Len(rest))
               got  == ExtendInFlight(s, front)
    <2>1. PICK f : StartBody(e, body, from, to, f) /\ Carried(e, rest, from, to)
        BY <1>8 DEF Packed
    <2>2. f = k
        BY <2>1, <1>4, StartIsFirst, OneFirst
    <2>3. /\ ~ (q > Len(rest)) /\ Carried(e, more, e[k], to) /\ Carried(e, front, from, e[k])
          /\ e[k] < to
        <3>1. k >= 1
            BY <1>3
        <3>2. /\ ~ (q > Len(rest)) /\ Carried(e, more, e[f], to)
              /\ f >= 1 => Carried(e, front, from, e[f])
            BY <2>1, <1>2, BehindPointer
        <3>3. e[f] < to
            BY <2>1 DEF StartBody
        <3> QED BY <3>1, <3>2, <3>3, <2>2
    <2> HIDE DEF more, front, q, rest, body
    <2>4. got = Ok(<<>>, None, <<Whole(e, k)>>)
        <3>1. e[k] <= e[k]
            BY <1>3
        <3> QED BY <3>1, <2>3, <1>3, Gathered
    <2> HIDE DEF got
    <2>5. got.out = <<Whole(e, k)>>
        BY <2>4 DEF Ok, State
    <2>6. ~ got.err
        BY <2>4, Zenon DEF Ok, State
    <2>7. e[k] <= to
        BY <2>3, <1>3
    <2>8. StartSections(got.out, more) =
              Ok(TipBuf(e, hi, to), TipTarget(e, hi, to), got.out \o Run(e, k, hi))
        BY <2>3, <2>7, <1>2, <1>3, <1>5, StartGood
    <2>9. got.out \o Run(e, k, hi) = Run(e, k - 1, hi)
        <3> DEFINE m == k - 1
        <3>1. k <= hi
            BY <2>7, <1>3, <1>5, LastOrdered
        <3>2. m \in 0 .. Sections /\ m < hi /\ k \in Nat /\ k = m + 1
            BY <3>1, <1>3, <1>6
        <3> HIDE DEF m
        <3>3. <<Whole(e, k)>> \o Run(e, k, hi) = Run(e, m, hi)
            BY <3>2, <1>6, RunPrepend
        <3> QED BY <3>3, <2>5 DEF m
    <2>10. Feed0(s, p) = StartSections(got.out, more)
        BY <1>1, <1>3, <1>8, <2>3, <2>6, Zenon
        DEF Feed0, FeedStart, more, front, q, got, rest, body
    <2> QED BY <2>8, <2>9, <2>10
<1>9. CASE ~ p.pusi
    <2> DEFINE got == ExtendInFlight(s, p.body)
    <2>1. Feed0(s, p) = got
        BY <1>1, <1>3, <1>9, Zenon DEF Feed0, FeedContinuation
    <2>2. Carried(e, p.body, from, to)
        BY <1>9 DEF Packed
    <2>3. to <= e[k]
        <3>1. k # Sections => k \in 0 .. Sections - 1
            BY <1>2, <1>3
        <3>2. k \in 0 .. Sections - 1 => ~ (from <= e[k] /\ e[k] < to)
            BY <1>9 DEF Packed
        <3> QED BY <3>1, <3>2, <1>2, <1>3
    <2>4. got = IF to = e[k] THEN Ok(<<>>, None, <<Whole(e, k)>>)
                ELSE Ok(Part(stream, e[k - 1] + 1, to), Size(e, k), <<>>)
        BY <2>2, <2>3, <1>2, Gathered
    <2> HIDE DEF got
    <2> DEFINE m == k - 1
    <2>5. m \in 0 .. Sections /\ m \in Nat /\ k \in Nat /\ k = m + 1 /\ k \in -1 .. Sections
          /\ m \in -1 .. Sections /\ e[m] < from /\ e[m] \in Nat
        BY <1>3
    <2>6. CASE to = e[k]
        <3>1. hi = k
            <4>1. k <= hi
                BY <2>6, <1>3, <1>5, LastOrdered, <1>2
            <4>2. hi <= k <=> e[hi] <= e[k]
                BY <1>3, <1>6, Ordered
            <4> QED BY <4>1, <4>2, <2>6, <1>3, <1>6
        <3>2. Run(e, k, hi) = <<>>
            BY <3>1, <2>5, <1>3, RunIsSeq
        <3> HIDE DEF m
        <3>3. <<Whole(e, k)>> \o Run(e, k, hi) = Run(e, m, hi)
            <4>1. m < hi
                BY <3>1, <2>5
            <4> QED BY <4>1, <2>5, <1>6, RunPrepend
        <3>4. <<Whole(e, k)>> \o <<>> = <<Whole(e, k)>>
            <4>1. Whole(e, k) \in Seq(Cell)
                BY <1>3, WholeSection
            <4> DEFINE w == Whole(e, k)
            <4>2. <<w>> \in Seq(Seq(Cell))
                BY <4>1
            <4> HIDE DEF w
            <4>3. <<w>> \o <<>> = <<w>>
                BY <4>2, ConcatEmptySeq
            <4> QED BY <4>3 DEF w
        <3>5. TipBuf(e, hi, to) = <<>> /\ TipTarget(e, hi, to) = None
            BY <3>1, <2>6, <1>3 DEF TipBuf, TipTarget
        <3> QED BY <3>2, <3>3, <3>4, <3>5, <2>1, <2>4, <2>6 DEF m
    <2>7. CASE to # e[k]
        <3>1. hi = m
            <4>1. ~ (e[k] <= to)
                BY <2>3, <2>7, <1>3
            <4>2. ~ (k <= hi)
                BY <4>1, <1>3, <1>5, LastOrdered
            <4> QED BY <4>2, <1>3, <1>6, <1>7
        <3>2. hi + 1 = k /\ e[hi] < to
            BY <3>1, <2>5, <1>2
        <3>3. TipBuf(e, hi, to) = Part(stream, e[k - 1] + 1, to) /\ TipTarget(e, hi, to) = Size(e, k)
            BY <3>1, <3>2 DEF TipBuf, TipTarget
        <3>4. Run(e, m, hi) = <<>>
            BY <3>1, <2>5, RunIsSeq
        <3> QED BY <3>3, <3>4, <2>1, <2>4, <2>7 DEF m
    <2> QED BY <2>6, <2>7
<1> QED BY <1>8, <1>9
------------------------------------------------------------------------------
(* A damaged packet leaves nothing.                                        *)
LEMMA FeedPointer ==
    ASSUME NEW s, NEW p, p.pusi, p.body[1].val > Len(Tail(p.body))
    PROVE  Feed0(s, p) = Ok(<<>>, None, <<>>)
    BY Zenon DEF Feed0, FeedStart, Ok

LEMMA DamagedSuffix ==
    ASSUME Clean, NEW e, Layout(e), NEW rest, NEW from \in Nat, NEW to \in Nat,
           NEW w, DamagedAt(e, rest, from, to, w),
           NEW f \in 0 .. Sections, from <= e[f], e[f] <= e[w]
    PROVE  DamagedAt(e, SubSeq(rest, (e[f] - from) + 1, Len(rest)), e[f], to, w)
<1> DEFINE q == e[f]
           i == (q - from) + 1
           left == SubSeq(rest, i, Len(rest))
           x == e[w]
<1>1. /\ rest \in Seq(Cell) /\ Len(rest) \in Nat /\ to - from <= Len(rest)
      /\ w \in 0 .. Sections - 1 /\ x \in Nat /\ x + 3 <= to /\ q \in Nat /\ from <= q /\ q <= x
    <2>1. w \in 0 .. Sections
        BY Numbers DEF DamagedAt
    <2> QED BY <2>1, LenProperties, Ordered DEF DamagedAt
<1>2. /\ \A j \in 1 .. to - from : j # (x - from) + 3 => rest[j] = stream[from + j]
      /\ rest[(x - from) + 3].val = MaxLen
    BY DEF DamagedAt
<1> HIDE DEF q, x
<1>3. i \in 1 .. Len(rest) + 1
    BY <1>1
<1>4. /\ left \in Seq(Cell) /\ Len(left) = (Len(rest) - i) + 1
      /\ \A j \in 1 .. (Len(rest) - i) + 1 : left[j] = rest[(i + j) - 1]
    BY <1>1, <1>3, LeftOver
<1> HIDE DEF left
<1>5. to - q <= Len(left)
    BY <1>1, <1>4
<1>6. ASSUME NEW j \in 1 .. to - q, j # (x - q) + 3 PROVE left[j] = stream[q + j]
    <2>1. /\ j \in 1 .. (Len(rest) - i) + 1 /\ (i + j) - 1 \in 1 .. to - from
          /\ from + ((i + j) - 1) = q + j /\ (i + j) - 1 # (x - from) + 3
        BY <1>1, <1>6
    <2> QED BY <2>1, <1>2, <1>4
<1>7. left[(x - q) + 3].val = MaxLen
    <2> DEFINE j == (x - q) + 3
    <2>1. j \in 1 .. (Len(rest) - i) + 1 /\ (i + j) - 1 = (x - from) + 3
        BY <1>1
    <2>2. left[j] = rest[(i + j) - 1]
        BY <2>1, <1>4
    <2> QED BY <2>1, <2>2, <1>2
<1> QED BY <1>1, <1>4, <1>5, <1>6, <1>7 DEF DamagedAt, left, q, x

LEMMA FeedDamaged ==
    ASSUME Clean, NEW e, Layout(e), NEW from \in Nat, NEW to \in Nat, NEW p, p.pusi, NEW f, NEW w,
           StartBody(e, p.body, from, to, f), DamagedAt(e, Tail(p.body), from, to, w),
           NEW s, NEW b, NEW t, s = Ok(b, t, <<>>), Empty(s) \/ \E k \in 1 .. Sections : Holds(e, s, k, from)
    PROVE  Feed0(s, p) = Overrun
<1>1. s.buf = b /\ s.target = t /\ s.out = <<>>
    BY DEF Ok, State
<1>2. ~ s.err
    BY Zenon DEF Ok, State
<1> DEFINE body == p.body
           rest == Tail(body)
           q    == body[1].val
           front == SubSeq(rest, 1, q)
           more == SubSeq(rest, q + 1, Len(rest))
           got  == IF s.buf # <<>> \/ s.target # None THEN ExtendInFlight(s, front) ELSE s
<1>3. /\ f \in 0 .. Sections /\ e[f] \in Nat /\ from <= e[f] /\ q = e[f] - from
      /\ FirstEnd(e, from, f)
    BY StartIsFirst DEF StartBody
<1>4. /\ rest \in Seq(Cell) /\ Len(rest) \in Nat /\ to - from <= Len(rest)
      /\ w \in 0 .. Sections /\ from <= e[w] /\ e[w] + 3 <= to /\ e[w] \in Nat
    <2>1. w \in 0 .. Sections
        BY Numbers DEF DamagedAt
    <2> QED BY <2>1, LenProperties, Ordered DEF DamagedAt
<1>5. e[f] <= e[w]
    <2>1. f <= w
        BY <1>3, <1>4, FirstOrdered
    <2> QED BY <2>1, <1>3, <1>4, Ordered
<1>6. ~ (q > Len(rest)) /\ e[f] - from <= Len(rest)
    BY <1>3, <1>4, <1>5
<1>7. DamagedAt(e, more, e[f], to, w)
    <2>1. DamagedAt(e, rest, from, to, w)
        OBVIOUS
    <2> HIDE DEF rest
    <2>2. DamagedAt(e, SubSeq(rest, (e[f] - from) + 1, Len(rest)), e[f], to, w)
        BY <2>1, <1>3, <1>5, DamagedSuffix
    <2> QED BY <2>2, <1>3
<1>8. ~ got.err
    <2>1. CASE Empty(s)
        BY <2>1, <1>2 DEF Empty
    <2>2. ASSUME NEW k \in 1 .. Sections, Holds(e, s, k, from) PROVE ~ got.err
        <3>1. Within(e, k, from) /\ s.target = Size(e, k) /\ e[k] \in Nat
            BY <2>2, Bounds DEF Holds
        <3>2. k = f
            BY <3>1, <1>3, HeldIsFirst, OneFirst
        <3>3. s.target # None /\ from < e[k]
            BY <3>1, Bounds DEF None, Within
        <3>4. Carried(e, front, from, e[k])
            <4>1. \A j \in 1 .. e[k] - from : rest[j] = stream[from + j]
                <5> TAKE j \in 1 .. e[k] - from
                <5>1. j \in 1 .. to - from /\ j # (e[w] - from) + 3
                    BY <1>3, <1>4, <1>5, <3>2
                <5> QED BY <5>1 DEF DamagedAt
            <4>2. Carried(e, SubSeq(rest, 1, e[k] - from), from, e[k])
                <5>1. from <= e[k] /\ e[k] - from <= Len(rest)
                    BY <1>3, <1>6, <3>2
                <5> HIDE DEF rest
                <5> QED BY <5>1, <4>1, <1>4, CarriedPrefix
            <4> QED BY <4>2, <3>2, <1>3
        <3> HIDE DEF front
        <3>5. ExtendInFlight(s, front) = Ok(<<>>, None, <<Whole(e, k)>>)
            <4>1. e[k] <= e[k]
                BY <3>1
            <4> QED BY <4>1, <3>1, <3>3, <3>4, <2>2, Gathered
        <3>6. got = Ok(<<>>, None, <<Whole(e, k)>>)
            BY <3>3, <3>5
        <3> HIDE DEF got
        <3> QED BY <3>6, Zenon DEF Ok, State
    <2> QED BY <2>1, <2>2
<1> HIDE DEF more, got, q, front, rest
<1>9. StartSections(got.out, more) = Overrun
    BY <1>3, <1>4, <1>7, StartDamaged
<1>10. Feed0(s, p) = StartSections(got.out, more)
    BY <1>6, <1>8, Zenon DEF Feed0, FeedStart, more, got, front, q, rest, body
<1> QED BY <1>9, <1>10

------------------------------------------------------------------------------
(* The packets of the sender.                                              *)
LEMMA CutAhead ==
    ASSUME Clean, NEW e, Layout(e), Cut(e, at), NEW n \in 1 .. Payload, Fits(n)
    PROVE  /\ Cut(e, at + n) /\ at \in Nat /\ at + n \in 1 .. e[Sections] /\ n \in Nat
           /\ at \in 0 .. e[Sections]
<1>1. at \in 0 .. e[Sections] /\ e[Sections] \in Nat /\ Len(stream) = e[Sections] /\ n \in Nat /\ n >= 1
    <2>1. Sections \in 0 .. Sections
        BY Numbers
    <2> QED BY <2>1, Numbers, Ordered DEF Layout, Cut
<1> DEFINE p == at + n
<1>2. p \in 1 .. e[Sections] /\ p \in Int
    BY <1>1 DEF Fits
<1>3. ASSUME NEW k \in 1 .. Sections, Within(e, k, p) PROVE e[k - 1] + 3 <= p
    <2>1. e[k] \in Nat /\ e[k - 1] \in Nat /\ e[k - 1] < p /\ p < e[k] /\ p <= e[k]
        BY <1>2, <1>3, Bounds DEF Within
    <2>2. ~ EndsSection(p)
        <3>1. ASSUME NEW l \in 1 .. Sections, p = e[l] PROVE FALSE
            <4>1. e[l - 1] < p /\ p <= e[l]
                BY <3>1, Bounds
            <4>2. l = k
                BY <4>1, <2>1, <1>2, OneSection
            <4> QED BY <4>2, <3>1, <2>1
        <3> QED BY <3>1, <1>2, StartsAndEnds
    <2>3. stream[p].off >= Header - 1
        BY <2>2 DEF Fits, Clean
    <2>4. PICK l \in 1 .. Sections : e[l - 1] + 3 <= p /\ p <= e[l]
        BY <2>3, <1>2, StartsAndEnds
    <2>5. l = k
        <3>1. e[l - 1] < p
            BY <2>4, <1>2, Bounds
        <3> QED BY <3>1, <2>1, <2>4, <1>2, OneSection
    <2> QED BY <2>4, <2>5
<1> QED BY <1>1, <1>2, <1>3 DEF Cut

(* The cells of a packet and what fills it.                                *)
Bytes(n) == SubSeq(stream, at + 1, at + n) \o [j \in 1 .. Room(n) - n |-> Stuffing]

LEMMA BytesAre ==
    ASSUME Clean, NEW e, Layout(e), Cut(e, at), NEW n \in 1 .. Payload, Fits(n)
    PROVE  /\ Bytes(n) \in Seq(Cell) /\ Len(Bytes(n)) = Room(n) /\ Room(n) \in Nat /\ n <= Room(n)
           /\ \A j \in 1 .. n : Bytes(n)[j] = stream[at + j]
           /\ \A j \in n + 1 .. Room(n) : Bytes(n)[j] = Stuffing
<1> DEFINE c == at + 1
           b == at + n
           u == SubSeq(stream, c, b)
           r == Room(n)
           m == r - n
           v == [j \in 1 .. m |-> Stuffing]
<1>1. /\ at \in Nat /\ n \in Nat /\ n >= 1 /\ b \in 1 .. e[Sections] /\ stream \in Seq(Cell)
      /\ Len(stream) = e[Sections] /\ e[Sections] \in Nat
    <2>1. Sections \in 0 .. Sections
        BY Numbers
    <2> QED BY <2>1, CutAhead, Ordered DEF Layout
<1>2. r \in Nat /\ n <= r /\ m \in Nat
    BY <1>1, Numbers, SMTT(30) DEF Room, Fits
<1>3. u \in Seq(Cell) /\ Len(u) = n /\ \A j \in 1 .. n : u[j] = stream[at + j]
    <2>1. \A i \in c .. b : stream[i] \in Cell
        <3>1. c .. b \subseteq 1 .. Len(stream)
            BY <1>1
        <3> QED BY <3>1, <1>1, ElementOfSeq
    <2>2. c \in Int /\ b \in Int /\ c <= b /\ b - c + 1 = n
          /\ \A j \in 1 .. n : c + j - 1 = at + j
        BY <1>1
    <2> HIDE DEF c, b
    <2>3. /\ u \in Seq(Cell) /\ Len(u) = IF c <= b THEN b - c + 1 ELSE 0
          /\ \A j \in 1 .. b - c + 1 : u[j] = stream[c + j - 1]
        BY <2>1, <2>2, SubSeqProperties
    <2> HIDE DEF u
    <2> QED BY <2>2, <2>3
<1> HIDE DEF u, r
<1>4. v \in Seq(Cell) /\ Len(v) = m /\ \A j \in 1 .. m : v[j] = Stuffing
    <2>1. Stuffing \in Cell
        BY DEF Stuffing, Cell
    <2> HIDE DEF m
    <2>2. v \in [1 .. m -> Cell] /\ \A j \in 1 .. m : v[j] = Stuffing
        BY <2>1
    <2> HIDE DEF v
    <2> QED BY <2>2, <1>2
<1> HIDE DEF v
<1>5. /\ u \o v \in Seq(Cell) /\ Len(u \o v) = Len(u) + Len(v)
      /\ \A j \in 1 .. Len(u) + Len(v) : (u \o v)[j] = IF j <= Len(u) THEN u[j] ELSE v[j - Len(u)]
    BY <1>3, <1>4, ConcatProperties
<1>6. Bytes(n) = u \o v
    BY DEF Bytes, u, v, c, b, m, r
<1> DEFINE x == u \o v
<1>7. x \in Seq(Cell) /\ Len(x) = r /\ \A j \in 1 .. r : x[j] = IF j <= n THEN u[j] ELSE v[j - n]
    BY <1>2, <1>3, <1>4, <1>5
<1> HIDE DEF x
<1>8. \A j \in 1 .. n : x[j] = stream[at + j]
    BY <1>1, <1>2, <1>3, <1>7
<1>9. \A j \in n + 1 .. r : x[j] = Stuffing
    <2> TAKE j \in n + 1 .. r
    <2>1. j \in 1 .. r /\ ~ (j <= n) /\ j - n \in 1 .. m
        BY <1>1, <1>2
    <2> QED BY <2>1, <1>4, <1>7
<1> QED BY <1>2, <1>6, <1>7, <1>8, <1>9 DEF x, r

LEMMA BytesCarried ==
    ASSUME Clean, NEW e, Layout(e), Cut(e, at), NEW n \in 1 .. Payload, Fits(n)
    PROVE  Carried(e, Bytes(n), at, at + n)
<1>1. at \in Nat /\ n \in Nat /\ at + n \in 1 .. e[Sections] /\ (at + n) - at = n
    BY CutAhead
<1>2. /\ Bytes(n) \in Seq(Cell) /\ Len(Bytes(n)) = Room(n) /\ Room(n) \in Nat /\ n <= Room(n)
      /\ \A j \in 1 .. n : Bytes(n)[j] = stream[at + j]
      /\ \A j \in n + 1 .. Room(n) : Bytes(n)[j] = Stuffing
    BY BytesAre
<1>3. \A j \in n + 1 .. Room(n) : Bytes(n)[j].val = 255
    BY <1>2 DEF Stuffing
<1>4. n < Room(n) => \E k \in 1 .. Sections : at + n = e[k]
    BY <1>1, StartsAndEnds DEF Fits
<1> QED BY <1>1, <1>2, <1>3, <1>4 DEF Carried

(* A cell in front.                                                        *)
LEMMA Prefixed ==
    ASSUME NEW c \in Cell, NEW bytes \in Seq(Cell)
    PROVE  LET s == <<c>> \o bytes IN
           /\ s \in Seq(Cell) /\ s # <<>> /\ s[1] = c /\ Tail(s) = bytes
           /\ Len(s) = Len(bytes) + 1
           /\ \A j \in 1 .. Len(bytes) : s[j + 1] = bytes[j]
<1> DEFINE u == <<c>>
           s == u \o bytes
<1>1. u \in Seq(Cell) /\ Len(u) = 1 /\ u[1] = c /\ Len(bytes) \in Nat
    BY LenProperties
<1> HIDE DEF u
<1>2. /\ s \in Seq(Cell) /\ Len(s) = Len(u) + Len(bytes)
      /\ \A j \in 1 .. Len(u) + Len(bytes) : s[j] = IF j <= Len(u) THEN u[j] ELSE bytes[j - Len(u)]
    BY <1>1, ConcatProperties
<1> HIDE DEF s
<1>3. Len(s) = Len(bytes) + 1 /\ s # <<>> /\ s[1] = c
    BY <1>1, <1>2, EmptySeq
<1>4. \A j \in 1 .. Len(bytes) : s[j + 1] = bytes[j]
    <2> TAKE j \in 1 .. Len(bytes)
    <2>1. j + 1 \in 1 .. Len(u) + Len(bytes) /\ ~ (j + 1 <= Len(u)) /\ (j + 1) - Len(u) = j
        BY <1>1
    <2> QED BY <2>1, <1>2
<1>5. /\ Tail(s) \in Seq(Cell) /\ Len(Tail(s)) = Len(s) - 1
      /\ \A j \in 1 .. Len(Tail(s)) : Tail(s)[j] = s[j + 1]
    BY <1>2, <1>3, HeadTailProperties
<1> DEFINE t == Tail(s)
<1>6. t \in Seq(Cell) /\ Len(t) = Len(bytes) /\ \A j \in 1 .. Len(t) : t[j] = bytes[j]
    BY <1>1, <1>3, <1>4, <1>5
<1> HIDE DEF t
<1>7. t = bytes
    BY <1>6, SeqEqual
<1> QED BY <1>2, <1>3, <1>4, <1>7 DEF s, t, u

LEMMA PacketIs ==
    ASSUME Clean, NEW e, Layout(e), Cut(e, at), NEW n \in 1 .. Payload, Fits(n)
    PROVE  \/ Starts(n) = {} /\ Packet(n) = [body |-> Bytes(n), pusi |-> FALSE, cc |-> cc]
           \/ \E i \in Starts(n) :
                  /\ \A k \in Starts(n) : i <= k
                  /\ Packet(n) = [body |-> <<[sec |-> 0, off |-> 0, val |-> i - 1]>> \o Bytes(n),
                                  pusi |-> TRUE, cc |-> cc]
<1> DEFINE u == SubSeq(stream, at + 1, at + n)
           v == [j \in 1 .. Room(n) - n |-> Stuffing]
<1>1. CASE Starts(n) = {}
    BY <1>1, Zenon DEF Packet, Bytes
<1>2. CASE Starts(n) # {}
    <2> DEFINE i == CHOOSE j \in Starts(n) : \A k \in Starts(n) : j <= k
               c == [sec |-> 0, off |-> 0, val |-> i - 1]
    <2>1. Starts(n) \subseteq Nat
        BY DEF Starts
    <2>2. \E j \in Starts(n) : \A k \in Starts(n) : j <= k
        BY <2>1, <1>2, LeastElement
    <2>3. i \in Starts(n) /\ \A k \in Starts(n) : i <= k
        BY <2>2
    <2>4. Packet(n) = [body |-> <<c>> \o u \o v, pusi |-> TRUE, cc |-> cc]
        BY <1>2, Zenon DEF Packet
    <2> HIDE DEF i
    <2>5. (<<c>> \o u) \o v = <<c>> \o (u \o v)
        <3>1. i - 1 \in Nat
            BY <2>3 DEF Starts
        <3>2. c \in Cell
            BY <3>1 DEF Cell
        <3> HIDE DEF c
        <3>3. <<c>> \in Seq(Cell)
            BY <3>2
        <3>4. u \in Seq(Cell)
            <4> DEFINE p == at + 1
                       q == at + n
            <4>1. /\ at \in Nat /\ at + n \in 1 .. e[Sections] /\ stream \in Seq(Cell)
                  /\ Len(stream) = e[Sections] /\ e[Sections] \in Nat
                <5>1. Sections \in 0 .. Sections
                    BY Numbers
                <5> QED BY <5>1, CutAhead, Ordered DEF Layout
            <4>2. \A j \in p .. q : stream[j] \in Cell
                <5>1. p .. q \subseteq 1 .. Len(stream)
                    BY <4>1
                <5> QED BY <5>1, <4>1, ElementOfSeq
            <4>3. p \in Int /\ q \in Int
                BY <4>1
            <4> HIDE DEF p, q
            <4>4. SubSeq(stream, p, q) \in Seq(Cell)
                BY <4>2, <4>3, SubSeqProperties
            <4> QED BY <4>4 DEF p, q
        <3>5. v \in Seq(Cell)
            <4> DEFINE m == Room(n) - n
            <4>1. Stuffing \in Cell /\ m \in Nat
                <5>1. Room(n) \in Nat /\ n <= Room(n) /\ n \in Nat
                    BY BytesAre
                <5> QED BY <5>1 DEF Stuffing, Cell
            <4> HIDE DEF m
            <4>2. [j \in 1 .. m |-> Stuffing] \in [1 .. m -> Cell]
                BY <4>1
            <4> DEFINE w == [j \in 1 .. m |-> Stuffing]
            <4> HIDE DEF w
            <4>3. w \in Seq(Cell)
                BY <4>1, <4>2 DEF w
            <4> QED BY <4>3 DEF w, m
        <3> DEFINE h == <<c>>
        <3> HIDE DEF u, v, h
        <3>6. (h \o u) \o v = h \o (u \o v)
            BY <3>3, <3>4, <3>5, ConcatAssociative DEF h
        <3> QED BY <3>6 DEF h
    <2>6. u \o v = Bytes(n)
        BY DEF Bytes
    <2> HIDE DEF c, u, v
    <2>7. Packet(n) = [body |-> <<c>> \o Bytes(n), pusi |-> TRUE, cc |-> cc]
        BY <2>4, <2>5, <2>6
    <2> QED BY <2>3, <2>7 DEF c
<1> QED BY <1>1, <1>2
(* The parts of a packet.                                                  *)
LEMMA Parts ==
    ASSUME NEW p, NEW b, NEW q, NEW c, p = [body |-> b, pusi |-> q, cc |-> c]
    PROVE  p.body = b /\ p.pusi = q /\ p.cc = c
    OBVIOUS

(* Where the sections start that a packet starts.                          *)
LEMMA StartsAre ==
    ASSUME Clean, NEW e, Layout(e), Cut(e, at), NEW n \in 1 .. Payload, Fits(n)
    PROVE  /\ \A j \in Starts(n) : \E k \in 0 .. Sections - 1 : at + j = e[k] + 1
           /\ \A k \in 0 .. Sections - 1 :
                  at <= e[k] /\ e[k] < at + n => (e[k] - at) + 1 \in Starts(n)
<1>1. at \in Nat /\ n \in Nat /\ at + n \in 1 .. e[Sections] /\ e[Sections] \in Nat /\ Sections \in Nat
    <2>1. Sections \in 0 .. Sections
        BY Numbers
    <2> QED BY <2>1, CutAhead, Ordered, Numbers
<1>2. ASSUME NEW j \in Starts(n) PROVE \E k \in 0 .. Sections - 1 : at + j = e[k] + 1
    <2>1. j \in 1 .. n /\ stream[at + j].off = 0
        BY DEF Starts
    <2> DEFINE p == at + j
    <2>2. p \in 1 .. e[Sections] /\ stream[p].off = 0
        BY <1>1, <2>1
    <2> HIDE DEF p
    <2>3. PICK k \in 1 .. Sections : p = e[k - 1] + 1
        BY <2>2, StartsAndEnds
    <2>4. k - 1 \in 0 .. Sections - 1
        BY <1>1
    <2> QED BY <2>3, <2>4 DEF p
<1>3. ASSUME NEW k \in 0 .. Sections - 1, at <= e[k], e[k] < at + n
      PROVE  (e[k] - at) + 1 \in Starts(n)
    <2> DEFINE l == k + 1
               p == e[k] + 1
    <2>1. l \in 1 .. Sections /\ l - 1 = k /\ k \in 0 .. Sections
        BY <1>1
    <2>2. e[k] \in Nat
        BY <2>1, Ordered
    <2>3. p \in 1 .. e[Sections] /\ p = e[l - 1] + 1
        BY <1>1, <1>3, <2>1, <2>2
    <2> HIDE DEF p
    <2>4. stream[p].off = 0
        BY <2>1, <2>3, StartsAndEnds
    <2>5. at + ((e[k] - at) + 1) = p /\ (e[k] - at) + 1 \in 1 .. n
        BY <1>1, <1>3, <2>2 DEF p
    <2> QED BY <2>4, <2>5 DEF Starts
<1> QED BY <1>2, <1>3

LEMMA PacketPacked ==
    ASSUME Clean, NEW e, Layout(e), Cut(e, at), NEW n \in 1 .. Payload, Fits(n)
    PROVE  Packed(e, Packet(n), at, at + n) /\ Packet(n).cc = cc
<1> DEFINE p == Packet(n)
           to == at + n
<1>1. at \in Nat /\ n \in Nat /\ n >= 1 /\ to \in 1 .. e[Sections] /\ Cut(e, to) /\ at < to
    BY CutAhead
<1>2. Carried(e, Bytes(n), at, to) /\ Bytes(n) \in Seq(Cell)
    BY BytesCarried, BytesAre
<1>3. CASE Starts(n) = {} /\ p = [body |-> Bytes(n), pusi |-> FALSE, cc |-> cc]
    <2>1. ASSUME NEW k \in 0 .. Sections - 1, at <= e[k], e[k] < to PROVE FALSE
        BY <2>1, <1>3, StartsAre
    <2>2. p.body = Bytes(n) /\ p.cc = cc
        BY <1>3
    <2>3. ~ p.pusi
        <3>1. p.pusi = FALSE
            BY <1>3, Parts
        <3> HIDE DEF p
        <3> QED BY <3>1, Zenon
    <2> QED BY <2>1, <2>2, <2>3, <1>1, <1>2 DEF Packed
<1>4. ASSUME NEW i \in Starts(n), \A k \in Starts(n) : i <= k,
             p = [body |-> <<[sec |-> 0, off |-> 0, val |-> i - 1]>> \o Bytes(n),
                  pusi |-> TRUE, cc |-> cc]
      PROVE  Packed(e, p, at, to) /\ p.cc = cc
    <2> DEFINE c == [sec |-> 0, off |-> 0, val |-> i - 1]
               body == <<c>> \o Bytes(n)
    <2>1. i \in 1 .. n
        BY DEF Starts
    <2>2. PICK f \in 0 .. Sections - 1 : at + i = e[f] + 1
        BY StartsAre
    <2>3. e[f] \in Nat /\ at <= e[f] /\ e[f] < to /\ i - 1 = e[f] - at /\ i - 1 \in Nat
        <3>1. f \in 0 .. Sections
            BY Numbers
        <3>2. e[f] \in Nat
            BY <3>1, Ordered
        <3> QED BY <3>2, <2>1, <2>2, <1>1
    <2>4. f = 0 \/ e[f - 1] < at
        <3>1. ASSUME f # 0, ~ (e[f - 1] < at) PROVE FALSE
            <4> DEFINE m == f - 1
            <4>1. f \in 1 .. Sections /\ m \in 0 .. Sections - 1
                BY <3>1, Numbers
            <4>2. e[m] \in Nat /\ e[m] + 3 <= e[f]
                BY <4>1, Bounds
            <4> HIDE DEF m
            <4>3. (e[m] - at) + 1 \in Starts(n)
                BY <4>1, <4>2, <3>1, <2>3, <1>1, StartsAre DEF m
            <4>4. i <= (e[m] - at) + 1
                BY <4>3, <1>4
            <4> QED BY <4>2, <4>4, <2>2, <2>1, <1>1, <2>3
        <3> QED BY <3>1
    <2>5. c \in Cell /\ c.val = e[f] - at
        BY <2>3 DEF Cell
    <2> HIDE DEF c
    <2>6. body \in Seq(Cell) /\ body # <<>> /\ body[1] = c /\ Tail(body) = Bytes(n)
        BY <2>5, <1>2, Prefixed
    <2> HIDE DEF body
    <2>7. StartBody(e, body, at, to, f) /\ Carried(e, Tail(body), at, to)
        BY <2>3, <2>4, <2>5, <2>6, <1>2 DEF StartBody
    <2>8. p.body = body /\ p.cc = cc
        BY <1>4 DEF body, c
    <2>9. p.pusi
        <3>1. p.pusi = TRUE
            BY <1>4, Parts
        <3> HIDE DEF p
        <3> QED BY <3>1, Zenon
    <2> QED BY <2>7, <2>8, <2>9, <1>1 DEF Packed
<1> QED BY <1>3, <1>4, PacketIs

(* The cells of a packet, and the sections they are of.                    *)
LEMMA PacketCells ==
    ASSUME Clean, NEW e, Layout(e), Cut(e, at), NEW n \in 1 .. Payload, Fits(n)
    PROVE  LET body == Packet(n).body IN
           /\ body \in Seq(Cell)
           /\ \A j \in 1 .. Len(body) :
                  \/ body[j].sec = 0 /\ body[j].off = 0
                  \/ \E i \in 1 .. n : body[j] = stream[at + i] /\ j = i + (IF Packet(n).pusi THEN 1 ELSE 0)
           /\ \A i \in 1 .. n : \E j \in 1 .. Len(body) : body[j] = stream[at + i]
           /\ Packet(n).pusi => body # <<>> /\ Tail(body) = Bytes(n) /\ Room(n) = Payload - 1
                                /\ Len(body) = Payload /\ body[1].sec = 0 /\ body[1].off = 0
<1> DEFINE p == Packet(n)
           body == p.body
           d == IF p.pusi THEN 1 ELSE 0
<1>1. /\ Bytes(n) \in Seq(Cell) /\ Len(Bytes(n)) = Room(n) /\ Room(n) \in Nat /\ n <= Room(n)
      /\ \A j \in 1 .. n : Bytes(n)[j] = stream[at + j]
      /\ \A j \in n + 1 .. Room(n) : Bytes(n)[j].sec = 0 /\ Bytes(n)[j].off = 0
    BY BytesAre DEF Stuffing
<1>2. n \in Nat
    BY Numbers
<1>3. CASE Starts(n) = {} /\ p = [body |-> Bytes(n), pusi |-> FALSE, cc |-> cc]
    <2>1. body = Bytes(n)
        BY <1>3
    <2>2. ~ p.pusi
        <3>1. p.pusi = FALSE
            BY <1>3, Parts
        <3> HIDE DEF p
        <3> QED BY <3>1, Zenon
    <2>3. d = 0
        BY <2>2
    <2> HIDE DEF p, d
    <2>4. \A j \in 1 .. Room(n) : \/ body[j].sec = 0 /\ body[j].off = 0
                                  \/ \E i \in 1 .. n : body[j] = stream[at + i] /\ j = i + d
        BY <1>1, <1>2, <2>1, <2>3
    <2>5. \A i \in 1 .. n : \E j \in 1 .. Room(n) : body[j] = stream[at + i]
        BY <1>1, <1>2, <2>1
    <2> QED BY <1>1, <2>1, <2>2, <2>4, <2>5 DEF p, d
<1>4. ASSUME NEW i \in Starts(n), \A k \in Starts(n) : i <= k,
             p = [body |-> <<[sec |-> 0, off |-> 0, val |-> i - 1]>> \o Bytes(n),
                  pusi |-> TRUE, cc |-> cc]
      PROVE  /\ body \in Seq(Cell)
             /\ \A j \in 1 .. Len(body) :
                    \/ body[j].sec = 0 /\ body[j].off = 0
                    \/ \E l \in 1 .. n : body[j] = stream[at + l] /\ j = l + d
             /\ \A l \in 1 .. n : \E j \in 1 .. Len(body) : body[j] = stream[at + l]
             /\ p.pusi => body # <<>> /\ Tail(body) = Bytes(n) /\ Room(n) = Payload - 1
                          /\ Len(body) = Payload /\ body[1].sec = 0 /\ body[1].off = 0
    <2> DEFINE c == [sec |-> 0, off |-> 0, val |-> i - 1]
    <2>1. i - 1 \in Nat
        BY DEF Starts
    <2>2. c \in Cell /\ c.sec = 0 /\ c.off = 0
        BY <2>1 DEF Cell
    <2>3. body = <<c>> \o Bytes(n)
        BY <1>4
    <2>4. p.pusi
        <3>1. p.pusi = TRUE
            BY <1>4, Parts
        <3> HIDE DEF p
        <3> QED BY <3>1, Zenon
    <2>5. d = 1
        BY <2>4
    <2> HIDE DEF p, d, c
    <2>6. /\ body \in Seq(Cell) /\ body # <<>> /\ body[1] = c /\ Tail(body) = Bytes(n)
          /\ Len(body) = Len(Bytes(n)) + 1
          /\ \A j \in 1 .. Len(Bytes(n)) : body[j + 1] = Bytes(n)[j]
        <3> DEFINE s == <<c>> \o Bytes(n)
        <3>1. /\ s \in Seq(Cell) /\ s # <<>> /\ s[1] = c /\ Tail(s) = Bytes(n)
              /\ Len(s) = Len(Bytes(n)) + 1
              /\ \A j \in 1 .. Len(Bytes(n)) : s[j + 1] = Bytes(n)[j]
            BY <2>2, <1>1, Prefixed
        <3>2. body = s
            BY <2>3
        <3> HIDE DEF s, body
        <3> QED BY <3>1, <3>2
    <2>7. Room(n) = Payload - 1 /\ Len(body) = Payload
        <3>1. Room(n) = Payload - 1
            BY DEF Room
        <3> QED BY <3>1, <2>6, <1>1, Numbers
    <2>8. ASSUME NEW j \in 1 .. Len(body)
          PROVE  \/ body[j].sec = 0 /\ body[j].off = 0
                 \/ \E l \in 1 .. n : body[j] = stream[at + l] /\ j = l + d
        <3>1. CASE j = 1
            BY <3>1, <2>2, <2>6
        <3>2. CASE j # 1
            <4> DEFINE l == j - 1
            <4>1. l \in 1 .. Len(Bytes(n)) /\ j = l + 1
                BY <3>2, <2>6, <1>1
            <4>2. body[j] = Bytes(n)[l]
                BY <4>1, <2>6
            <4> HIDE DEF l
            <4>3. l \in 1 .. n \/ l \in n + 1 .. Room(n)
                BY <4>1, <1>1, <1>2
            <4> QED BY <4>1, <4>2, <4>3, <2>5, <1>1
        <3> QED BY <3>1, <3>2
    <2>9. ASSUME NEW l \in 1 .. n PROVE \E j \in 1 .. Len(body) : body[j] = stream[at + l]
        <3>1. l \in 1 .. Len(Bytes(n)) /\ l + 1 \in 1 .. Len(body)
            BY <2>6, <1>1, <1>2
        <3>2. body[l + 1] = stream[at + l]
            BY <3>1, <2>6, <1>1
        <3> QED BY <3>1, <3>2
    <2> QED BY <2>2, <2>6, <2>7, <2>8, <2>9
<1> QED BY <1>3, <1>4, PacketIs

(* The sections a packet carries a part of.                                *)
LEMMA SectionsInPacket ==
    ASSUME Clean, NEW e, Layout(e), Cut(e, at), NEW n \in 1 .. Payload, Fits(n)
    PROVE  SectionsIn(Packet(n)) = {k \in 1 .. Sections : e[k - 1] < at + n /\ at < e[k]}
<1> DEFINE body == Packet(n).body
           to == at + n
<1>1. /\ at \in Nat /\ n \in Nat /\ to \in 1 .. e[Sections] /\ e[Sections] \in Nat
    <2>1. Sections \in 0 .. Sections
        BY Numbers
    <2> QED BY <2>1, CutAhead, Ordered
<1>2. /\ body \in Seq(Cell)
      /\ \A j \in 1 .. Len(body) :
             body[j].sec = 0 \/ \E i \in 1 .. n : body[j] = stream[at + i]
      /\ \A i \in 1 .. n : \E j \in 1 .. Len(body) : body[j] = stream[at + i]
    BY PacketCells
<1>3. DOMAIN body = 1 .. Len(body)
    BY <1>2, LenProperties
<1> HIDE DEF body
<1>4. ASSUME NEW k \in SectionsIn(Packet(n))
      PROVE  k \in 1 .. Sections /\ e[k - 1] < to /\ at < e[k]
    <2>1. PICK j \in 1 .. Len(body) : body[j].sec = k /\ k # 0
        BY <1>3 DEF SectionsIn, body
    <2>2. PICK i \in 1 .. n : stream[at + i].sec = k
        BY <1>2, <2>1
    <2>3. at + i \in 1 .. e[Sections] /\ at + i \in Int /\ at < at + i /\ at + i <= to
        BY <1>1
    <2>4. PICK l \in 1 .. Sections : e[l - 1] < at + i /\ at + i <= e[l]
        BY <2>3, Locate
    <2>5. l = k
        BY <2>2, <2>3, <2>4, CellAt
    <2> QED BY <2>3, <2>4, <2>5, <1>1, Bounds
<1>5. ASSUME NEW k \in 1 .. Sections, e[k - 1] < to, at < e[k]
      PROVE  k \in SectionsIn(Packet(n))
    <2> DEFINE q == IF at <= e[k - 1] THEN e[k - 1] + 1 ELSE at + 1
    <2>1. /\ q \in Int /\ e[k - 1] < q /\ q <= e[k] /\ q - at \in 1 .. n /\ at + (q - at) = q
        BY <1>1, <1>5, Bounds
    <2> HIDE DEF q
    <2>2. stream[q].sec = k
        BY <2>1, CellAt
    <2>3. PICK j \in 1 .. Len(body) : body[j] = stream[q]
        BY <1>2, <2>1
    <2>4. k # 0
        BY Numbers
    <2> QED BY <1>3, <2>2, <2>3, <2>4 DEF SectionsIn, body
<1> QED BY <1>4, <1>5

(* A packet with one cell of another value.                                *)
Spoil(p, j, v) == [p EXCEPT !.body[j].val = v]

Record(p) == p = [body |-> p.body, pusi |-> p.pusi, cc |-> p.cc]

LEMMA Spoilt ==
    ASSUME NEW p, Record(p), p.body \in Seq(Cell), NEW j \in 1 .. Len(p.body), NEW v \in Nat,
           NEW r, r = Spoil(p, j, v)
    PROVE  /\ r.pusi = p.pusi /\ r.cc = p.cc /\ r.body \in Seq(Cell) /\ Len(r.body) = Len(p.body)
           /\ r.body[j].val = v
           /\ \A i \in 1 .. Len(p.body) : i # j => r.body[i] = p.body[i]
<1> DEFINE body == p.body
           q == p.pusi
           c == p.cc
           x == [body[j] EXCEPT !.val = v]
           b == [body EXCEPT ![j] = x]
<1>1. r = [body |-> b, pusi |-> q, cc |-> c]
    <2>1. p = [body |-> body, pusi |-> q, cc |-> c]
        BY DEF Record
    <2>2. r = [p EXCEPT !.body[j].val = v]
        BY DEF Spoil
    <2> HIDE DEF body, q, c
    <2> QED BY <2>1, <2>2
<1>2. r.body = b /\ r.pusi = q /\ r.cc = c
    BY <1>1, Parts
<1>3. body \in Seq(Cell) /\ j \in 1 .. Len(body)
    OBVIOUS
<1>4. x \in Cell /\ x.val = v
    <2>1. body[j] \in Cell
        BY <1>3, ElementOfSeq
    <2> HIDE DEF body
    <2> QED BY <2>1 DEF Cell
<1> HIDE DEF x
<1>5. /\ b \in Seq(Cell) /\ Len(b) = Len(body)
      /\ \A i \in 1 .. Len(body) : b[i] = IF i = j THEN x ELSE body[i]
    BY <1>3, <1>4, ExceptSeq
<1> HIDE DEF b
<1> QED BY <1>2, <1>4, <1>5

LEMMA PacketRecord ==
    ASSUME Clean, NEW e, Layout(e), Cut(e, at), NEW n \in 1 .. Payload, Fits(n)
    PROVE  Record(Packet(n))
<1>1. ASSUME NEW p, NEW b, NEW q, NEW c, p = [body |-> b, pusi |-> q, cc |-> c] PROVE Record(p)
    BY <1>1, Parts DEF Record
<1> QED BY <1>1, PacketIs
(* A packet whose length or pointer is damaged leaves nothing.             *)
LEMMA FeedSpoilt ==
    ASSUME Clean, NEW e, Layout(e), Cut(e, at), NEW n \in 1 .. Payload, Fits(n),
           NEW r \in Damaged(Packet(n)),
           NEW s, NEW b, NEW t, s = Ok(b, t, <<>>), Empty(s) \/ \E k \in 1 .. Sections : Holds(e, s, k, at)
    PROVE  r.cc = cc /\ Feed0(s, r) \in {Overrun, Ok(<<>>, None, <<>>)}
<1> DEFINE p == Packet(n)
           body == p.body
           to == at + n
<1>1. /\ at \in Nat /\ n \in Nat /\ to \in 1 .. e[Sections] /\ e[Sections] \in Nat /\ to \in Nat
      /\ MaxLen \in Nat /\ Payload \in Nat /\ Payload > 3 /\ Sections \in Nat
    <2>1. Sections \in 0 .. Sections
        BY Numbers
    <2> QED BY <2>1, CutAhead, Ordered, Numbers
<1>2. p.pusi
    <2>1. CASE p.pusi
        BY <2>1
    <2>2. CASE ~ p.pusi
        BY <2>2, Zenon DEF Damaged
    <2> QED BY <2>1, <2>2
<1>3. Packed(e, p, at, to) /\ p.cc = cc
    BY PacketPacked
<1>4. PICK f : StartBody(e, body, at, to, f) /\ Carried(e, Tail(body), at, to)
    BY <1>2, <1>3 DEF Packed
<1>5. /\ body \in Seq(Cell)
      /\ \A j \in 1 .. Len(body) :
             \/ body[j].sec = 0 /\ body[j].off = 0
             \/ \E i \in 1 .. n : body[j] = stream[at + i] /\ j = i + (IF p.pusi THEN 1 ELSE 0)
      /\ p.pusi => body # <<>> /\ Tail(body) = Bytes(n) /\ Room(n) = Payload - 1
                   /\ Len(body) = Payload /\ body[1].sec = 0 /\ body[1].off = 0
    BY PacketCells
<1>6. /\ body # <<>> /\ Len(body) = Payload /\ body[1].off = 0 /\ DOMAIN body = 1 .. Payload
      /\ \A j \in 1 .. Payload : body[j].off = 0 \/ \E i \in 1 .. n : body[j] = stream[at + i] /\ j = i + 1
    BY <1>2, <1>5, LenProperties
<1>7. Record(p)
    BY PacketRecord
<1> HIDE DEF p, to
<1>8. ASSUME r = [p EXCEPT !.body[1].val = Payload]
      PROVE  r.cc = cc /\ Feed0(s, r) = Ok(<<>>, None, <<>>)
    <2>1. 1 \in 1 .. Len(body) /\ Payload \in Nat
        BY <1>1, <1>6
    <2>2. /\ r.pusi = p.pusi /\ r.cc = p.cc /\ r.body \in Seq(Cell) /\ Len(r.body) = Len(body)
          /\ r.body[1].val = Payload
        <3>1. r = Spoil(p, 1, Payload)
            BY <1>8 DEF Spoil
        <3> QED BY <2>1, <3>1, <1>5, <1>7, Spoilt
    <2>3. r.body # <<>>
        BY <2>2, <1>1, <1>6, EmptySeq
    <2>4. Len(Tail(r.body)) = Payload - 1
        BY <2>2, <2>3, <1>6, HeadTailProperties
    <2>5. r.body[1].val > Len(Tail(r.body))
        BY <2>2, <2>4, <1>1
    <2>6. r.pusi
        BY <2>2, <1>2, Zenon
    <2> QED BY <2>2, <2>5, <2>6, <1>3, FeedPointer
<1>9. ASSUME NEW j \in 1 .. Payload, body[j].off = Header - 1, r = [p EXCEPT !.body[j].val = MaxLen]
      PROVE  r.cc = cc /\ Feed0(s, r) = Overrun
    <2>1. body[j].off = 2
        BY <1>9 DEF Header
    <2>2. PICK i \in 1 .. n : body[j] = stream[at + i] /\ j = i + 1
        BY <2>1, <1>6
    <2> DEFINE pos == at + i
    <2>3. pos \in 1 .. e[Sections] /\ pos \in Int /\ at < pos /\ pos <= to /\ stream[pos].off = 2
        BY <1>1, <2>1, <2>2 DEF to
    <2> HIDE DEF pos
    <2>4. PICK k \in 1 .. Sections : e[k - 1] < pos /\ pos <= e[k]
        BY <2>3, Locate
    <2>5. 2 = pos - 1 - e[k - 1] /\ e[k - 1] \in Nat /\ e[k] \in Nat
        <3>1. stream[pos].off = pos - 1 - e[k - 1]
            BY <2>3, <2>4, CellAt
        <3>2. e[k - 1] \in Nat /\ e[k] \in Nat
            BY Bounds
        <3> QED BY <3>1, <3>2, <2>3
    <2> DEFINE w == k - 1
    <2>6. pos = e[w] + 3 /\ w \in 0 .. Sections - 1 /\ e[w] \in Nat
        <3> DEFINE x == e[w]
        <3>1. x \in Nat /\ 2 = pos - 1 - x
            BY <2>5
        <3> HIDE DEF x
        <3>2. pos = x + 3
            BY <3>1, <2>3
        <3>3. w \in 0 .. Sections - 1
            BY <1>1
        <3> QED BY <3>1, <3>2, <3>3 DEF x
    <2>7. at <= e[w]
        <3>1. ASSUME ~ (at <= e[w]) PROVE FALSE
            <4>1. Within(e, k, at)
                BY <3>1, <2>3, <2>4, <2>5, <1>1 DEF Within
            <4>2. e[k - 1] + 3 <= at
                BY <4>1 DEF Cut
            <4> QED BY <4>2, <2>3, <2>6, <1>1
        <3> QED BY <3>1
    <2>8. /\ r.pusi = p.pusi /\ r.cc = p.cc /\ r.body \in Seq(Cell) /\ Len(r.body) = Len(body)
          /\ r.body[j].val = MaxLen
          /\ \A m \in 1 .. Len(body) : m # j => r.body[m] = body[m]
        <3>1. j \in 1 .. Len(body)
            BY <1>6
        <3>2. r = Spoil(p, j, MaxLen)
            BY <1>9 DEF Spoil
        <3> QED BY <3>1, <3>2, <1>1, <1>5, <1>7, Spoilt
    <2> HIDE DEF body, w
    <2>9. r.body # <<>> /\ Len(r.body) = Payload
        BY <2>8, <1>1, <1>6, EmptySeq
    <2> DEFINE rest == Tail(r.body)
    <2>10. /\ rest \in Seq(Cell) /\ Len(rest) = Payload - 1
           /\ \A m \in 1 .. Payload - 1 : rest[m] = r.body[m + 1]
        BY <2>8, <2>9, HeadTailProperties
    <2>11. /\ Len(Tail(body)) = Payload - 1 /\ \A m \in 1 .. Payload - 1 : Tail(body)[m] = body[m + 1]
        BY <1>5, <1>6, HeadTailProperties
    <2> HIDE DEF rest
    <2>12. DamagedAt(e, rest, at, to, w)
        <3>1. to - at <= Payload - 1 /\ \A m \in 1 .. to - at : Tail(body)[m] = stream[at + m]
            BY <1>4, <2>11 DEF Carried
        <3>2. j = (e[w] - at) + 4 /\ (e[w] - at) + 3 \in 1 .. Payload - 1 /\ e[w] + 3 <= to
            <4> DEFINE x == e[w]
            <4>1. /\ pos = at + i /\ pos = x + 3 /\ j = i + 1 /\ x \in Nat /\ at <= x /\ pos <= to
                  /\ at \in Nat /\ to \in Nat /\ i \in Nat /\ to - at <= Payload - 1 /\ Payload \in Nat
                BY <2>2, <2>3, <2>6, <2>7, <3>1, <1>1 DEF pos
            <4> HIDE DEF x, pos
            <4>2. j = (x - at) + 4 /\ (x - at) + 3 \in 1 .. Payload - 1 /\ x + 3 <= to
                BY <4>1
            <4> QED BY <4>2 DEF x
        <3>3. rest[(e[w] - at) + 3].val = MaxLen
            <4>1. ((e[w] - at) + 3) + 1 = j
                <5> DEFINE x == e[w]
                <5>1. x \in Nat /\ at \in Nat /\ j = (x - at) + 4
                    BY <3>2, <2>6, <1>1
                <5> HIDE DEF x
                <5>2. ((x - at) + 3) + 1 = j
                    BY <5>1
                <5> QED BY <5>2 DEF x
            <4> QED BY <4>1, <3>2, <2>8, <2>10
        <3>4. ASSUME NEW m \in 1 .. to - at, m # (e[w] - at) + 3 PROVE rest[m] = stream[at + m]
            <4>1. m \in 1 .. Payload - 1 /\ m + 1 \in 1 .. Payload /\ m + 1 # j
                <5> DEFINE x == e[w]
                <5>1. /\ x \in Nat /\ at \in Nat /\ to \in Nat /\ j = (x - at) + 4 /\ m # (x - at) + 3
                      /\ to - at <= Payload - 1 /\ Payload \in Nat
                    BY <3>1, <3>2, <3>4, <2>6, <1>1
                <5> HIDE DEF x
                <5> QED BY <5>1
            <4> QED BY <4>1, <3>1, <2>8, <2>10, <2>11, <1>6
        <3> QED BY <2>6, <2>7, <2>10, <3>1, <3>2, <3>3, <3>4 DEF DamagedAt
    <2>13. StartBody(e, r.body, at, to, f)
        <3>1. 1 # j /\ 1 \in 1 .. Len(body)
            BY <1>1, <1>6, <2>1
        <3>2. r.body[1] = body[1]
            BY <3>1, <2>8
        <3> QED BY <3>2, <2>8, <2>9, <1>4 DEF StartBody
    <2>14. r.pusi
        BY <2>8, <1>2, Zenon
    <2>15. Feed0(s, r) = Overrun
        BY <2>12, <2>13, <2>14, <1>1, FeedDamaged DEF rest
    <2> QED BY <2>15, <2>8, <1>3
<1>10. \/ r = [p EXCEPT !.body[1].val = Payload]
       \/ \E j \in 1 .. Payload : body[j].off = Header - 1 /\ r = [p EXCEPT !.body[j].val = MaxLen]
    BY <1>2, <1>6, Zenon DEF Damaged, p
<1> QED BY <1>8, <1>9, <1>10

------------------------------------------------------------------------------
(* The counter.                                                            *)
LEMMA Wrap ==
    ASSUME NEW M \in Nat, M > 0, NEW x \in 0 .. 2 * M - 1
    PROVE  x % M = IF x < M THEN x ELSE x - M
    OBVIOUS

(* The count c comes d packets after the one that follows l.               *)
After(M, l, d, c) == M \in Nat /\ M > 1 /\ l \in 0 .. M - 1 /\ c = (l + 1 + d) % M

(* One more packet lost.                                                   *)
LEMMA Behind ==
    ASSUME NEW M, NEW l, NEW d \in Nat, d + 2 < M, NEW c, After(M, l, d, c)
    PROVE  (c + 1) % M = (l + 1 + (d + 1)) % M /\ (c + 1) % M # (l + 1) % M
<1> USE DEF After
<1>1. /\ (l + 1 + d) \in 0 .. 2 * M - 1 /\ (l + 1 + (d + 1)) \in 0 .. 2 * M - 1
      /\ (l + 1) \in 0 .. 2 * M - 1
    OBVIOUS
<1>2. c = IF l + 1 + d < M THEN l + 1 + d ELSE (l + 1 + d) - M
    BY <1>1, Wrap
<1>3. (l + 1 + (d + 1)) % M =
          IF l + 1 + (d + 1) < M THEN l + 1 + (d + 1) ELSE (l + 1 + (d + 1)) - M
    BY <1>1, Wrap
<1>4. c + 1 \in 0 .. 2 * M - 1 /\ c \in 0 .. M - 1
    BY <1>2
<1>5. (c + 1) % M = IF c + 1 < M THEN c + 1 ELSE (c + 1) - M
    BY <1>4, Wrap
<1>6. (l + 1) % M = IF l + 1 < M THEN l + 1 ELSE (l + 1) - M
    BY <1>1, Wrap
<1> QED BY <1>2, <1>3, <1>4, <1>5, <1>6

LEMMA Ahead ==
    ASSUME NEW M \in Nat, M > 1, NEW l \in 0 .. M - 1
    PROVE  (l + 1) % M # l /\ (l + 1 + 0) % M = (l + 1) % M /\ (l + 1) % M \in 0 .. M - 1
    BY Wrap

(* What a call leaves and returns.                                         *)
LEMMA FedMeans ==
    ASSUME Clean, NEW e, Layout(e), NEW to \in 0 .. e[Sections], Cut(e, to), NEW a \in 0 .. Sections,
           NEW s, Fed(e, to, a, s)
    PROVE  \E hi : /\ LastEnd(e, to, hi)
                   /\ s.out \in Seq(Seq(Cell)) /\ Len(s.out) = IF a <= hi THEN hi - a ELSE 0
                   /\ \A i \in 1 .. Len(s.out) : s.out[i] = Whole(e, a + i) /\ a + i \in 1 .. hi
                   /\ a <= hi /\ e[hi] < to => Holds(e, s, hi + 1, to)
                   /\ ~ (a <= hi /\ e[hi] < to) => Empty(s)
<1>1. PICK hi : /\ LastEnd(e, to, hi)
                /\ a <= hi => s = Ok(TipBuf(e, hi, to), TipTarget(e, hi, to), Run(e, a, hi))
                /\ hi < a => s = Ok(<<>>, None, <<>>)
    BY DEF Fed
<1>2. hi \in 0 .. Sections /\ hi \in Nat /\ e[hi] \in Nat /\ e[hi] <= to /\ a \in Nat /\ to \in Int
      /\ hi \in -1 .. Sections /\ e[Sections] \in Nat /\ Sections \in Nat
    <2>1. e[Sections] \in Nat /\ Sections \in Nat /\ hi \in 0 .. Sections
        BY <1>1, Ordered, Numbers DEF LastEnd
    <2>2. to \in Int /\ a \in Nat /\ hi \in Nat
        BY <2>1
    <2> QED BY <2>1, <2>2, <1>1, LastOrdered DEF LastEnd
<1>3. CASE hi < a
    <2>1. s.buf = <<>> /\ s.target = None /\ s.out = <<>>
        BY <1>1, <1>3 DEF Ok, State
    <2>2. s.out \in Seq(Seq(Cell)) /\ Len(s.out) = 0
        BY <2>1, EmptySeq
    <2>3. ~ (a <= hi) /\ 1 .. 0 = {}
        BY <1>2, <1>3
    <2> QED BY <2>1, <2>2, <2>3, <1>1 DEF Empty
<1>4. CASE ~ (hi < a)
    <2>1. a <= hi
        BY <1>2, <1>4
    <2>2. s = Ok(TipBuf(e, hi, to), TipTarget(e, hi, to), Run(e, a, hi))
        BY <2>1, <1>1
    <2>3. s.buf = TipBuf(e, hi, to) /\ s.target = TipTarget(e, hi, to) /\ s.out = Run(e, a, hi)
        BY <2>2 DEF Ok, State
    <2>4. /\ s.out \in Seq(Seq(Cell)) /\ Len(s.out) = hi - a
          /\ \A i \in 1 .. hi - a : s.out[i] = Whole(e, a + i) /\ a + i \in 1 .. hi
        <3>1. /\ Run(e, a, hi) \in Seq(Seq(Cell))
              /\ Len(Run(e, a, hi)) = IF a <= hi THEN hi - a ELSE 0
              /\ \A i \in 1 .. hi - a : Run(e, a, hi)[i] = Whole(e, a + i)
            BY <1>2, RunIsSeq
        <3>2. \A i \in 1 .. hi - a : a + i \in 1 .. hi
            BY <1>2
        <3> QED BY <3>1, <3>2, <2>1, <2>3
    <2>5. ASSUME e[hi] < to PROVE Holds(e, s, hi + 1, to)
        <3> DEFINE k == hi + 1
        <3>1. hi # Sections
            BY <2>5, <1>2
        <3>2. k \in 1 .. Sections /\ k - 1 = hi /\ to < e[k]
            BY <3>1, <1>1, <1>2 DEF LastEnd
        <3>3. Within(e, k, to)
            BY <3>2, <2>5 DEF Within
        <3>4. e[k - 1] + 3 <= to
            BY <3>2, <3>3 DEF Cut
        <3>5. s.buf = Part(stream, e[k - 1] + 1, to) /\ s.target = Size(e, k)
            BY <2>3, <2>5, <3>2 DEF TipBuf, TipTarget
        <3> HIDE DEF k
        <3>6. Holds(e, s, k, to)
            BY <3>2, <3>3, <3>4, <3>5 DEF Holds
        <3> QED BY <3>6 DEF k
    <2>6. ASSUME ~ (e[hi] < to) PROVE Empty(s)
        BY <2>3, <2>6 DEF TipBuf, TipTarget, Empty
    <2> QED BY <2>1, <2>4, <2>5, <2>6, <1>1
<1> QED BY <1>3, <1>4

(* What is held is not nothing.                                            *)
LEMMA HeldIsNotEmpty ==
    ASSUME Clean, NEW e, Layout(e), NEW s, NEW k, NEW p, Holds(e, s, k, p)
    PROVE  ~ Empty(s)
<1>1. k \in 1 .. Sections /\ s.target = Size(e, k)
    BY DEF Holds
<1>2. Size(e, k) # None
    BY <1>1, Bounds DEF None
<1> QED BY <1>1, <1>2 DEF Empty

(* The state a call starts from.                                           *)
LEMMA AfterFresh ==
    ASSUME Clean, CountOK, NEW c \in 0 .. CCMod - 1
    PROVE  /\ lastCC = None => AfterCount(c) = Ok(<<>>, None, <<>>)
           /\ lastCC # None /\ c = (lastCC + 1) % CCMod =>
                  AfterCount(c) = InFlight /\ InFlight = Ok(inFlight, targetLen, <<>>)
           /\ lastCC # None /\ c # (lastCC + 1) % CCMod => AfterCount(c) = Ok(<<>>, None, <<>>)
<1>1. InFlight = Ok(inFlight, targetLen, <<>>)
    BY DEF InFlight, Ok, State
<1>2. lastCC = None => inFlight = <<>> /\ targetLen = None
    BY DEF CountOK, Empty, InFlight
<1>3. lastCC = None => AfterCount(c) = Ok(<<>>, None, <<>>)
    BY <1>2, Zenon DEF AfterCount, Ok
<1>4. lastCC # None /\ c = (lastCC + 1) % CCMod => AfterCount(c) = Ok(inFlight, targetLen, <<>>)
    BY Zenon DEF AfterCount, Ok
<1>5. lastCC # None /\ c # (lastCC + 1) % CCMod => AfterCount(c) = Ok(<<>>, None, <<>>)
    BY Zenon DEF AfterCount, Ok
<1> QED BY <1>1, <1>3, <1>4, <1>5
------------------------------------------------------------------------------
(* The inductive invariant.                                                *)
RepeatOK(e) ==
    packet # NoPacket =>
        /\ lastCC # None /\ packet.cc = lastCC
        /\ \E from \in Nat : Packed(e, packet, from, at)

Inv(e) ==
    /\ Layout(e) /\ SenderOK(e) /\ CountOK /\ FlightOK(e) /\ WholeOK(e)
    /\ KeptOK(e) /\ OrderOK(e) /\ RepeatOK(e)

LEMMA InvInit ==
    ASSUME Clean, Init
    PROVE  \E e : Inv(e)
<1>1. PICK e : Layout(e)
    BY InitialLayout
<1>2. /\ at = 0 /\ cc = 0 /\ losses = 0 /\ repeats = 0 /\ hit = {} /\ inFlight = <<>>
      /\ targetLen = None /\ lastCC = None /\ delivered = <<>> /\ packet = NoPacket
    BY DEF Init
<1>3. /\ e[Sections] \in Nat /\ Sections \in Nat /\ CCMod \in Nat /\ CCMod > 0 /\ Losses \in Nat
      /\ \A k \in 1 .. Sections : e[k - 1] \in Nat /\ e[k] \in Nat /\ e[k - 1] + 3 <= e[k]
    <2>1. Sections \in 0 .. Sections
        BY Numbers
    <2> QED BY <2>1, <1>1, Numbers, Ordered, Bounds
<1>4. \A k \in 1 .. Sections : ~ Within(e, k, 0) /\ ~ (e[k] <= 0)
    BY <1>3 DEF Within
<1>5. Empty(InFlight)
    BY <1>2 DEF Empty, InFlight
<1>6. SenderOK(e)
    BY <1>2, <1>3, <1>4 DEF SenderOK, Cut
<1>7. CountOK /\ FlightOK(e) /\ RepeatOK(e)
    BY <1>2, <1>5 DEF CountOK, FlightOK, RepeatOK, Fresh
<1>8. delivered \in Seq(Seq(Cell)) /\ Len(delivered) = 0 /\ DOMAIN delivered = {}
    <2>1. delivered \in Seq(Seq(Cell)) /\ Len(delivered) = 0
        BY <1>2, EmptySeq
    <2> QED BY <2>1, LenProperties
<1>9. WholeOK(e) /\ KeptOK(e) /\ OrderOK(e)
    BY <1>2, <1>4, <1>8 DEF WholeOK, KeptOK, OrderOK, InOrder
<1> QED BY <1>1, <1>6, <1>7, <1>9 DEF Inv

(* The sections a step adds, and those that were delivered before.         *)
LEMMA Joining ==
    ASSUME NEW d \in Seq(Seq(Cell)), NEW o \in Seq(Seq(Cell))
    PROVE  /\ d \o o \in Seq(Seq(Cell)) /\ Len(d \o o) = Len(d) + Len(o)
           /\ DOMAIN (d \o o) = 1 .. Len(d) + Len(o) /\ DOMAIN d = 1 .. Len(d)
           /\ \A i \in 1 .. Len(d) : (d \o o)[i] = d[i]
           /\ \A i \in 1 .. Len(d) + Len(o) : i > Len(d) =>
                  (d \o o)[i] = o[i - Len(d)] /\ i - Len(d) \in 1 .. Len(o)
           /\ o = <<>> => d \o o = d
<1>1. Len(d) \in Nat /\ Len(o) \in Nat /\ DOMAIN d = 1 .. Len(d)
    BY LenProperties
<1> DEFINE x == d \o o
<1>2. /\ x \in Seq(Seq(Cell)) /\ Len(x) = Len(d) + Len(o)
      /\ \A i \in 1 .. Len(d) + Len(o) : x[i] = IF i <= Len(d) THEN d[i] ELSE o[i - Len(d)]
    BY ConcatProperties
<1>3. o = <<>> => x = d
    BY ConcatEmptySeq
<1> HIDE DEF x
<1>4. DOMAIN x = 1 .. Len(d) + Len(o)
    BY <1>2, LenProperties
<1>5. \A i \in 1 .. Len(d) : x[i] = d[i]
    BY <1>1, <1>2
<1>6. \A i \in 1 .. Len(d) + Len(o) : i > Len(d) =>
          x[i] = o[i - Len(d)] /\ i - Len(d) \in 1 .. Len(o)
    BY <1>1, <1>2
<1> QED BY <1>1, <1>2, <1>3, <1>4, <1>5, <1>6 DEF x

(* The assembler's state at the next step.                                 *)
LEMMA NextFlight ==
    ASSUME Clean, NEW e, Layout(e), stream' = stream, NEW s, inFlight' = s.buf, targetLen' = s.target
    PROVE  /\ Empty(InFlight)' <=> Empty(s)
           /\ InFlight'.buf = s.buf /\ InFlight'.target = s.target
           /\ Layout(e)' /\ \A k : Whole(e, k)' = Whole(e, k)
<1>1. InFlight'.buf = s.buf /\ InFlight'.target = s.target
    BY DEF InFlight
<1>2. Empty(InFlight)' <=> Empty(s)
    BY <1>1 DEF Empty
<1>4. Layout(e)'
    BY DEF Layout, Size
<1>5. \A k : Whole(e, k)' = Whole(e, k)
    BY DEF Whole, Part
<1> QED BY <1>1, <1>2, <1>4, <1>5

(* A good packet.                                                          *)
LEMMA DeliverStep ==
    ASSUME Clean, NEW e, Inv(e), Deliver
    PROVE  Inv(e)'
<1> USE DEF Inv
<1>1. PICK n \in 1 .. Payload : Send(n) /\ Feed(Packet(n)) /\ packet' = Packet(n) /\ UNCHANGED channel
    BY DEF Deliver
<1> DEFINE p == Packet(n)
           to == at + n
           r == Feed0(AfterCount(cc), p)
<1>2. /\ at' = to /\ cc' = (cc + 1) % CCMod /\ stream' = stream /\ Fits(n)
      /\ losses' = losses /\ repeats' = repeats /\ hit' = hit
    BY <1>1 DEF Send, channel
<1>3. Cut(e, at) /\ cc \in 0 .. CCMod - 1
    BY DEF SenderOK
<1>4. Packed(e, p, at, to) /\ p.cc = cc
    BY <1>2, <1>3, PacketPacked
<1>5. /\ Cut(e, to) /\ at \in Nat /\ to \in Nat /\ to \in 1 .. e[Sections] /\ at < to
      /\ at \in 0 .. e[Sections] /\ to \in 0 .. e[Sections] /\ Sections \in Nat
    <2>1. /\ Cut(e, at + n) /\ at \in Nat /\ at + n \in 1 .. e[Sections] /\ n \in Nat
          /\ at \in 0 .. e[Sections]
        BY <1>2, <1>3, CutAhead
    <2>2. e[Sections] \in Nat
        <3>1. Sections \in 0 .. Sections
            BY Numbers
        <3> QED BY <3>1, Ordered
    <2> QED BY <2>1, <2>2, Numbers
<1>6. inFlight' = r.buf /\ targetLen' = r.target /\ lastCC' = cc /\ delivered' = delivered \o r.out
    BY <1>1, <1>4 DEF Feed, Feed0
<1>7. PICK lo : FirstEnd(e, at, lo)
    BY <1>5, Firsts
<1>8. lo \in 0 .. Sections /\ lo \in Nat /\ e[lo] \in Nat /\ at <= e[lo]
    BY <1>5, <1>7, FirstOrdered DEF FirstEnd
<1> HIDE DEF p, to
<1>9. \E a \in 0 .. Sections :
         /\ Fed(e, to, a, r)
         /\ \/ a = lo /\ ~ (Fresh /\ ~ Empty(InFlight))
            \/ a = lo - 1 /\ Within(e, lo, at) /\ lo \in 1 .. Sections /\ Fresh /\ ~ Empty(InFlight)
    <2> DEFINE s == AfterCount(cc)
    <2>1. /\ lastCC = None => s = Ok(<<>>, None, <<>>)
          /\ lastCC # None /\ cc = (lastCC + 1) % CCMod =>
                 s = InFlight /\ InFlight = Ok(inFlight, targetLen, <<>>)
          /\ lastCC # None /\ cc # (lastCC + 1) % CCMod => s = Ok(<<>>, None, <<>>)
        BY <1>3, AfterFresh
    <2> HIDE DEF s
    <2>2. CASE Fresh /\ ~ Empty(InFlight)
        <3>1. PICK k \in 1 .. Sections : Holds(e, InFlight, k, at)
            BY <2>2 DEF FlightOK
        <3>2. s = InFlight /\ InFlight = Ok(inFlight, targetLen, <<>>)
            BY <2>1, <2>2 DEF Fresh
        <3> HIDE DEF r
        <3>3. s = Ok(inFlight, targetLen, <<>>) /\ Holds(e, s, k, at)
            BY <3>1, <3>2
        <3>4. Fed(e, to, k - 1, Feed0(s, p))
            BY <3>3, <1>4, <1>5, FeedHeld
        <3>5. Within(e, k, at)
            BY <3>1 DEF Holds
        <3>6. k = lo
            BY <3>5, <1>5, <1>7, HeldIsFirst, OneFirst
        <3>7. k - 1 \in 0 .. Sections
            BY <1>5
        <3> QED BY <3>4, <3>5, <3>6, <3>7, <2>2 DEF r, s
    <2>3. CASE ~ (Fresh /\ ~ Empty(InFlight))
        <3>1. s = Ok(<<>>, None, <<>>)
            <4>1. CASE Fresh
                <5>1. inFlight = <<>> /\ targetLen = None
                    BY <4>1, <2>3 DEF Empty, InFlight
                <5>2. s = Ok(inFlight, targetLen, <<>>)
                    BY <4>1, <2>1 DEF Fresh
                <5> QED BY <5>1, <5>2
            <4>2. CASE ~ Fresh
                BY <4>2, <2>1 DEF Fresh
            <4> QED BY <4>1, <4>2
        <3>2. Fed(e, to, lo, Feed0(s, p))
            BY <3>1, <1>4, <1>5, <1>7, FeedEmpty
        <3> QED BY <3>2, <2>3, <1>8 DEF r, s
    <2> QED BY <2>2, <2>3
<1>10. PICK a \in 0 .. Sections :
         /\ Fed(e, to, a, r)
         /\ \/ a = lo /\ ~ (Fresh /\ ~ Empty(InFlight))
            \/ a = lo - 1 /\ Within(e, lo, at) /\ lo \in 1 .. Sections /\ Fresh /\ ~ Empty(InFlight)
    BY <1>9
<1> HIDE DEF r
<1>11. PICK hi : /\ LastEnd(e, to, hi)
                 /\ r.out \in Seq(Seq(Cell)) /\ Len(r.out) = IF a <= hi THEN hi - a ELSE 0
                 /\ \A i \in 1 .. Len(r.out) : r.out[i] = Whole(e, a + i) /\ a + i \in 1 .. hi
                 /\ a <= hi /\ e[hi] < to => Holds(e, r, hi + 1, to)
                 /\ ~ (a <= hi /\ e[hi] < to) => Empty(r)
    BY <1>5, <1>10, FedMeans
<1>12. /\ hi \in 0 .. Sections /\ hi \in Nat /\ a \in Nat /\ e[hi] \in Nat /\ e[hi] <= to
       /\ \A k \in 0 .. Sections : e[k] \in Nat /\ (k <= hi <=> e[k] <= to)
    BY <1>5, <1>11, LastOrdered DEF LastEnd
<1>13. /\ Empty(InFlight)' <=> Empty(r)
       /\ InFlight'.buf = r.buf /\ InFlight'.target = r.target
       /\ Layout(e)' /\ \A k : Whole(e, k)' = Whole(e, k)
    BY <1>2, <1>6, NextFlight
<1>14. CCMod \in Nat /\ CCMod > 1 /\ Losses \in Nat
    BY Numbers
<1>15. Fresh'
    BY <1>2, <1>3, <1>6 DEF Fresh, None
<1>16. SenderOK(e)'
    <2>1. Cut(e, at)'
        BY <1>2, <1>5 DEF Cut, Within
    <2>2. cc' \in 0 .. CCMod - 1
        BY <1>2, <1>3, <1>14, Ahead
    <2>3. \A k \in hit : e[k - 1] < to /\ k \in 1 .. Sections
        <3> TAKE k \in hit
        <3>1. k \in 1 .. Sections /\ e[k - 1] < at
            BY DEF SenderOK
        <3> QED BY <3>1, <1>5, Bounds
    <2> QED BY <2>1, <2>2, <2>3, <1>2 DEF SenderOK
<1>17. CountOK'
    <2>1. (cc + 1 + 0) % CCMod = (cc + 1) % CCMod
        BY <1>3, <1>14, Ahead
    <2>2. 0 \in 0 .. losses
        BY <1>14 DEF SenderOK
    <2>3. lastCC' # None
        BY <1>3, <1>6 DEF None
    <2> QED BY <2>1, <2>2, <2>3, <1>2, <1>3, <1>6 DEF CountOK
<1>18. FlightOK(e)'
    <2>1. CASE a <= hi /\ e[hi] < to
        <3> DEFINE k == hi + 1
        <3>1. Holds(e, r, k, to)
            BY <2>1, <1>11
        <3>2. k \in 1 .. Sections
            BY <3>1 DEF Holds
        <3> HIDE DEF k
        <3>4. Holds(e, InFlight, k, at)'
            BY <3>1, <1>2, <1>13 DEF Holds, Within, Part, Size
        <3> QED BY <3>2, <3>4 DEF FlightOK
    <2>2. CASE ~ (a <= hi /\ e[hi] < to)
        BY <2>2, <1>11, <1>13 DEF FlightOK
    <2> QED BY <2>1, <2>2
<1> DEFINE D == delivered \o r.out
           m == Len(delivered)
<1>19. /\ D \in Seq(Seq(Cell)) /\ Len(D) = m + Len(r.out) /\ m \in Nat /\ Len(r.out) \in Nat
       /\ DOMAIN D = 1 .. m + Len(r.out) /\ DOMAIN delivered = 1 .. m
       /\ \A i \in 1 .. m : D[i] = delivered[i]
       /\ \A i \in 1 .. m + Len(r.out) : i > m => D[i] = r.out[i - m] /\ i - m \in 1 .. Len(r.out)
       /\ D = delivered'
    <2>1. delivered \in Seq(Seq(Cell))
        BY DEF WholeOK
    <2>2. m \in Nat /\ Len(r.out) \in Nat
        BY <2>1, <1>11, LenProperties
    <2> QED BY <2>1, <2>2, <1>6, <1>11, Joining
<1> HIDE DEF D, m
<1>20. \A i \in 1 .. m + Len(r.out) : i > m =>
           /\ D[i] = Whole(e, a + (i - m)) /\ a + (i - m) \in 1 .. Sections
           /\ a + (i - m) <= hi /\ D[i][1].sec = a + (i - m)
    <2> TAKE i \in 1 .. m + Len(r.out)
    <2> HAVE i > m
    <2> DEFINE j == i - m
               k == a + j
    <2>1. j \in 1 .. Len(r.out) /\ D[i] = r.out[j]
        BY <1>19
    <2> HIDE DEF j
    <2>2. r.out[j] = Whole(e, k) /\ k \in 1 .. hi
        BY <2>1, <1>11
    <2>3. k \in 1 .. Sections /\ k <= hi
        <3> HIDE DEF k
        <3> QED BY <2>2, <1>5, <1>12
    <2> HIDE DEF k
    <2>4. Whole(e, k)[1].sec = k
        BY <2>3, WholeSection
    <2> QED BY <2>1, <2>2, <2>3, <2>4 DEF j, k
<1>21. WholeOK(e)'
    <2>1. ASSUME NEW i \in 1 .. Len(D) PROVE \E k \in 1 .. Sections : D[i] = Whole(e, k)
        <3>1. CASE i > m
            BY <3>1, <1>19, <1>20
        <3>2. CASE ~ (i > m)
            <4>1. i \in 1 .. m
                BY <3>2, <1>19
            <4> QED BY <4>1, <1>19 DEF WholeOK, m
        <3> QED BY <3>1, <3>2
    <2> QED BY <2>1, <1>13, <1>19 DEF WholeOK
<1>22. /\ \A k \in 1 .. Sections : k > a => e[k] > at
       /\ repeats = 0 => \A k \in 1 .. Sections : /\ k > a => k \notin hit
                                                  /\ e[k] > at /\ k \notin hit => k > a
    <2>1. ASSUME NEW k \in 1 .. Sections, k > lo PROVE e[k] > at /\ k \notin hit
        <3>1. lo <= k - 1 /\ k - 1 \in 0 .. Sections /\ e[k - 1] \in Nat /\ e[k - 1] + 3 <= e[k]
              /\ e[k] \in Nat
            BY <2>1, <1>8, Bounds
        <3>2. at <= e[k - 1]
            BY <3>1, <1>5, <1>7, FirstOrdered
        <3>3. k \in hit => e[k - 1] < at
            BY DEF SenderOK
        <3> QED BY <3>1, <3>2, <3>3, <1>5
    <2>2. ASSUME NEW k \in 1 .. Sections, e[k] > at PROVE k >= lo
        <3>1. k \in 0 .. Sections /\ e[k] \in Nat
            BY Bounds
        <3>2. lo <= k
            BY <3>1, <2>2, <1>5, <1>7, FirstOrdered
        <3> QED BY <3>1, <3>2, <1>8
    <2>3. CASE a = lo /\ ~ (Fresh /\ ~ Empty(InFlight))
        <3>1. ASSUME repeats = 0, NEW k \in 1 .. Sections, e[k] > at, k \notin hit PROVE k > a
            <4>1. ASSUME k = lo PROVE FALSE
                <5>1. e[lo - 1] < at
                    BY <4>1, <1>7 DEF FirstEnd
                <5>2. Within(e, k, at)
                    BY <4>1, <5>1, <3>1, <1>8, <1>5 DEF Within
                <5> QED BY <5>2, <3>1, <2>3 DEF KeptOK
            <4>2. k >= lo
                BY <3>1, <2>2
            <4> QED BY <4>1, <4>2, <2>3, <1>8
        <3> QED BY <3>1, <2>1, <2>3
    <2>4. CASE a = lo - 1 /\ Within(e, lo, at) /\ lo \in 1 .. Sections /\ Fresh /\ ~ Empty(InFlight)
        <3>1. e[lo] > at
            BY <2>4, <1>5, <1>8 DEF Within
        <3>2. repeats = 0 => lo \notin hit
            BY <2>4 DEF KeptOK
        <3>3. \A k \in 1 .. Sections : k > a => k = lo \/ k > lo
            BY <2>4, <1>8
        <3>4. \A k \in 1 .. Sections : k >= lo => k > a
            BY <2>4, <1>8
        <3> QED BY <3>1, <3>2, <3>3, <3>4, <2>1, <2>2
    <2> QED BY <2>3, <2>4, <1>10
<1>23. KeptOK(e)'
    <2> SUFFICES ASSUME repeats = 0, NEW k \in 1 .. Sections, Within(e, k, to)
                 PROVE  k \in hit <=> Empty(r)
        BY <1>2, <1>13, <1>15 DEF KeptOK, Within
    <2>1. e[k] \in Nat /\ e[k - 1] \in Nat /\ k \in 0 .. Sections /\ k - 1 \in 0 .. Sections
          /\ e[k - 1] < to /\ to < e[k]
        BY Bounds DEF Within
    <2>2. k = hi + 1
        <3>1. ~ (k <= hi)
            BY <2>1, <1>5, <1>12
        <3> DEFINE j == k - 1
        <3>2. j \in 0 .. Sections /\ e[j] <= to
            BY <2>1, <1>5
        <3> HIDE DEF j
        <3>3. j <= hi
            BY <3>2, <1>12
        <3> QED BY <3>1, <3>3, <1>12 DEF j
    <2>3. k - 1 = hi
        BY <2>2, <1>12
    <2>4. CASE a <= hi
        <3>1. k > a
            BY <2>2, <2>4, <1>12
        <3>2. k \notin hit
            BY <3>1, <1>22
        <3>3. Holds(e, r, hi + 1, to)
            BY <2>1, <2>3, <2>4, <1>11
        <3>4. ~ Empty(r)
            BY <3>3, HeldIsNotEmpty
        <3> QED BY <3>2, <3>4
    <2>5. CASE ~ (a <= hi)
        <3>1. ~ (k > a) /\ e[k] > at
            BY <2>1, <2>2, <2>5, <1>5, <1>12
        <3>2. k \in hit
            BY <3>1, <1>22
        <3>3. Empty(r)
            BY <2>5, <1>11
        <3> QED BY <3>2, <3>3
    <2> QED BY <2>4, <2>5
<1>24. OrderOK(e)'
    <2> SUFFICES ASSUME repeats = 0 PROVE InOrder(e, D, to, hit)
        BY <1>2, <1>19 DEF OrderOK
    <2>1. /\ {delivered[i][1].sec : i \in 1 .. m} = {k \in 1 .. Sections : e[k] <= at} \ hit
          /\ \A i, j \in 1 .. m : i < j => delivered[i][1].sec < delivered[j][1].sec
        BY <1>19 DEF OrderOK, InOrder
    <2>2. \A i \in 1 .. m : /\ D[i][1].sec \in 1 .. Sections /\ e[D[i][1].sec] <= at
                            /\ D[i][1].sec \notin hit
        BY <2>1, <1>19
    <2>3. \A k \in 1 .. Sections : e[k] \in Nat /\ k \in 0 .. Sections
        BY Bounds
    <2>4. ASSUME NEW i \in DOMAIN D
          PROVE  D[i][1].sec \in 1 .. Sections /\ e[D[i][1].sec] <= to /\ D[i][1].sec \notin hit
        <3>1. i \in 1 .. m + Len(r.out)
            BY <1>19
        <3>2. CASE i > m
            <4> DEFINE k == a + (i - m)
            <4>1. k \in 1 .. Sections /\ k <= hi /\ D[i][1].sec = k /\ k > a
                BY <3>1, <3>2, <1>12, <1>19, <1>20
            <4> HIDE DEF k
            <4>2. e[k] <= to /\ k \notin hit
                BY <4>1, <2>3, <1>12, <1>22
            <4> QED BY <4>1, <4>2
        <3>3. CASE ~ (i > m)
            <4>1. i \in 1 .. m
                BY <3>1, <3>3, <1>19
            <4>2. /\ D[i][1].sec \in 1 .. Sections /\ e[D[i][1].sec] <= at /\ D[i][1].sec \notin hit
                BY <4>1, <2>2
            <4> DEFINE k == D[i][1].sec
            <4>3. k \in 1 .. Sections /\ e[k] <= at
                BY <4>2
            <4> HIDE DEF k
            <4>4. e[k] <= to
                BY <4>3, <2>3, <1>5
            <4> QED BY <4>2, <4>4 DEF k
        <3> QED BY <3>2, <3>3
    <2>5. ASSUME NEW k \in 1 .. Sections, e[k] <= to, k \notin hit
          PROVE  \E i \in DOMAIN D : D[i][1].sec = k
        <3>1. CASE e[k] <= at
            <4>1. PICK i \in 1 .. m : delivered[i][1].sec = k
                BY <2>1, <2>5, <3>1
            <4>2. i \in DOMAIN D /\ D[i] = delivered[i]
                BY <1>19
            <4> QED BY <4>1, <4>2
        <3>2. CASE ~ (e[k] <= at)
            <4>1. k > a /\ k <= hi
                <5>1. e[k] > at
                    BY <3>2, <2>3, <1>5
                <5> QED BY <5>1, <2>3, <2>5, <1>12, <1>22
            <4> DEFINE i == m + (k - a)
            <4>2. i \in 1 .. m + Len(r.out) /\ i > m /\ a + (i - m) = k
                BY <4>1, <1>11, <1>12, <1>19
            <4> HIDE DEF i
            <4>3. D[i][1].sec = k
                BY <4>2, <1>20
            <4> QED BY <4>2, <4>3, <1>19
        <3> QED BY <3>1, <3>2
    <2>6. ASSUME NEW i \in DOMAIN D, NEW j \in DOMAIN D, i < j
          PROVE  D[i][1].sec < D[j][1].sec
        <3>1. i \in 1 .. m + Len(r.out) /\ j \in 1 .. m + Len(r.out)
            BY <1>19
        <3>2. CASE ~ (j > m)
            <4>1. i \in 1 .. m /\ j \in 1 .. m
                BY <2>6, <3>1, <3>2, <1>19
            <4> QED BY <4>1, <2>1, <2>6, <1>19
        <3>3. CASE i > m
            <4>1. j > m
                BY <2>6, <3>1, <3>3, <1>19
            <4>2. D[i][1].sec = a + (i - m) /\ D[j][1].sec = a + (j - m)
                BY <3>1, <3>3, <4>1, <1>20
            <4> QED BY <4>2, <2>6, <3>1, <1>12, <1>19
        <3>4. CASE j > m /\ ~ (i > m)
            <4> DEFINE k == a + (j - m)
                       l == D[i][1].sec
            <4>1. k \in 1 .. Sections /\ k > a /\ D[j][1].sec = k
                <5>1. k \in 1 .. Sections /\ D[j][1].sec = k
                    BY <3>1, <3>4, <1>20
                <5>2. j - m >= 1 /\ j - m \in Int
                    BY <3>1, <3>4, <1>19
                <5> QED BY <5>1, <5>2, <1>12
            <4>2. i \in 1 .. m
                BY <3>1, <3>4, <1>19
            <4>3. l \in 1 .. Sections /\ e[l] <= at
                BY <4>2, <2>2
            <4> HIDE DEF k, l
            <4>4. e[k] > at /\ e[k] \in Nat /\ e[l] \in Nat /\ k \in 0 .. Sections /\ l \in 0 .. Sections
                BY <4>1, <4>3, <2>3, <1>22
            <4>5. k <= l <=> e[k] <= e[l]
                BY <4>4, Ordered
            <4>6. l < k
                BY <4>3, <4>4, <4>5, <1>5
            <4> QED BY <4>1, <4>6 DEF l
        <3> QED BY <3>2, <3>3, <3>4
    <2> QED BY <2>4, <2>5, <2>6 DEF InOrder
<1>25. RepeatOK(e)'
    <2>1. PICK from \in Nat : Packed(e, p, from, to)
        BY <1>4, <1>5
    <2>2. packet' = p
        BY <1>1 DEF p
    <2>3. Packed(e, packet, from, at)'
        BY <2>1, <2>2, <1>2 DEF Packed, Cut, Within, StartBody, Carried
    <2>4. lastCC' # None /\ packet'.cc = lastCC'
        BY <2>2, <1>3, <1>4, <1>6 DEF None
    <2> QED BY <2>3, <2>4 DEF RepeatOK
<1> QED BY <1>13, <1>16, <1>17, <1>18, <1>21, <1>23, <1>24, <1>25
(* A packet lost or damaged: the sections it carried a part of are hit.    *)
Hits(n) ==
    /\ at' = at + n /\ cc' = (cc + 1) % CCMod /\ stream' = stream
    /\ losses < Losses /\ losses' = losses + 1 /\ repeats' = repeats
    /\ hit' = hit \cup SectionsIn(Packet(n))
    /\ delivered' = delivered /\ packet' = NoPacket

LEMMA HitStep ==
    ASSUME Clean, NEW e, Inv(e), NEW n \in 1 .. Payload, Fits(n), Hits(n),
           CountOK', ~ Fresh' \/ Empty(InFlight)'
    PROVE  Inv(e)'
<1> USE DEF Inv
<1> DEFINE to == at + n
           S == {k \in 1 .. Sections : e[k - 1] < to /\ at < e[k]}
<1>1. Cut(e, at) /\ cc \in 0 .. CCMod - 1
    BY DEF SenderOK
<1>2. /\ Cut(e, to) /\ at \in Nat /\ to \in Nat /\ to \in 1 .. e[Sections] /\ at < to
      /\ at' = to
    <2>1. /\ Cut(e, at + n) /\ at \in Nat /\ at + n \in 1 .. e[Sections] /\ n \in Nat
        BY <1>1, CutAhead
    <2> QED BY <2>1 DEF Hits
<1>3. hit' = hit \cup S
    BY <1>1, SectionsInPacket DEF Hits
<1> HIDE DEF to
<1>4. \A k \in 1 .. Sections : e[k] \in Nat /\ e[k - 1] \in Nat /\ e[k - 1] + 3 <= e[k]
    BY Bounds
<1>5. hit \subseteq 1 .. Sections /\ \A k \in hit : e[k - 1] < at
    BY DEF SenderOK
<1>6. Layout(e)' /\ \A k : Whole(e, k)' = Whole(e, k)
    BY DEF Hits, Layout, Size, Whole, Part
<1>7. SenderOK(e)'
    <2>1. Cut(e, at)'
        BY <1>2 DEF Cut, Within
    <2>2. cc' \in 0 .. CCMod - 1
        BY <1>1, Numbers, Ahead DEF Hits
    <2>3. hit' \subseteq 1 .. Sections /\ \A k \in hit' : e[k - 1] < at'
        <3>1. ASSUME NEW k \in hit' PROVE k \in 1 .. Sections /\ e[k - 1] < to
            <4>1. k \in hit \/ k \in S
                BY <1>3
            <4>2. CASE k \in S
                BY <4>2
            <4>3. CASE k \in hit
                <5>1. k \in 1 .. Sections /\ e[k - 1] < at
                    BY <4>3, <1>5
                <5> QED BY <5>1, <1>2, <1>4
            <4> QED BY <4>1, <4>2, <4>3
        <3> QED BY <3>1, <1>2
    <2>4. losses' \in 0 .. Losses /\ repeats' \in Nat
        BY Numbers DEF SenderOK, Hits
    <2> QED BY <2>1, <2>2, <2>3, <2>4 DEF SenderOK
<1>8. FlightOK(e)'
    BY DEF FlightOK
<1>9. WholeOK(e)'
    BY <1>6 DEF WholeOK, Hits
<1>10. KeptOK(e)'
    <2>1. ASSUME NEW k \in 1 .. Sections, Within(e, k, to) PROVE k \in hit'
        <3>1. e[k - 1] < to /\ at < e[k]
            BY <2>1, <1>2, <1>4 DEF Within
        <3> QED BY <3>1, <1>3
    <2>2. \A k \in 1 .. Sections : Within(e, k, at)' => k \in hit'
        BY <2>1, <1>2 DEF Within
    <2> QED BY <2>2 DEF KeptOK
<1>11. OrderOK(e)'
    <2>1. {k \in 1 .. Sections : e[k] <= to} \ hit' = {k \in 1 .. Sections : e[k] <= at} \ hit
        <3>1. \A k \in 1 .. Sections :
                  e[k] <= to /\ k \notin hit' <=> e[k] <= at /\ k \notin hit
            <4> TAKE k \in 1 .. Sections
            <4>1. k \in hit' <=> k \in hit \/ (e[k - 1] < to /\ at < e[k])
                BY <1>3
            <4> QED BY <4>1, <1>2, <1>4
        <3> QED BY <3>1
    <2>2. repeats = 0 => InOrder(e, delivered, to, hit')
        BY <2>1 DEF OrderOK, InOrder
    <2> QED BY <2>2, <1>2 DEF OrderOK, Hits
<1>12. RepeatOK(e)'
    BY DEF RepeatOK, Hits
<1> QED BY <1>6, <1>7, <1>8, <1>9, <1>10, <1>11, <1>12

LEMMA LoseStep ==
    ASSUME Clean, NEW e, Inv(e), Lose
    PROVE  Inv(e)'
<1>1. PICK n \in 1 .. Payload : Send(n) /\ hit' = hit \cup SectionsIn(Packet(n))
    BY DEF Lose
<1>2. /\ Fits(n) /\ Hits(n) /\ lastCC' = lastCC /\ InFlight' = InFlight
      /\ losses < Losses /\ losses' = losses + 1 /\ cc' = (cc + 1) % CCMod
    BY <1>1 DEF Lose, Hits, Send, assembler, InFlight
<1>3. /\ CCMod \in Nat /\ CCMod > 1 /\ Losses \in Nat /\ Losses + 1 < CCMod
      /\ losses \in 0 .. Losses /\ cc \in 0 .. CCMod - 1
    BY Numbers DEF Inv, SenderOK
<1>4. /\ lastCC \in 0 .. CCMod - 1 \cup {None} /\ (lastCC = None => Empty(InFlight))
      /\ lastCC # None => \E d \in 0 .. losses : cc = (lastCC + 1 + d) % CCMod
    BY DEF Inv, CountOK
<1>5. ASSUME lastCC # None
      PROVE  /\ \E d \in 0 .. losses' : cc' = (lastCC + 1 + d) % CCMod
             /\ cc' # (lastCC + 1) % CCMod
    <2>1. PICK d \in 0 .. losses : cc = (lastCC + 1 + d) % CCMod
        BY <1>4, <1>5
    <2>2. d \in Nat /\ d + 2 < CCMod /\ lastCC \in 0 .. CCMod - 1 /\ d + 1 \in 0 .. losses'
        BY <1>2, <1>3, <1>4, <1>5
    <2>3. (cc + 1) % CCMod = (lastCC + 1 + (d + 1)) % CCMod /\ (cc + 1) % CCMod # (lastCC + 1) % CCMod
        <3>1. After(CCMod, lastCC, d, cc)
            BY <2>1, <2>2, <1>3 DEF After
        <3> QED BY <3>1, <2>2, Behind
    <2> QED BY <2>2, <2>3, <1>2
<1>6. CountOK'
    BY <1>2, <1>4, <1>5 DEF CountOK, Empty
<1>7. ~ Fresh'
    BY <1>2, <1>5 DEF Fresh
<1> QED BY <1>2, <1>6, <1>7, HitStep

LEMMA DamageStep ==
    ASSUME Clean, NEW e, Inv(e), Damage
    PROVE  Inv(e)'
<1>1. PICK n \in 1 .. Payload : /\ Send(n) /\ hit' = hit \cup SectionsIn(Packet(n))
                                /\ \E p \in Damaged(Packet(n)) : Feed(p)
    BY DEF Damage
<1>2. PICK p \in Damaged(Packet(n)) : Feed(p)
    BY <1>1
<1>3. /\ CCMod \in Nat /\ CCMod > 1 /\ Losses \in Nat
      /\ losses \in 0 .. Losses /\ cc \in 0 .. CCMod - 1 /\ Cut(e, at) /\ Layout(e) /\ CountOK
      /\ delivered \in Seq(Seq(Cell))
    BY Numbers DEF Inv, SenderOK, WholeOK
<1> DEFINE s == AfterCount(cc)
           r == Feed0(s, p)
<1>4. Fits(n) /\ cc' = (cc + 1) % CCMod
    BY <1>1 DEF Send
<1>5. \E b, t : s = Ok(b, t, <<>>) /\ (Empty(s) \/ \E k \in 1 .. Sections : Holds(e, s, k, at))
    <2>1. /\ lastCC = None => s = Ok(<<>>, None, <<>>)
          /\ lastCC # None /\ cc = (lastCC + 1) % CCMod =>
                 s = InFlight /\ InFlight = Ok(inFlight, targetLen, <<>>)
          /\ lastCC # None /\ cc # (lastCC + 1) % CCMod => s = Ok(<<>>, None, <<>>)
        BY <1>3, AfterFresh
    <2> HIDE DEF s
    <2>2. CASE Fresh
        BY <2>1, <2>2 DEF Inv, FlightOK, Fresh
    <2>3. CASE ~ Fresh
        <3>1. s = Ok(<<>>, None, <<>>)
            BY <2>1, <2>3 DEF Fresh
        <3>2. Empty(s)
            BY <3>1 DEF Empty, Ok, State
        <3> QED BY <3>1, <3>2
    <2> QED BY <2>2, <2>3
<1>6. p.cc = cc /\ r \in {Overrun, Ok(<<>>, None, <<>>)}
    <2> HIDE DEF s
    <2>1. PICK b, t : s = Ok(b, t, <<>>) /\ (Empty(s) \/ \E k \in 1 .. Sections : Holds(e, s, k, at))
        BY <1>5
    <2> QED BY <2>1, <1>3, <1>4, FeedSpoilt
<1>7. inFlight' = r.buf /\ targetLen' = r.target /\ lastCC' = cc /\ delivered' = delivered \o r.out
    BY <1>2, <1>6 DEF Feed, Feed0
<1> HIDE DEF r
<1>8. r.buf = <<>> /\ r.target = None /\ r.out = <<>>
    BY <1>6 DEF Overrun, Ok, State
<1>9. delivered' = delivered
    BY <1>3, <1>7, <1>8, ConcatEmptySeq
<1>10. Hits(n)
    BY <1>1, <1>9 DEF Hits, Damage, Send
<1>11. Empty(InFlight)'
    BY <1>7, <1>8 DEF Empty, InFlight
<1>12. CountOK'
    <2>1. (cc + 1 + 0) % CCMod = (cc + 1) % CCMod
        BY <1>3, Ahead
    <2>2. 0 \in 0 .. losses'
        BY <1>3, <1>10 DEF Hits
    <2>3. lastCC' # None
        BY <1>3, <1>7 DEF None
    <2> QED BY <2>1, <2>2, <2>3, <1>3, <1>4, <1>7 DEF CountOK
<1> QED BY <1>4, <1>10, <1>11, <1>12, HitStep

(* A packet again: the count of the first copy is the last one, so what is *)
(* in flight is dropped.                                                   *)
LEMMA RepeatStep ==
    ASSUME Clean, NEW e, Inv(e), Repeat
    PROVE  Inv(e)'
<1> DEFINE p == packet
           s == Ok(<<>>, None, <<>>)
           r == Feed0(s, p)
<1>1. /\ packet # NoPacket /\ Feed(packet) /\ packet' = NoPacket /\ repeats' = repeats + 1
      /\ stream' = stream /\ at' = at /\ cc' = cc /\ losses' = losses /\ hit' = hit
    BY DEF Repeat, sender
<1>2. PICK from \in Nat : Packed(e, p, from, at)
    BY <1>1 DEF Inv, RepeatOK
<1>3. lastCC # None /\ p.cc = lastCC /\ lastCC \in 0 .. CCMod - 1
    BY <1>1 DEF Inv, RepeatOK, CountOK
<1>4. /\ CCMod \in Nat /\ CCMod > 1 /\ Layout(e) /\ CountOK /\ Cut(e, at) /\ delivered \in Seq(Seq(Cell))
      /\ repeats \in Nat
    BY Numbers DEF Inv, SenderOK, WholeOK
<1>5. AfterCount(p.cc) = s
    <2>1. lastCC # (lastCC + 1) % CCMod
        BY <1>3, <1>4, Ahead
    <2> QED BY <2>1, <1>3, <1>4, AfterFresh
<1>6. inFlight' = r.buf /\ targetLen' = r.target /\ lastCC' = lastCC /\ delivered' = delivered \o r.out
    BY <1>1, <1>3, <1>5 DEF Feed, Feed0
<1>7. /\ from \in 0 .. e[Sections] /\ at \in 0 .. e[Sections] /\ at \in Nat
    <2>1. Sections \in 0 .. Sections
        BY Numbers
    <2>2. e[Sections] \in Nat
        BY <2>1, <1>4, Ordered
    <2> QED BY <2>2, <1>2, <1>4 DEF Packed, Cut
<1>8. PICK lo : FirstEnd(e, from, lo)
    BY <1>4, <1>7, Firsts
<1>9. lo \in 0 .. Sections
    BY <1>8 DEF FirstEnd
<1>10. Fed(e, at, lo, r)
    BY <1>2, <1>4, <1>7, <1>8, FeedEmpty
<1> HIDE DEF r, s, p
<1>11. PICK hi : /\ LastEnd(e, at, hi)
                 /\ r.out \in Seq(Seq(Cell)) /\ Len(r.out) = IF lo <= hi THEN hi - lo ELSE 0
                 /\ \A i \in 1 .. Len(r.out) : r.out[i] = Whole(e, lo + i) /\ lo + i \in 1 .. hi
                 /\ lo <= hi /\ e[hi] < at => Holds(e, r, hi + 1, at)
                 /\ ~ (lo <= hi /\ e[hi] < at) => Empty(r)
    BY <1>4, <1>7, <1>9, <1>10, FedMeans
<1>12. /\ Empty(InFlight)' <=> Empty(r)
       /\ InFlight'.buf = r.buf /\ InFlight'.target = r.target
       /\ Layout(e)' /\ \A k : Whole(e, k)' = Whole(e, k)
    BY <1>1, <1>4, <1>6, NextFlight
<1>13. SenderOK(e)'
    <2>1. SenderOK(e)
        BY DEF Inv
    <2> QED BY <2>1, <1>1 DEF SenderOK, Cut, Within
<1>14. CountOK'
    BY <1>1, <1>3, <1>4, <1>6 DEF CountOK
<1>15. FlightOK(e)'
    <2>1. CASE lo <= hi /\ e[hi] < at
        <3> DEFINE k == hi + 1
        <3>1. Holds(e, r, k, at)
            BY <2>1, <1>11
        <3>2. k \in 1 .. Sections
            BY <3>1 DEF Holds
        <3> HIDE DEF k
        <3>3. Holds(e, InFlight, k, at)'
            BY <3>1, <1>1, <1>12 DEF Holds, Within, Part, Size
        <3> QED BY <3>2, <3>3 DEF FlightOK
    <2>2. CASE ~ (lo <= hi /\ e[hi] < at)
        BY <2>2, <1>11, <1>12 DEF FlightOK
    <2> QED BY <2>1, <2>2
<1>16. WholeOK(e)'
    <2> DEFINE D == delivered \o r.out
               m == Len(delivered)
    <2>1. /\ D \in Seq(Seq(Cell)) /\ Len(D) = m + Len(r.out) /\ m \in Nat /\ Len(r.out) \in Nat
          /\ \A i \in 1 .. m : D[i] = delivered[i]
          /\ \A i \in 1 .. m + Len(r.out) : i > m => D[i] = r.out[i - m] /\ i - m \in 1 .. Len(r.out)
        BY <1>4, <1>11, Joining, LenProperties
    <2> HIDE DEF D
    <2>2. ASSUME NEW i \in 1 .. Len(D) PROVE \E k \in 1 .. Sections : D[i] = Whole(e, k)
        <3>1. CASE i > m
            <4> DEFINE j == i - m
                       k == lo + j
            <4>1. D[i] = r.out[j] /\ j \in 1 .. Len(r.out)
                BY <2>1, <3>1
            <4> HIDE DEF j
            <4>2. r.out[j] = Whole(e, k) /\ k \in 1 .. hi
                BY <4>1, <1>11
            <4> HIDE DEF k
            <4>3. hi \in 0 .. Sections /\ Sections \in Nat
                BY <1>11, Numbers DEF LastEnd
            <4>4. k \in 1 .. Sections
                BY <4>2, <4>3
            <4> QED BY <4>1, <4>2, <4>4
        <3>2. CASE ~ (i > m)
            <4>1. i \in 1 .. m
                BY <2>1, <3>2
            <4> QED BY <4>1, <2>1 DEF Inv, WholeOK
        <3> QED BY <3>1, <3>2
    <2>3. delivered' = D
        BY <1>6 DEF D
    <2> QED BY <2>1, <2>2, <2>3, <1>12 DEF WholeOK
<1>17. repeats' # 0
    BY <1>1, <1>4
<1>18. KeptOK(e)' /\ OrderOK(e)' /\ RepeatOK(e)'
    BY <1>1, <1>17 DEF KeptOK, OrderOK, RepeatOK
<1> QED BY <1>12, <1>13, <1>14, <1>15, <1>16, <1>18 DEF Inv

LEMMA InvStep ==
    ASSUME Clean, NEW e, Inv(e), [Next]_vars
    PROVE  Inv(e)'
<1>1. CASE Next
    BY <1>1, DeliverStep, LoseStep, DamageStep, RepeatStep DEF Next
<1>2. CASE UNCHANGED vars
    <2>1. /\ stream' = stream /\ at' = at /\ cc' = cc /\ losses' = losses /\ repeats' = repeats
          /\ hit' = hit /\ inFlight' = inFlight /\ targetLen' = targetLen /\ lastCC' = lastCC
          /\ delivered' = delivered /\ packet' = packet
        BY <1>2 DEF vars, sender, channel, assembler
    <2>2. Layout(e)' /\ SenderOK(e)' /\ CountOK'
        BY <2>1 DEF Inv, Layout, Size, SenderOK, Cut, Within, CountOK, Empty, InFlight
    <2>3. FlightOK(e)' /\ WholeOK(e)'
        BY <2>1 DEF Inv, FlightOK, WholeOK, Fresh, Empty, InFlight, Holds, Within, Part, Size, Whole
    <2>4. KeptOK(e)' /\ OrderOK(e)'
        BY <2>1 DEF Inv, KeptOK, OrderOK, InOrder, Fresh, Empty, InFlight, Within
    <2>5. RepeatOK(e)'
        <3>1. ASSUME packet' # NoPacket PROVE \E from \in Nat : Packed(e, packet, from, at)'
            <4>1. PICK from \in Nat : Packed(e, packet, from, at)
                BY <2>1, <3>1 DEF Inv, RepeatOK
            <4>2. Packed(e, packet, from, at)'
                BY <4>1, <2>1 DEF Packed, Cut, Within, StartBody, Carried
            <4> QED BY <4>2
        <3> QED BY <3>1, <2>1 DEF Inv, RepeatOK
    <2> QED BY <2>2, <2>3, <2>4, <2>5 DEF Inv
<1> QED BY <1>1, <1>2

------------------------------------------------------------------------------
(* The invariant says what was promised.                                   *)
LEMMA InvKeeps ==
    ASSUME Clean, NEW e, Inv(e)
    PROVE  LossIsLocal /\ NoMisassembly
<1> USE DEF Inv
<1>1. DOMAIN delivered = 1 .. Len(delivered)
    BY LenProperties DEF WholeOK
<1>2. Sent = {k \in 1 .. Sections : e[k] <= at}
    BY SentSections DEF SenderOK, Cut
<1>3. LossIsLocal
    BY <1>2 DEF LossIsLocal, OrderOK, InOrder
<1>4. ASSUME NEW i \in DOMAIN delivered
      PROVE  delivered[i] = SectionCells(delivered[i][1].sec)
    <2>1. PICK k \in 1 .. Sections : delivered[i] = Whole(e, k)
        BY <1>1 DEF WholeOK
    <2>2. Whole(e, k)[1].sec = k /\ SectionCells(k) = Whole(e, k)
        BY WholeSection
    <2>3. delivered[i][1].sec = k
        BY <2>1, <2>2
    <2> QED BY <2>1, <2>2, <2>3
<1> QED BY <1>3, <1>4 DEF NoMisassembly

Held == \E e : Inv(e)

(* In every state the invariant holds of some layout of the stream.        *)
LEMMA HeldFirst ==
    ASSUME Clean, Init PROVE Held
    BY InvInit DEF Held

LEMMA HeldNext ==
    ASSUME Clean, Held, [Next]_vars PROVE Held'
<1>1. PICK e : Inv(e)
    BY DEF Held
<1>2. Inv(e)'
    BY <1>1, InvStep
<1> QED BY <1>2 DEF Held

LEMMA HeldKeeps ==
    ASSUME Clean, Held PROVE LossIsLocal /\ NoMisassembly
    BY InvKeeps DEF Held

(* Whatever the channel loses, damages or repeats, feed() returns no bytes *)
(* of two sections as one, and while no packet is repeated it returns the  *)
(* sections sent, in order, but for those a lost or damaged packet carried *)
(* a part of.                                                              *)
THEOREM SectionsAreTrue ==
    ASSUME SizeAssumption, Straddle = FALSE
    PROVE  Spec => [](LossIsLocal /\ NoMisassembly)
<1>1. Clean
    BY DEF Clean
<1>2. Init => Held
    BY <1>1, HeldFirst
<1>3. Held /\ [Next]_vars => Held'
    BY <1>1, HeldNext
<1>4. Held => LossIsLocal /\ NoMisassembly
    BY <1>1, HeldKeeps
<1> QED BY <1>2, <1>3, <1>4, PTL DEF Spec
=============================================================================
