--------------------------- MODULE Timeline_proofs ---------------------------
(***************************************************************************)
(* The extended timeline is the true one, for streams of any length, any   *)
(* even modulus, any steps and delays less than half a turn of the clock,  *)
(* and any sequence of seeks.                                              *)
(*                                                                         *)
(* The proof rests on one fact of modular arithmetic: a time within half a *)
(* turn of a known one is told by its residue.  The inductive invariant    *)
(* says what each tracker knows: the true time of the unit before the next *)
(* one, a hint less than half a turn from it, or that the file begins.     *)
(***************************************************************************)
EXTENDS Timeline, WellFoundedInduction, TLAPS

(* What the modulus and the streams are assumed to be: no B-pictures and   *)
(* no wrap between the first PCR and the first PTS.                        *)
Linear ==
    /\ ModulusAssumption /\ StepAssumption
    /\ Reorder = FALSE /\ Straddle = FALSE

(* Two times closer than the threshold of the unwrapping.                  *)
Near(a, b) == AbsDiff(a, b) < Threshold

------------------------------------------------------------------------------
(* Arithmetic.                                                             *)

(* Every non-empty set of natural numbers has a least element: induction   *)
(* over the units of a stream, in the form the provers can use.            *)
LEMMA LeastElement ==
    ASSUME NEW S, S \subseteq Nat, S # {}
    PROVE  \E x \in S : \A y \in S : x <= y
<1>1. PICK x \in S : \A y \in S : <<y, x>> \notin OpToRel(<, Nat)
    BY NatLessThanWellFounded, WFMin, Zenon
<1>2. ASSUME NEW y \in S PROVE <<y, x>> \in Nat \X Nat
    OBVIOUS
<1>3. ASSUME NEW y \in S PROVE ~ (y < x)
    BY <1>1, <1>2, Zenon DEF OpToRel
<1>4. ASSUME NEW y \in S PROVE x <= y
    BY <1>3
<1> QED BY <1>4

(* Quotient and remainder of a number.                                     *)
LEMMA Division ==
    ASSUME ModulusAssumption, NEW x \in Nat
    PROVE  /\ x \div M \in Nat /\ x % M \in 0 .. M - 1
           /\ (x \div M) * M \in Nat
           /\ x = ((x \div M) * M) + (x % M)
    BY DEF ModulusAssumption

(* Different multiples of M are M or more apart. *)
LEMMA Multiples ==
    ASSUME ModulusAssumption, NEW i \in Nat, NEW j \in Nat, i < j
    PROVE  /\ i * M \in Nat /\ j * M \in Nat
           /\ i * M + M <= j * M
           /\ i + 1 < j => i * M + 2 * M <= j * M
           /\ i + 1 = j => i * M + M = j * M
<1>1. /\ M \in Nat /\ M > 0
    BY DEF ModulusAssumption
<1>2. i * M \in Nat /\ j * M \in Nat /\ (j - i) * M \in Nat
    BY <1>1
<1>3. j * M = i * M + (j - i) * M
    BY <1>1
<1>4. (j - i) * M >= M
    BY <1>1
<1>5. i + 1 < j => (j - i) * M >= 2 * M
    BY <1>1
<1>6. i + 1 = j => (j - i) * M = M
    BY <1>1
<1> QED BY <1>1, <1>2, <1>3, <1>4, <1>5, <1>6

(* Division and remainder are the only ones.                               *)
LEMMA UniqueDivision ==
    ASSUME ModulusAssumption, NEW x \in Nat, NEW q \in Nat, NEW r \in 0 .. M - 1,
           x = q * M + r
    PROVE  q = x \div M /\ r = x % M
<1>1. /\ M \in Nat /\ M > 0
    BY DEF ModulusAssumption
<1>2. q * M \in Nat
    BY <1>1
<1>3. ~ (q < x \div M)
    BY <1>1, <1>2, Division, Multiples
<1>4. ~ (x \div M < q)
    BY <1>1, <1>2, Division, Multiples
<1>5. q = x \div M
    BY <1>3, <1>4, Division
<1> QED BY <1>1, <1>2, <1>5, Division

(* A time below the modulus is its own residue, of turn 0.                 *)
LEMMA SmallResidue ==
    ASSUME ModulusAssumption, NEW x \in 0 .. M - 1
    PROVE  x % M = x /\ x \div M = 0
<1>1. x = (0 * M) + x /\ x \in Nat /\ 0 \in Nat
    BY DEF ModulusAssumption
<1> QED BY <1>1, UniqueDivision

(* The distance modulo M from f, less than a turn before p, is the true    *)
(* one.                                                                    *)
LEMMA UnwrapIsExact ==
    ASSUME ModulusAssumption, NEW p \in Nat, NEW f \in 0 .. M - 1, f <= p, p - f < M
    PROVE  f + (((p % M) + M - f) % M) = p
<1>1. M \in Nat /\ M > 1
    BY DEF ModulusAssumption
<1>2. PICK q \in Nat, r \in 0 .. M - 1 :
          q = p \div M /\ r = p % M /\ q * M \in Nat /\ p = (q * M) + r
    BY Division
<1>3. q = 0 \/ q = 1
    BY <1>1, <1>2, Multiples
<1>4. r + M - f = ((1 - q) * M) + (p - f)
    <2>1. p = (q * M) + r
        BY <1>2
    <2>2. CASE q = 0
        BY <2>1, <2>2, <1>1
    <2>3. CASE q = 1
        BY <2>1, <2>3, <1>1
    <2> QED BY <1>3, <2>2, <2>3
<1>5. r + M - f \in Nat /\ 1 - q \in Nat /\ p - f \in 0 .. M - 1
    BY <1>1, <1>2, <1>3
<1>6. (r + M - f) % M = p - f
    BY <1>4, <1>5, UniqueDivision
<1> QED BY <1>1, <1>2, <1>6

(* The threshold of the unwrapping is half a turn.                         *)
LEMMA HalfTurn ==
    ASSUME ModulusAssumption
    PROVE  M \in Nat /\ M > 1 /\ Threshold \in Nat /\ 2 * Threshold = M
    BY DEF ModulusAssumption, Threshold

------------------------------------------------------------------------------
(* The tracker.                                                            *)

(* The epoch of a time less than half a turn from the hint is the one      *)
(* nearest_epoch picks.                                                    *)
LEMMA NearestEpochIsExact ==
    ASSUME ModulusAssumption, NEW x \in Nat, NEW hint \in Nat, Near(x, hint)
    PROVE  /\ NearestEpoch(x % M, hint) = x \div M
           /\ ExtendNear(x % M, hint) = x
<1> DEFINE raw  == x % M
           base == hint \div M
           cand == {IF base = 0 THEN 0 ELSE base - 1, base, base + 1}
           dist(k) == AbsDiff(k * M + raw, hint)
           true == x \div M
<1>1. /\ M \in Nat /\ M > 1 /\ Threshold \in Nat /\ 2 * Threshold = M
    BY HalfTurn
<1>2. /\ raw \in 0 .. M - 1 /\ true \in Nat /\ true * M \in Nat
      /\ x = true * M + raw
    BY Division
<1>3. /\ base \in Nat /\ base * M \in Nat
      /\ base * M <= hint /\ hint < base * M + M
    BY <1>1, Division
<1>4. cand \subseteq Nat
    BY <1>3
<1>5. AbsDiff(x, hint) < Threshold /\ AbsDiff(x, hint) \in Nat
    BY <1>1 DEF Near, AbsDiff
<1>6. true \in cand
    <2>1. ~ (base + 1 < true)
        BY <1>1, <1>2, <1>3, <1>5, Multiples DEF AbsDiff
    <2>2. ~ (true + 1 < base)
        BY <1>1, <1>2, <1>3, <1>5, Multiples DEF AbsDiff
    <2>3. true \in Nat /\ base \in Nat
        BY <1>2, <1>3
    <2> HIDE DEF true, base
    <2> QED BY <2>1, <2>2, <2>3
<1>7. dist(true) = AbsDiff(x, hint)
    BY <1>2
<1>8. ASSUME NEW k \in cand, k # true PROVE dist(true) < dist(k) /\ dist(k) \in Nat
    <2>1. k \in Nat /\ k * M \in Nat
        BY <1>4, <1>1
    <2>2. k * M + M <= true * M \/ true * M + M <= k * M
        <3>1. true \in Nat
            BY <1>2
        <3> HIDE DEF true
        <3>2. k < true \/ true < k
            BY <2>1, <3>1, <1>8
        <3> QED BY <2>1, <3>1, <3>2, Multiples
    <2> QED BY <2>1, <2>2, <1>1, <1>2, <1>5, <1>7 DEF AbsDiff
<1>9. NearestEpoch(raw, hint) =
          CHOOSE k \in cand : \A j \in cand :
              dist(k) < dist(j) \/ (dist(k) = dist(j) /\ k <= j)
    BY DEF NearestEpoch
<1>10. \A j \in cand : dist(true) < dist(j) \/ (dist(true) = dist(j) /\ true <= j)
    BY <1>8, <1>2
<1>11. ASSUME NEW k \in cand,
              \A j \in cand : dist(k) < dist(j) \/ (dist(k) = dist(j) /\ k <= j)
       PROVE  k = true
    <2> SUFFICES ASSUME k # true PROVE FALSE
        OBVIOUS
    <2>1. dist(true) < dist(k) /\ dist(k) \in Nat
        BY <1>8
    <2>2. dist(true) \in Nat
        BY <1>7, <1>5
    <2> HIDE DEF dist
    <2> QED BY <2>1, <2>2, <1>6, <1>11
<1>12. NearestEpoch(raw, hint) = true
    <2> HIDE DEF cand, dist, true
    <2> QED BY <1>6, <1>9, <1>10, <1>11
<1> QED BY <1>2, <1>12 DEF ExtendNear

(* What a tracker knows that has seen the true time x.                     *)
Tracks(t, x) ==
    /\ t \in Trackers
    /\ t.wrapCount = x \div M /\ t.lastRaw = x % M

(* One that has seen nothing yet.                                          *)
Unobserved(t) == t \in Trackers /\ t.lastRaw = None /\ t.wrapCount = 0

(* A tracker follows its axis once it has seen a time.                     *)
LEMMA TracksExtended ==
    ASSUME ModulusAssumption, NEW x \in Nat, NEW t, Tracks(t, x)
    PROVE  Extended(t) = x /\ t.lastRaw # None
    BY Division DEF Tracks, Extended, Trackers, None

(* A tracker that has seen nothing extends to nothing.                     *)
LEMMA UnobservedExtended ==
    ASSUME NEW t, Unobserved(t)
    PROVE  Extended(t) = None
    BY DEF Unobserved, Extended

(* A seeded tracker has seen nothing yet.                                  *)
LEMMA SeededIsUnobserved ==
    ASSUME NEW h \in Nat
    PROVE  Unobserved(Seeded(h)) /\ Seeded(h).seedHint = h
    BY DEF Unobserved, Seeded, NewTracker, Trackers

(* A later time less than half a turn away is followed, over a wrap or     *)
(* not.                                                                    *)
LEMMA ObserveNext ==
    ASSUME ModulusAssumption, NEW t, NEW x \in Nat, NEW y \in Nat,
           Tracks(t, x), x <= y, y - x < Threshold
    PROVE  Tracks(ObserveTimestamp(t, y % M), y)
<1> DEFINE qx == x \div M  qy == y \div M  rx == x % M  ry == y % M
<1>1. /\ M \in Nat /\ M > 1 /\ Threshold \in Nat /\ 2 * Threshold = M
    BY HalfTurn
<1>2. /\ qx \in Nat /\ rx \in 0 .. M - 1 /\ qx * M \in Nat /\ x = (qx * M) + rx
      /\ qy \in Nat /\ ry \in 0 .. M - 1 /\ qy * M \in Nat /\ y = (qy * M) + ry
    BY Division
<1>3. t \in Trackers /\ t.wrapCount = qx /\ t.lastRaw = rx /\ rx # None
    BY <1>2 DEF Tracks, None
<1> HIDE DEF qx, qy, rx, ry
<1>4. CASE qx = qy
    <2>1. ry >= rx /\ ry - rx < Threshold
        BY <1>1, <1>2, <1>4
    <2>2. TimestampEvent(rx, ry) = "Forward"
        BY <2>1, <1>1, <1>2, <1>3 DEF TimestampEvent
    <2> QED BY <2>2, <1>2, <1>3, <1>4 DEF Tracks, ObserveTimestamp, Trackers, qy, ry
<1>5. CASE qx # qy
    <2>1. ~ (qy < qx)
        BY <1>1, <1>2, Multiples
    <2>2. ~ (qx + 1 < qy)
        BY <1>1, <1>2, Multiples
    <2>3. qy = qx + 1 /\ qy * M = qx * M + M
        BY <2>1, <2>2, <1>2, <1>5, Multiples
    <2>4. rx > ry /\ rx - ry > Threshold
        BY <2>3, <1>1, <1>2
    <2>5. TimestampEvent(rx, ry) = "Wrapped"
        BY <2>4, <1>1, <1>2, <1>3 DEF TimestampEvent
    <2> QED BY <2>3, <2>5, <1>2, <1>3 DEF Tracks, ObserveTimestamp, Trackers, qy, ry
<1> QED BY <1>4, <1>5

(* A seeded tracker takes the time nearest its hint,                       *)
LEMMA ObserveSeeded ==
    ASSUME ModulusAssumption, NEW t, NEW y \in Nat,
           Unobserved(t), t.seedHint \in Nat, Near(y, t.seedHint)
    PROVE  Tracks(ObserveTimestamp(t, y % M), y)
<1>1. NearestEpoch(y % M, t.seedHint) = y \div M
    BY NearestEpochIsExact
<1>2. TimestampEvent(t.lastRaw, y % M) = "First"
    BY DEF TimestampEvent, Unobserved
<1>3. t.seedHint # None
    BY DEF None
<1> QED
    BY <1>1, <1>2, <1>3, Division DEF Tracks, ObserveTimestamp, Trackers, None

(* and one that is not, a time of the first turn.                          *)
LEMMA ObserveFirst ==
    ASSUME ModulusAssumption, NEW t, NEW y \in Nat,
           Unobserved(t), t.seedHint = None, y < M
    PROVE  Tracks(ObserveTimestamp(t, y % M), y)
<1>1. y \in 0 .. M - 1
    BY DEF ModulusAssumption
<1>2. y \div M = 0 /\ y % M = y
    BY <1>1, SmallResidue
<1>3. TimestampEvent(t.lastRaw, y % M) = "First"
    BY DEF TimestampEvent, Unobserved
<1> QED
    BY <1>1, <1>2, <1>3 DEF Tracks, ObserveTimestamp, Trackers, None, Unobserved

------------------------------------------------------------------------------
(* The stream.                                                             *)

(* An access unit of the stream, in true times.                            *)
UnitType == [pts : Nat, dts : Nat, pcr : Nat]

(* The unit carries a decode time of its own.                              *)
Coded(u) == u.dts # u.pts

(* The times of a unit and of the next.                                    *)
Follows(u, v) ==
    /\ u.pts <= v.pts /\ v.pts - u.pts < Threshold
    /\ u.dts <= v.dts /\ v.dts - u.dts < Threshold
    /\ Coded(u) => Coded(v)

(* The stream: its times run forward and never jump by half a turn.        *)
StreamOK ==
    /\ stream \in Seq(UnitType) /\ Len(stream) > 0
    /\ stream[1].pcr < M /\ stream[1].pts < M
    /\ \A i \in 1 .. Len(stream) :
           /\ stream[i].pts - stream[i].dts \in Delays
           /\ stream[i].dts - stream[i].pcr = PcrLead
           /\ stream[1].pcr <= stream[i].pcr /\ stream[i].pcr <= stream[Len(stream)].pcr
    /\ \A i \in 1 .. Len(stream) - 1 : Follows(stream[i], stream[i + 1])

(* The three times of a unit are less than half a turn apart.              *)
LEMMA UnitTimes ==
    ASSUME Linear, StreamOK, NEW i \in 1 .. Len(stream)
    PROVE  /\ stream[i] \in UnitType
           /\ stream[i].pts \in Nat /\ stream[i].dts \in Nat /\ stream[i].pcr \in Nat
           /\ stream[i].dts <= stream[i].pts
           /\ Near(stream[i].dts, stream[i].pts)
           /\ Near(stream[i].pts, stream[i].pts)
           /\ Near(stream[i].pts, stream[i].pcr)
<1>1. stream[i] \in UnitType
    BY DEF StreamOK
<1>2. stream[i].pts \in Nat /\ stream[i].dts \in Nat /\ stream[i].pcr \in Nat
    BY <1>1 DEF UnitType
<1>3. PICK d \in Delays : d = stream[i].pts - stream[i].dts
    BY DEF StreamOK
<1>4. d \in Nat /\ PcrLead \in Nat /\ d + PcrLead < Threshold
    BY DEF Linear, StepAssumption, Threshold
<1>5. stream[i].dts - stream[i].pcr = PcrLead
    BY DEF StreamOK
<1>6. Threshold \in Nat /\ Threshold > 0
    BY <1>4, HalfTurn DEF Linear
<1>7. ASSUME NEW p \in Nat, NEW t \in Nat, NEW c \in Nat, p - t = d, t - c = PcrLead
      PROVE  /\ t <= p /\ Near(t, p) /\ Near(p, p) /\ Near(p, c)
    BY <1>4, <1>6, <1>7 DEF Near, AbsDiff
<1> QED BY <1>1, <1>2, <1>3, <1>5, <1>7

(* The scan of the access-point index gives every unit its true PTS.       *)
LEMMA IndexIsTrue ==
    ASSUME Linear, StreamOK
    PROVE  \A i \in 1 .. Len(stream) : IndexPts[i] = stream[i].pts
<1> DEFINE N == Len(stream)
           Scan(g) == [i \in 1 .. N |-> IF i = 1 THEN stream[1].pts % M
                                        ELSE ExtendNear(stream[i].pts % M, g[i - 1])]
           true == [i \in 1 .. N |-> stream[i].pts]
<1>1. IndexPts = CHOOSE g : g = Scan(g)
    BY DEF IndexPts
<1>2. N \in Nat /\ N > 0 /\ M \in Nat /\ M > 1
    BY DEF StreamOK, Linear, ModulusAssumption
<1>3. stream[1].pts % M = stream[1].pts
    <2>1. stream[1].pts \in 0 .. M - 1
        BY <1>2, UnitTimes DEF StreamOK
    <2> QED BY <2>1, SmallResidue DEF Linear
<1>4. ASSUME NEW i \in 2 .. N
      PROVE  ExtendNear(stream[i].pts % M, stream[i - 1].pts) = stream[i].pts
    <2>1. i - 1 \in 1 .. N - 1 /\ i - 1 \in 1 .. N /\ (i - 1) + 1 = i /\ i \in 1 .. N
        BY <1>2
    <2>2. Follows(stream[i - 1], stream[i])
        BY <2>1 DEF StreamOK
    <2>3. stream[i].pts \in Nat /\ stream[i - 1].pts \in Nat
        BY <2>1, UnitTimes
    <2>4. Near(stream[i].pts, stream[i - 1].pts)
        BY <2>2, <2>3, HalfTurn DEF Follows, Near, AbsDiff, Linear
    <2> QED BY <2>3, <2>4, NearestEpochIsExact DEF Linear
<1>5. true = Scan(true)
    <2>1. ASSUME NEW i \in 1 .. N PROVE true[i] = Scan(true)[i]
        <3>1. CASE i = 1
            BY <3>1, <1>3
        <3>2. CASE i # 1
            <4>1. i \in 2 .. N /\ i - 1 \in 1 .. N
                BY <3>2, <1>2
            <4> QED BY <4>1, <3>2, <1>4
        <3> QED BY <3>1, <3>2
    <2> QED BY <2>1
<1>6. ASSUME NEW g, g = Scan(g), NEW j \in 1 .. N PROVE g[j] = stream[j].pts
    <2> DEFINE wrong == {i \in 1 .. N : g[i] # stream[i].pts}
    <2> SUFFICES ASSUME wrong # {} PROVE FALSE
        OBVIOUS
    <2>1. PICK i \in wrong : \A k \in wrong : i <= k
        <3>1. wrong \subseteq Nat
            OBVIOUS
        <3> HIDE DEF wrong
        <3> QED BY <3>1, LeastElement
    <2>2. g[i] = IF i = 1 THEN stream[1].pts % M
                 ELSE ExtendNear(stream[i].pts % M, g[i - 1])
        <3>1. g[i] = Scan(g)[i]
            BY <1>6
        <3> QED BY <3>1
    <2>3. i # 1
        BY <2>2, <1>3
    <2>4. i \in 2 .. N /\ i - 1 \in 1 .. N /\ i - 1 < i
        BY <2>3, <1>2
    <2>5. g[i - 1] = stream[i - 1].pts
        BY <2>1, <2>4
    <2> QED BY <2>2, <2>3, <2>4, <2>5, <1>4
<1>7. IndexPts = Scan(IndexPts)
    <2> HIDE DEF Scan, true
    <2> QED BY <1>1, <1>5
<1> QED BY <1>6, <1>7

(* Within one turn of the first PCR, the PCR axis is the true one.         *)
LEMMA PcrExtIsTrue ==
    ASSUME Linear, StreamOK, WithinOneTurn, NEW i \in 1 .. Len(stream)
    PROVE  PcrExt(stream[i].pcr % M) = stream[i].pcr
<1>1. 1 \in 1 .. Len(stream) /\ Len(stream) \in 1 .. Len(stream)
    BY DEF StreamOK
<1>2. /\ stream[1].pcr \in Nat /\ stream[i].pcr \in Nat
      /\ stream[Len(stream)].pcr \in Nat /\ M \in Nat
    BY <1>1, UnitTimes DEF Linear, ModulusAssumption
<1>3. /\ stream[1].pcr \in 0 .. M - 1 /\ stream[1].pcr <= stream[i].pcr
      /\ stream[i].pcr - stream[1].pcr < M
    BY <1>2 DEF StreamOK, WithinOneTurn
<1>4. stream[1].pcr % M = stream[1].pcr
    BY <1>3, SmallResidue DEF Linear
<1> QED BY <1>2, <1>3, <1>4, UnwrapIsExact DEF PcrExt, Linear

------------------------------------------------------------------------------
(* The inductive invariant: the tracker of the PTS knows the time of the   *)
(* unit before the next one, or how far the next one can be from its hint. *)
PtsKnown ==
    IF pos = 0
    THEN /\ Unobserved(pts)
         /\ IF pts.seedHint = None THEN next = 1
            ELSE pts.seedHint \in Nat /\ Near(stream[next].pts, pts.seedHint)
    ELSE Tracks(pts, stream[pos].pts) /\ outPts = stream[pos].pts

(* The tracker of the DTS knows nothing until a DTS is coded: then it      *)
(* takes the PTS of the same unit for its hint, whatever it was seeded     *)
(* with.                                                                   *)
DtsKnown ==
    IF pos # 0 /\ Coded(stream[pos])
    THEN Tracks(dts, stream[pos].dts) /\ outDts = stream[pos].dts
    ELSE Unobserved(dts) /\ outDts = None

(* The reader's place is in the stream.                                    *)
Place ==
    /\ pos \in 0 .. Len(stream) /\ next \in 1 .. Len(stream) + 1
    /\ IF pos = 0 THEN next <= Len(stream) /\ outPts = None ELSE next = pos + 1

(* The inductive invariant.                                                *)
TimelineInvariant == StreamOK /\ Place /\ PtsKnown /\ DtsKnown

(* The invariant holds at first.                                           *)
LEMMA InitialInvariant ==
    ASSUME Linear, Init
    PROVE  TimelineInvariant
<1>1. PICK h \in 0 .. M - 1, d \in Delays :
          stream = <<Unit(h + PcrLead, d)>> /\ h + PcrLead + d < M
    BY DEF Init, FirstUnits, Unit, Linear
<1>2. d \in Nat /\ PcrLead \in Nat /\ h \in Nat /\ h < M /\ M \in Nat
    BY DEF Linear, StepAssumption, ModulusAssumption
<1>3. StreamOK
    <2> DEFINE u == Unit(h + PcrLead, d)
    <2>1. u.pts = h + PcrLead + d /\ u.dts = h + PcrLead /\ u.pcr = h
        BY <1>2 DEF Unit
    <2>2. u \in UnitType
        BY <1>2 DEF Unit, UnitType
    <2>3. stream \in Seq(UnitType) /\ Len(stream) = 1 /\ stream[1] = u
        BY <1>1, <2>2
    <2> HIDE DEF u
    <2> QED BY <1>1, <1>2, <2>1, <2>3 DEF StreamOK
<1>4. Place
    BY <1>1 DEF Init, Place
<1>5. Unobserved(pts) /\ pts.seedHint = None /\ Unobserved(dts)
    BY DEF Init, NewTracker, Unobserved, Trackers
<1> QED BY <1>3, <1>4, <1>5 DEF Init, TimelineInvariant, PtsKnown, DtsKnown

(* A revealed unit follows the last one, and leaves the others in place.   *)
LEMMA RevealKeeps ==
    ASSUME Linear, TimelineInvariant, Reveal
    PROVE  TimelineInvariant'
<1> DEFINE n == Len(stream)  last == stream[n]
<1>1. n \in Nat /\ n > 0 /\ n \in 1 .. n /\ stream \in Seq(UnitType)
    BY DEF TimelineInvariant, StreamOK
<1>2. PICK s \in Steps, d \in Delays :
          /\ stream' = Append(stream, Unit(last.dts + s, d))
          /\ Unit(last.dts + s, d).pts >= last.pts
          /\ Coded(last) => Coded(Unit(last.dts + s, d))
    BY DEF Reveal, LaterUnits, Linear, Coded
<1> DEFINE u == Unit(last.dts + s, d)
<1>3. /\ last \in UnitType
      /\ last.pts \in Nat /\ last.dts \in Nat /\ last.pcr \in Nat
      /\ last.pts - last.dts \in Delays /\ last.dts - last.pcr = PcrLead
    BY <1>1, UnitTimes DEF TimelineInvariant, StreamOK
<1>4. s \in Nat /\ d \in Nat /\ PcrLead \in Nat
    BY DEF Linear, StepAssumption
<1>5. u.pts = last.dts + s + d /\ u.dts = last.dts + s /\ u.pcr = last.pcr + s
    BY <1>3, <1>4 DEF Unit
<1>6. u \in UnitType
    <2>1. \A a, b \in Nat : a + s \in Nat /\ a + s + d \in Nat /\ b <= b + s /\ b + s \in Nat
        BY <1>4
    <2>2. u.pts \in Nat /\ u.dts \in Nat /\ u.pcr \in Nat
        BY <2>1, <1>3, <1>5
    <2> QED BY <2>2 DEF Unit, UnitType
<1>7. Follows(last, u)
    <2>1. s + d - (last.pts - last.dts) < Threshold
        BY <1>3 DEF Linear, StepAssumption, Threshold
    <2>2. s < Threshold
        <3>1. s + d - d < Threshold
            BY DEF Linear, StepAssumption, Threshold
        <3> QED BY <3>1, <1>4
    <2> QED BY <2>1, <2>2, <1>2, <1>3, <1>4, <1>5, SMTT(30) DEF Follows, Coded
<1> HIDE DEF u
<1>8. /\ stream' \in Seq(UnitType) /\ Len(stream') = n + 1 /\ stream'[n + 1] = u
      /\ \A i \in 1 .. n : stream'[i] = stream[i]
    BY <1>1, <1>2, <1>6 DEF u
<1>9. StreamOK'
    <2>1. stream'[1] = stream[1]
        BY <1>1, <1>8
    <2>2. ASSUME NEW i \in 1 .. n + 1
          PROVE  /\ stream'[i].pts - stream'[i].dts \in Delays
                 /\ stream'[i].dts - stream'[i].pcr = PcrLead
                 /\ stream'[1].pcr <= stream'[i].pcr
                 /\ stream'[i].pcr <= stream'[n + 1].pcr
        <3>1. CASE i = n + 1
            <4>1. u.pts - u.dts = d /\ u.dts - u.pcr = PcrLead /\ u.pcr \in Nat
                <5>1. \A a, b \in Nat : (b + s + d) - (b + s) = d
                                       /\ (b - a = PcrLead => (b + s) - (a + s) = PcrLead)
                                       /\ a + s \in Nat
                    BY <1>4
                <5> QED BY <5>1, <1>3, <1>5
            <4>2. stream[1].pcr <= last.pcr /\ stream[1].pcr \in Nat
                BY <1>1, UnitTimes DEF TimelineInvariant, StreamOK
            <4>3. stream'[i] = u /\ stream'[n + 1] = u
                BY <3>1, <1>8
            <4>4. stream[1].pcr <= u.pcr /\ u.pcr <= u.pcr
                <5>1. \A a, b \in Nat : a <= b => a <= b + s /\ b + s <= b + s
                    BY <1>4
                <5> QED BY <5>1, <4>2, <1>3, <1>5
            <4> QED BY <4>1, <4>3, <4>4, <2>1
        <3>2. CASE i \in 1 .. n
            <4>1. /\ stream[i].pts - stream[i].dts \in Delays
                  /\ stream[i].dts - stream[i].pcr = PcrLead
                  /\ stream[1].pcr <= stream[i].pcr /\ stream[i].pcr <= last.pcr
                BY <3>2 DEF TimelineInvariant, StreamOK
            <4>2. stream[i].pcr \in Nat
                BY <3>2, UnitTimes DEF TimelineInvariant
            <4> QED BY <3>2, <4>1, <4>2, <2>1, <1>3, <1>4, <1>5, <1>8, SMTT(30)
        <3> QED BY <3>1, <3>2, <1>1
    <2>3. ASSUME NEW i \in 1 .. n PROVE Follows(stream'[i], stream'[i + 1])
        <3>1. CASE i = n
            BY <3>1, <1>1, <1>7, <1>8
        <3>2. CASE i \in 1 .. n - 1
            <4>1. Follows(stream[i], stream[i + 1])
                BY <3>2 DEF TimelineInvariant, StreamOK
            <4>2. stream'[i] = stream[i] /\ stream'[i + 1] = stream[i + 1]
                BY <3>2, <1>1, <1>8
            <4> QED BY <4>1, <4>2
        <3> QED BY <3>1, <3>2, <1>1
    <2>4. stream[1].pcr < M /\ stream[1].pts < M
        BY DEF TimelineInvariant, StreamOK
    <2>5. \A i \in 1 .. Len(stream') - 1 : i \in 1 .. n
        BY <1>1, <1>8
    <2> QED BY <1>1, <1>8, <2>1, <2>2, <2>3, <2>4, <2>5 DEF StreamOK
<1>10. UNCHANGED <<pos, next, pts, dts, outPts, outDts>> /\ pos # 0
    BY <1>1 DEF Reveal, TimelineInvariant, Place
<1>11. Place'
    BY <1>1, <1>8, <1>10 DEF TimelineInvariant, Place
<1>12. pos \in 1 .. n /\ stream'[pos] = stream[pos]
    BY <1>1, <1>8, <1>10 DEF TimelineInvariant, Place
<1>13. PtsKnown'
    BY <1>10, <1>12 DEF TimelineInvariant, PtsKnown
<1>14. DtsKnown'
    BY <1>10, <1>12 DEF TimelineInvariant, DtsKnown
<1> QED BY <1>9, <1>11, <1>13, <1>14 DEF TimelineInvariant

(* finish_pes extends the PTS, then the DTS.                               *)
LEMMA FinishPesKeeps ==
    ASSUME Linear, TimelineInvariant, FinishPes
    PROVE  TimelineInvariant'
<1> DEFINE u == stream[next]
           p == ObserveTimestamp(pts, u.pts % M)
           t == DtsTracker(Extended(p))
           q == ObserveTimestamp(t, u.dts % M)
<1>1. next \in 1 .. Len(stream) /\ StreamOK /\ ModulusAssumption
    BY DEF FinishPes, TimelineInvariant, Place, Linear
<1>2. /\ u.pts \in Nat /\ u.dts \in Nat /\ u.dts <= u.pts /\ Near(u.dts, u.pts)
    BY <1>1, UnitTimes
<1>3. /\ pts' = p /\ outPts' = Extended(p)
      /\ Coded(u) => dts' = q /\ outDts' = Extended(q)
      /\ ~Coded(u) => dts' = dts /\ outDts' = None
      /\ pos' = next /\ next' = next + 1 /\ stream' = stream
    BY DEF FinishPes, Coded
<1>4. pos # 0 => /\ pos \in 1 .. Len(stream) - 1 /\ next = pos + 1
                 /\ Follows(stream[pos], u)
                 /\ stream[pos].pts \in Nat /\ stream[pos].dts \in Nat
    <2> SUFFICES ASSUME pos # 0
                 PROVE  /\ pos \in 1 .. Len(stream) - 1 /\ next = pos + 1
                        /\ Follows(stream[pos], u)
                        /\ stream[pos].pts \in Nat /\ stream[pos].dts \in Nat
        OBVIOUS
    <2>1. pos \in 1 .. Len(stream) - 1 /\ next = pos + 1 /\ pos \in 1 .. Len(stream)
        BY <1>1 DEF TimelineInvariant, Place
    <2> QED BY <2>1, <1>1, UnitTimes DEF StreamOK
<1>5. Tracks(p, u.pts)
    <2>1. CASE pos # 0
        BY <2>1, <1>1, <1>2, <1>4, ObserveNext DEF TimelineInvariant, PtsKnown, Follows
    <2>2. CASE pos = 0 /\ pts.seedHint = None
        <3>1. u.pts < M
            BY <2>2, <1>1 DEF TimelineInvariant, PtsKnown, StreamOK
        <3> QED BY <2>2, <3>1, <1>1, <1>2, ObserveFirst DEF TimelineInvariant, PtsKnown
    <2>3. CASE pos = 0 /\ pts.seedHint # None
        BY <2>3, <1>1, <1>2, ObserveSeeded DEF TimelineInvariant, PtsKnown
    <2> QED BY <2>1, <2>2, <2>3
<1>6. Extended(p) = u.pts
    BY <1>1, <1>2, <1>5, TracksExtended
<1>7. Coded(u) => Tracks(q, u.dts)
    <2> SUFFICES ASSUME Coded(u) PROVE Tracks(q, u.dts)
        OBVIOUS
    <2>1. CASE pos # 0 /\ Coded(stream[pos])
        <3>1. Tracks(dts, stream[pos].dts)
            BY <2>1 DEF TimelineInvariant, DtsKnown
        <3>2. t = dts
            BY <3>1, <2>1, <1>1, <1>4, TracksExtended DEF DtsTracker, None
        <3> QED BY <3>1, <3>2, <2>1, <1>1, <1>2, <1>4, ObserveNext DEF Follows
    <2>2. CASE ~(pos # 0 /\ Coded(stream[pos]))
        <3>1. Unobserved(dts)
            BY <2>2 DEF TimelineInvariant, DtsKnown
        <3>2. t = Seeded(u.pts)
            BY <3>1, <1>6, UnobservedExtended DEF DtsTracker
        <3>3. Unobserved(t) /\ t.seedHint = u.pts
            BY <3>2, <1>2, SeededIsUnobserved
        <3> QED BY <3>3, <1>1, <1>2, ObserveSeeded
    <2> QED BY <2>1, <2>2
<1>8. Coded(u) => Extended(q) = u.dts
    BY <1>1, <1>2, <1>7, TracksExtended
<1>9. ~Coded(u) => Unobserved(dts)
    BY <1>4 DEF TimelineInvariant, DtsKnown, Follows
<1>10. next # 0
    BY <1>1
<1> HIDE DEF u, p, q
<1>11. Place'
    BY <1>1, <1>3, <1>10 DEF Place, StreamOK
<1>12. PtsKnown'
    BY <1>3, <1>5, <1>6, <1>10 DEF PtsKnown, u
<1>13. DtsKnown'
    BY <1>3, <1>7, <1>8, <1>9, <1>10 DEF DtsKnown, u
<1>14. StreamOK'
    BY <1>1, <1>3 DEF StreamOK
<1> QED BY <1>11, <1>12, <1>13, <1>14 DEF TimelineInvariant

(* A seek that hints at a time less than half a turn from the unit it      *)
(* lands on.                                                               *)
LEMMA RepositionKeeps ==
    ASSUME Linear, TimelineInvariant, NEW i \in 1 .. Len(stream), NEW hint \in Nat,
           Near(stream[i].pts, hint), Reposition(i, hint)
    PROVE  TimelineInvariant'
<1>1. Unobserved(Seeded(hint)) /\ Seeded(hint).seedHint = hint /\ hint # None
    BY SeededIsUnobserved DEF None
<1>2. StreamOK' /\ stream' = stream
    BY DEF Reposition, TimelineInvariant, StreamOK
<1>3. Place'
    BY DEF Reposition, TimelineInvariant, StreamOK, Place
<1>4. PtsKnown' /\ DtsKnown'
    BY <1>1, <1>2 DEF Reposition, PtsKnown, DtsKnown
<1> QED BY <1>2, <1>3, <1>4 DEF TimelineInvariant

(* The invariant is inductive.                                             *)
LEMMA StepKeepsInvariant ==
    ASSUME Linear, TimelineInvariant, [Next]_vars
    PROVE  TimelineInvariant'
<1>1. CASE Reveal
    BY <1>1, RevealKeeps
<1>2. CASE FinishPes
    BY <1>2, FinishPesKeeps
<1>3. CASE SeekByPcr
    <2>1. PICK i \in 1 .. Len(stream) :
              WithinOneTurn /\ Reposition(i, PcrExt(stream[i].pcr % M))
        BY <1>3 DEF SeekByPcr
    <2>2. PcrExt(stream[i].pcr % M) = stream[i].pcr
        BY <2>1, PcrExtIsTrue DEF TimelineInvariant
    <2>3. stream[i].pcr \in Nat /\ Near(stream[i].pts, stream[i].pcr)
        BY UnitTimes DEF TimelineInvariant
    <2> QED BY <2>1, <2>2, <2>3, RepositionKeeps
<1>4. CASE SeekToAccessPoint
    <2>1. PICK i \in 1 .. Len(stream) : Reposition(i, IndexPts[i])
        BY <1>4 DEF SeekToAccessPoint
    <2>2. IndexPts[i] = stream[i].pts
        BY IndexIsTrue DEF TimelineInvariant
    <2>3. stream[i].pts \in Nat /\ Near(stream[i].pts, stream[i].pts)
        BY UnitTimes DEF TimelineInvariant
    <2> QED BY <2>1, <2>2, <2>3, RepositionKeeps
<1>5. CASE UNCHANGED vars
    BY <1>5 DEF vars, TimelineInvariant, StreamOK, Place, PtsKnown, DtsKnown
<1> QED BY <1>1, <1>2, <1>3, <1>4, <1>5 DEF Next

------------------------------------------------------------------------------
(* What the invariant says of a packet.                                    *)
LEMMA InvariantGivesTimes ==
    ASSUME Linear, TimelineInvariant, pos # 0
    PROVE  /\ pos \in 1 .. Len(stream)
           /\ outPts = stream[pos].pts
           /\ outDts # None => outDts = stream[pos].dts
<1>1. pos \in 1 .. Len(stream)
    BY DEF TimelineInvariant, Place, StreamOK
<1> QED BY <1>1 DEF TimelineInvariant, PtsKnown, DtsKnown

(* The invariant gives the properties.                                     *)
LEMMA InvariantGivesProperties ==
    ASSUME Linear, TimelineInvariant
    PROVE  TypeOK /\ PtsExact /\ SameAxis /\ IndexAxis /\ PcrAxis
<1>1. PtsExact /\ SameAxis
    BY InvariantGivesTimes DEF PtsExact, SameAxis
<1>2. IndexAxis
    BY InvariantGivesTimes, IndexIsTrue DEF IndexAxis, TimelineInvariant
<1>3. PcrAxis
    BY InvariantGivesTimes, PcrExtIsTrue DEF PcrAxis, TimelineInvariant
<1>4. pts \in Trackers /\ dts \in Trackers
    BY DEF TimelineInvariant, PtsKnown, DtsKnown, Tracks, Unobserved
<1>5. outPts \in Nat \cup {None} /\ outDts \in Nat \cup {None}
    <2>1. CASE pos = 0
        BY <2>1 DEF TimelineInvariant, Place, DtsKnown
    <2>2. CASE pos # 0
        BY <2>2, InvariantGivesTimes, UnitTimes DEF TimelineInvariant
    <2> QED BY <2>1, <2>2
<1>6. TypeOK
    BY <1>4, <1>5 DEF TypeOK, TimelineInvariant, StreamOK, Place, UnitType
<1> QED BY <1>1, <1>2, <1>3, <1>6

(* Whatever seeks come before it, a packet's PTS is the presentation time  *)
(* of its unit, counted from the first PCR of the file without a wrap; its *)
(* DTS, the time the access-point index has for it and the extended PCRs   *)
(* around it are on the same axis (finish_pes, reposition, pcr_ext_90k,    *)
(* the scan of the index).                                                 *)
THEOREM TimesAreTrue ==
    ASSUME Linear
    PROVE  Spec => [](TypeOK /\ PtsExact /\ SameAxis /\ IndexAxis /\ PcrAxis)
<1>1. Init => TimelineInvariant
    BY InitialInvariant
<1>2. TimelineInvariant /\ [Next]_vars => TimelineInvariant'
    BY StepKeepsInvariant
<1>3. TimelineInvariant => TypeOK /\ PtsExact /\ SameAxis /\ IndexAxis /\ PcrAxis
    BY InvariantGivesProperties
<1> QED BY <1>1, <1>2, <1>3, PTL DEF Spec
==============================================================================
