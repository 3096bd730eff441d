--------------------------- MODULE Reframing_proofs ---------------------------
(***************************************************************************)
(* Proofs about Reframing.  First, of the walk of the program stream       *)
(* demuxer (P, ProgramStream), for files of any units, cut off anywhere,   *)
(* read by reads of any sizes; then, of the splitter of a video stream (V, *)
(* VideoUnits), for any units cut into payloads of any sizes.              *)
(*                                                                         *)
(* The walk passes over the file twice.  A file is a row of units that do  *)
(* not overlap (FileOK), and pos never passes a start code that was not    *)
(* taken for a unit (SteppedOver).  So every packet of the file that       *)
(* begins before pos is accounted for: in the first pass its stream is in  *)
(* order (Searching), from then on listed once and by its class (Listing), *)
(* and in the second pass it is with the application, in the queue or with *)
(* the splitter of its stream (Delivering).                                *)
(*                                                                         *)
(* What the application has read of the file never exceeds pos: the limit  *)
(* of the first pass is met only behind it, which is why a stream that     *)
(* shows before the limit is listed.                                       *)
(*                                                                         *)
(* The steps of the walk are lemmas about the position reached and what    *)
(* is between: nothing (Walks), a unit that is no packet (PassesOver), a   *)
(* packet (PacketSeen, PacketHandled), the end (RunsOut).                  *)
(*                                                                         *)
(* The start codes of a video stream rise and each unit has its first      *)
(* (StreamOK, by induction over the units), so that the code behind those  *)
(* searched is the next one of the stream: the splitter is before the      *)
(* first (Unbegun), behind code n and gathering its unit, whose picture it *)
(* knows as far as it has seen (Gathering), or done (Finished).  A unit is *)
(* cut when all that says anything of it was seen (SaidOf), at the place   *)
(* where it ends (KnownFor).  The payloads with a PTS are kept for their   *)
(* units in order (Kept), so that at a cut the first is due or none        *)
(* (DueNext).                                                              *)
(***************************************************************************)
EXTENDS Reframing, SequenceTheorems, FiniteSetTheorems, NaturalsInduction,
        WellFoundedInduction, TLAPS

(* Every non-empty set of natural numbers has a least element: induction   *)
(* over the units of a file, in the form the provers can use.              *)
LEMMA LeastElement ==
    ASSUME NEW S, S \subseteq Nat, S # {}
    PROVE  \E x \in S : \A y \in S : x <= y
<1>1. PICK x \in S : \A y \in S : <<y, x>> \notin OpToRel(<, Nat)
    BY NatLessThanWellFounded, WFMin, Zenon
<1>2. ASSUME NEW y \in S PROVE <<y, x>> \in Nat \X Nat
    OBVIOUS
<1>3. ASSUME NEW y \in S PROVE ~ (y < x)
    BY <1>1, <1>2, Zenon DEF OpToRel
<1>4. ASSUME NEW y \in S PROVE x <= y
    BY <1>3
<1> QED BY <1>4

(* What n steps make of what came first,                                   *)
Iterates(T, n, first, step) ==
    \E f \in [0 .. n -> T] : f[0] = first /\ \A i \in 1 .. n : f[i] = step[i][f[i - 1]]

(* which exists for any number of them.                                    *)
LEMMA Recursion ==
    ASSUME NEW T, NEW n \in Nat, NEW first \in T, NEW step \in [1 .. n -> [T -> T]]
    PROVE  Iterates(T, n, first, step)
<1> DEFINE Upto(f, k) == /\ f \in [0 .. k -> T] /\ f[0] = first
                         /\ \A i \in 1 .. k : f[i] = step[i][f[i - 1]]
           Bad == {k \in 0 .. n : ~ \E f : Upto(f, k)}
<1>1. SUFFICES ASSUME Bad # {} PROVE FALSE
    BY n \in 0 .. n DEF Iterates
<1>2. PICK k \in Bad : \A y \in Bad : k <= y
    <2>1. Bad \subseteq Nat
        OBVIOUS
    <2> HIDE DEF Bad
    <2> QED BY <1>1, <2>1, LeastElement
<1>3. CASE k = 0
    <2>1. Upto([i \in 0 .. 0 |-> first], 0)
        OBVIOUS
    <2> QED BY <2>1, <1>2, <1>3
<1>4. CASE k # 0
    <2>1. k - 1 \in 0 .. n /\ k \in 1 .. n /\ ~ (k <= k - 1)
        BY <1>2, <1>4
    <2>2. PICK f : Upto(f, k - 1)
        BY <2>1, <1>2
    <2> DEFINE h == [i \in 0 .. k |-> IF i = k THEN step[k][f[k - 1]] ELSE f[i]]
    <2>3. f[k - 1] \in T /\ step[k][f[k - 1]] \in T
        BY <2>1, <2>2
    <2>4. h \in [0 .. k -> T] /\ h[0] = first
        BY <2>1, <2>2, <2>3
    <2>5. ASSUME NEW i \in 1 .. k PROVE h[i] = step[i][h[i - 1]]
        <3>1. i - 1 \in 0 .. k /\ i - 1 # k /\ h[i - 1] = f[i - 1]
            BY <2>1
        <3>2. CASE i = k
            BY <3>1, <3>2
        <3>3. CASE i # k
            <4>1. i \in 1 .. k - 1 /\ h[i] = f[i]
                BY <3>3, <2>1
            <4> QED BY <4>1, <3>1, <2>2
        <3> QED BY <3>2, <3>3
    <2>6. Upto(h, k)
        BY <2>4, <2>5
    <2> QED BY <2>6, <1>2
<1> QED BY <1>3, <1>4

------------------------------------------------------------------------------
(* The elements of a sequence that are in a set: each one of those, none   *)
(* other, and none twice that was not.                                     *)
Once(s) == \A i, j \in DOMAIN s : s[i] = s[j] => i = j

(* An element that is appended comes behind the others;                    *)
LEMMA Appended ==
    ASSUME NEW T, NEW s \in Seq(T), NEW e
    PROVE  /\ DOMAIN s = 1 .. Len(s) /\ Len(s) \in Nat /\ DOMAIN Append(s, e) = 1 .. Len(s) + 1
           /\ Append(s, e)[Len(s) + 1] = e /\ \A i \in 1 .. Len(s) : Append(s, e)[i] = s[i]
    OBVIOUS

(* so do those of a sequence that is joined.                               *)
LEMMA Joined ==
    ASSUME NEW T, NEW s \in Seq(T), NEW t \in Seq(T)
    PROVE  /\ s \o t \in Seq(T)
           /\ DOMAIN s = 1 .. Len(s) /\ Len(s) \in Nat /\ DOMAIN t = 1 .. Len(t) /\ Len(t) \in Nat
           /\ DOMAIN (s \o t) = 1 .. Len(s) + Len(t)
           /\ \A i \in 1 .. Len(s) : (s \o t)[i] = s[i]
           /\ \A i \in 1 .. Len(t) : (s \o t)[Len(s) + i] = t[i]
    OBVIOUS

ThoseUpto(f, s, S, n) ==
    /\ f[0] = << >>
    /\ \A i \in 1 .. n : f[i] = IF s[i] \in S THEN Append(f[i - 1], s[i]) ELSE f[i - 1]

(* Those(seq, S) of the model is built up an element of seq at a time;      *)
LEMMA ThoseFound ==
    ASSUME NEW T, NEW s \in Seq(T), NEW S
    PROVE  \E f : ThoseUpto(f, s, S, Len(s)) /\ P!Those(s, S) = f[Len(s)]
<1> DEFINE n     == Len(s)
           step  == [i \in 1 .. n |-> [q \in Seq(T) |-> IF s[i] \in S THEN Append(q, s[i]) ELSE q]]
           Is(f) == f = [i \in 0 .. n |-> IF i = 0 THEN << >>
                            ELSE IF s[i] \in S THEN Append(f[i - 1], s[i]) ELSE f[i - 1]]
           g     == CHOOSE f : Is(f)
<1>1. n \in Nat /\ \A i \in 1 .. n : s[i] \in T
    OBVIOUS
<1>2. step \in [1 .. n -> [Seq(T) -> Seq(T)]]
    BY <1>1
<1>3. PICK f \in [0 .. n -> Seq(T)] : f[0] = << >> /\ \A i \in 1 .. n : f[i] = step[i][f[i - 1]]
    <2>1. << >> \in Seq(T)
        OBVIOUS
    <2> HIDE DEF step, n, g, Is
    <2>2. Iterates(Seq(T), n, << >>, step)
        BY <2>1, <1>1, <1>2, Recursion, Zenon
    <2> QED BY <2>2, Zenon DEF Iterates
<1>4. ASSUME NEW i \in 1 .. n
      PROVE  f[i] = IF s[i] \in S THEN Append(f[i - 1], s[i]) ELSE f[i - 1]
    <2>1. f[i - 1] \in Seq(T)
        BY <1>1
    <2>2. f[i] = step[i][f[i - 1]]
        BY <1>3
    <2> QED BY <2>1, <2>2
<1>5. Is(f)
    <2>1. ASSUME NEW i \in 0 .. n
          PROVE  f[i] = IF i = 0 THEN << >>
                        ELSE IF s[i] \in S THEN Append(f[i - 1], s[i]) ELSE f[i - 1]
        <3>1. i = 0 \/ i \in 1 .. n
            OBVIOUS
        <3> QED BY <3>1, <1>3, <1>4, Zenon
    <2> QED BY <2>1, <1>3, Zenon
<1>6. Is(g)
    BY <1>5, Zenon
<1>7. P!Those(s, S) = g[n]
    BY Zenon DEF P!Those
<1> HIDE DEF g
<1>8. \A i \in 0 .. n : g[i] = IF i = 0 THEN << >>
                               ELSE IF s[i] \in S THEN Append(g[i - 1], s[i]) ELSE g[i - 1]
    BY <1>6, Zenon
<1>9. 0 \in 0 .. n /\ \A i \in 1 .. n : i \in 0 .. n /\ i # 0
    BY <1>1
<1>10. ThoseUpto(g, s, S, n)
    BY <1>8, <1>9, Zenon DEF ThoseUpto
<1> QED BY <1>7, <1>10

ThoseOf(g, s, S, n) ==
    /\ \A j \in DOMAIN g : g[j] \in S /\ \E m \in 1 .. n : g[j] = s[m]
    /\ \A m \in 1 .. n : s[m] \in S => \E j \in DOMAIN g : g[j] = s[m]
    /\ Once(s) => Once(g)

(* every step gathers the element it is at, if it is in S,                 *)
LEMMA ThoseGrow ==
    ASSUME NEW T, NEW s \in Seq(T), NEW S, NEW n \in 1 .. Len(s),
           NEW g \in Seq(T), ThoseOf(g, s, S, n - 1), NEW h,
           h = IF s[n] \in S THEN Append(g, s[n]) ELSE g
    PROVE  h \in Seq(T) /\ ThoseOf(h, s, S, n)
<1>1. s[n] \in T /\ n \in Nat /\ n - 1 \in Nat /\ 1 .. n = (1 .. n - 1) \cup {n} /\ n \notin 1 .. n - 1
    OBVIOUS
<1>2. CASE s[n] \notin S
    <2>1. h = g
        BY <1>2
    <2> QED BY <2>1, <1>1, <1>2 DEF ThoseOf
<1>3. CASE s[n] \in S
    <2> DEFINE k == Len(g)
    <2>1. h = Append(g, s[n]) /\ h \in Seq(T)
        BY <1>3, <1>1
    <2>2. /\ k \in Nat /\ DOMAIN g = 1 .. k /\ DOMAIN h = 1 .. k + 1
          /\ h[k + 1] = s[n] /\ \A i \in 1 .. k : h[i] = g[i]
        BY <2>1, Appended
    <2>3. 1 .. k + 1 = (1 .. k) \cup {k + 1}
        BY <2>2
    <2> HIDE DEF k
    <2>4. \A j \in DOMAIN h : h[j] \in S /\ \E m \in 1 .. n : h[j] = s[m]
        BY <2>2, <2>3, <1>1, <1>3 DEF ThoseOf
    <2>5. ASSUME NEW m \in 1 .. n, s[m] \in S PROVE \E j \in DOMAIN h : h[j] = s[m]
        <3>1. CASE m = n
            BY <3>1, <2>2, <2>3
        <3>2. CASE m # n
            <4>1. PICK j \in 1 .. k : g[j] = s[m]
                BY <3>2, <2>5, <2>2, <1>1 DEF ThoseOf
            <4> QED BY <4>1, <2>2, <2>3
        <3> QED BY <3>1, <3>2
    <2>6. ASSUME Once(s) PROVE Once(h)
        <3>1. ASSUME NEW i \in 1 .. k PROVE g[i] # s[n]
            <4>1. PICK m \in 1 .. n - 1 : g[i] = s[m]
                BY <2>2 DEF ThoseOf
            <4>2. m \in DOMAIN s /\ n \in DOMAIN s /\ m # n
                BY <1>1
            <4> QED BY <4>1, <4>2, <2>6 DEF Once
        <3>2. Once(g)
            BY <2>6 DEF ThoseOf
        <3>3. ASSUME NEW i \in DOMAIN h, NEW j \in DOMAIN h, h[i] = h[j] PROVE i = j
            <4>1. CASE i \in 1 .. k /\ j \in 1 .. k
                BY <4>1, <3>2, <3>3, <2>2 DEF Once
            <4>2. CASE i = k + 1 \/ j = k + 1
                BY <4>2, <3>1, <3>3, <2>2, <2>3
            <4> QED BY <4>1, <4>2, <2>2, <2>3
        <3> QED BY <3>3 DEF Once
    <2> QED BY <2>1, <2>4, <2>5, <2>6 DEF ThoseOf
<1> QED BY <1>2, <1>3

(* and the end has them all.                                               *)
LEMMA ThoseAre ==
    ASSUME NEW T, NEW s \in Seq(T), NEW S
    PROVE  P!Those(s, S) \in Seq(T) /\ ThoseOf(P!Those(s, S), s, S, Len(s))
<1>1. PICK f : ThoseUpto(f, s, S, Len(s)) /\ P!Those(s, S) = f[Len(s)]
    BY ThoseFound
<1> DEFINE Good(i) == f[i] \in Seq(T) /\ ThoseOf(f[i], s, S, i)
           Bad     == {i \in Nat : i <= Len(s) /\ ~Good(i)}
<1>2. SUFFICES ASSUME Bad # {} PROVE FALSE
    <2>1. Len(s) \in Nat
        OBVIOUS
    <2> QED BY <2>1, <1>1
<1>3. PICK k \in Bad : \A y \in Bad : k <= y
    <2>1. Bad \subseteq Nat
        OBVIOUS
    <2> HIDE DEF Bad
    <2> QED BY <1>2, <2>1, LeastElement
<1>4. CASE k = 0
    <2>1. f[0] = << >>
        BY <1>1 DEF ThoseUpto
    <2>2. << >> \in Seq(T) /\ DOMAIN << >> = {} /\ 1 .. 0 = {}
        OBVIOUS
    <2>3. ThoseOf(<< >>, s, S, 0)
        BY <2>2, Zenon DEF ThoseOf, Once
    <2> QED BY <2>1, <2>2, <2>3, <1>3, <1>4
<1>5. CASE k # 0
    <2>1. k \in 1 .. Len(s) /\ k - 1 \in Nat /\ k - 1 <= Len(s) /\ ~ (k <= k - 1) /\ ~Good(k)
        BY <1>3, <1>5
    <2>2. Good(k - 1)
        BY <2>1, <1>3
    <2>3. f[k] = IF s[k] \in S THEN Append(f[k - 1], s[k]) ELSE f[k - 1]
        BY <2>1, <1>1, Zenon DEF ThoseUpto
    <2>4. Good(k)
        BY <2>1, <2>2, <2>3, ThoseGrow, Zenon
    <2> QED BY <2>1, <2>4
<1> QED BY <1>4, <1>5

------------------------------------------------------------------------------
(* A file: every unit begins behind the end of all before it.              *)
Sized(u) ==
    /\ u.kind \in DOMAIN P!Least /\ u.size \in Nat /\ u.size >= P!Least[u.kind]
    /\ u.kind = "pes" => u.stream \in DOMAIN Class
FileOK ==
    /\ DOMAIN file \subseteq Nat \ {0} /\ length \in Nat
    /\ \A u \in DOMAIN file : Sized(file[u]) /\ file[u].at \in Nat
    /\ \A u, v \in DOMAIN file : u < v => file[u].at + file[u].size <= file[v].at

(* The headers of the kinds of units.                                      *)
LEMMA KindsAre ==
    /\ P!Least["pack"] = 14 /\ P!Least["mpeg1"] = 4 /\ P!Least["system"] = 6 /\ P!Least["map"] = 6
    /\ P!Least["unbounded"] = 6 /\ P!Least["end"] = 4 /\ P!Least["stray"] = 3
    /\ P!Least["garbage"] = 0 /\ P!Least["pes"] = 9
    /\ DOMAIN P!Least = {"pack", "mpeg1", "system", "map", "unbounded", "end", "stray",
                         "garbage", "pes"}
    BY DEF P!Least

(* Where the units of a file begin: each behind the sum of those before,   *)
LEMMA OffsetsAre ==
    ASSUME NEW T, NEW units \in Seq(T), \A i \in 1 .. Len(units) : units[i].size \in Nat
    PROVE  LET g == P!Offsets(units)
           IN  /\ g[0] = 0 /\ \A i \in 1 .. Len(units) : g[i] = g[i - 1] + units[i].size
               /\ \A i \in 0 .. Len(units) : g[i] \in Nat
<1> DEFINE n     == Len(units)
           step  == [i \in 1 .. n |-> [q \in Nat |-> q + units[i].size]]
           Is(f) == f = [i \in 0 .. n |-> IF i = 0 THEN 0 ELSE f[i - 1] + units[i].size]
           g     == CHOOSE f : Is(f)
<1>1. n \in Nat /\ \A i \in 1 .. n : units[i].size \in Nat
    OBVIOUS
<1>2. step \in [1 .. n -> [Nat -> Nat]]
    BY <1>1
<1>3. PICK f \in [0 .. n -> Nat] : f[0] = 0 /\ \A i \in 1 .. n : f[i] = step[i][f[i - 1]]
    <2> HIDE DEF step, n, g, Is
    <2>2. Iterates(Nat, n, 0, step)
        <3>1. 0 \in Nat
            OBVIOUS
        <3> QED BY <3>1, <1>1, <1>2, Recursion, Zenon
    <2> QED BY <2>2, Zenon DEF Iterates
<1>4. ASSUME NEW i \in 1 .. n PROVE f[i] = f[i - 1] + units[i].size
    <2>1. f[i - 1] \in Nat
        BY <1>1
    <2>2. f[i] = step[i][f[i - 1]]
        BY <1>3
    <2> QED BY <2>1, <2>2
<1>5. Is(f)
    <2>1. ASSUME NEW i \in 0 .. n
          PROVE  f[i] = IF i = 0 THEN 0 ELSE f[i - 1] + units[i].size
        <3>1. i = 0 \/ i \in 1 .. n
            OBVIOUS
        <3> QED BY <3>1, <1>3, <1>4, Zenon
    <2> QED BY <2>1, <1>3, Zenon
<1>6. Is(g)
    BY <1>5, Zenon
<1>7. P!Offsets(units) = g
    BY Zenon DEF P!Offsets
<1> HIDE DEF g
<1>8. \A i \in 0 .. n : g[i] = IF i = 0 THEN 0 ELSE g[i - 1] + units[i].size
    BY <1>6, Zenon
<1>9. 0 \in 0 .. n /\ \A i \in 1 .. n : i \in 0 .. n /\ i # 0
    BY <1>1
<1>10. g[0] = 0 /\ \A i \in 1 .. n : g[i] = g[i - 1] + units[i].size
    BY <1>8, <1>9, Zenon
<1>11. \A i \in Nat : i <= n => g[i] \in Nat
    <2> DEFINE Bad == {i \in Nat : i <= n /\ g[i] \notin Nat}
    <2>1. SUFFICES ASSUME Bad # {} PROVE FALSE
        BY Zenon
    <2>2. Bad \subseteq Nat
        OBVIOUS
    <2>3. PICK k \in Bad : \A y \in Bad : k <= y
        <3> HIDE DEF Bad
        <3> QED BY <2>1, <2>2, LeastElement
    <2>4. k # 0
        BY <2>3, <1>10
    <2>5. k \in 1 .. n /\ k - 1 \in Nat /\ k - 1 <= n /\ ~ (k <= k - 1)
        BY <2>3, <2>4, <1>1
    <2>6. g[k - 1] \in Nat
        BY <2>5, <2>3
    <2>7. g[k] = g[k - 1] + units[k].size /\ units[k].size \in Nat
        BY <2>5, <1>10, <1>1, Zenon
    <2>8. g[k] \in Nat
        <3> HIDE DEF n, g
        <3> QED BY <2>6, <2>7
    <2>9. k \in {i \in Nat : i <= n /\ g[i] \notin Nat}
        BY <2>3, Zenon
    <2>10. g[k] \notin Nat
        BY <2>9, Zenon
    <2> QED BY <2>8, <2>10, Zenon
<1>12. \A i \in 0 .. n : i \in Nat /\ i <= n
    BY <1>1
<1>13. \A i \in 0 .. n : g[i] \in Nat
    BY <1>11, <1>12, Zenon
<1> QED BY <1>7, <1>10, <1>13, Zenon

(* so that the offsets never fall.                                         *)
LEMMA OffsetsRise ==
    ASSUME NEW n \in Nat, NEW g, NEW size, \A i \in 0 .. n : g[i] \in Nat,
           \A i \in 1 .. n : size[i] \in Nat /\ g[i] = g[i - 1] + size[i],
           NEW u \in 0 .. n
    PROVE  \A v \in Nat : u <= v /\ v <= n => g[u] <= g[v]
<1> DEFINE Bad == {v \in Nat : u <= v /\ v <= n /\ ~ (g[u] <= g[v])}
<1>1. SUFFICES ASSUME Bad # {} PROVE FALSE
    BY Zenon
<1>2. Bad \subseteq Nat
    OBVIOUS
<1>3. PICK k \in Bad : \A y \in Bad : k <= y
    <2> HIDE DEF Bad
    <2> QED BY <1>1, <1>2, LeastElement
<1>4. k # u
    BY <1>3
<1>5. k \in 1 .. n /\ k - 1 \in Nat /\ u <= k - 1 /\ k - 1 <= n /\ ~ (k <= k - 1)
    BY <1>3, <1>4
<1>6. g[u] <= g[k - 1]
    BY <1>5, <1>3
<1>7. g[k - 1] \in Nat /\ g[u] \in Nat /\ size[k] \in Nat /\ g[k] = g[k - 1] + size[k]
    BY <1>5
<1> QED BY <1>3, <1>6, <1>7

(* Every file the walk may be given is one of these.                       *)
LEMMA FilesAreOK == P!PsInit => FileOK
<1> SUFFICES ASSUME P!PsInit PROVE FileOK
    OBVIOUS
<1>1. PICK rest \in [1 .. Units -> Kinds] :
          /\ file = P!Placed(<<P!FirstPack>> \o rest)
          /\ \E lack \in Cuts : /\ lack <= P!Offsets(<<P!FirstPack>> \o rest)[Len(<<P!FirstPack>> \o rest)]
                               /\ length = P!Offsets(<<P!FirstPack>> \o rest)[Len(<<P!FirstPack>> \o rest)] - lack
    BY DEF P!PsInit
<1> DEFINE T     == Kinds \cup {P!FirstPack}
           units == <<P!FirstPack>> \o rest
           n     == Len(units)
           g     == P!Offsets(units)
<1>2. \A u \in T : Sized(u)
    <2>1. Sized(P!FirstPack)
        BY KindsAre DEF Sized, P!FirstPack
    <2>2. \A u \in Kinds : Sized(u)
        BY WalkAssumption DEF P!UnitAssumption, Sized
    <2> QED BY <2>1, <2>2
<1>3. units \in Seq(T) /\ n \in Nat
    <2>1. Units \in Nat
        BY WalkAssumption DEF P!UnitAssumption
    <2>2. rest \in Seq(T) /\ <<P!FirstPack>> \in Seq(T)
        BY <2>1
    <2> QED BY <2>2, Joined
<1>4. \A i \in 1 .. n : Sized(units[i]) /\ units[i].size \in Nat
    <2> HIDE DEF T, units
    <2>1. \A i \in 1 .. n : units[i] \in T
        BY <1>3
    <2> QED BY <2>1, <1>2 DEF Sized
<1>5. file = P!Placed(units) /\ \E lack \in Cuts : lack <= g[n] /\ length = g[n] - lack
    BY <1>1
<1> HIDE DEF T, units
<1>6. /\ g[0] = 0 /\ \A i \in 1 .. n : g[i] = g[i - 1] + units[i].size
      /\ \A i \in 0 .. n : g[i] \in Nat
    BY <1>3, <1>4, OffsetsAre
<1>7. DOMAIN units = 1 .. n
    BY <1>3
<1> HIDE DEF n
<1>8. file = [i \in 1 .. n |-> [kind |-> units[i].kind, stream |-> units[i].stream,
                                size |-> units[i].size, at |-> g[i - 1]]]
    BY <1>5, <1>7 DEF P!Placed
<1> HIDE DEF g
<1>9. length \in Nat
    <2>1. g[n] \in Nat /\ Cuts \subseteq Nat
        BY <1>3, <1>6, WalkAssumption DEF P!UnitAssumption
    <2> QED BY <2>1, <1>5
<1>10. ASSUME NEW u \in DOMAIN file
       PROVE  /\ u \in 1 .. n /\ file[u].kind = units[u].kind /\ file[u].stream = units[u].stream
              /\ file[u].size = units[u].size /\ file[u].at = g[u - 1] /\ g[u - 1] \in Nat
    <2>1. u \in 1 .. n
        BY <1>8
    <2>2. u - 1 \in 0 .. n
        BY <2>1, <1>3
    <2> QED BY <2>1, <2>2, <1>6, <1>8
<1>11. \A u \in DOMAIN file : Sized(file[u]) /\ file[u].at \in Nat
    BY <1>10, <1>4 DEF Sized
<1>12. ASSUME NEW u \in DOMAIN file, NEW v \in DOMAIN file, u < v
       PROVE  file[u].at + file[u].size <= file[v].at
    <2>1. u \in 1 .. n /\ v - 1 \in Nat /\ u <= v - 1 /\ v - 1 <= n /\ u \in 0 .. n
        BY <1>10, <1>12, <1>3
    <2> DEFINE size == [i \in 1 .. n |-> units[i].size]
    <2>2. \A i \in 1 .. n : size[i] \in Nat /\ g[i] = g[i - 1] + size[i]
        BY <1>4, <1>6
    <2> HIDE DEF size
    <2>3. g[u] <= g[v - 1]
        BY <2>1, <2>2, <1>3, <1>6, OffsetsRise
    <2> QED BY <2>1, <2>3, <1>6, <1>10
<1>13. DOMAIN file \subseteq Nat \ {0}
    BY <1>10
<1> QED BY <1>9, <1>11, <1>12, <1>13 DEF FileOK

------------------------------------------------------------------------------
(* The invariant of the walk.  No start code is left behind that was not   *)
(* taken for a unit: what is owed of the file up to pos is, in the first   *)
(* pass, known to be there and, in the second, with the application, in    *)
(* the queue or with a splitter.                                           *)
Owed == {u \in DOMAIN file : file[u].kind = "pes" /\ file[u].at + 9 <= length}

WalkTypes ==
    /\ FileOK
    /\ pos \in Nat /\ base \in Nat /\ have \in Nat /\ before \in Int /\ consumed \in Nat
    /\ have <= length /\ eof \in BOOLEAN /\ (eof => have = length)
    /\ stage \in {"open", "find", "pack", "header", "body", "next", "none"}
    /\ phase \in {"discover", "stream", "ended", "empty", "refused"}
    /\ stage \in {"pack", "header", "body"} => P!AtCode
    /\ stage = "pack" => file[P!Here].kind \in {"pack", "mpeg1"}
    /\ stage = "body" => have - pos >= 6
    /\ phase = "discover" => stage \notin {"next", "none"}
    /\ phase = "stream" => stage \notin {"open", "none"}
    /\ phase \notin {"discover", "stream"} => stage = "none"

Searching ==
    phase = "discover" =>
        /\ order \in Seq(DOMAIN Class) /\ Once(order)
        /\ \A u \in Owed : file[u].at < pos => \E j \in DOMAIN order : order[j] = file[u].stream
        /\ consumed <= pos /\ consumed <= base + before
        /\ delivered = << >> /\ pending = << >> /\ flushed = FALSE
        /\ held = [k \in DOMAIN Class |-> P!NoUnit]

Listing ==
    /\ streams \in Seq(DOMAIN Class) /\ Once(streams)
    /\ phase \notin {"stream", "ended"} => streams = << >>
    /\ P!StreamsFound

(* Of the packets in s and the unit a splitter has in w, those of stream i *)
(* are in order and the units of G.                                        *)
Those(s, i)       == {q \in DOMAIN s : s[q][1] = i}
Sound(s, i, w, G) ==
    /\ \A q, r \in Those(s, i) : q < r => s[q][2] < s[r][2]
    /\ \A q \in Those(s, i), u \in w : s[q][2] < u
    /\ {s[q][2] : q \in Those(s, i)} \cup w = G
Passed(i) == {u \in P!UnitsOf(streams[i]) : file[u].at < pos}

Delivering ==
    phase \in {"stream", "ended"} =>
        /\ delivered \in Seq(Nat \X Nat) /\ pending \in Seq(Nat \X Nat)
        /\ held \in [DOMAIN Class -> Nat] /\ flushed \in BOOLEAN
        /\ \A k \in DOMAIN Class : held[k] # P!NoUnit => k \in Reframed
        /\ \A i \in DOMAIN streams : Sound(P!Packets, i, P!Waits(i), Passed(i))
        /\ flushed => /\ stage \in {"next", "none"} /\ \A u \in Owed : file[u].at < pos
                      /\ \A k \in DOMAIN Class : held[k] = P!NoUnit
        /\ phase = "ended" => flushed

WalkInvariant == WalkTypes /\ Searching /\ Listing /\ Delivering

------------------------------------------------------------------------------
(* The unit at pos.                                                        *)
LEMMA LeastIs ==
    ASSUME NEW S, S \subseteq Nat, S # {} PROVE P!Min(S) \in S /\ \A y \in S : P!Min(S) <= y
<1>1. \E x \in S : \A y \in S : x <= y
    BY LeastElement
<1> QED BY <1>1 DEF P!Min

(* The lesser of two numbers is one of them.                               *)
LEMMA LesserIs ==
    ASSUME NEW a \in Nat, NEW b \in Nat
    PROVE  P!Min({a, b}) \in Nat /\ P!Min({a, b}) = IF a <= b THEN a ELSE b
<1>1. P!Min({a, b}) \in {a, b} /\ \A y \in {a, b} : P!Min({a, b}) <= y
    BY LeastIs
<1> QED BY <1>1

(* A unit with a start code is at least as long as the code.               *)
LEMMA MarkedAre ==
    ASSUME FileOK
    PROVE  /\ \A u \in P!Marked : /\ u \in DOMAIN file /\ u \in Nat /\ u # P!NoUnit /\ file[u].at \in Nat
                                  /\ file[u].size \in Nat /\ file[u].size >= 3
           /\ \A u, v \in P!Marked : /\ u < v => file[u].at + file[u].size <= file[v].at
                                     /\ u < v <=> file[u].at < file[v].at
<1>1. ASSUME NEW u \in P!Marked
      PROVE  /\ u \in DOMAIN file /\ u \in Nat /\ u # P!NoUnit /\ file[u].at \in Nat
             /\ file[u].size \in Nat /\ file[u].size >= 3
    <2>1. u \in DOMAIN file /\ u \in Nat \ {0} /\ file[u].at \in Nat /\ Sized(file[u])
          /\ file[u].kind # "garbage"
        BY DEF P!Marked, FileOK
    <2> QED BY <2>1, KindsAre DEF Sized, P!NoUnit
<1>2. ASSUME NEW u \in P!Marked, NEW v \in P!Marked
      PROVE  u < v => file[u].at + file[u].size <= file[v].at
    BY <1>1 DEF FileOK
<1>3. ASSUME NEW u \in P!Marked, NEW v \in P!Marked PROVE u < v <=> file[u].at < file[v].at
    <2>1. u \in Nat /\ v \in Nat
        BY <1>1
    <2>2. CASE u < v
        BY <2>2, <1>1, <1>2
    <2>3. CASE u = v
        BY <2>1, <2>3, <1>1
    <2>4. CASE v < u
        <3>1. file[v].at + file[v].size <= file[u].at
            BY <2>4, <1>2
        <3> QED BY <3>1, <2>1, <2>4, <1>1
    <2> QED BY <2>1, <2>2, <2>3, <2>4
<1> QED BY <1>1, <1>2, <1>3

(* The start code at pos is that of the unit there.                        *)
LEMMA HereIs ==
    ASSUME P!AtCode PROVE P!Here \in P!Marked /\ file[P!Here].at = pos
    BY DEF P!AtCode, P!Here

(* Behind it are the units that were behind pos, and itself.               *)
LEMMA SteppedOver ==
    ASSUME FileOK, pos \in Nat, P!AtCode, NEW p \in Nat, pos < p, p <= pos + file[P!Here].size,
           NEW v \in P!Marked
    PROVE  file[v].at < p <=> file[v].at < pos \/ v = P!Here
<1> DEFINE h == P!Here
<1>1. h \in P!Marked /\ file[h].at = pos
    BY HereIs
<1> HIDE DEF h
<1>2. /\ h \in Nat /\ v \in Nat /\ file[v].at \in Nat /\ file[h].size \in Nat
      /\ (h < v => file[h].at + file[h].size <= file[v].at) /\ (v < h <=> file[v].at < file[h].at)
    BY <1>1, MarkedAre
<1>3. p <= pos + file[h].size
    BY DEF h
<1>4. CASE v < h
    BY <1>4, <1>1, <1>2
<1>5. CASE h < v
    <2>1. pos + file[h].size <= file[v].at
        BY <1>5, <1>1, <1>2
    <2>2. p <= file[v].at
        <3> DEFINE e == file[h].size
        <3>1. e \in Nat /\ p <= pos + e /\ pos + e <= file[v].at
            BY <2>1, <1>2, <1>3
        <3> HIDE DEF e
        <3> QED BY <3>1, <1>2
    <2>3. v # h
        BY <1>2, <1>5
    <2>4. ~ (file[v].at < p) /\ ~ (file[v].at < pos)
        BY <2>2, <1>2
    <2> QED BY <2>3, <2>4 DEF h
<1> QED BY <1>1, <1>2, <1>4, <1>5 DEF h

(* A packet has a start code.                                              *)
LEMMA OwedAreMarked == \A u \in Owed : u \in P!Marked
    BY DEF Owed, P!Marked

(* The streams found are listed by class, those classify knows: four rows, *)
(* each behind the one of the class before.                                *)
InClasses(s, lo, hi) ==
    /\ s \in Seq(DOMAIN Class) /\ Once(s)
    /\ \A i \in DOMAIN s : s[i] \in DOMAIN Class /\ Class[s[i]] \in lo .. hi
    /\ \A i, j \in DOMAIN s : i < j => Class[s[i]] <= Class[s[j]]

Joins(all, s, t) == all = s \o t

LEMMA RowBehindRow ==
    ASSUME NEW lo \in Nat, NEW mid \in Nat, NEW hi \in Nat, lo <= mid, mid < hi,
           NEW s, NEW t, NEW all, Joins(all, s, t),
           NEW next, next = mid + 1, InClasses(s, lo, mid), InClasses(t, next, hi)
    PROVE  /\ InClasses(all, lo, hi)
           /\ \A i \in DOMAIN s : \E j \in DOMAIN all : all[j] = s[i]
           /\ \A i \in DOMAIN t : \E j \in DOMAIN all : all[j] = t[i]
<1> DEFINE x == Len(s)
           y == Len(s) + Len(t)
<1>1. s \in Seq(DOMAIN Class) /\ t \in Seq(DOMAIN Class)
    BY DEF InClasses
<1>2. /\ all \in Seq(DOMAIN Class)
      /\ DOMAIN s = 1 .. x /\ x \in Nat /\ DOMAIN t = 1 .. Len(t) /\ Len(t) \in Nat
      /\ DOMAIN all = 1 .. y
      /\ \A i \in 1 .. x : all[i] = s[i]
      /\ \A i \in 1 .. Len(t) : all[x + i] = t[i]
    BY <1>1, Joined DEF Joins
<1>3. y \in Nat /\ x <= y /\ \A i \in DOMAIN all : i \in Nat
    BY <1>2
<1>4. ASSUME NEW i \in x + 1 .. y PROVE all[i] = t[i - x] /\ i - x \in DOMAIN t
    <2>1. i - x \in 1 .. Len(t) /\ i = x + (i - x)
        BY <1>2
    <2>2. all[x + (i - x)] = t[i - x]
        BY <2>1, <1>2
    <2> QED BY <2>1, <2>2, <1>2
<1>5. \A i \in DOMAIN all : i \in 1 .. x \/ i \in x + 1 .. y
    BY <1>2
<1>6. /\ \A i \in DOMAIN s : i \in DOMAIN all /\ all[i] = s[i]
      /\ \A i \in DOMAIN t : x + i \in DOMAIN all /\ all[x + i] = t[i]
    BY <1>2
<1> HIDE DEF x, y
<1>7. ASSUME NEW i \in 1 .. x
      PROVE  i \in DOMAIN s /\ all[i] \in DOMAIN Class /\ all[i] = s[i] /\ Class[all[i]] \in lo .. mid
    BY <1>2 DEF InClasses
<1>8. ASSUME NEW i \in x + 1 .. y
      PROVE  all[i] \in DOMAIN Class /\ Class[all[i]] \in mid + 1 .. hi
    BY <1>4 DEF InClasses
<1>9. \A i \in DOMAIN all : all[i] \in DOMAIN Class /\ Class[all[i]] \in lo .. hi
    <2>1. \A c \in lo .. mid : c \in lo .. hi
        OBVIOUS
    <2>2. \A c \in mid + 1 .. hi : c \in lo .. hi
        OBVIOUS
    <2> QED BY <2>1, <2>2, <1>5, <1>7, <1>8, Zenon
<1>10. \A i \in 1 .. x, j \in x + 1 .. y : Class[all[i]] < Class[all[j]] /\ i < j
    BY <1>2, <1>3, <1>7, <1>8
<1>11. ASSUME NEW i \in DOMAIN all, NEW j \in DOMAIN all, i < j
       PROVE  Class[all[i]] <= Class[all[j]]
    <2>1. CASE i \in 1 .. x /\ j \in 1 .. x
        BY <2>1, <1>7, <1>11 DEF InClasses
    <2>2. CASE i \in x + 1 .. y /\ j \in x + 1 .. y
        <3>1. i - x \in DOMAIN t /\ j - x \in DOMAIN t /\ all[i] = t[i - x] /\ all[j] = t[j - x]
            BY <2>2, <1>4
        <3>2. i - x < j - x
            BY <1>11, <1>2, <1>3
        <3> QED BY <3>1, <3>2 DEF InClasses
    <2>3. CASE i \in 1 .. x /\ j \in x + 1 .. y
        <3>1. Class[all[i]] \in Nat /\ Class[all[j]] \in Nat
            BY <2>3, <1>7, <1>8
        <3> QED BY <2>3, <3>1, <1>10
    <2>4. CASE i \in x + 1 .. y /\ j \in 1 .. x
        <3>1. j < i
            BY <2>4, <1>10
        <3> QED BY <3>1, <1>11, <1>3
    <2> QED BY <2>1, <2>2, <2>3, <2>4, <1>5
<1>12. ASSUME NEW i \in DOMAIN all, NEW j \in DOMAIN all, all[i] = all[j] PROVE i = j
    <2>1. CASE i \in 1 .. x /\ j \in 1 .. x
        BY <2>1, <1>7, <1>12 DEF InClasses, Once
    <2>2. CASE i \in x + 1 .. y /\ j \in x + 1 .. y
        <3>1. i - x \in DOMAIN t /\ j - x \in DOMAIN t /\ t[i - x] = t[j - x]
            BY <2>2, <1>4, <1>12
        <3>2. i - x = j - x
            BY <3>1 DEF InClasses, Once
        <3> QED BY <3>2, <1>2, <1>3
    <2>3. ~ (i \in 1 .. x /\ j \in x + 1 .. y) /\ ~ (i \in x + 1 .. y /\ j \in 1 .. x)
        <3>1. \A m \in 1 .. x, n \in x + 1 .. y : Class[all[m]] # Class[all[n]]
            BY <1>7, <1>8
        <3> QED BY <3>1, <1>12, Zenon
    <2> QED BY <2>1, <2>2, <2>3, <1>5
<1>13. Once(all)
    BY <1>12 DEF Once
<1>14. InClasses(all, lo, hi)
    BY <1>2, <1>9, <1>11, <1>13, Zenon DEF InClasses
<1> QED BY <1>6, <1>14

LEMMA ListedAre ==
    ASSUME NEW found \in Seq(DOMAIN Class), Once(found)
    PROVE  /\ P!Listed(found) \in Seq(DOMAIN Class) /\ Once(P!Listed(found))
           /\ \A j \in DOMAIN found : found[j] \notin Unlisted =>
                  \E i \in DOMAIN P!Listed(found) : P!Listed(found)[i] = found[j]
           /\ \A i, j \in DOMAIN P!Listed(found) :
                  i < j => Class[P!Listed(found)[i]] <= Class[P!Listed(found)[j]]
<1> DEFINE row(c) == P!Those(found, P!OfClass(c))
           two    == row(1) \o row(2)
           three  == two \o row(3)
           all    == three \o row(4)
<1>1. P!Listed(found) = all
    BY DEF P!Listed
<1>2. ASSUME NEW c \in 1 .. 4
      PROVE  /\ InClasses(row(c), c, c)
             /\ \A j \in DOMAIN found : found[j] \in P!OfClass(c) =>
                    \E i \in DOMAIN row(c) : row(c)[i] = found[j]
    <2>1. row(c) \in Seq(DOMAIN Class) /\ ThoseOf(row(c), found, P!OfClass(c), Len(found))
        BY ThoseAre
    <2>2. \A i \in DOMAIN row(c) : row(c)[i] \in DOMAIN Class /\ Class[row(c)[i]] = c
        BY <2>1 DEF ThoseOf, P!OfClass
    <2>3. DOMAIN found = 1 .. Len(found)
        OBVIOUS
    <2> HIDE DEF row
    <2>4. \A i, j \in DOMAIN row(c) : Class[row(c)[i]] <= Class[row(c)[j]]
        <3>1. c <= c
            OBVIOUS
        <3> QED BY <2>2, <3>1, Zenon
    <2>5. c \in c .. c /\ Once(row(c))
        BY <2>1 DEF ThoseOf
    <2>6. InClasses(row(c), c, c)
        BY <2>1, <2>2, <2>4, <2>5, Zenon DEF InClasses
    <2>7. \A j \in DOMAIN found : found[j] \in P!OfClass(c) =>
              \E i \in DOMAIN row(c) : row(c)[i] = found[j]
        BY <2>1, <2>3, Zenon DEF ThoseOf
    <2> QED BY <2>6, <2>7
<1>3. ASSUME NEW j \in DOMAIN found, found[j] \notin Unlisted
      PROVE  \E c \in 1 .. 4 : found[j] \in P!OfClass(c)
    <2>1. Class[found[j]] \in 1 .. 4 /\ found[j] \in DOMAIN Class
        BY WalkAssumption DEF P!UnitAssumption
    <2> QED BY <2>1, <1>3 DEF P!OfClass
<1>4. /\ InClasses(row(1), 1, 1) /\ InClasses(row(2), 2, 2)
      /\ InClasses(row(3), 3, 3) /\ InClasses(row(4), 4, 4)
    BY <1>2
<1> HIDE DEF row
<1>5. /\ InClasses(two, 1, 2)
      /\ \A i \in DOMAIN row(1) : \E k \in DOMAIN two : two[k] = row(1)[i]
      /\ \A i \in DOMAIN row(2) : \E k \in DOMAIN two : two[k] = row(2)[i]
    <2>1. InClasses(row(1), 1, 1) /\ InClasses(row(2), 2, 2)
        BY <1>4
    <2>2. /\ 1 \in Nat /\ 1 \in Nat /\ 2 \in Nat
          /\ 1 <= 1 /\ 1 < 2 /\ 2 = 1 + 1
        OBVIOUS
    <2>3. Joins(two, row(1), row(2))
        BY DEF Joins
    <2> HIDE DEF two
    <2> QED BY <2>1, <2>2, <2>3, RowBehindRow
<1> HIDE DEF two
<1>6. /\ InClasses(three, 1, 3)
      /\ \A i \in DOMAIN two : \E k \in DOMAIN three : three[k] = two[i]
      /\ \A i \in DOMAIN row(3) : \E k \in DOMAIN three : three[k] = row(3)[i]
    <2>1. InClasses(two, 1, 2) /\ InClasses(row(3), 3, 3)
        BY <1>4, <1>5
    <2>2. /\ 1 \in Nat /\ 2 \in Nat /\ 3 \in Nat
          /\ 1 <= 2 /\ 2 < 3 /\ 3 = 2 + 1
        OBVIOUS
    <2>3. Joins(three, two, row(3))
        BY DEF Joins
    <2> HIDE DEF three
    <2> QED BY <2>1, <2>2, <2>3, RowBehindRow
<1> HIDE DEF three
<1>7. /\ InClasses(all, 1, 4)
      /\ \A i \in DOMAIN three : \E k \in DOMAIN all : all[k] = three[i]
      /\ \A i \in DOMAIN row(4) : \E k \in DOMAIN all : all[k] = row(4)[i]
    <2>1. InClasses(three, 1, 3) /\ InClasses(row(4), 4, 4)
        BY <1>4, <1>6
    <2>2. /\ 1 \in Nat /\ 3 \in Nat /\ 4 \in Nat
          /\ 1 <= 3 /\ 3 < 4 /\ 4 = 3 + 1
        OBVIOUS
    <2>3. Joins(all, three, row(4))
        BY DEF Joins
    <2> HIDE DEF all
    <2> QED BY <2>1, <2>2, <2>3, RowBehindRow
<1> HIDE DEF all
<1>8. ASSUME NEW j \in DOMAIN found, found[j] \notin Unlisted
      PROVE  \E k \in DOMAIN all : all[k] = found[j]
    <2>1. PICK c \in 1 .. 4 : found[j] \in P!OfClass(c)
        BY <1>3, <1>8
    <2>2. PICK i \in DOMAIN row(c) : row(c)[i] = found[j]
        BY <2>1, <1>2
    <2>3. c = 1 \/ c = 2 \/ c = 3 \/ c = 4
        OBVIOUS
    <2>4. CASE c = 4
        BY <2>2, <2>4, <1>7
    <2>5. CASE c = 3
        BY <2>2, <2>5, <1>6, <1>7
    <2>6. CASE c = 2
        BY <2>2, <2>6, <1>5, <1>6, <1>7
    <2>7. CASE c = 1
        BY <2>2, <2>7, <1>5, <1>6, <1>7
    <2> QED BY <2>3, <2>4, <2>5, <2>6, <2>7
<1> QED BY <1>1, <1>7, <1>8, Zenon DEF InClasses

------------------------------------------------------------------------------
(* What comes out: a packet of another stream, a unit taken by a splitter, *)
(* one let go, all let go.                                                 *)
Pairs == Nat \X Nat

(* A packet of another stream changes nothing for stream i.                *)
LEMMA SoundOther ==
    ASSUME NEW s \in Seq(Pairs), NEW e \in Pairs, NEW i, e[1] # i, NEW w, NEW G, Sound(s, i, w, G)
    PROVE  Sound(Append(s, e), i, w, G)
<1> DEFINE t == Append(s, e)
           n == Len(s)
<1>1. /\ n \in Nat /\ DOMAIN s = 1 .. n /\ DOMAIN t = 1 .. n + 1 /\ t[n + 1] = e
      /\ \A q \in 1 .. n : t[q] = s[q]
    BY Appended
<1>2. 1 .. n + 1 = (1 .. n) \cup {n + 1}
    BY <1>1
<1> HIDE DEF t, n
<1>3. Those(t, i) = Those(s, i) /\ \A q \in Those(s, i) : t[q] = s[q]
    BY <1>1, <1>2 DEF Those
<1>4. {t[q][2] : q \in Those(t, i)} = {s[q][2] : q \in Those(s, i)}
    <2>1. ASSUME NEW x \in {t[q][2] : q \in Those(t, i)} PROVE x \in {s[q][2] : q \in Those(s, i)}
        <3>1. PICK q \in Those(t, i) : x = t[q][2]
            BY <2>1
        <3> QED BY <3>1, <1>3
    <2>2. \A q \in Those(s, i) : s[q][2] \in {t[r][2] : r \in Those(t, i)}
        BY <1>3
    <2> QED BY <2>1, <2>2
<1>5. \A q, r \in Those(t, i) : q < r => t[q][2] < t[r][2]
    BY <1>3 DEF Sound
<1>6. \A q \in Those(t, i), u \in w : t[q][2] < u
    BY <1>3 DEF Sound
<1>7. {s[q][2] : q \in Those(s, i)} \cup w = G
    BY DEF Sound
<1> QED BY <1>4, <1>5, <1>6, <1>7 DEF Sound, t

(* A unit the splitter takes is the next of its stream.                    *)
LEMMA SoundTaken ==
    ASSUME NEW s, NEW i, NEW G, Sound(s, i, {}, G), NEW u, \A g \in G : g < u
    PROVE  Sound(s, i, {u}, G \cup {u})
    BY DEF Sound

(* One the splitter lets go of comes behind those that went before.        *)
LEMMA SoundGone ==
    ASSUME NEW s \in Seq(Pairs), NEW i, NEW u, NEW e \in Pairs, e[1] = i, e[2] = u,
           NEW G, Sound(s, i, {u}, G)
    PROVE  Sound(Append(s, e), i, {}, G)
<1> DEFINE t == Append(s, e)
           n == Len(s)
<1>1. /\ n \in Nat /\ DOMAIN s = 1 .. n /\ DOMAIN t = 1 .. n + 1 /\ t[n + 1] = e
      /\ \A q \in 1 .. n : t[q] = s[q]
    BY Appended
<1>2. 1 .. n + 1 = (1 .. n) \cup {n + 1} /\ n + 1 \notin 1 .. n
    BY <1>1
<1>3. \A q \in 1 .. n : q < n + 1 /\ ~ (n + 1 < q)
    BY <1>1
<1> HIDE DEF t, n
<1>4. Those(t, i) = Those(s, i) \cup {n + 1} /\ \A q \in Those(s, i) : t[q] = s[q] /\ q \in 1 .. n
    BY <1>1, <1>2 DEF Those
<1>5. \A q, r \in Those(t, i) : q < r => t[q][2] < t[r][2]
    <2>1. ASSUME NEW q \in Those(s, i), NEW r \in Those(s, i), q < r PROVE t[q][2] < t[r][2]
        BY <2>1, <1>4 DEF Sound
    <2>2. ASSUME NEW q \in Those(s, i) PROVE t[q][2] < t[n + 1][2]
        BY <1>1, <1>4 DEF Sound
    <2>3. ~ (n + 1 < n + 1)
        BY <1>1
    <2> QED BY <2>1, <2>2, <2>3, <1>3, <1>4
<1>6. {t[q][2] : q \in Those(t, i)} = {s[q][2] : q \in Those(s, i)} \cup {u}
    BY <1>1, <1>4
<1>7. {s[q][2] : q \in Those(s, i)} \cup {u} = G
    BY DEF Sound
<1> QED BY <1>5, <1>6, <1>7 DEF Sound, t

(* At the end each splitter lets go of the one it has.                     *)
LEMMA SoundFlushed ==
    ASSUME NEW s \in Seq(Pairs), NEW f \in Seq(Pairs), NEW i, NEW w, NEW G, Sound(s, i, w, G),
           \A q, r \in Those(f, i) : q = r, {f[q][2] : q \in Those(f, i)} = w
    PROVE  Sound(s \o f, i, {}, G)
<1> DEFINE t == s \o f
           n == Len(s)
           m == Len(f)
<1>1. /\ n \in Nat /\ DOMAIN s = 1 .. n /\ m \in Nat /\ DOMAIN f = 1 .. m /\ DOMAIN t = 1 .. n + m
      /\ \A q \in 1 .. n : t[q] = s[q]
      /\ \A q \in 1 .. m : t[n + q] = f[q]
    BY Joined
<1> HIDE DEF t, n, m
<1>2. \A q \in Those(s, i) : q \in Those(t, i) /\ q \in 1 .. n /\ t[q] = s[q]
    BY <1>1 DEF Those
<1>3. \A q \in Those(f, i) : n + q \in Those(t, i) /\ t[n + q] = f[q]
    BY <1>1 DEF Those
<1>4. ASSUME NEW q \in Those(t, i)
      PROVE  \/ q \in Those(s, i)
             \/ q > n /\ q - n \in Those(f, i) /\ t[q] = f[q - n]
    <2>1. CASE q \in 1 .. n
        BY <2>1, <1>1 DEF Those
    <2>2. CASE q \notin 1 .. n
        <3>1. q \in 1 .. n + m /\ q > n /\ q - n \in 1 .. m /\ q = n + (q - n)
            BY <2>2, <1>1 DEF Those
        <3>2. t[n + (q - n)] = f[q - n]
            BY <3>1, <1>1
        <3> QED BY <3>1, <3>2, <1>1 DEF Those
    <2> QED BY <2>1, <2>2
<1>5. ASSUME NEW q \in Those(t, i), NEW r \in Those(t, i), q < r PROVE t[q][2] < t[r][2]
    <2>1. CASE q \in Those(s, i) /\ r \in Those(s, i)
        BY <2>1, <1>2, <1>5 DEF Sound
    <2>2. CASE q \in Those(s, i) /\ r \notin Those(s, i)
        <3>1. r - n \in Those(f, i) /\ t[r] = f[r - n]
            BY <2>2, <1>4
        <3>2. f[r - n][2] \in w
            BY <3>1
        <3> QED BY <2>2, <3>1, <3>2, <1>2 DEF Sound
    <2>3. CASE q \notin Those(s, i) /\ r \in Those(s, i)
        <3>1. q > n /\ r \in 1 .. n /\ q \in Nat
            BY <2>3, <1>1, <1>2, <1>4 DEF Those
        <3> QED BY <3>1, <1>5, <1>1
    <2>4. CASE q \notin Those(s, i) /\ r \notin Those(s, i)
        <3>1. q - n = r - n /\ q \in Nat /\ r \in Nat
            BY <2>4, <1>1, <1>4 DEF Those
        <3> QED BY <3>1, <1>5, <1>1
    <2> QED BY <2>1, <2>2, <2>3, <2>4
<1>6. {t[q][2] : q \in Those(t, i)} = {s[q][2] : q \in Those(s, i)} \cup {f[q][2] : q \in Those(f, i)}
    <2>1. ASSUME NEW x \in {t[q][2] : q \in Those(t, i)}
          PROVE  x \in {s[q][2] : q \in Those(s, i)} \cup {f[q][2] : q \in Those(f, i)}
        <3>1. PICK q \in Those(t, i) : x = t[q][2]
            BY <2>1
        <3> QED BY <3>1, <1>2, <1>4
    <2>2. \A q \in Those(s, i) : s[q][2] \in {t[r][2] : r \in Those(t, i)}
        BY <1>2
    <2>3. \A q \in Those(f, i) : f[q][2] \in {t[r][2] : r \in Those(t, i)}
        BY <1>3
    <2> QED BY <2>1, <2>2, <2>3
<1>7. {s[q][2] : q \in Those(s, i)} \cup w = G
    BY DEF Sound
<1> QED BY <1>5, <1>6, <1>7 DEF Sound, t

(* The application takes the head of the queue: what came out is the same. *)
LEMMA HeadMoved ==
    ASSUME NEW d \in Seq(Pairs), NEW p \in Seq(Pairs), p # << >>
    PROVE  /\ Append(d, Head(p)) \in Seq(Pairs) /\ Tail(p) \in Seq(Pairs)
           /\ Append(d, Head(p)) \o Tail(p) = d \o p
<1>1. Len(p) \in Nat /\ Len(p) > 0 /\ Head(p) = p[1] /\ Head(p) \in Pairs /\ Tail(p) \in Seq(Pairs)
    BY EmptySeq, HeadTailProperties
<1> DEFINE a == Append(d, Head(p))
           b == Tail(p)
           n == Len(d)
           m == Len(p)
<1>2. a \in Seq(Pairs) /\ Len(a) = n + 1 /\ a[n + 1] = p[1] /\ \A i \in 1 .. n : a[i] = d[i]
    BY <1>1
<1>3. b \in Seq(Pairs) /\ Len(b) = m - 1 /\ \A i \in 1 .. m - 1 : b[i] = p[i + 1]
    BY <1>1, HeadTailProperties
<1>4. /\ a \o b \in Seq(Pairs) /\ Len(a \o b) = n + m
      /\ \A i \in 1 .. n + 1 : (a \o b)[i] = a[i]
      /\ \A i \in 1 .. m - 1 : (a \o b)[(n + 1) + i] = b[i]
    BY <1>1, <1>2, <1>3, Joined
<1>5. /\ d \o p \in Seq(Pairs) /\ Len(d \o p) = n + m
      /\ \A i \in 1 .. n : (d \o p)[i] = d[i]
      /\ \A i \in 1 .. m : (d \o p)[n + i] = p[i]
    BY Joined
<1>6. n \in Nat /\ m \in Nat /\ m > 0
    BY <1>1
<1> DEFINE x == a \o b
           y == d \o p
<1> HIDE DEF a, b, n, m, x, y
<1>7. ASSUME NEW i \in 1 .. n + m PROVE x[i] = y[i]
    <2>1. CASE i \in 1 .. n
        BY <2>1, <1>2, <1>4, <1>5, <1>6 DEF x, y
    <2>2. CASE i = n + 1
        <3>1. x[i] = p[1]
            BY <2>2, <1>2, <1>4, <1>6 DEF x
        <3>2. y[n + 1] = p[1]
            BY <1>5, <1>6 DEF y
        <3> QED BY <2>2, <3>1, <3>2
    <2>3. CASE i \in n + 2 .. n + m
        <3> DEFINE k == i - (n + 1)
        <3>1. k \in 1 .. m - 1 /\ i = (n + 1) + k /\ i = n + (k + 1) /\ k + 1 \in 1 .. m
            BY <2>3, <1>6
        <3> HIDE DEF k
        <3>2. x[(n + 1) + k] = b[k] /\ b[k] = p[k + 1] /\ y[n + (k + 1)] = p[k + 1]
            BY <3>1, <1>3, <1>4, <1>5 DEF x, y
        <3> QED BY <3>1, <3>2
    <2> QED BY <2>1, <2>2, <2>3, <1>6
<1>8. x \in Seq(Pairs) /\ y \in Seq(Pairs) /\ Len(x) = Len(y) /\ Len(x) = n + m
    BY <1>4, <1>5 DEF x, y
<1>9. x = y
    BY <1>7, <1>8, SeqEqual
<1> QED BY <1>1, <1>2, <1>9 DEF x, y, a, b

(* What joins the queue joins what came out.                               *)
LEMMA JoinedAppend ==
    ASSUME NEW d \in Seq(Pairs), NEW p \in Seq(Pairs), NEW e \in Pairs
    PROVE  d \o Append(p, e) = Append(d \o p, e)
<1> DEFINE one == <<e>>
<1>1. one \in Seq(Pairs) /\ Append(p, e) = p \o one
    BY AppendIsConcat
<1>2. d \o p \in Seq(Pairs)
    BY ConcatProperties
<1> DEFINE dp == d \o p
<1>3. Append(dp, e) = dp \o one
    <2> HIDE DEF dp
    <2> QED BY <1>2, AppendIsConcat DEF dp
<1> HIDE DEF one, dp
<1>4. dp \o one = d \o (p \o one)
    BY <1>1, ConcatAssociative DEF dp
<1> QED BY <1>1, <1>3, <1>4, Zenon DEF dp

------------------------------------------------------------------------------
(* The steps of the walk.                                                 *)
LEMMA OwedStays ==
    ASSUME UNCHANGED <<file, length>>
    PROVE  /\ Owed' = Owed /\ (FileOK => FileOK') /\ P!Marked' = P!Marked
           /\ \A k : P!UnitsOf(k)' = P!UnitsOf(k)
    BY DEF Owed, FileOK, P!Marked, P!UnitsOf

(* what a stream is owed are the packets of the file that are its own.     *)
LEMMA UnitsAreOwed == ASSUME NEW k PROVE P!UnitsOf(k) = {u \in Owed : file[u].stream = k}
    BY DEF P!UnitsOf, Owed

(* The streams found stay found.                                           *)
LEMMA FoundStays ==
    ASSUME UNCHANGED <<file, length, streams>>, P!StreamsFound,
           phase' \in {"stream", "ended", "empty"} => phase \in {"stream", "ended", "empty"}
    PROVE  P!StreamsFound'
    BY DEF P!StreamsFound

(* A step to a later position, no packet of the file between;              *)
LEMMA Walks ==
    ASSUME WalkInvariant, stage \in {"next", "none"} => stage' \in {"next", "none"},
           UNCHANGED <<file, length, phase, before, consumed, order, streams,
                       held, pending, flushed, delivered>>,
           pos' >= pos, pos' \in Nat, base' >= base, base' \in Nat,
           \A u \in Owed : file[u].at < pos' <=> file[u].at < pos
    PROVE  Searching' /\ Listing' /\ Delivering'
<1>1. WalkTypes /\ Searching /\ Listing /\ Delivering
    BY DEF WalkInvariant
<1>2. Owed' = Owed /\ \A k : P!UnitsOf(k)' = P!UnitsOf(k)
    BY OwedStays
<1>3. Listing'
    BY <1>1, FoundStays DEF Listing
<1>4. Searching'
    <2>1. pos \in Nat /\ base \in Nat /\ before \in Int /\ consumed \in Nat
        BY <1>1 DEF WalkTypes
    <2>2. phase = "discover" => consumed <= pos' /\ consumed <= base' + before
        BY <1>1, <2>1 DEF Searching
    <2> QED BY <1>1, <1>2, <2>2 DEF Searching
<1>5. Delivering'
    <2>1. CASE phase \notin {"stream", "ended"}
        BY <2>1 DEF Delivering
    <2>2. CASE phase \in {"stream", "ended"}
        <3>1. ASSUME NEW i \in DOMAIN streams
              PROVE  P!Packets' = P!Packets /\ P!Waits(i)' = P!Waits(i) /\ Passed(i)' = Passed(i)
            <4>1. \A u \in P!UnitsOf(streams[i]) : u \in Owed
                BY UnitsAreOwed
            <4> QED BY <1>2, <4>1 DEF P!Packets, P!Waits, Passed
        <3>2. ASSUME NEW i \in DOMAIN streams PROVE Sound(P!Packets, i, P!Waits(i), Passed(i))'
            <4>1. Sound(P!Packets, i, P!Waits(i), Passed(i))
                BY <1>1, <2>2 DEF Delivering
            <4> QED BY <4>1, <3>1 DEF Sound, Those
        <3>3. flushed' => stage' \in {"next", "none"} /\ \A u \in Owed' : file'[u].at < pos'
            BY <1>1, <1>2, <2>2 DEF Delivering
        <3> QED BY <1>1, <2>2, <3>2, <3>3 DEF Delivering
    <2> QED BY <2>1, <2>2
<1> QED BY <1>3, <1>4, <1>5

(* the end of the first pass;                                              *)
LEMMA Rewinds ==
    ASSUME WalkInvariant, phase = "discover", NEW found \in Seq(DOMAIN Class), Once(found),
           \A u \in Owed : file[u].at < DiscoveryBytes =>
               \E j \in DOMAIN found : found[j] = file[u].stream,
           P!Rewind(found), UNCHANGED <<file, length, held, pending, flushed, delivered>>,
           before' \in Int, consumed' \in Nat
    PROVE  WalkInvariant'
<1>1. WalkTypes /\ Searching /\ Listing /\ Delivering
    BY DEF WalkInvariant
<1>2. Owed' = Owed /\ FileOK' /\ \A k : P!UnitsOf(k)' = P!UnitsOf(k)
    BY <1>1, OwedStays DEF WalkTypes
<1> DEFINE list == P!Listed(found)
<1>3. /\ list \in Seq(DOMAIN Class) /\ Once(list)
      /\ \A j \in DOMAIN found : found[j] \notin Unlisted => \E i \in DOMAIN list : list[i] = found[j]
      /\ \A i, j \in DOMAIN list : i < j => Class[list[i]] <= Class[list[j]]
    BY ListedAre
<1>4. /\ streams' = list
      /\ \/ phase' = "empty" /\ stage' = "none" /\ streams' = << >>
         \/ phase' = "stream" /\ stage' = "next"
      /\ pos' = 0 /\ base' = 0 /\ have' = 0 /\ eof' = FALSE
    BY DEF P!Rewind
<1> HIDE DEF list
<1>5. WalkTypes'
    <2>1. (have \in Nat)' /\ (pos \in Nat)' /\ (base \in Nat)' /\ (have <= length)'
        BY <1>2, <1>4 DEF FileOK
    <2>2. (eof \in BOOLEAN)' /\ (eof => have = length)'
        BY <1>4
    <2>3. /\ stage' \in {"open", "find", "pack", "header", "body", "next", "none"}
          /\ phase' \in {"discover", "stream", "ended", "empty", "refused"}
          /\ stage' \notin {"pack", "header", "body"}
          /\ phase' # "discover" /\ (phase' = "stream" => stage' \notin {"open", "none"})
          /\ (phase' \notin {"discover", "stream"} => stage' = "none")
        BY <1>4
    <2> QED BY <1>2, <2>1, <2>2, <2>3 DEF WalkTypes
<1>6. Searching'
    BY <1>4 DEF Searching
<1>7. Listing'
    <2>1. P!StreamsFound'
        <3>1. ASSUME NEW u \in DOMAIN file, file[u].kind = "pes", file[u].stream \notin Unlisted,
                     file[u].at + 9 <= length, file[u].at < DiscoveryBytes
              PROVE  file[u].stream \in P!Range(streams')
            <4>1. u \in Owed
                BY <3>1 DEF Owed
            <4>2. PICK j \in DOMAIN found : found[j] = file[u].stream
                BY <4>1, <3>1
            <4>3. PICK i \in DOMAIN list : list[i] = found[j]
                BY <4>2, <3>1, <1>3
            <4> QED BY <4>2, <4>3, <1>4 DEF P!Range
        <3> QED BY <3>1, <1>3, <1>4 DEF P!StreamsFound
    <2> QED BY <2>1, <1>3, <1>4 DEF Listing, Once
<1>8. Delivering'
    <2>1. delivered = << >> /\ pending = << >> /\ flushed = FALSE /\ held = [k \in DOMAIN Class |-> P!NoUnit]
        BY <1>1 DEF Searching
    <2>2. CASE phase' = "empty"
        BY <2>2 DEF Delivering
    <2>3. CASE phase' = "stream"
        <3>1. delivered' = << >> /\ pending' = << >> /\ flushed' = FALSE
              /\ held' = [k \in DOMAIN Class |-> 0]
            BY <2>1 DEF P!NoUnit
        <3>2. << >> \o << >> = << >> /\ << >> \in Seq(Nat \X Nat) /\ DOMAIN << >> = {}
            OBVIOUS
        <3>3. P!Packets' = << >>
            BY <3>1, <3>2 DEF P!Packets
        <3>4. ASSUME NEW i \in DOMAIN streams' PROVE Sound(P!Packets, i, P!Waits(i), Passed(i))'
            <4>1. streams'[i] \in DOMAIN Class
                BY <1>3, <1>4
            <4>2. P!Waits(i)' = {}
                BY <3>1, <4>1 DEF P!Waits, P!NoUnit
            <4>3. Those(P!Packets', i) = {}
                BY <3>2, <3>3 DEF Those
            <4>4. Passed(i)' = {}
                <5>1. \A u \in P!UnitsOf(streams'[i]) : file[u].at \in Nat /\ ~ (file[u].at < 0)
                    BY <1>1 DEF P!UnitsOf, WalkTypes, FileOK
                <5> QED BY <5>1, <1>2, <1>4 DEF Passed
            <4> QED BY <4>2, <4>3, <4>4 DEF Sound, Those
        <3>5. held' \in [DOMAIN Class -> Nat] /\ \A k \in DOMAIN Class : held'[k] = P!NoUnit
            BY <3>1 DEF P!NoUnit
        <3> QED BY <2>3, <3>1, <3>2, <3>4, <3>5 DEF Delivering
    <2> QED BY <2>2, <2>3, <1>4
<1> QED BY <1>5, <1>6, <1>7, <1>8 DEF WalkInvariant

(* What the application has read of the buffer, were it read up to p.      *)
LEMMA ReadUpTo ==
    \A c, p, b, q \in Nat, f \in Int :
        c <= q /\ q <= p /\ c <= b + f =>
            LET ahead == (p - b) - f
                read  == c + (IF ahead > 0 THEN ahead ELSE 0)
            IN  read \in Nat /\ p - b \in Int /\ read <= p
    OBVIOUS

(* a unit of the first pass, the streams found so far being in found;      *)
LEMMA Discovers ==
    ASSUME WalkInvariant, phase = "discover", NEW p \in Nat, pos <= p,
           NEW found \in Seq(DOMAIN Class), Once(found),
           \A u \in Owed : file[u].at < p => \E j \in DOMAIN found : found[j] = file[u].stream,
           P!Discovered(p, found), UNCHANGED <<file, length, held, pending, flushed, delivered>>
    PROVE  WalkInvariant'
<1>1. WalkTypes /\ Searching /\ Listing /\ Delivering
    BY DEF WalkInvariant
<1>2. /\ pos \in Nat /\ base \in Nat /\ before \in Int /\ consumed \in Nat
      /\ consumed <= pos /\ consumed <= base + before
    BY <1>1 DEF WalkTypes, Searching
<1> DEFINE ahead == (p - base) - before
<1>3. consumed' = consumed + (IF ahead > 0 THEN ahead ELSE 0) /\ before' = p - base /\ order' = found
    BY DEF P!Discovered
<1>4. consumed' \in Nat /\ before' \in Int /\ consumed' <= p
    BY <1>2, <1>3, ReadUpTo
<1>5. CASE consumed' >= DiscoveryBytes
    <2>1. P!Rewind(found)
        BY <1>5 DEF P!Discovered
    <2>2. DiscoveryBytes \in Nat
        BY WalkAssumption DEF P!UnitAssumption
    <2>3. ASSUME NEW u \in Owed, file[u].at < DiscoveryBytes
          PROVE  \E j \in DOMAIN found : found[j] = file[u].stream
        <3>1. file[u].at \in Nat
            BY <1>1 DEF Owed, WalkTypes, FileOK
        <3>2. file[u].at < p
            BY <3>1, <2>2, <2>3, <1>4, <1>5
        <3> QED BY <3>2
    <2> QED BY <2>1, <2>3, <1>4, Rewinds
<1>6. CASE ~ (consumed' >= DiscoveryBytes)
    <2>1. pos' = p /\ stage' = "find" /\ UNCHANGED <<base, have, eof, phase, streams>>
        BY <1>6 DEF P!Discovered
    <2>2. FileOK' /\ Owed' = Owed
        BY <1>1, OwedStays DEF WalkTypes
    <2>3. WalkTypes'
        BY <1>1, <1>4, <2>1, <2>2 DEF WalkTypes
    <2>4. Searching'
        <3>1. consumed' <= base' + before'
            <4>1. before' = p - base /\ base' = base
                BY <1>3, <2>1
            <4>2. base' + before' = p
                BY <4>1, <1>2
            <4> QED BY <4>2, <1>4
        <3>2. order' \in Seq(DOMAIN Class) /\ Once(order')
            BY <1>3
        <3>3. \A u \in Owed' : file'[u].at < pos' => \E j \in DOMAIN order' : order'[j] = file'[u].stream
            BY <1>3, <2>1, <2>2
        <3> QED BY <1>1, <1>4, <2>1, <3>1, <3>2, <3>3 DEF Searching, Once
    <2>5. Listing'
        BY <1>1, <2>1, FoundStays DEF Listing
    <2>6. Delivering'
        BY <2>1 DEF Delivering
    <2> QED BY <2>3, <2>4, <2>5, <2>6 DEF WalkInvariant
<1> QED BY <1>5, <1>6

(* a unit that is no packet, in either pass.                               *)
LEMMA PassesOver ==
    ASSUME WalkInvariant, P!AtCode, NEW p \in Nat, pos < p, p <= pos + file[P!Here].size,
           P!Here \notin Owed, stage \notin {"next", "none"}, P!Nothing(p), UNCHANGED <<file, length>>
    PROVE  WalkInvariant'
<1>1. WalkTypes /\ Searching /\ Listing /\ Delivering /\ FileOK /\ pos \in Nat
    BY DEF WalkInvariant, WalkTypes
<1>2. \A u \in Owed : file[u].at < p <=> file[u].at < pos
    BY <1>1, SteppedOver, OwedAreMarked
<1>3. CASE phase = "discover"
    <2>1. P!Discovered(p, order) /\ UNCHANGED <<held, pending, flushed, delivered>>
        BY <1>3 DEF P!Nothing, P!outVars
    <2>2. /\ order \in Seq(DOMAIN Class) /\ Once(order)
          /\ \A u \in Owed : file[u].at < p => \E j \in DOMAIN order : order[j] = file[u].stream
        BY <1>1, <1>2, <1>3 DEF Searching
    <2>3. pos <= p
        BY <1>1
    <2> QED BY <1>3, <2>1, <2>2, <2>3, Discovers
<1>4. CASE phase = "stream"
    <2>1. /\ pos' = p /\ stage' = "next"
          /\ UNCHANGED <<base, have, eof, phase, before, consumed, order, streams,
                         held, pending, flushed, delivered>>
        BY <1>4 DEF P!Nothing, P!outVars, P!findVars
    <2>2. pos' >= pos /\ pos' \in Nat /\ base' >= base /\ base' \in Nat
        BY <1>1, <2>1 DEF WalkTypes
    <2>3. Searching' /\ Listing' /\ Delivering'
        BY <1>2, <1>4, <2>1, <2>2, Walks
    <2>4. WalkTypes'
        <3>1. FileOK'
            BY <1>1, OwedStays
        <3> QED BY <1>1, <1>4, <2>1, <3>1 DEF WalkTypes
    <2> QED BY <2>3, <2>4 DEF WalkInvariant
<1>5. phase \in {"discover", "stream"}
    BY DEF P!Nothing
<1> QED BY <1>3, <1>4, <1>5

(* A packet: in the first pass its stream is known from then on;           *)
LEMMA PacketSeen ==
    ASSUME WalkInvariant, phase = "discover", P!AtCode, NEW p \in Nat, pos < p,
           p <= pos + file[P!Here].size, file[P!Here].kind = "pes", P!Pes(P!Here, p),
           UNCHANGED <<file, length>>
    PROVE  WalkInvariant'
<1>1. WalkTypes /\ Searching /\ FileOK /\ pos \in Nat
    BY DEF WalkInvariant, WalkTypes
<1> DEFINE h     == P!Here
           k     == file[h].stream
           found == IF k \in P!Range(order) THEN order ELSE Append(order, k)
<1>2. h \in P!Marked /\ h \in DOMAIN file
    BY <1>1, HereIs, MarkedAre
<1>3. k \in DOMAIN Class
    BY <1>1, <1>2 DEF FileOK, Sized
<1>4. P!Discovered(p, found) /\ UNCHANGED <<held, pending, flushed, delivered>>
    BY DEF P!Pes, P!outVars
<1>5. /\ order \in Seq(DOMAIN Class) /\ Once(order)
      /\ \A u \in Owed : file[u].at < pos => \E j \in DOMAIN order : order[j] = file[u].stream
    BY <1>1 DEF Searching
<1>6. ASSUME NEW u \in Owed, file[u].at < p PROVE file[u].at < pos \/ u = h
    BY <1>1, <1>6, SteppedOver, OwedAreMarked
<1>7. /\ found \in Seq(DOMAIN Class) /\ Once(found)
      /\ \A j \in DOMAIN order : \E i \in DOMAIN found : found[i] = order[j]
      /\ \E i \in DOMAIN found : found[i] = k
    <2> HIDE DEF k
    <2>1. CASE k \in P!Range(order)
        <3>1. found = order /\ \E i \in DOMAIN order : order[i] = k
            BY <2>1 DEF P!Range
        <3> QED BY <3>1, <1>5
    <2>2. CASE k \notin P!Range(order)
        <3> DEFINE t == Append(order, k)
                   n == Len(order)
        <3>1. found = t /\ t \in Seq(DOMAIN Class)
            BY <2>2, <1>3, <1>5
        <3>2. /\ n \in Nat /\ DOMAIN order = 1 .. n /\ DOMAIN t = 1 .. n + 1 /\ t[n + 1] = k
              /\ \A i \in 1 .. n : t[i] = order[i]
            BY <1>5, Appended
        <3>3. 1 .. n + 1 = (1 .. n) \cup {n + 1}
            BY <3>2
        <3>4. \A i \in 1 .. n : order[i] # k
            BY <2>2, <3>2 DEF P!Range
        <3> HIDE DEF t, n, found
        <3>5. Once(t)
            <4>1. ASSUME NEW i \in DOMAIN t, NEW j \in DOMAIN t, t[i] = t[j] PROVE i = j
                <5>1. CASE i \in 1 .. n /\ j \in 1 .. n
                    BY <5>1, <4>1, <1>5, <3>2 DEF Once
                <5>2. CASE i = n + 1 \/ j = n + 1
                    BY <5>2, <4>1, <3>2, <3>3, <3>4
                <5> QED BY <5>1, <5>2, <3>2, <3>3
            <4> QED BY <4>1 DEF Once
        <3> QED BY <3>1, <3>2, <3>3, <3>5
    <2> QED BY <2>1, <2>2
<1>8. ASSUME NEW u \in Owed, file[u].at < p PROVE \E j \in DOMAIN found : found[j] = file[u].stream
    <2>1. CASE u = h
        BY <2>1, <1>7
    <2>2. CASE file[u].at < pos
        <3> HIDE DEF found, k
        <3>1. PICK j \in DOMAIN order : order[j] = file[u].stream
            BY <2>2, <1>5
        <3> QED BY <3>1, <1>7
    <2> QED BY <1>6, <1>8, <2>1, <2>2
<1>9. pos <= p
    BY <1>1
<1> HIDE DEF found
<1> QED BY <1>4, <1>7, <1>8, <1>9, Discovers

(* in the second it goes to the queue, or to its splitter, which lets go   *)
(* of the one before.                                                      *)
LEMMA PacketHandled ==
    ASSUME WalkInvariant, phase = "stream", P!AtCode, NEW p \in Nat, pos < p,
           p <= pos + file[P!Here].size, P!Here \in Owed, stage \notin {"next", "none"},
           P!Pes(P!Here, p), UNCHANGED <<file, length>>
    PROVE  WalkInvariant'
<1>1. WalkTypes /\ Searching /\ Listing /\ Delivering /\ FileOK /\ pos \in Nat
    BY DEF WalkInvariant, WalkTypes
<1> DEFINE h == P!Here
           k == file[h].stream
<1>2. h \in P!Marked /\ h \in DOMAIN file /\ file[h].at = pos /\ h \in Nat /\ h # P!NoUnit
    BY <1>1, HereIs, MarkedAre
<1>3. k \in DOMAIN Class
    BY <1>1, <1>2 DEF FileOK, Sized, Owed
<1>4. /\ P!HandlePes(k, h) /\ pos' = p /\ stage' = "next"
      /\ UNCHANGED <<base, have, eof, phase, before, consumed, order, streams, flushed, delivered>>
    BY DEF P!Pes, P!findVars
<1>5. /\ delivered \in Seq(Pairs) /\ pending \in Seq(Pairs)
      /\ held \in [DOMAIN Class -> Nat] /\ flushed = FALSE
      /\ \A c \in DOMAIN Class : held[c] # P!NoUnit => c \in Reframed
      /\ \A i \in DOMAIN streams : Sound(P!Packets, i, P!Waits(i), Passed(i))
    BY <1>1 DEF Delivering, Pairs
<1>6. /\ streams \in Seq(DOMAIN Class) /\ Once(streams) /\ DOMAIN streams \subseteq Nat
      /\ \A i \in DOMAIN streams : streams[i] \in DOMAIN Class
    BY <1>1 DEF Listing
<1>7. ASSUME NEW u \in Owed PROVE file[u].at < p <=> file[u].at < pos \/ u = h
    BY <1>1, SteppedOver, OwedAreMarked
<1>8. Owed' = Owed /\ \A c : P!UnitsOf(c)' = P!UnitsOf(c)
    BY OwedStays
<1>9. ASSUME NEW i \in DOMAIN streams
      PROVE  /\ streams[i] # k => Passed(i)' = Passed(i)
             /\ streams[i] = k => Passed(i)' = Passed(i) \cup {h} /\ \A u \in Passed(i) : u < h
    <2>1. \A u \in P!UnitsOf(streams[i]) : u \in Owed /\ file[u].stream = streams[i]
        BY UnitsAreOwed
    <2>2. h \in P!UnitsOf(k)
        BY UnitsAreOwed
    <2>3. ASSUME streams[i] # k PROVE Passed(i)' = Passed(i)
        <3>1. \A u \in P!UnitsOf(streams[i]) : file[u].at < p <=> file[u].at < pos
            BY <2>1, <2>3, <1>7
        <3> QED BY <3>1, <1>4, <1>8 DEF Passed
    <2>4. ASSUME streams[i] = k PROVE Passed(i)' = Passed(i) \cup {h}
        <3>1. \A u \in P!UnitsOf(streams[i]) : file[u].at < p <=> file[u].at < pos \/ u = h
            BY <2>1, <1>7
        <3>2. h \in P!UnitsOf(streams[i])
            BY <2>2, <2>4
        <3> QED BY <3>1, <3>2, <1>4, <1>8 DEF Passed
    <2>5. \A u \in Passed(i) : u < h
        <3>1. ASSUME NEW u \in Passed(i) PROVE u \in P!Marked /\ file[u].at < file[h].at
            BY <2>1, <1>2, OwedAreMarked DEF Passed
        <3> QED BY <3>1, <1>1, <1>2, MarkedAre
    <2> QED BY <2>3, <2>4, <2>5
<1> HIDE DEF h, k
<1>10. P!Packets \in Seq(Pairs)
    BY <1>5, ConcatProperties DEF P!Packets
<1>11. /\ delivered' \in Seq(Pairs) /\ pending' \in Seq(Pairs) /\ held' \in [DOMAIN Class -> Nat]
       /\ \A c \in DOMAIN Class : held'[c] # P!NoUnit => c \in Reframed
       /\ \A i \in DOMAIN streams : Sound(P!Packets', i, P!Waits(i)', Passed(i)')
    <2>1. CASE k \notin P!Range(streams)
        <3>1. UNCHANGED <<held, pending, delivered>>
            BY <2>1, <1>4 DEF P!HandlePes
        <3>2. ASSUME NEW i \in DOMAIN streams PROVE Sound(P!Packets', i, P!Waits(i)', Passed(i)')
            <4>1. streams[i] # k
                BY <2>1 DEF P!Range
            <4>2. P!Packets' = P!Packets /\ P!Waits(i)' = P!Waits(i) /\ Passed(i)' = Passed(i)
                BY <3>1, <4>1, <1>4, <1>9 DEF P!Packets, P!Waits
            <4> QED BY <4>2, <1>5, Zenon
        <3> QED BY <3>1, <3>2, <1>5
    <2>2. CASE k \in P!Range(streams)
        <3>1. PICK x \in DOMAIN streams : streams[x] = k
            BY <2>2 DEF P!Range
        <3>3. \A i \in DOMAIN streams : i # x => streams[i] # k
            BY <3>1, <1>6 DEF Once
        <3>2. \A u : P!Packet(k, u) = <<x, u>>
            <4>1. (CHOOSE i \in DOMAIN streams : streams[i] = k) = x
                BY <3>1, <3>3
            <4> QED BY <4>1 DEF P!Packet
        <3>4. x \in Nat /\ held[k] \in Nat
            BY <3>1, <1>3, <1>5, <1>6
        <3>5. P!Waits(x) = IF held[k] = P!NoUnit THEN {} ELSE {held[k]}
            BY <3>1 DEF P!Waits
        <3>6. Sound(P!Packets, x, P!Waits(x), Passed(x)) /\ Passed(x)' = Passed(x) \cup {h}
              /\ \A u \in Passed(x) : u < h
            <4>1. Sound(P!Packets, x, P!Waits(x), Passed(x))
                BY <3>1, <1>5
            <4>2. Passed(x)' = Passed(x) \cup {h} /\ \A u \in Passed(x) : u < h
                BY <3>1, <1>9
            <4> QED BY <4>1, <4>2
        <3>7. ASSUME NEW e \in Pairs, pending' = Append(pending, e)
              PROVE  pending' \in Seq(Pairs) /\ P!Packets' = Append(P!Packets, e)
            <4>1. Append(pending, e) \in Seq(Pairs)
                BY <1>5, AppendProperties
            <4>2. delivered \o Append(pending, e) = Append(delivered \o pending, e)
                BY <1>5, JoinedAppend
            <4> QED BY <4>1, <4>2, <3>7, <1>4 DEF P!Packets
        <3>8. CASE k \notin Reframed
            <4> DEFINE e == <<x, h>>
            <4>1. pending' = Append(pending, e) /\ held' = held
                BY <2>2, <3>2, <3>8, <1>4 DEF P!HandlePes
            <4>2. e \in Pairs /\ e[1] = x /\ e[2] = h
                BY <3>4, <1>2 DEF Pairs, h
            <4> HIDE DEF e
            <4>3. pending' \in Seq(Pairs) /\ P!Packets' = Append(P!Packets, e)
                BY <4>1, <4>2, <3>7
            <4>4. held[k] = P!NoUnit
                BY <3>8, <1>3, <1>5
            <4>5. P!Waits(x) = {} /\ P!Waits(x)' = {}
                <5>1. P!Waits(x) = {}
                    BY <4>4, <3>5
                <5>2. P!Waits(x)' = P!Waits(x)
                    BY <4>1, <1>4 DEF P!Waits
                <5> QED BY <5>1, <5>2
            <4>6. Sound(P!Packets, x, {h}, Passed(x) \cup {h})
                BY <4>5, <3>6, SoundTaken, Zenon
            <4>7. Sound(Append(P!Packets, e), x, {}, Passed(x) \cup {h})
                BY <4>2, <4>6, <1>10, SoundGone, Zenon
            <4>8. ASSUME NEW i \in DOMAIN streams, i # x
                  PROVE  Sound(P!Packets', i, P!Waits(i)', Passed(i)')
                <5>1. Sound(P!Packets, i, P!Waits(i), Passed(i))
                    BY <1>5
                <5>2. Sound(Append(P!Packets, e), i, P!Waits(i), Passed(i))
                    BY <5>1, <4>2, <4>8, <1>10, SoundOther
                <5>3. P!Waits(i)' = P!Waits(i) /\ Passed(i)' = Passed(i)
                    BY <4>1, <4>8, <3>3, <1>4, <1>9 DEF P!Waits
                <5> QED BY <5>2, <5>3, <4>3, Zenon
            <4>9. Sound(P!Packets', x, P!Waits(x)', Passed(x)')
                BY <4>3, <4>5, <4>7, <3>6, Zenon
            <4>10. ASSUME NEW i \in DOMAIN streams PROVE Sound(P!Packets', i, P!Waits(i)', Passed(i)')
                <5>1. CASE i = x
                    BY <5>1, <4>9
                <5>2. CASE i # x
                    BY <5>2, <4>8
                <5> QED BY <5>1, <5>2
            <4>11. delivered' \in Seq(Pairs) /\ held' \in [DOMAIN Class -> Nat]
                   /\ \A c \in DOMAIN Class : held'[c] # P!NoUnit => c \in Reframed
                BY <4>1, <1>4, <1>5
            <4> QED BY <4>3, <4>10, <4>11
        <3>9. CASE k \in Reframed
            <4> DEFINE w == held[k]
                       e == <<x, w>>
            <4>1. /\ held' = [held EXCEPT ![k] = h]
                  /\ pending' = IF w = P!NoUnit THEN pending ELSE Append(pending, e)
                BY <2>2, <3>2, <3>9, <1>4 DEF P!HandlePes
            <4>2. e \in Pairs /\ e[1] = x /\ e[2] = w
                BY <3>4 DEF Pairs
            <4>3. held' \in [DOMAIN Class -> Nat] /\ held'[k] = h
                  /\ \A c \in DOMAIN Class : c # k => held'[c] = held[c]
                BY <4>1, <1>2, <1>3, <1>5 DEF h
            <4> HIDE DEF e, w
            <4>4. P!Waits(x)' = {h}
                <5>1. held'[streams'[x]] = h /\ h # P!NoUnit
                    BY <4>3, <3>1, <1>2, <1>4 DEF h
                <5> QED BY <5>1 DEF P!Waits
            <4>5. ASSUME NEW i \in DOMAIN streams, i # x
                  PROVE  P!Waits(i)' = P!Waits(i) /\ Passed(i)' = Passed(i) /\ Sound(P!Packets, i, P!Waits(i), Passed(i))
                BY <4>3, <4>5, <3>3, <1>4, <1>5, <1>6, <1>9 DEF P!Waits
            <4>6. CASE w = P!NoUnit
                <5>1. pending' = pending /\ P!Packets' = P!Packets
                    BY <4>1, <4>6, <1>4 DEF P!Packets
                <5>2. P!Waits(x) = {}
                    BY <4>6, <3>5 DEF w
                <5>3. Sound(P!Packets, x, {h}, Passed(x) \cup {h})
                    BY <5>2, <3>6, SoundTaken, Zenon
                <5>4. ASSUME NEW i \in DOMAIN streams PROVE Sound(P!Packets', i, P!Waits(i)', Passed(i)')
                    <6>1. CASE i = x
                        BY <6>1, <5>1, <5>3, <4>4, <3>6, Zenon
                    <6>2. CASE i # x
                        BY <6>2, <5>1, <4>5, Zenon
                    <6> QED BY <6>1, <6>2
                <5> QED BY <5>1, <5>4, <4>3, <3>9, <1>4, <1>5
            <4>7. CASE w # P!NoUnit
                <5>1. pending' \in Seq(Pairs) /\ P!Packets' = Append(P!Packets, e)
                    BY <4>1, <4>2, <4>7, <3>7
                <5>2. P!Waits(x) = {w}
                    BY <4>7, <3>5 DEF w
                <5>3. Sound(Append(P!Packets, e), x, {}, Passed(x))
                    BY <5>2, <4>2, <3>6, <1>10, SoundGone, Zenon
                <5>4. Sound(Append(P!Packets, e), x, {h}, Passed(x) \cup {h})
                    BY <5>3, <3>6, SoundTaken, Zenon
                <5>5. ASSUME NEW i \in DOMAIN streams, i # x
                      PROVE  Sound(Append(P!Packets, e), i, P!Waits(i), Passed(i))
                    BY <5>5, <4>2, <4>5, <1>10, SoundOther
                <5>6. ASSUME NEW i \in DOMAIN streams PROVE Sound(P!Packets', i, P!Waits(i)', Passed(i)')
                    <6>1. CASE i = x
                        BY <6>1, <5>1, <5>4, <4>4, <3>6, Zenon
                    <6>2. CASE i # x
                        BY <6>2, <5>1, <5>5, <4>5, Zenon
                    <6> QED BY <6>1, <6>2
                <5> QED BY <5>1, <5>6, <4>3, <3>9, <1>4, <1>5
            <4> QED BY <4>6, <4>7
        <3> QED BY <3>8, <3>9
    <2> QED BY <2>1, <2>2
<1>12. Delivering'
    <2>1. phase' = "stream" /\ flushed' = FALSE /\ streams' = streams
        BY <1>4, <1>5
    <2> QED BY <2>1, <1>11 DEF Delivering, Pairs
<1>13. Searching' /\ Listing'
    BY <1>1, <1>4, FoundStays DEF Searching, Listing
<1>14. WalkTypes'
    <2>1. FileOK'
        BY <1>1, OwedStays
    <2> QED BY <2>1, <1>1, <1>4 DEF WalkTypes
<1> QED BY <1>12, <1>13, <1>14 DEF WalkInvariant

------------------------------------------------------------------------------
(* The end of the input: the first pass is over, or the splitters let go.  *)
LEMMA FlushedAre ==
    ASSUME streams \in Seq(DOMAIN Class), held \in [DOMAIN Class -> Nat]
    PROVE  LET f == [j \in DOMAIN P!Full |-> <<P!Full[j], held[streams[P!Full[j]]]>>]
           IN  /\ f \in Seq(Pairs)
               /\ \A i \in DOMAIN streams : /\ \A q, r \in Those(f, i) : q = r
                                            /\ {f[q][2] : q \in Those(f, i)} = P!Waits(i)
<1> DEFINE indices == [i \in DOMAIN streams |-> i]
           waiting == {i \in DOMAIN streams : held[streams[i]] # P!NoUnit}
           full    == P!Full
           f       == [j \in DOMAIN full |-> <<full[j], held[streams[full[j]]]>>]
           n       == Len(streams)
<1>1. n \in Nat /\ DOMAIN streams = 1 .. n /\ \A i \in 1 .. n : streams[i] \in DOMAIN Class
    OBVIOUS
<1>2. indices \in Seq(Nat) /\ Len(indices) = n /\ \A i \in 1 .. n : indices[i] = i
    BY <1>1
<1>3. Once(indices)
    BY DEF Once
<1>4. full = P!Those(indices, waiting)
    BY DEF P!Full
<1> HIDE DEF indices, full
<1>5. full \in Seq(Nat) /\ ThoseOf(full, indices, waiting, n)
    BY <1>2, <1>4, ThoseAre
<1>6. /\ \A j \in DOMAIN full : full[j] \in waiting
      /\ \A i \in waiting : \E j \in DOMAIN full : full[j] = i
      /\ \A i, j \in DOMAIN full : full[i] = full[j] => i = j
    <2>1. \A i \in waiting : i \in 1 .. n /\ indices[i] = i
        BY <1>1, <1>2
    <2>2. \A j \in DOMAIN full : full[j] \in waiting
        BY <1>5 DEF ThoseOf
    <2>3. ASSUME NEW i \in waiting PROVE \E j \in DOMAIN full : full[j] = i
        <3>1. i \in 1 .. n /\ indices[i] = i /\ indices[i] \in waiting
            BY <2>1
        <3> HIDE DEF waiting, n
        <3> QED BY <3>1, <1>5 DEF ThoseOf
    <2>4. \A i, j \in DOMAIN full : full[i] = full[j] => i = j
        BY <1>3, <1>5 DEF ThoseOf, Once
    <2> QED BY <2>2, <2>3, <2>4
<1>7. \A j \in DOMAIN full : full[j] \in Nat /\ streams[full[j]] \in DOMAIN Class /\ held[streams[full[j]]] \in Nat
    BY <1>1, <1>6
<1>8. f \in Seq(Pairs)
    <2>1. DOMAIN full = 1 .. Len(full) /\ Len(full) \in Nat
        BY <1>5
    <2>2. \A j \in DOMAIN full : f[j] \in Pairs
        BY <1>7 DEF Pairs
    <2> QED BY <2>1, <2>2
<1>9. DOMAIN f = DOMAIN full /\ \A j \in DOMAIN full : f[j][1] = full[j] /\ f[j][2] = held[streams[full[j]]]
    OBVIOUS
<1> HIDE DEF f
<1>10. ASSUME NEW i \in DOMAIN streams, NEW q \in Those(f, i), NEW r \in Those(f, i) PROVE q = r
    BY <1>6, <1>9 DEF Those
<1>11. ASSUME NEW i \in DOMAIN streams PROVE {f[q][2] : q \in Those(f, i)} = P!Waits(i)
    <2>1. ASSUME NEW q \in Those(f, i) PROVE f[q][2] \in P!Waits(i)
        <3>1. q \in DOMAIN full /\ full[q] = i /\ i \in waiting /\ f[q][2] = held[streams[i]]
            BY <1>6, <1>9 DEF Those
        <3> QED BY <3>1 DEF P!Waits
    <2>2. ASSUME NEW u \in P!Waits(i) PROVE u \in {f[q][2] : q \in Those(f, i)}
        <3>1. u = held[streams[i]] /\ i \in waiting
            BY DEF P!Waits
        <3>2. PICK j \in DOMAIN full : full[j] = i
            BY <3>1, <1>6
        <3>3. j \in Those(f, i) /\ f[j][2] = u
            BY <3>1, <3>2, <1>9 DEF Those
        <3> QED BY <3>3
    <2> QED BY <2>1, <2>2
<1> QED BY <1>8, <1>10, <1>11 DEF f, full

(* The end of the input ends the first pass or empties the splitters.      *)
LEMMA RunsOut ==
    ASSUME WalkInvariant, eof, have - pos < 6, stage \in {"find", "header"}, P!NoMore,
           UNCHANGED <<file, length>>
    PROVE  WalkInvariant'
<1>1. /\ WalkTypes /\ Searching /\ Listing /\ Delivering /\ FileOK /\ pos \in Nat
      /\ have \in Nat /\ have = length
    BY DEF WalkInvariant, WalkTypes
<1>2. \A u \in Owed : file[u].at \in Nat /\ file[u].at < pos /\ file[u].at < have
    <2>1. \A u \in Owed : file[u].at \in Nat /\ file[u].at + 9 <= length
        BY <1>1 DEF Owed, FileOK
    <2> QED BY <2>1, <1>1
<1>3. CASE phase = "discover"
    <2>1. P!Rewind(order) /\ UNCHANGED <<before, consumed, held, pending, flushed, delivered>>
        BY <1>3 DEF P!NoMore, P!findVars, P!outVars
    <2>2. /\ order \in Seq(DOMAIN Class) /\ Once(order)
          /\ \A u \in Owed : \E j \in DOMAIN order : order[j] = file[u].stream
        BY <1>1, <1>2, <1>3 DEF Searching
    <2>3. before' \in Int /\ consumed' \in Nat
        BY <1>1, <2>1 DEF WalkTypes
    <2> QED BY <1>3, <2>1, <2>2, <2>3, Rewinds
<1>4. CASE phase = "stream"
    <2> DEFINE f == [j \in DOMAIN P!Full |-> <<P!Full[j], held[streams[P!Full[j]]]>>]
    <2>1. /\ pos' = have /\ stage' = "next" /\ flushed' = TRUE /\ pending' = pending \o f
          /\ held' = [k \in DOMAIN held |-> P!NoUnit]
          /\ UNCHANGED <<base, have, eof, phase, before, consumed, order, streams, delivered>>
        BY <1>4 DEF P!NoMore, P!FlushAll, P!findVars
    <2>2. /\ delivered \in Seq(Pairs) /\ pending \in Seq(Pairs)
          /\ held \in [DOMAIN Class -> Nat] /\ streams \in Seq(DOMAIN Class)
          /\ \A i \in DOMAIN streams : Sound(P!Packets, i, P!Waits(i), Passed(i))
        BY <1>1, <1>4 DEF Delivering, Listing, Pairs
    <2>3. f \in Seq(Pairs) /\ \A i \in DOMAIN streams : /\ \A q, r \in Those(f, i) : q = r
                                                        /\ {f[q][2] : q \in Those(f, i)} = P!Waits(i)
        BY <2>2, FlushedAre
    <2> HIDE DEF f
    <2>4. pending \o f \in Seq(Pairs) /\ P!Packets \in Seq(Pairs) /\ P!Packets' = P!Packets \o f
        <3>1. pending \o f \in Seq(Pairs) /\ delivered \o pending \in Seq(Pairs)
            BY <2>2, <2>3, ConcatProperties
        <3>2. delivered \o (pending \o f) = (delivered \o pending) \o f
            <4>1. \A s, t, u \in Seq(Pairs) : (s \o t) \o u = s \o (t \o u)
                BY ConcatAssociative
            <4> QED BY <2>2, <2>3, <4>1, Zenon
        <3> QED BY <3>1, <3>2, <2>1 DEF P!Packets
    <2>5. held' \in [DOMAIN Class -> Nat] /\ \A k \in DOMAIN Class : held'[k] = P!NoUnit
        BY <2>1, <2>2 DEF P!NoUnit
    <2>6. Owed' = Owed /\ FileOK' /\ \A k : P!UnitsOf(k)' = P!UnitsOf(k)
        BY <1>1, OwedStays
    <2>7. ASSUME NEW i \in DOMAIN streams
          PROVE  Sound(P!Packets', i, P!Waits(i)', Passed(i)')
        <3>1. Sound(P!Packets \o f, i, {}, Passed(i))
            <4>1. Sound(P!Packets, i, P!Waits(i), Passed(i))
                BY <2>2
            <4>2. (\A q, r \in Those(f, i) : q = r) /\ {f[q][2] : q \in Those(f, i)} = P!Waits(i)
                BY <2>3
            <4> QED BY <4>1, <4>2, <2>3, <2>4, SoundFlushed, Zenon
        <3>2. streams[i] \in DOMAIN Class /\ streams' = streams
            BY <2>1, <2>2
        <3>3. P!Waits(i)' = {}
            BY <3>2, <2>5 DEF P!Waits
        <3>4. Passed(i)' = Passed(i)
            <4>1. \A u \in P!UnitsOf(streams[i]) : file[u].at < pos /\ file[u].at < have
                BY <1>2, UnitsAreOwed
            <4> QED BY <4>1, <3>2, <2>1, <2>6 DEF Passed
        <3> QED BY <3>1, <3>3, <3>4, <2>4, Zenon
    <2>8. Delivering'
        <3>1. delivered' \in Seq(Pairs) /\ pending' \in Seq(Pairs) /\ flushed' = TRUE /\ stage' = "next"
              /\ phase' = "stream" /\ streams' = streams
            BY <1>4, <2>1, <2>2, <2>4
        <3>2. \A u \in Owed' : file'[u].at < pos'
            BY <1>2, <2>1, <2>6
        <3> QED BY <3>1, <3>2, <2>5, <2>7 DEF Delivering, Pairs
    <2>9. Searching' /\ Listing'
        BY <1>1, <1>4, <2>1, FoundStays DEF Searching, Listing
    <2>10. WalkTypes'
        BY <1>1, <1>4, <2>1, <2>6 DEF WalkTypes
    <2> QED BY <2>8, <2>9, <2>10 DEF WalkInvariant
<1>5. phase \in {"discover", "stream"}
    BY DEF P!NoMore
<1> QED BY <1>3, <1>4, <1>5

------------------------------------------------------------------------------
(* Before the first read nothing is known, and nothing passed.             *)
LEMMA WalkBegins == P!PsInit => WalkInvariant
<1> SUFFICES ASSUME P!PsInit PROVE WalkInvariant
    OBVIOUS
<1>1. FileOK
    BY FilesAreOK
<1>2. /\ pos = 0 /\ base = 0 /\ have = 0 /\ eof = FALSE /\ stage = "open" /\ phase = "discover"
      /\ before = 0 /\ consumed = 0 /\ order = << >> /\ streams = << >>
      /\ held = [k \in DOMAIN Class |-> P!NoUnit]
      /\ pending = << >> /\ flushed = FALSE /\ delivered = << >>
    BY DEF P!PsInit
<1>3. << >> \in Seq(DOMAIN Class) /\ Once(<< >>)
    BY DEF Once
<1>4. WalkTypes
    <2>1. have <= length
        BY <1>1, <1>2 DEF FileOK
    <2>2. pos \in Nat /\ base \in Nat /\ have \in Nat /\ before \in Int /\ consumed \in Nat
        BY <1>2
    <2>4. eof \in BOOLEAN /\ ~eof
        BY <1>2, Zenon
    <2>3. /\ stage \in {"open", "find", "pack", "header", "body", "next", "none"}
          /\ phase \in {"discover", "stream", "ended", "empty", "refused"}
          /\ stage \notin {"pack", "header", "body", "next", "none"} /\ phase = "discover"
        BY <1>2
    <2> QED BY <1>1, <2>1, <2>2, <2>3, <2>4 DEF WalkTypes
<1>5. \A u \in Owed : ~ (file[u].at < pos)
    BY <1>1, <1>2 DEF Owed, FileOK
<1>6. Searching
    BY <1>2, <1>3, <1>5 DEF Searching
<1>7. Listing
    BY <1>2, <1>3 DEF Listing, P!StreamsFound
<1>8. Delivering
    BY <1>2 DEF Delivering
<1> QED BY <1>4, <1>6, <1>7, <1>8 DEF WalkInvariant

(* What the stages waited for stays there as more is read.                 *)
LEMMA StillThere == \A a, b, c \in Nat : a - b >= 6 /\ c >= a => c - b >= 6
    OBVIOUS

(* A start code that is not in sight begins at the last two bytes or       *)
(* behind.                                                                 *)
LEMMA BeyondSight ==
    \A a, b, c, d \in Nat : a > b /\ ~ (a + 3 <= d) /\ c + 3 <= d => ~ (a < b) /\ ~ (a < c)
    OBVIOUS

(* fill: bytes are added at the end, what is done with is dropped.         *)
LEMMA Fills ==
    ASSUME WalkInvariant, P!Fill PROVE WalkInvariant'
<1>1. WalkTypes /\ FileOK
    BY DEF WalkInvariant, WalkTypes
<1>2. /\ pos \in Nat /\ base \in Nat /\ have \in Nat /\ length \in Nat /\ have <= length
    BY <1>1 DEF WalkTypes, FileOK
<1>3. /\ base' = (IF pos > base /\ pos - base >= (have - base) \div 2 THEN pos ELSE base)
      /\ eof' = (have = length)
      /\ UNCHANGED <<file, length, pos, stage, phase, before, consumed, order, streams,
                     held, pending, flushed, delivered>>
    BY DEF P!Fill, P!findVars, P!outVars
<1>4. base' \in Nat /\ base' >= base
    <2>1. base' = base \/ (base' = pos /\ pos > base)
        <3> DEFINE enough == pos - base >= (have - base) \div 2
        <3>1. base' = IF pos > base /\ enough THEN pos ELSE base
            BY <1>3
        <3> HIDE DEF enough
        <3> QED BY <3>1
    <2> QED BY <2>1, <1>2
<1>5. have' \in Nat /\ have' >= have /\ have' <= length
    <2>1. PICK n \in Reads : have' = P!Min({have + n, length})
        BY DEF P!Fill
    <2>2. n \in Nat /\ have + n \in Nat
        BY <1>2, WalkAssumption DEF P!UnitAssumption
    <2>3. P!Min({have + n, length}) = IF have + n <= length THEN have + n ELSE length
        BY <2>2, <1>2, LesserIs
    <2> QED BY <2>1, <2>2, <2>3, <1>2
<1>6. Searching' /\ Listing' /\ Delivering'
    BY <1>2, <1>3, <1>4, Walks
<1>7. WalkTypes'
    <2>1. FileOK' /\ (P!AtCode => P!AtCode') /\ P!Here' = P!Here
        BY <1>1, <1>3, OwedStays DEF P!AtCode, P!Here
    <2>2. (eof \in BOOLEAN)' /\ (eof => have = length)'
        <3>1. CASE have = length
            BY <3>1, <1>2, <1>3, <1>5
        <3>2. CASE have # length
            BY <3>2, <1>3
        <3> QED BY <3>1, <3>2
    <2>3. stage = "body" => have' - pos >= 6
        <3>1. stage = "body" => have - pos >= 6
            BY <1>1 DEF WalkTypes
        <3>2. CASE stage = "body"
            <4>1. have - pos >= 6
                BY <3>1, <3>2
            <4>2. have' \in Nat /\ have \in Nat /\ pos \in Nat /\ have' >= have
                BY <1>2, <1>5
            <4> QED BY <4>1, <4>2, StillThere
        <3> QED BY <3>2
    <2> QED BY <1>1, <1>3, <1>4, <1>5, <2>1, <2>2, <2>3 DEF WalkTypes
<1> QED BY <1>6, <1>7 DEF WalkInvariant

(* Steps that only ask for the next bytes.                                 *)
LEMMA Asks ==
    ASSUME WalkInvariant, stage \notin {"next", "none"}, stage' \in {"find", "pack", "header", "body"},
           UNCHANGED <<file, length, pos, base, have, eof, phase, before, consumed, order, streams,
                       held, pending, flushed, delivered>>,
           stage' \in {"pack", "header", "body"} => P!AtCode,
           stage' = "pack" => file[P!Here].kind \in {"pack", "mpeg1"},
           stage' = "body" => have - pos >= 6
    PROVE  WalkInvariant'
<1>1. WalkTypes /\ FileOK /\ phase \in {"discover", "stream"} /\ pos \in Nat /\ base \in Nat
    BY DEF WalkInvariant, WalkTypes
<1>2. Searching' /\ Listing' /\ Delivering'
    <2>1. pos' >= pos /\ pos' \in Nat /\ base' >= base /\ base' \in Nat
        BY <1>1
    <2> QED BY <2>1, Walks
<1>3. FileOK' /\ P!AtCode' = P!AtCode /\ P!Here' = P!Here
    BY <1>1, OwedStays DEF P!AtCode, P!Here
<1>4. WalkTypes'
    BY <1>1, <1>3 DEF WalkTypes
<1> QED BY <1>2, <1>4 DEF WalkInvariant

(* The hunt stops in front of the next start code, or where one may begin. *)
LEMMA Hunts ==
    ASSUME WalkInvariant, P!Hunt PROVE WalkInvariant'
<1>1. WalkTypes /\ FileOK /\ phase \in {"discover", "stream"} /\ pos \in Nat /\ base \in Nat /\ have \in Nat
    BY DEF WalkInvariant, WalkTypes, P!Hunt
<1> DEFINE seen == {v \in P!Marked : file[v].at > pos /\ file[v].at + 3 <= have}
           next == {file[u].at : u \in seen}
<1>2. /\ stage = "find" /\ have - pos >= 4 /\ ~P!AtCode
      /\ pos' = (IF next = {} THEN have - 2 ELSE P!Min(next))
      /\ UNCHANGED <<file, length, base, have, eof, stage, phase, before, consumed, order, streams,
                     held, pending, flushed, delivered>>
    BY DEF P!Hunt, P!findVars, P!outVars
<1>3. \A v \in P!Marked : file[v].at \in Nat /\ file[v].at # pos
    BY <1>1, <1>2, MarkedAre DEF P!AtCode
<1>4. \A v \in P!Marked : file[v].at > pos /\ file[v].at + 3 <= have => file[v].at \in next
    OBVIOUS
<1>5. next \subseteq Nat /\ \A a \in next : a > pos
    BY <1>3
<1> HIDE DEF next
<1>6. /\ pos' \in Nat /\ pos' > pos
      /\ \A v \in P!Marked : file[v].at < pos' <=> file[v].at < pos
    <2>1. CASE next = {}
        <3>1. pos' = have - 2
            BY <2>1, <1>2
        <3>2. \A v \in P!Marked : ~ (file[v].at > pos /\ file[v].at + 3 <= have)
            BY <2>1, <1>4
        <3>3. pos' \in Nat /\ pos' > pos
            BY <3>1, <1>1, <1>2
        <3>4. ASSUME NEW v \in P!Marked PROVE file[v].at < pos' <=> file[v].at < pos
            <4>1. file[v].at \in Nat /\ file[v].at # pos /\ ~ (file[v].at > pos /\ file[v].at + 3 <= have)
                BY <3>2, <1>3
            <4> QED BY <4>1, <3>1, <3>3, <1>1
        <3> QED BY <3>3, <3>4
    <2>2. CASE next # {}
        <3>1. pos' = P!Min(next)
            BY <2>2, <1>2
        <3>2. pos' \in next /\ \A a \in next : pos' <= a
            BY <2>2, <3>1, <1>5, LeastIs
        <3>3. pos' \in Nat /\ pos' > pos
            BY <3>2, <1>5
        <3>4. pos' + 3 <= have
            <4>1. \A a \in next : a + 3 <= have
                BY DEF next
            <4> QED BY <4>1, <3>2
        <3>5. ASSUME NEW v \in P!Marked PROVE file[v].at < pos' <=> file[v].at < pos
            <4>1. file[v].at \in Nat /\ file[v].at # pos
                BY <1>3
            <4>2. CASE file[v].at > pos /\ file[v].at + 3 <= have
                <5>1. pos' <= file[v].at
                    BY <4>2, <3>2, <1>4
                <5> QED BY <5>1, <4>1, <4>2, <3>3, <1>1
            <4>3. CASE ~ (file[v].at > pos)
                BY <4>1, <4>3, <3>3, <1>1
            <4>4. CASE file[v].at > pos /\ ~ (file[v].at + 3 <= have)
                <5> DEFINE a == file[v].at
                <5>1. a \in Nat /\ a > pos /\ ~ (a + 3 <= have)
                    BY <4>1, <4>4
                <5> HIDE DEF a
                <5>2. ~ (a < pos) /\ ~ (a < pos')
                    <6>1. pos \in Nat /\ pos' \in Nat /\ have \in Nat /\ pos' > pos /\ pos' + 3 <= have
                        BY <3>3, <3>4, <1>1
                    <6> QED BY <5>1, <6>1, BeyondSight
                <5> QED BY <5>2 DEF a
            <4> QED BY <4>2, <4>3, <4>4
        <3> QED BY <3>3, <3>5
    <2> QED BY <2>1, <2>2
<1>7. Searching' /\ Listing' /\ Delivering'
    <2>1. pos' >= pos /\ pos' \in Nat /\ base' >= base /\ base' \in Nat
        BY <1>1, <1>2, <1>6
    <2>2. \A u \in Owed : file[u].at < pos' <=> file[u].at < pos
        BY <1>6, OwedAreMarked
    <2> QED BY <2>1, <2>2, <1>2, Walks
<1>8. WalkTypes'
    <2>1. FileOK'
        BY <1>1, <1>2, OwedStays
    <2> QED BY <2>1, <1>1, <1>2, <1>6 DEF WalkTypes
<1> QED BY <1>7, <1>8 DEF WalkInvariant

(* The unit at pos when its kind is known.                                 *)
LEMMA UnitsHere ==
    ASSUME FileOK, P!AtCode
    PROVE  /\ P!Here \in DOMAIN file /\ file[P!Here].at = pos /\ file[P!Here].kind \in DOMAIN P!Least
           /\ file[P!Here].size \in Nat /\ file[P!Here].size >= P!Least[file[P!Here].kind]
           /\ file[P!Here].kind # "garbage"
<1>1. P!Here \in P!Marked /\ file[P!Here].at = pos
    BY HereIs
<1> QED BY <1>1 DEF P!Marked, FileOK, Sized

(* Every step of the walk keeps the invariant.                             *)
LEMMA WalkContinues == WalkInvariant /\ P!PsNext => WalkInvariant'
<1> SUFFICES ASSUME WalkInvariant, P!PsNext PROVE WalkInvariant'
    OBVIOUS
<1>1. /\ WalkTypes /\ FileOK /\ pos \in Nat /\ have \in Nat /\ length \in Nat
      /\ have <= length /\ (eof => have = length)
    BY DEF WalkInvariant, WalkTypes, FileOK
<1>2. stage # "none" => phase \in {"discover", "stream"}
    BY <1>1 DEF WalkTypes
<1> DEFINE h == P!Here
<1>3. CASE P!Fill
    BY <1>3, Fills
<1>4. CASE P!Open
    <2>1. stage = "open" /\ phase = "discover"
        BY <1>1, <1>4 DEF P!Open, WalkTypes
    <2>2. CASE have >= 5
        <3>1. /\ stage' = "find"
              /\ UNCHANGED <<file, length, pos, base, have, eof, phase, before, consumed, order, streams,
                             held, pending, flushed, delivered>>
            BY <2>2, <1>4 DEF P!Open, P!bufVars, P!findVars, P!outVars
        <3> QED BY <2>1, <3>1, Asks
    <2>3. CASE ~ (have >= 5)
        <3>1. /\ stage' = "none" /\ phase' = "refused"
              /\ UNCHANGED <<file, length, pos, base, have, eof, before, consumed, order, streams,
                             held, pending, flushed, delivered>>
            BY <2>3, <1>4 DEF P!Open, P!bufVars, P!findVars, P!outVars
        <3>2. WalkTypes'
            BY <1>1, <3>1, OwedStays DEF WalkTypes
        <3>3. Listing'
            BY <2>1, <3>1, FoundStays DEF WalkInvariant, Listing
        <3> QED BY <3>1, <3>2, <3>3 DEF WalkInvariant, Searching, Delivering
    <2> QED BY <2>2, <2>3
<1>5. CASE P!Hunt
    BY <1>5, Hunts
<1>6. CASE P!OutOfBytes
    <2>1. /\ P!Ready /\ P!NoMore /\ UNCHANGED <<file, length>>
          /\ \/ stage = "find" /\ have - pos < 4
             \/ stage = "header" /\ have - pos < 6
        BY <1>6 DEF P!OutOfBytes
    <2>2. eof /\ have - pos < 6 /\ stage \in {"find", "header"}
        BY <2>1, <1>1 DEF P!Ready, P!Want
    <2> QED BY <2>1, <2>2, RunsOut
<1>7. CASE P!Found
    <2>1. stage = "find" /\ have - pos >= 4 /\ P!AtCode /\ UNCHANGED <<file, length>>
        BY <1>7 DEF P!Found
    <2>2. file[h].kind \in DOMAIN P!Least /\ file[h].size \in Nat /\ file[h].size >= P!Least[file[h].kind]
        BY <1>1, <2>1, UnitsHere
    <2>3. CASE file[h].kind \in {"pack", "mpeg1"} /\ stage' = "pack"
               /\ UNCHANGED <<P!bufVars, phase, P!findVars, streams, P!outVars>>
        BY <2>1, <2>3, Asks DEF P!bufVars, P!findVars, P!outVars
    <2>4. CASE file[h].kind \in {"system", "map", "pes", "unbounded"} /\ stage' = "header"
               /\ UNCHANGED <<P!bufVars, phase, P!findVars, streams, P!outVars>>
        BY <2>1, <2>4, Asks DEF P!bufVars, P!findVars, P!outVars
    <2>5. CASE file[h].kind = "end" /\ P!Nothing(pos + 4)
        <3>1. h \notin Owed /\ pos + 4 \in Nat /\ pos < pos + 4 /\ pos + 4 <= pos + file[h].size
            BY <2>2, <2>5, <1>1, KindsAre DEF Owed
        <3> QED BY <2>1, <2>5, <3>1, PassesOver
    <2>6. CASE file[h].kind = "stray" /\ P!Nothing(pos + 3)
        <3>1. h \notin Owed /\ pos + 3 \in Nat /\ pos < pos + 3 /\ pos + 3 <= pos + file[h].size
            BY <2>2, <2>6, <1>1, KindsAre DEF Owed
        <3> QED BY <2>1, <2>6, <3>1, PassesOver
    <2> QED BY <2>3, <2>4, <2>5, <2>6, <1>7 DEF P!Found
<1>8. CASE P!Pack
    <2> DEFINE p == IF have - pos < 14 \/ file[h].kind = "mpeg1" THEN pos + 4 ELSE pos + file[h].size
    <2>1. stage = "pack" /\ P!Nothing(p) /\ UNCHANGED <<file, length>>
        BY <1>8 DEF P!Pack
    <2>2. P!AtCode /\ file[h].kind \in {"pack", "mpeg1"}
        BY <2>1, <1>1 DEF WalkTypes
    <2>3. file[h].size \in Nat /\ file[h].size >= 4
        BY <2>2, <1>1, UnitsHere, KindsAre
    <2>4. h \notin Owed
        BY <2>2 DEF Owed
    <2> HIDE DEF h
    <2>5. p \in Nat /\ pos < p /\ p <= pos + file[h].size
        BY <2>3, <1>1
    <2> HIDE DEF p
    <2> QED BY <2>1, <2>2, <2>4, <2>5, PassesOver DEF h
<1>9. CASE P!Header
    <2>1. stage = "header" /\ have - pos >= 6 /\ UNCHANGED <<file, length>>
        BY <1>9 DEF P!Header
    <2>2. P!AtCode
        BY <2>1, <1>1 DEF WalkTypes
    <2>3. CASE file[h].kind = "unbounded"
        <3>1. P!Nothing(pos + 4)
            BY <2>3, <1>9 DEF P!Header
        <3>2. file[h].size \in Nat /\ file[h].size >= 6
            BY <2>2, <2>3, <1>1, UnitsHere, KindsAre
        <3>3. h \notin Owed /\ pos + 4 \in Nat /\ pos < pos + 4 /\ pos + 4 <= pos + file[h].size
            BY <2>3, <3>2, <1>1 DEF Owed
        <3> QED BY <2>1, <2>2, <3>1, <3>3, PassesOver
    <2>4. CASE file[h].kind # "unbounded"
        <3>1. /\ stage' = "body"
              /\ UNCHANGED <<pos, base, have, eof, phase, before, consumed, order, streams,
                             held, pending, flushed, delivered>>
            BY <2>4, <1>9 DEF P!Header, P!bufVars, P!findVars, P!outVars
        <3> QED BY <2>1, <2>2, <3>1, Asks
    <2> QED BY <2>3, <2>4
<1>10. CASE P!Body
    <2>1. stage = "body" /\ P!Ready /\ UNCHANGED <<file, length>>
        BY <1>10 DEF P!Body
    <2>2. P!AtCode /\ have - pos >= 6 /\ phase \in {"discover", "stream"}
        BY <2>1, <1>1 DEF WalkTypes
    <2>3. /\ h \in DOMAIN file /\ file[h].at = pos /\ file[h].size \in Nat /\ file[h].size >= 3
          /\ file[h].kind = "pes" => file[h].size >= 9
        BY <2>2, <1>1, UnitsHere, KindsAre
    <2> DEFINE p == P!Min({pos + P!Want, have})
    <2>4. P!Want = file[h].size
        BY <2>1 DEF P!Want
    <2>5. p = (IF pos + file[h].size <= have THEN pos + file[h].size ELSE have) /\ p \in Nat
        <3>1. pos + file[h].size \in Nat
            BY <2>3, <1>1
        <3> QED BY <3>1, <2>4, <1>1, LesserIs
    <2>6. IF file[h].kind = "pes" /\ p - pos >= 9 THEN P!Pes(h, p) ELSE P!Nothing(p)
        BY <1>10 DEF P!Body
    <2>7. p = pos + file[h].size \/ (p = have /\ eof)
        <3>1. have - pos >= file[h].size \/ eof
            BY <2>1, <2>4 DEF P!Ready
        <3>2. CASE pos + file[h].size <= have
            BY <3>2, <2>5
        <3>3. CASE ~ (pos + file[h].size <= have)
            <4>1. ~ (have - pos >= file[h].size)
                <5> HIDE DEF h, p
                <5> QED BY <3>3, <2>3, <1>1
            <4> QED BY <4>1, <3>1, <3>3, <2>5
        <3> QED BY <3>2, <3>3
    <2> HIDE DEF p
    <2>8. pos < p /\ p <= pos + file[h].size
        <3> HIDE DEF h
        <3> QED BY <2>2, <2>3, <2>5, <1>1
    <2>9. CASE file[h].kind = "pes" /\ p - pos >= 9
        <3>1. h \in Owed
            <4>1. p <= length
                <5> HIDE DEF h
                <5> QED BY <2>3, <2>5, <1>1
            <4>2. file[h].at + 9 <= length
                <5> HIDE DEF h
                <5> QED BY <4>1, <2>3, <2>5, <2>9, <1>1
            <4> QED BY <4>2, <2>3, <2>9 DEF Owed
        <3>2. P!Pes(h, p)
            BY <2>6, <2>9
        <3>3. CASE phase = "discover"
            BY <3>2, <3>3, <2>1, <2>2, <2>5, <2>8, <2>9, PacketSeen
        <3>4. CASE phase = "stream"
            BY <3>1, <3>2, <3>4, <2>1, <2>2, <2>5, <2>8, PacketHandled
        <3> QED BY <3>3, <3>4, <2>2
    <2>10. CASE ~ (file[h].kind = "pes" /\ p - pos >= 9)
        <3>1. h \notin Owed
            <4>1. CASE file[h].kind # "pes"
                BY <4>1 DEF Owed
            <4>2. CASE file[h].kind = "pes" /\ ~ (p - pos >= 9)
                <5>1. ~ (file[h].at + 9 <= length)
                    <6> HIDE DEF h
                    <6> QED BY <4>2, <2>3, <2>5, <2>7, <1>1
                <5> QED BY <5>1 DEF Owed
            <4> QED BY <4>1, <4>2, <2>10
        <3>2. P!Nothing(p)
            BY <2>6, <2>10
        <3> QED BY <3>1, <3>2, <2>1, <2>2, <2>5, <2>8, PassesOver
    <2> QED BY <2>9, <2>10
<1>11. CASE P!NextPacket
    <2>1. /\ stage = "next" /\ UNCHANGED <<file, length, pos, base, have, eof, before, consumed, order, streams>>
        BY <1>11 DEF P!NextPacket, P!bufVars, P!findVars
    <2>2. phase = "stream"
        BY <2>1, <1>1 DEF WalkTypes
    <2>3. Listing /\ Delivering /\ FileOK'
        BY <2>1, <1>1, OwedStays DEF WalkInvariant
    <2>4. CASE pending # << >>
        <3>1. /\ delivered' = Append(delivered, Head(pending)) /\ pending' = Tail(pending)
              /\ UNCHANGED <<stage, phase, held, flushed>>
            BY <2>4, <1>11 DEF P!NextPacket
        <3>2. delivered \in Seq(Pairs) /\ pending \in Seq(Pairs)
            BY <2>2, <2>3 DEF Delivering, Pairs
        <3>3. delivered' \in Seq(Pairs) /\ pending' \in Seq(Pairs) /\ P!Packets' = P!Packets
            BY <2>4, <3>1, <3>2, HeadMoved DEF P!Packets
        <3>4. ASSUME NEW i \in DOMAIN streams PROVE Sound(P!Packets', i, P!Waits(i)', Passed(i)')
            <4>1. P!Waits(i)' = P!Waits(i) /\ Passed(i)' = Passed(i)
                BY <2>1, <3>1, OwedStays DEF P!Waits, Passed
            <4>2. Sound(P!Packets, i, P!Waits(i), Passed(i))
                BY <2>2, <2>3 DEF Delivering
            <4> QED BY <4>1, <4>2, <3>3, Zenon
        <3>5. Delivering'
            <4>1. Owed' = Owed
                BY <2>1, OwedStays
            <4> QED BY <2>1, <2>2, <2>3, <3>1, <3>3, <3>4, <4>1 DEF Delivering, Pairs
        <3>6. Listing' /\ Searching'
            BY <2>1, <2>2, <2>3, <3>1, FoundStays DEF Listing, Searching
        <3>7. WalkTypes'
            BY <2>1, <2>2, <2>3, <3>1, <1>1 DEF WalkTypes
        <3> QED BY <3>5, <3>6, <3>7 DEF WalkInvariant
    <2>5. CASE pending = << >>
        <3>1. /\ stage' = (IF flushed THEN "none" ELSE "find")
              /\ phase' = (IF flushed THEN "ended" ELSE phase)
              /\ UNCHANGED <<held, pending, flushed, delivered>>
            BY <2>5, <1>11 DEF P!NextPacket, P!outVars
        <3>2. ASSUME NEW i \in DOMAIN streams PROVE Sound(P!Packets', i, P!Waits(i)', Passed(i)')
            <4>1. P!Waits(i)' = P!Waits(i) /\ Passed(i)' = Passed(i) /\ P!Packets' = P!Packets
                BY <2>1, <3>1, OwedStays DEF P!Waits, Passed, P!Packets
            <4>2. Sound(P!Packets, i, P!Waits(i), Passed(i))
                BY <2>2, <2>3 DEF Delivering
            <4> QED BY <4>1, <4>2, Zenon
        <3>3. Delivering'
            <4>1. Owed' = Owed
                BY <2>1, OwedStays
            <4> QED BY <2>1, <2>2, <2>3, <3>1, <3>2, <4>1 DEF Delivering
        <3>4. Listing' /\ Searching'
            BY <2>1, <2>2, <2>3, <3>1, FoundStays DEF Listing, Searching
        <3>5. WalkTypes'
            BY <2>1, <2>2, <2>3, <3>1, <1>1 DEF WalkTypes
        <3> QED BY <3>3, <3>4, <3>5 DEF WalkInvariant
    <2> QED BY <2>4, <2>5
<1> QED BY <1>3, <1>4, <1>5, <1>6, <1>7, <1>8, <1>9, <1>10, <1>11 DEF P!PsNext

(* So does a step of the other machines, which leave the walk alone.       *)
LEMMA WalkStays ==
    ASSUME WalkInvariant, UNCHANGED walkVars PROVE WalkInvariant'
<1>1. UNCHANGED <<file, length, pos, base, have, eof, stage, phase, before, consumed, order, streams,
                  held, pending, flushed, delivered>>
    BY DEF walkVars
<1>2. WalkTypes /\ FileOK /\ pos \in Nat /\ base \in Nat
    BY DEF WalkInvariant, WalkTypes
<1>3. Searching' /\ Listing' /\ Delivering'
    <2>1. pos' >= pos /\ pos' \in Nat /\ base' >= base /\ base' \in Nat
        BY <1>1, <1>2
    <2>2. \A u \in Owed : file[u].at < pos' <=> file[u].at < pos
        BY <1>1
    <2>3. stage \in {"next", "none"} => stage' \in {"next", "none"}
        BY <1>1
    <2> QED BY <2>1, <2>2, <2>3, <1>1, Walks
<1>4. FileOK' /\ P!AtCode' = P!AtCode /\ P!Here' = P!Here
    BY <1>1, <1>2, OwedStays DEF P!AtCode, P!Here
<1>5. WalkTypes'
    BY <1>1, <1>2, <1>4 DEF WalkTypes
<1> QED BY <1>3, <1>5 DEF WalkInvariant

(* What the invariant says of the packets is what the run checks.          *)
LEMMA WalkShows == WalkInvariant => P!PacketsInOrder
<1> SUFFICES ASSUME WalkInvariant PROVE P!PacketsInOrder
    OBVIOUS
<1>1. WalkTypes /\ Listing /\ Delivering /\ FileOK
    BY DEF WalkInvariant, WalkTypes
<1>2. CASE phase \notin {"stream", "ended"}
    <2>1. streams = << >> /\ DOMAIN << >> = {}
        BY <1>1, <1>2 DEF Listing
    <2> QED BY <2>1 DEF P!PacketsInOrder
<1>3. CASE phase \in {"stream", "ended"}
    <2> SUFFICES ASSUME NEW i \in DOMAIN streams
                 PROVE  /\ \A q, r \in P!Mine(i) : q < r => P!Packets[q][2] < P!Packets[r][2]
                        /\ \A q \in P!Mine(i), u \in P!Waits(i) : P!Packets[q][2] < u
                        /\ P!Got(i) \subseteq P!UnitsOf(streams[i])
                        /\ \A u \in P!Got(i), v \in P!UnitsOf(streams[i]) : v < u => v \in P!Got(i)
                        /\ phase = "ended" => P!Waits(i) = {} /\ P!Got(i) = P!UnitsOf(streams[i])
        BY DEF P!PacketsInOrder
    <2>1. Sound(P!Packets, i, P!Waits(i), Passed(i))
        BY <1>1, <1>3 DEF Delivering
    <2>2. Those(P!Packets, i) = P!Mine(i)
        BY DEF Those, P!Mine
    <2>3. P!Got(i) = Passed(i)
        BY <2>1, <2>2 DEF Sound, P!Got
    <2>4. (\A q, r \in P!Mine(i) : q < r => P!Packets[q][2] < P!Packets[r][2])
          /\ \A q \in P!Mine(i), u \in P!Waits(i) : P!Packets[q][2] < u
        BY <2>1, <2>2 DEF Sound
    <2>5. P!Got(i) \subseteq P!UnitsOf(streams[i])
        BY <2>3 DEF Passed
    <2>6. ASSUME NEW u \in P!Got(i), NEW v \in P!UnitsOf(streams[i]), v < u PROVE v \in P!Got(i)
        <3>1. u \in P!UnitsOf(streams[i]) /\ file[u].at < pos
            BY <2>3 DEF Passed
        <3>2. u \in P!Marked /\ v \in P!Marked
            BY <3>1 DEF P!UnitsOf, P!Marked
        <3>3. file[v].at < file[u].at /\ file[u].at \in Nat /\ file[v].at \in Nat /\ pos \in Nat
            BY <3>2, <2>6, <1>1, MarkedAre DEF WalkTypes
        <3>4. file[v].at < pos
            <4> DEFINE a == file[u].at
                       b == file[v].at
            <4>1. a \in Nat /\ b \in Nat /\ pos \in Nat /\ b < a /\ a < pos
                BY <3>1, <3>3
            <4> HIDE DEF a, b
            <4>2. b < pos
                BY <4>1
            <4> QED BY <4>2 DEF b
        <3> QED BY <3>4, <2>3 DEF Passed
    <2>7. ASSUME phase = "ended" PROVE P!Waits(i) = {} /\ P!Got(i) = P!UnitsOf(streams[i])
        <3>1. /\ \A u \in Owed : file[u].at < pos
              /\ \A k \in DOMAIN Class : held[k] = P!NoUnit
              /\ streams[i] \in DOMAIN Class
            BY <2>7, <1>1 DEF Delivering, Listing
        <3>2. P!Waits(i) = {}
            BY <3>1 DEF P!Waits
        <3>3. Passed(i) = P!UnitsOf(streams[i])
            BY <3>1, UnitsAreOwed DEF Passed
        <3> QED BY <3>2, <3>3, <2>3
    <2> QED BY <2>4, <2>5, <2>6, <2>7
<1> QED BY <1>2, <1>3

WalkHolds == machine = "walk" => WalkInvariant

(* The invariant holds of Reframing while the walk runs.                   *)
LEMMA MachineWalks == (Init => WalkHolds) /\ (WalkHolds /\ [Next]_vars => WalkHolds')
<1>1. ASSUME Init PROVE WalkHolds
    BY <1>1, WalkBegins DEF Init, WalkHolds
<1>2. ASSUME WalkHolds, [Next]_vars PROVE WalkHolds'
    <2>1. CASE Walk
        BY <1>2, <2>1, WalkContinues DEF Walk, WalkHolds
    <2>2. CASE Video
        <3>1. machine = "video" /\ machine' = machine
            BY <2>2 DEF Video
        <3> QED BY <3>1 DEF WalkHolds
    <2>3. CASE Audio
        <3>1. machine = "audio" /\ machine' = machine
            BY <2>3 DEF Audio
        <3> QED BY <3>1 DEF WalkHolds
    <2>4. CASE UNCHANGED vars
        <3>1. machine' = machine /\ UNCHANGED walkVars
            BY <2>4 DEF vars
        <3> QED BY <3>1, <1>2, WalkStays DEF WalkHolds
    <2> QED BY <1>2, <2>1, <2>2, <2>3, <2>4 DEF Next
<1> QED BY <1>1, <1>2

(* For files of any units, cut off anywhere, and reads of any sizes: the   *)
(* packets of a stream that is listed are delivered in their order, each   *)
(* once and none skipped, and at the end they have all been, those of the  *)
(* splitters included (ps.rs: next_unit, handle_pes, flush_all).           *)
THEOREM WalkDelivers == Spec => []PacketsInOrder
<1>1. WalkHolds => PacketsInOrder
    BY WalkShows DEF WalkHolds, PacketsInOrder
<1> QED BY <1>1, MachineWalks, PTL DEF Spec

(* For the same files: every stream that shows in the bytes the first pass *)
(* reads is listed, video before audio before the rest (ps.rs: discover).  *)
THEOREM WalkDiscovers == Spec => []StreamsFound
<1>1. WalkHolds => StreamsFound
    BY DEF WalkHolds, StreamsFound, WalkInvariant, Listing
<1> QED BY <1>1, MachineWalks, PTL DEF Spec

------------------------------------------------------------------------------
(* The buffer.                                                             *)
Unstuffed == \A u \in Kinds : u.kind = "pack" => u.size = 14
Within ==
    /\ \A u \in DOMAIN file : file[u].kind = "pack" => file[u].size = 14
    /\ pos <= have
    /\ stage \in {"pack", "header", "body"} => have - pos >= 4

(* Sums and differences the steps below come to.                           *)
LEMMA FourAhead == \A a, b \in Nat : b - a >= 4 => a + 4 <= b /\ a + 3 <= b
    OBVIOUS

LEMMA ShortOf == \A a, b \in Nat : a + 3 <= b => a <= b
    OBVIOUS

LEMMA MoreOfIt == \A a, b, c \in Nat : a <= b /\ b <= c => a <= c /\ (b - a >= 4 => c - a >= 4)
    OBVIOUS

(* The walk begins within the buffer.                                      *)
LEMMA WithinBegins == ASSUME Unstuffed, P!PsInit PROVE Within
<1>1. PICK rest \in [1 .. Units -> Kinds] : file = P!Placed(<<P!FirstPack>> \o rest)
    BY DEF P!PsInit
<1> DEFINE T     == Kinds \cup {P!FirstPack}
           units == <<P!FirstPack>> \o rest
<1>2. units \in Seq(T)
    <2>1. Units \in Nat
        BY WalkAssumption DEF P!UnitAssumption
    <2>2. rest \in Seq(T) /\ <<P!FirstPack>> \in Seq(T)
        BY <2>1
    <2> QED BY <2>2, Joined
<1>3. \A u \in T : u.kind = "pack" => u.size = 14
    BY DEF Unstuffed, P!FirstPack
<1>4. file = P!Placed(units)
    BY <1>1
<1> HIDE DEF T, units
<1>5. ASSUME NEW u \in DOMAIN file, file[u].kind = "pack" PROVE file[u].size = 14
    <2>1. u \in DOMAIN units /\ file[u].kind = units[u].kind /\ file[u].size = units[u].size
        BY <1>4 DEF P!Placed
    <2>2. units[u] \in T
        BY <2>1, <1>2
    <2> QED BY <2>1, <2>2, <1>3, <1>5
<1>6. pos = 0 /\ have = 0 /\ stage = "open"
    BY DEF P!PsInit
<1>7. pos <= have
    BY <1>6
<1> QED BY <1>5, <1>6, <1>7 DEF Within

(* What becomes of a unit that ends within the buffer stays within it.     *)
LEMMA WithinPassed ==
    ASSUME Within, NEW p \in Nat, p <= have, P!Nothing(p) \/ \E u : P!Pes(u, p), UNCHANGED file
    PROVE  Within'
<1>1. \/ pos' = p /\ stage' \in {"find", "next"} /\ have' = have
      \/ pos' = 0 /\ have' = 0 /\ stage' \in {"none", "next"}
    BY DEF P!Nothing, P!Pes, P!Discovered, P!Rewind
<1>2. pos' <= have'
    <2>1. CASE pos' = p /\ have' = have
        BY <2>1
    <2>2. CASE pos' = 0 /\ have' = 0
        BY <2>2
    <2> QED BY <2>1, <2>2, <1>1
<1> QED BY <1>1, <1>2 DEF Within

(* Every step of the walk stays within the buffer if no pack is stuffed.   *)
LEMMA WithinContinues ==
    ASSUME WalkInvariant, Within, P!PsNext PROVE Within'
<1>1. /\ WalkTypes /\ FileOK /\ pos \in Nat /\ have \in Nat /\ length \in Nat /\ have <= length
      /\ pos <= have
    BY DEF WalkInvariant, WalkTypes, FileOK, Within
<1>2. UNCHANGED <<file, length>>
    BY DEF P!PsNext, P!Fill, P!Open, P!Hunt, P!OutOfBytes, P!Found, P!Pack, P!Header, P!Body, P!NextPacket
<1> DEFINE h == P!Here
<1>3. CASE P!Fill
    <2>1. pos' = pos /\ stage' = stage
        BY <1>3 DEF P!Fill
    <2>2. PICK n \in Reads : have' = P!Min({have + n, length})
        BY <1>3 DEF P!Fill
    <2>3. n \in Nat /\ have + n \in Nat
        BY <1>1, WalkAssumption DEF P!UnitAssumption
    <2>4. P!Min({have + n, length}) \in Nat /\ P!Min({have + n, length}) = IF have + n <= length THEN have + n ELSE length
        BY <2>3, <1>1, LesserIs
    <2>5. have' \in Nat /\ have <= have'
        BY <2>2, <2>3, <2>4, <1>1
    <2>6. pos <= have' /\ (have - pos >= 4 => have' - pos >= 4)
        BY <2>5, <1>1, MoreOfIt
    <2> QED BY <2>1, <2>6, <1>2 DEF Within
<1>4. CASE P!Open
    <2>1. pos' = pos /\ have' = have /\ stage' \in {"find", "none"}
        BY <1>4 DEF P!Open, P!bufVars
    <2> QED BY <2>1, <1>2 DEF Within
<1>5. CASE P!Hunt
    <2> DEFINE next == {file[u].at : u \in {v \in P!Marked : file[v].at > pos /\ file[v].at + 3 <= have}}
    <2>1. have' = have /\ stage' = "find" /\ have - pos >= 4 /\ pos' = (IF next = {} THEN have - 2 ELSE P!Min(next))
        BY <1>5 DEF P!Hunt
    <2>2. next \subseteq Nat /\ \A a \in next : a \in Nat /\ a + 3 <= have
        BY <1>1, MarkedAre
    <2> HIDE DEF next
    <2>3. pos' <= have
        <3>1. CASE next = {}
            BY <3>1, <2>1, <1>1
        <3>2. CASE next # {}
            <4>1. pos' \in next
                BY <3>2, <2>1, <2>2, LeastIs
            <4>2. pos' \in Nat /\ pos' + 3 <= have
                BY <4>1, <2>2
            <4> QED BY <4>2, <1>1, ShortOf
        <3> QED BY <3>1, <3>2
    <2> QED BY <2>1, <2>3, <1>2 DEF Within
<1>6. CASE P!OutOfBytes
    <2>1. \/ pos' = have /\ have' = have /\ stage' = "next"
          \/ pos' = 0 /\ have' = 0 /\ stage' \in {"none", "next"}
        BY <1>6 DEF P!OutOfBytes, P!NoMore, P!Rewind
    <2>2. pos' <= have'
        <3>1. CASE pos' = have /\ have' = have
            BY <3>1, <1>1
        <3>2. CASE pos' = 0 /\ have' = 0
            BY <3>2
        <3> QED BY <3>1, <3>2, <2>1
    <2> QED BY <2>1, <2>2, <1>2 DEF Within
<1>7. CASE P!Found
    <2>1. stage = "find" /\ have - pos >= 4 /\ P!AtCode
        BY <1>7 DEF P!Found
    <2>2. CASE pos' = pos /\ have' = have /\ stage' \in {"pack", "header"}
        BY <2>1, <2>2, <1>2 DEF Within
    <2>3. CASE P!Nothing(pos + 4) \/ P!Nothing(pos + 3)
        <3>1. pos + 4 \in Nat /\ pos + 3 \in Nat /\ pos + 4 <= have /\ pos + 3 <= have
            BY <2>1, <1>1, FourAhead
        <3> QED BY <2>3, <3>1, <1>2, WithinPassed
    <2> QED BY <2>2, <2>3, <1>7 DEF P!Found, P!bufVars
<1>8. CASE P!Pack
    <2> DEFINE p == IF have - pos < 14 \/ file[h].kind = "mpeg1" THEN pos + 4 ELSE pos + file[h].size
    <2>1. stage = "pack" /\ P!Nothing(p)
        BY <1>8 DEF P!Pack
    <2>2. P!AtCode /\ file[h].kind \in {"pack", "mpeg1"} /\ have - pos >= 4
        BY <2>1, <1>1 DEF WalkTypes, Within
    <2>3. h \in DOMAIN file
        BY <2>2, <1>1, UnitsHere
    <2>4. file[h].kind # "mpeg1" => file[h].size = 14
        BY <2>2, <2>3 DEF Within
    <2>5. p \in Nat /\ p <= have
        <3>1. CASE have - pos < 14 \/ file[h].kind = "mpeg1"
            <4>1. p = pos + 4 /\ pos + 4 \in Nat
                BY <3>1, <1>1
            <4> QED BY <4>1, <2>2, <1>1, FourAhead
        <3>2. CASE ~ (have - pos < 14 \/ file[h].kind = "mpeg1")
            <4>1. p = pos + 14
                BY <3>2, <2>4
            <4>2. ~ (have - pos < 14)
                BY <3>2
            <4> HIDE DEF p
            <4> QED BY <4>1, <4>2, <1>1
        <3> QED BY <3>1, <3>2
    <2> HIDE DEF p
    <2> QED BY <2>1, <2>5, <1>2, WithinPassed
<1>9. CASE P!Header
    <2>1. stage = "header" /\ have - pos >= 4 /\ have' \in {have, 0}
        BY <1>9 DEF P!Header, Within, P!Nothing, P!Discovered, P!Rewind, P!bufVars
    <2>2. CASE pos' = pos /\ have' = have /\ stage' = "body"
        BY <2>1, <2>2, <1>2 DEF Within
    <2>3. CASE P!Nothing(pos + 4)
        <3>1. pos + 4 \in Nat /\ pos + 4 <= have
            BY <2>1, <1>1, FourAhead
        <3> QED BY <2>3, <3>1, <1>2, WithinPassed
    <2> QED BY <2>2, <2>3, <1>9 DEF P!Header, P!bufVars
<1>10. CASE P!Body
    <2> DEFINE p == P!Min({pos + P!Want, have})
    <2>1. stage = "body" /\ (P!Nothing(p) \/ \E u : P!Pes(u, p))
        BY <1>10 DEF P!Body
    <2>2. P!AtCode
        BY <2>1, <1>1 DEF WalkTypes
    <2>3. pos + P!Want \in Nat
        BY <2>1, <2>2, <1>1, UnitsHere DEF P!Want
    <2>4. p \in Nat /\ p <= have
        <3>1. p \in Nat /\ p = IF pos + P!Want <= have THEN pos + P!Want ELSE have
            BY <2>3, <1>1, LesserIs
        <3> HIDE DEF p
        <3> QED BY <3>1, <1>1
    <2> HIDE DEF p
    <2> QED BY <2>1, <2>4, <1>2, WithinPassed
<1>11. CASE P!NextPacket
    <2>1. pos' = pos /\ have' = have /\ stage' \in {"next", "none", "find"}
        BY <1>11 DEF P!NextPacket, P!bufVars
    <2> QED BY <2>1, <1>2 DEF Within
<1> QED BY <1>3, <1>4, <1>5, <1>6, <1>7, <1>8, <1>9, <1>10, <1>11 DEF P!PsNext

(* For the same files, as long as no pack header carries stuffing: the     *)
(* position never leaves the buffer, so that nothing is sliced that is not *)
(* there (ps.rs: fill, next_unit).  With stuffing it does (ps_stuffing).   *)
THEOREM UnstuffedStaysWithin == ASSUME Unstuffed PROVE Spec => []PosWithinBuffer
<1> DEFINE Holds == WalkHolds /\ (machine = "walk" => Within)
<1>1. Init => Holds
    BY MachineWalks, WithinBegins DEF Init
<1>2. ASSUME Holds, [Next]_vars PROVE Holds'
    <2>1. WalkHolds'
        BY <1>2, MachineWalks
    <2>2. CASE Walk
        BY <1>2, <2>1, <2>2, WithinContinues DEF Walk, WalkHolds
    <2>3. CASE UNCHANGED <<machine, walkVars>>
        <3>1. machine' = machine /\ (Within => Within')
            BY <2>3 DEF walkVars, Within
        <3> QED BY <3>1, <2>1, <1>2
    <2> QED BY <1>2, <2>2, <2>3 DEF Next, Video, Audio, vars
<1>3. Holds => PosWithinBuffer
    BY DEF PosWithinBuffer, P!PosWithinBuffer, Within
<1> QED BY <1>1, <1>2, <1>3, PTL DEF Spec

------------------------------------------------------------------------------
(* The start codes of a video stream, and where its units lie.             *)
CodeKinds == {"header", "picture", "slice", "other"}
Code      == [at : Nat, unit : Nat, zero : BOOLEAN, rest : Nat, kind : CodeKinds, intra : BOOLEAN]
ZeroOf(c) == IF c.zero THEN 1 ELSE 0
Whole(c)  == c.kind = "other" \/ c.rest >= 2

(* The start codes c of k units, the stream being next long: one behind    *)
(* the other, each unit with its first code and its one picture.           *)
StreamOK(c, k, next) ==
    /\ c \in Seq(Code) /\ next \in Nat
    /\ Len(c) = 0 => k = 0 /\ next = 0
    /\ Len(c) > 0 =>
           /\ k > 0 /\ c[1].unit = 1 /\ c[1].at = ZeroOf(c[1]) /\ V!StartsUnit(c[1])
           /\ c[Len(c)].unit = k /\ next = c[Len(c)].at + 4 + c[Len(c)].rest
    /\ \A i \in DOMAIN c : Whole(c[i]) /\ c[i].unit \in 1 .. k
    /\ \A i \in 2 .. Len(c) :
           /\ c[i].at = c[i - 1].at + 4 + c[i - 1].rest + ZeroOf(c[i])
           /\ \/ c[i].unit = c[i - 1].unit
              \/ c[i].unit = c[i - 1].unit + 1 /\ V!StartsUnit(c[i])
    /\ \A i, j \in DOMAIN c :
           i < j /\ c[i].unit = c[j].unit /\ V!HasPicture(c[i]) => ~V!StartsUnit(c[j])
    /\ \A u \in 1 .. k : \E i \in DOMAIN c : c[i].unit = u /\ V!HasPicture(c[i])

LEMMA ShapesAre ==
    ASSUME NEW s \in Shapes
    PROVE  /\ s \in Seq([kind : CodeKinds, intra : BOOLEAN, zero : BOOLEAN, rest : Nat])
           /\ Len(s) \in Nat /\ Len(s) > 0 /\ DOMAIN s = 1 .. Len(s) /\ V!StartsUnit(s[1])
           /\ \A i \in 1 .. Len(s) : /\ s[i] \in [kind : CodeKinds, intra : BOOLEAN,
                                                  zero : BOOLEAN, rest : Nat]
                                     /\ s[i].rest \in Nat /\ Whole(s[i])
           /\ \E i \in 1 .. Len(s) : V!HasPicture(s[i])
           /\ \A i, j \in 1 .. Len(s) : i < j /\ V!HasPicture(s[i]) => ~V!StartsUnit(s[j])
<1>1. /\ s \in Seq([kind : CodeKinds, intra : BOOLEAN, zero : BOOLEAN, rest : Nat])
      /\ Len(s) > 0 /\ V!StartsUnit(s[1])
      /\ \A i \in DOMAIN s : Whole(s[i])
      /\ \E i \in DOMAIN s : V!HasPicture(s[i])
      /\ \A i, j \in DOMAIN s : i < j /\ V!HasPicture(s[i]) => ~V!StartsUnit(s[j])
    BY VideoAssumption, Zenon DEF V!ShapeAssumption, CodeKinds, Whole
<1>2. Len(s) \in Nat /\ DOMAIN s = 1 .. Len(s)
    BY <1>1
<1>3. \A i \in 1 .. Len(s) : /\ s[i] \in [kind : CodeKinds, intra : BOOLEAN, zero : BOOLEAN, rest : Nat]
                              /\ s[i].rest \in Nat
    <2> DEFINE R == [kind : CodeKinds, intra : BOOLEAN, zero : BOOLEAN, rest : Nat]
    <2>1. \A r \in R : r.rest \in Nat
        OBVIOUS
    <2>2. s \in Seq(R)
        BY <1>1
    <2> HIDE DEF R
    <2>3. \A i \in 1 .. Len(s) : s[i] \in R
        BY <2>2
    <2> QED BY <2>1, <2>3, Zenon DEF R
<1> QED BY <1>1, <1>2, <1>3, Zenon

(* What a code takes, and where the next begins.                           *)
LEMMA BehindIs ==
    ASSUME NEW s \in Shapes
    PROVE  LET h == V!Behind(s)
           IN  /\ h[0] = 0 /\ \A i \in 1 .. Len(s) : h[i] = h[i - 1] + (ZeroOf(s[i]) + 4 + s[i].rest)
               /\ \A i \in 0 .. Len(s) : h[i] \in Nat
<1> DEFINE n       == Len(s)
           size(i) == ZeroOf(s[i]) + 4 + s[i].rest
           step    == [i \in 1 .. n |-> [q \in Nat |-> q + size(i)]]
           Is(f)   == f = [i \in 0 .. n |-> IF i = 0 THEN 0 ELSE f[i - 1] + V!SizeOf(s[i])]
           h       == CHOOSE f : Is(f)
<1>1. n \in Nat /\ \A i \in 1 .. n : size(i) \in Nat /\ V!SizeOf(s[i]) = size(i)
    BY ShapesAre DEF ZeroOf, V!SizeOf
<1> HIDE DEF size
<1>2. step \in [1 .. n -> [Nat -> Nat]]
    BY <1>1
<1>3. PICK f \in [0 .. n -> Nat] : f[0] = 0 /\ \A i \in 1 .. n : f[i] = step[i][f[i - 1]]
    <2> HIDE DEF step, n, h, Is
    <2>1. Iterates(Nat, n, 0, step)
        <3>1. 0 \in Nat
            OBVIOUS
        <3> QED BY <3>1, <1>1, <1>2, Recursion, Zenon
    <2> QED BY <2>1, Zenon DEF Iterates
<1>4. ASSUME NEW i \in 1 .. n PROVE f[i] = f[i - 1] + V!SizeOf(s[i])
    <2>1. f[i - 1] \in Nat
        <3>1. i - 1 \in 0 .. n
            BY <1>1
        <3> HIDE DEF n
        <3> QED BY <3>1
    <2>2. f[i] = step[i][f[i - 1]]
        BY <1>3
    <2> QED BY <2>1, <2>2, <1>1
<1>5. Is(f)
    <2>1. ASSUME NEW i \in 0 .. n
          PROVE  f[i] = IF i = 0 THEN 0 ELSE f[i - 1] + V!SizeOf(s[i])
        <3>1. i = 0 \/ i \in 1 .. n
            OBVIOUS
        <3> QED BY <3>1, <1>3, <1>4, Zenon
    <2> QED BY <2>1, <1>3, Zenon
<1>6. Is(h)
    BY <1>5, Zenon
<1>7. V!Behind(s) = h
    BY Zenon DEF V!Behind
<1> HIDE DEF h
<1>8. \A i \in 0 .. n : h[i] = IF i = 0 THEN 0 ELSE h[i - 1] + V!SizeOf(s[i])
    BY <1>6, Zenon
<1>9. 0 \in 0 .. n /\ \A i \in 1 .. n : i \in 0 .. n /\ i # 0
    BY <1>1
<1>10. h[0] = 0 /\ \A i \in 1 .. n : h[i] = h[i - 1] + size(i)
    BY <1>8, <1>9, <1>1, Zenon
<1>11. \A i \in Nat : i <= n => h[i] \in Nat
    <2> DEFINE Bad == {i \in Nat : i <= n /\ h[i] \notin Nat}
    <2>1. SUFFICES ASSUME Bad # {} PROVE FALSE
        BY Zenon
    <2>2. Bad \subseteq Nat
        OBVIOUS
    <2>3. PICK k \in Bad : \A y \in Bad : k <= y
        <3> HIDE DEF Bad
        <3> QED BY <2>1, <2>2, LeastElement
    <2>4. k # 0
        BY <2>3, <1>10
    <2>5. k \in 1 .. n /\ k - 1 \in Nat /\ k - 1 <= n /\ ~ (k <= k - 1)
        BY <2>3, <2>4, <1>1
    <2>6. h[k - 1] \in Nat
        BY <2>5, <2>3
    <2>7. h[k] = h[k - 1] + size(k) /\ size(k) \in Nat
        BY <2>5, <1>10, <1>1, Zenon
    <2>8. h[k] \in Nat
        <3> HIDE DEF n, h
        <3> QED BY <2>6, <2>7
    <2>9. h[k] \notin Nat
        BY <2>3, Zenon
    <2> QED BY <2>8, <2>9, Zenon
<1>12. \A i \in 0 .. n : i \in Nat /\ i <= n
    BY <1>1
<1>13. \A i \in 0 .. n : h[i] \in Nat
    BY <1>11, <1>12, Zenon
<1> QED BY <1>7, <1>10, <1>13, Zenon DEF size

(* A unit that begins at from.                                             *)
LEMMA CodedIs ==
    ASSUME NEW s \in Shapes, NEW u \in Nat, NEW from \in Nat
    PROVE  LET c    == V!Coded(s, u, from)
               next == from + V!Behind(s)[Len(s)]
           IN  /\ c \in Seq(Code) /\ Len(c) = Len(s) /\ next \in Nat
               /\ c[1].at = from + ZeroOf(c[1]) /\ V!StartsUnit(c[1])
               /\ next = c[Len(c)].at + 4 + c[Len(c)].rest
               /\ \A i \in 1 .. Len(c) : Whole(c[i]) /\ c[i].unit = u
               /\ \A i \in 2 .. Len(c) : c[i].at = c[i - 1].at + 4 + c[i - 1].rest + ZeroOf(c[i])
               /\ \A i, j \in 1 .. Len(c) : i < j /\ V!HasPicture(c[i]) => ~V!StartsUnit(c[j])
               /\ \E i \in 1 .. Len(c) : V!HasPicture(c[i])
<1> DEFINE c == V!Coded(s, u, from)
           h == V!Behind(s)
           n == Len(s)
<1>1. n \in Nat /\ n > 0 /\ V!StartsUnit(s[1])
    BY ShapesAre
<1>2. \A i \in 1 .. n : /\ s[i] \in [kind : CodeKinds, intra : BOOLEAN, zero : BOOLEAN, rest : Nat]
                        /\ s[i].rest \in Nat /\ Whole(s[i]) /\ ZeroOf(s[i]) \in Nat
    BY ShapesAre DEF ZeroOf
<1>3. /\ h[0] = 0 /\ \A i \in 1 .. n : h[i] = h[i - 1] + (ZeroOf(s[i]) + 4 + s[i].rest)
      /\ \A i \in 0 .. n : h[i] \in Nat
    BY BehindIs
<1>4. c = [i \in 1 .. n |->
              [at |-> from + h[i - 1] + ZeroOf(s[i]), unit |-> u, zero |-> s[i].zero,
               rest |-> s[i].rest, kind |-> s[i].kind, intra |-> s[i].intra]]
    BY DEF V!Coded, ZeroOf
<1> HIDE DEF c, h
<1>5. ASSUME NEW i \in 1 .. n
      PROVE  /\ c[i].at = from + h[i - 1] + ZeroOf(s[i]) /\ c[i].unit = u /\ c[i].zero = s[i].zero
             /\ c[i].rest = s[i].rest /\ c[i].kind = s[i].kind /\ c[i].intra = s[i].intra
             /\ c[i] \in Code
    <2>1. h[i - 1] \in Nat
        BY <1>3, <1>1
    <2>2. from + h[i - 1] + ZeroOf(s[i]) \in Nat
        BY <2>1, <1>2
    <2> QED BY <2>2, <1>2, <1>4 DEF Code
<1>6. c \in Seq(Code) /\ Len(c) = n
    <2>1. c \in [1 .. n -> Code]
        BY <1>4, <1>5
    <2> QED BY <2>1, <1>1
<1>7. /\ \A i \in 1 .. n : ZeroOf(c[i]) = ZeroOf(s[i]) /\ (V!HasPicture(c[i]) <=> V!HasPicture(s[i]))
      /\ \A i \in 1 .. n : V!StartsUnit(c[i]) <=> V!StartsUnit(s[i])
    BY <1>5 DEF ZeroOf, V!HasPicture, V!StartsUnit
<1>8. 1 \in 1 .. n /\ n \in 1 .. n
    BY <1>1
<1>9. c[1].at = from + ZeroOf(c[1]) /\ V!StartsUnit(c[1])
    <2>1. c[1].at = from + h[1 - 1] + ZeroOf(s[1])
        BY <1>5, <1>8
    <2> QED BY <2>1, <1>1, <1>2, <1>3, <1>7, <1>8
<1>10. from + h[n] \in Nat /\ from + h[n] = c[n].at + 4 + c[n].rest
    <2>1. h[n] = h[n - 1] + (ZeroOf(s[n]) + 4 + s[n].rest) /\ h[n] \in Nat /\ h[n - 1] \in Nat
        BY <1>1, <1>3, <1>8
    <2>2. c[n].at = from + h[n - 1] + ZeroOf(s[n]) /\ c[n].rest = s[n].rest
        BY <1>5, <1>8
    <2>3. ZeroOf(s[n]) \in Nat /\ s[n].rest \in Nat
        BY <1>2, <1>8
    <2>4. from + h[n] = from + h[n - 1] + ZeroOf(s[n]) + 4 + s[n].rest
        <3> DEFINE a == h[n]
                   b == h[n - 1]
                   z == ZeroOf(s[n])
                   r == s[n].rest
        <3>1. a \in Nat /\ b \in Nat /\ z \in Nat /\ r \in Nat /\ a = b + (z + 4 + r)
            BY <2>1, <2>3
        <3> HIDE DEF a, b, z, r
        <3>2. from + a = from + b + z + 4 + r
            BY <3>1
        <3> QED BY <3>2 DEF a, b, z, r
    <2> QED BY <2>1, <2>2, <2>4
<1>11. ASSUME NEW i \in 2 .. n
       PROVE  c[i].at = c[i - 1].at + 4 + c[i - 1].rest + ZeroOf(c[i])
    <2>1. i \in 1 .. n /\ i - 1 \in 1 .. n /\ i - 1 - 1 \in 0 .. n
        BY <1>1
    <2> DEFINE m == i - 1
    <2>2. h[m] = h[m - 1] + (ZeroOf(s[m]) + 4 + s[m].rest) /\ h[m - 1] \in Nat
        BY <2>1, <1>3
    <2>3. c[m].at = from + h[m - 1] + ZeroOf(s[m]) /\ c[m].rest = s[m].rest
        BY <2>1, <1>5
    <2>4. c[i].at = from + h[m] + ZeroOf(s[i]) /\ ZeroOf(c[i]) = ZeroOf(s[i])
        BY <2>1, <1>5, <1>7
    <2>5. ZeroOf(s[m]) \in Nat /\ s[m].rest \in Nat /\ ZeroOf(s[i]) \in Nat
        BY <2>1, <1>2
    <2> HIDE DEF m
    <2>6. c[i].at = c[m].at + 4 + c[m].rest + ZeroOf(c[i])
        <3>1. h[m] \in Nat
            BY <2>1, <1>3 DEF m
        <3>2. from + h[m] + ZeroOf(s[i]) = from + h[m - 1] + ZeroOf(s[m]) + 4 + s[m].rest + ZeroOf(s[i])
            <4> DEFINE a == h[m]
                       b == h[m - 1]
                       z == ZeroOf(s[m])
                       r == s[m].rest
                       y == ZeroOf(s[i])
            <4>1. /\ a \in Nat /\ b \in Nat /\ z \in Nat /\ r \in Nat /\ y \in Nat
                  /\ a = b + (z + 4 + r)
                BY <3>1, <2>2, <2>5
            <4> HIDE DEF a, b, z, r, y
            <4>2. from + a + y = from + b + z + 4 + r + y
                BY <4>1
            <4> QED BY <4>2 DEF a, b, z, r, y
        <3> QED BY <3>2, <2>3, <2>4
    <2> QED BY <2>6 DEF m
<1>12. \A i, j \in 1 .. n : i < j /\ V!HasPicture(c[i]) => ~V!StartsUnit(c[j])
    BY <1>7, ShapesAre
<1>13. \E i \in 1 .. n : V!HasPicture(c[i])
    BY <1>7, ShapesAre
<1>14. \A i \in 1 .. n : Whole(c[i]) /\ c[i].unit = u
    BY <1>2, <1>5 DEF Whole
<1> HIDE DEF n
<1>15. /\ c \in Seq(Code) /\ Len(c) = n /\ from + h[n] \in Nat
       /\ c[1].at = from + ZeroOf(c[1]) /\ V!StartsUnit(c[1])
       /\ from + h[n] = c[n].at + 4 + c[n].rest
       /\ \A i \in 2 .. n : c[i].at = c[i - 1].at + 4 + c[i - 1].rest + ZeroOf(c[i])
    BY <1>6, <1>9, <1>10, <1>11, Zenon
<1>16. Len(c) = n
    BY <1>15
<1> QED BY <1>12, <1>13, <1>14, <1>15, <1>16, Zenon DEF c, h, n

(* A stream that grows by a unit stays one.                                *)
LEMMA StreamGrows ==
    ASSUME NEW c, NEW k \in Nat, NEW next, StreamOK(c, k, next), NEW s \in Shapes
    PROVE  StreamOK(c \o V!Coded(s, k + 1, next), k + 1, next + V!Behind(s)[Len(s)])
<1> DEFINE d   == V!Coded(s, k + 1, next)
           top == next + V!Behind(s)[Len(s)]
           e   == c \o d
           x   == Len(c)
           n   == Len(d)
<1>1. /\ c \in Seq(Code) /\ next \in Nat /\ x \in Nat
      /\ x = 0 => k = 0 /\ next = 0
      /\ x > 0 =>
             /\ k > 0 /\ c[1].unit = 1 /\ c[1].at = ZeroOf(c[1]) /\ V!StartsUnit(c[1])
             /\ c[x].unit = k /\ next = c[x].at + 4 + c[x].rest
      /\ \A i \in 1 .. x : Whole(c[i]) /\ c[i].unit \in 1 .. k
      /\ \A i \in 2 .. x :
             /\ c[i].at = c[i - 1].at + 4 + c[i - 1].rest + ZeroOf(c[i])
             /\ \/ c[i].unit = c[i - 1].unit
                \/ c[i].unit = c[i - 1].unit + 1 /\ V!StartsUnit(c[i])
      /\ \A i, j \in 1 .. x :
             i < j /\ c[i].unit = c[j].unit /\ V!HasPicture(c[i]) => ~V!StartsUnit(c[j])
      /\ \A u \in 1 .. k : \E i \in 1 .. x : c[i].unit = u /\ V!HasPicture(c[i])
    <2>1. c \in Seq(Code) /\ x \in Nat /\ DOMAIN c = 1 .. x
        BY DEF StreamOK
    <2> HIDE DEF x
    <2> QED BY <2>1, Zenon DEF StreamOK, x
<1>2. /\ d \in Seq(Code) /\ n = Len(s) /\ n \in Nat /\ n > 0 /\ top \in Nat
      /\ d[1].at = next + ZeroOf(d[1]) /\ V!StartsUnit(d[1])
      /\ top = d[n].at + 4 + d[n].rest
      /\ \A i \in 1 .. n : Whole(d[i]) /\ d[i].unit = k + 1
      /\ \A i \in 2 .. n : d[i].at = d[i - 1].at + 4 + d[i - 1].rest + ZeroOf(d[i])
      /\ \A i, j \in 1 .. n : i < j /\ V!HasPicture(d[i]) => ~V!StartsUnit(d[j])
      /\ \E i \in 1 .. n : V!HasPicture(d[i])
    <2>1. k + 1 \in Nat
        OBVIOUS
    <2>2. Len(s) \in Nat /\ Len(s) > 0
        BY ShapesAre
    <2>3. LET f == V!Coded(s, k + 1, next)
              m == next + V!Behind(s)[Len(s)]
          IN  /\ f \in Seq(Code) /\ Len(f) = Len(s) /\ m \in Nat
              /\ f[1].at = next + ZeroOf(f[1]) /\ V!StartsUnit(f[1])
              /\ m = f[Len(f)].at + 4 + f[Len(f)].rest
              /\ \A i \in 1 .. Len(f) : Whole(f[i]) /\ f[i].unit = k + 1
              /\ \A i \in 2 .. Len(f) : f[i].at = f[i - 1].at + 4 + f[i - 1].rest + ZeroOf(f[i])
              /\ \A i, j \in 1 .. Len(f) : i < j /\ V!HasPicture(f[i]) => ~V!StartsUnit(f[j])
              /\ \E i \in 1 .. Len(f) : V!HasPicture(f[i])
        <3> HIDE DEF d, top, n, e, x
        <3> DEFINE q == k + 1
        <3>1. q \in Nat
            BY <2>1
        <3> HIDE DEF q
        <3>2. next \in Nat
            BY <1>1
        <3> QED BY <3>1, <3>2, CodedIs, Zenon DEF q
    <2> QED BY <2>2, <2>3
<1>3. /\ e \in Seq(Code) /\ DOMAIN e = 1 .. x + n /\ Len(e) = x + n
      /\ \A i \in 1 .. x : e[i] = c[i]
      /\ \A i \in 1 .. n : e[x + i] = d[i]
    <2>1. c \in Seq(Code) /\ d \in Seq(Code)
        BY <1>1, <1>2
    <2> HIDE DEF d
    <2>2. /\ e \in Seq(Code) /\ DOMAIN e = 1 .. x + n
          /\ \A i \in 1 .. x : e[i] = c[i]
          /\ \A i \in 1 .. n : e[x + i] = d[i]
        BY <2>1, Joined
    <2>3. Len(e) = x + n
        BY <2>1
    <2> QED BY <2>2, <2>3
<1> HIDE DEF d, top, e, x, n
<1>0. x \in Nat /\ n \in Nat /\ n > 0
    BY <1>1, <1>2, Zenon
<1>4. ASSUME NEW i \in x + 1 .. x + n PROVE i - x \in 1 .. n /\ e[i] = d[i - x]
    <2>1. i - x \in 1 .. n /\ i = x + (i - x)
        BY <1>0
    <2> QED BY <2>1, <1>3
<1>5. \A i \in 1 .. x + n : i \in 1 .. x \/ i \in x + 1 .. x + n
    BY <1>0
<1>6. \A i \in 1 .. x : i \in 1 .. x + n
    BY <1>0
<1>7. \A i \in 1 .. n : x + i \in 1 .. x + n
    BY <1>0
<1>8. \A i \in 1 .. x + n : Whole(e[i]) /\ e[i].unit \in 1 .. k + 1
    <2>1. \A u \in 1 .. k : u \in 1 .. k + 1
        OBVIOUS
    <2>2. k + 1 \in 1 .. k + 1
        OBVIOUS
    <2>3. ASSUME NEW i \in 1 .. x PROVE Whole(e[i]) /\ e[i].unit \in 1 .. k + 1
        BY <2>1, <1>1, <1>3
    <2>4. ASSUME NEW i \in x + 1 .. x + n PROVE Whole(e[i]) /\ e[i].unit \in 1 .. k + 1
        <3>1. i - x \in 1 .. n /\ e[i] = d[i - x]
            BY <1>4
        <3> QED BY <3>1, <2>2, <1>2
    <2> QED BY <2>3, <2>4, <1>5, Zenon
<1>9. /\ e[1].unit = 1 /\ e[1].at = ZeroOf(e[1]) /\ V!StartsUnit(e[1])
      /\ e[x + n].unit = k + 1 /\ top = e[x + n].at + 4 + e[x + n].rest
    <2>1. e[x + n] = d[n] /\ d[n].unit = k + 1
        BY <1>2, <1>3
    <2>2. CASE x = 0
        <3>1. e[1] = d[1] /\ k = 0 /\ next = 0
            BY <2>2, <1>1, <1>2, <1>3
        <3>2. d[1].unit = 1 /\ d[1].at = ZeroOf(d[1])
            <4>1. d[1].at = 0 + ZeroOf(d[1]) /\ ZeroOf(d[1]) \in Nat
                BY <3>1, <1>2 DEF ZeroOf
            <4>2. d[1].unit = 1
                BY <3>1, <1>2
            <4> QED BY <4>1, <4>2
        <3> QED BY <2>1, <3>1, <3>2, <1>2
    <2>3. CASE x > 0
        <3>1. e[1] = c[1]
            BY <2>3, <1>1, <1>3
        <3> QED BY <2>1, <2>3, <3>1, <1>1, <1>2
    <2> QED BY <2>2, <2>3, <1>1
<1>10. ASSUME NEW i \in 2 .. x + n
       PROVE  /\ e[i].at = e[i - 1].at + 4 + e[i - 1].rest + ZeroOf(e[i])
              /\ \/ e[i].unit = e[i - 1].unit
                 \/ e[i].unit = e[i - 1].unit + 1 /\ V!StartsUnit(e[i])
    <2>1. CASE i \in 2 .. x
        <3>1. i \in 1 .. x /\ i - 1 \in 1 .. x
            BY <2>1, <1>1
        <3> QED BY <2>1, <3>1, <1>1, <1>3
    <2>2. CASE i = x + 1
        <3>1. e[i] = d[1] /\ e[i - 1] = c[x] /\ x > 0
            <4>1. x > 0 /\ i - 1 = x /\ 1 \in 1 .. n /\ x \in 1 .. x
                BY <2>2, <1>1, <1>2
            <4> QED BY <4>1, <2>2, <1>3
        <3>2. d[1].unit = k + 1
            BY <1>2
        <3> QED BY <3>1, <3>2, <1>1, <1>2
    <2>3. CASE i \in x + 2 .. x + n
        <3> DEFINE m == i - x
        <3>1. m \in 2 .. n /\ m \in 1 .. n /\ m - 1 \in 1 .. n /\ i = x + m /\ i - 1 = x + (m - 1)
            BY <2>3, <1>1, <1>2
        <3> HIDE DEF m
        <3>2. e[i] = d[m] /\ e[i - 1] = d[m - 1]
            BY <3>1, <1>3
        <3> QED BY <3>1, <3>2, <1>2
    <2> QED BY <2>1, <2>2, <2>3, <1>1, <1>2
<1>11. ASSUME NEW i \in 1 .. x + n, NEW j \in 1 .. x + n, i < j, e[i].unit = e[j].unit,
              V!HasPicture(e[i])
       PROVE  ~V!StartsUnit(e[j])
    <2>1. CASE i \in 1 .. x /\ j \in 1 .. x
        BY <2>1, <1>1, <1>3, <1>11
    <2>2. CASE i \in x + 1 .. x + n /\ j \in x + 1 .. x + n
        <3>1. i - x \in 1 .. n /\ j - x \in 1 .. n /\ e[i] = d[i - x] /\ e[j] = d[j - x]
            BY <2>2, <1>4
        <3>2. i - x < j - x
            BY <1>1, <1>11
        <3> QED BY <3>1, <3>2, <1>2, <1>11
    <2>3. ~ (i \in x + 1 .. x + n /\ j \in 1 .. x)
        BY <1>1, <1>11
    <2>4. ~ (i \in 1 .. x /\ j \in x + 1 .. x + n)
        <3>1. SUFFICES ASSUME i \in 1 .. x, j \in x + 1 .. x + n PROVE FALSE
            OBVIOUS
        <3>2. e[i].unit \in 1 .. k
            BY <3>1, <1>1, <1>3
        <3>3. e[j].unit = k + 1
            BY <3>1, <1>2, <1>4
        <3> QED BY <3>2, <3>3, <1>11
    <2> QED BY <2>1, <2>2, <2>3, <2>4, <1>5
<1>12. ASSUME NEW u \in 1 .. k + 1
       PROVE  \E i \in 1 .. x + n : e[i].unit = u /\ V!HasPicture(e[i])
    <2>1. CASE u \in 1 .. k
        <3>1. PICK i \in 1 .. x : c[i].unit = u /\ V!HasPicture(c[i])
            BY <2>1, <1>1, Zenon
        <3> QED BY <3>1, <1>3, <1>6, Zenon
    <2>2. CASE u = k + 1
        <3>1. PICK i \in 1 .. n : V!HasPicture(d[i])
            BY <1>2, Zenon
        <3>2. e[x + i] = d[i] /\ d[i].unit = u
            BY <2>2, <1>2, <1>3, Zenon
        <3> QED BY <3>1, <3>2, <1>7, Zenon
    <2> QED BY <2>1, <2>2
<1>13. x + n > 0 /\ k + 1 > 0 /\ top \in Nat
    BY <1>1, <1>2
<1>14. x + n # 0
    BY <1>1, <1>2
<1>15. StreamOK(e, k + 1, top)
    <2> DEFINE z == x + n
               q == k + 1
    <2> HIDE DEF z, q
    <2>1. Len(e) = z /\ DOMAIN e = 1 .. z /\ e \in Seq(Code) /\ z > 0 /\ q > 0 /\ z # 0 /\ top \in Nat
        BY <1>3, <1>13, <1>14 DEF z, q
    <2>2. /\ \A i \in 1 .. z : Whole(e[i]) /\ e[i].unit \in 1 .. q
          /\ e[1].unit = 1 /\ e[1].at = ZeroOf(e[1]) /\ V!StartsUnit(e[1])
          /\ e[z].unit = q /\ top = e[z].at + 4 + e[z].rest
        BY <1>8, <1>9 DEF z, q
    <2>3. \A i \in 2 .. z : /\ e[i].at = e[i - 1].at + 4 + e[i - 1].rest + ZeroOf(e[i])
                            /\ \/ e[i].unit = e[i - 1].unit
                               \/ e[i].unit = e[i - 1].unit + 1 /\ V!StartsUnit(e[i])
        BY <1>10, Zenon DEF z
    <2>4. /\ \A i, j \in 1 .. z :
                 i < j /\ e[i].unit = e[j].unit /\ V!HasPicture(e[i]) => ~V!StartsUnit(e[j])
          /\ \A u \in 1 .. q : \E i \in 1 .. z : e[i].unit = u /\ V!HasPicture(e[i])
        BY <1>11, <1>12, Zenon DEF z, q
    <2>5. StreamOK(e, q, top)
        BY <2>1, <2>2, <2>3, <2>4, Zenon DEF StreamOK
    <2> QED BY <2>5 DEF q
<1> QED BY <1>15 DEF e, d, top

(* Every stream the splitter may be given is one.                          *)
LEMMA StreamsAreOK == V!VideoInit => StreamOK(codes, Pictures, esLength)
<1> SUFFICES ASSUME NEW units \in [1 .. Pictures -> Shapes]
             PROVE  StreamOK(V!Placed(units).codes, Pictures, V!Placed(units).next)
    BY DEF V!VideoInit
<1> DEFINE n     == Pictures
           T     == [codes : Seq(Code), next : Nat]
           first == [codes |-> << >>, next |-> 0]
           to(u, q) == [codes |-> q.codes \o V!Coded(units[u], u, q.next),
                        next  |-> q.next + V!Behind(units[u])[Len(units[u])]]
           step  == [u \in 1 .. n |-> [q \in T |-> to(u, q)]]
           Is(f) == f = [u \in 0 .. n |-> IF u = 0 THEN first ELSE to(u, f[u - 1])]
           g     == CHOOSE f : Is(f)
<1>1. n \in Nat /\ \A u \in 1 .. n : units[u] \in Shapes /\ u \in Nat
    BY VideoAssumption DEF V!ShapeAssumption
<1>2. first \in T
    OBVIOUS
<1>3. ASSUME NEW u \in 1 .. n, NEW q \in T PROVE to(u, q) \in T
    <2>1. q.codes \in Seq(Code) /\ q.next \in Nat
        OBVIOUS
    <2>2. /\ V!Coded(units[u], u, q.next) \in Seq(Code)
          /\ q.next + V!Behind(units[u])[Len(units[u])] \in Nat
        BY <2>1, <1>1, CodedIs, Zenon
    <2>3. q.codes \o V!Coded(units[u], u, q.next) \in Seq(Code)
        BY <2>1, <2>2, ConcatProperties, Zenon
    <2> QED BY <2>2, <2>3
<1>4. step \in [1 .. n -> [T -> T]]
    <2> HIDE DEF T, to
    <2> QED BY <1>3
<1>5. PICK f \in [0 .. n -> T] : f[0] = first /\ \A u \in 1 .. n : f[u] = step[u][f[u - 1]]
    <2> HIDE DEF step, n, g, Is, T, first
    <2>1. Iterates(T, n, first, step)
        BY <1>1, <1>2, <1>4, Recursion, Zenon
    <2> QED BY <2>1, Zenon DEF Iterates
<1> HIDE DEF T
<1>6. ASSUME NEW u \in 1 .. n PROVE f[u] = to(u, f[u - 1])
    <2> HIDE DEF to
    <2>1. f[u - 1] \in T
        BY <1>1, <1>5
    <2>2. step[u] = [q \in T |-> to(u, q)]
        OBVIOUS
    <2>3. f[u] = step[u][f[u - 1]]
        BY <1>5
    <2> QED BY <2>1, <2>2, <2>3
<1> HIDE DEF step
<1>7. Is(f)
    <2> HIDE DEF to, first
    <2>1. ASSUME NEW u \in 0 .. n PROVE f[u] = IF u = 0 THEN first ELSE to(u, f[u - 1])
        <3>1. u = 0 \/ u \in 1 .. n
            BY <1>1
        <3> QED BY <3>1, <1>5, <1>6, Zenon
    <2> QED BY <2>1, <1>5, Zenon
<1>8. Is(g)
    BY <1>7, Zenon
<1>9. V!Placed(units) = g[n]
    BY Zenon DEF V!Placed
<1> HIDE DEF g
<1>10. \A u \in 0 .. n : g[u] = IF u = 0 THEN first ELSE to(u, g[u - 1])
    BY <1>8, Zenon
<1>11. g[0] = first /\ \A u \in 1 .. n : g[u] = to(u, g[u - 1])
    <2>1. 0 \in 0 .. n /\ \A u \in 1 .. n : u \in 0 .. n /\ u # 0
        BY <1>1
    <2> HIDE DEF to, first
    <2> QED BY <2>1, <1>10, Zenon
<1> DEFINE OK(u) == StreamOK(g[u].codes, u, g[u].next)
<1>12. OK(0)
    <2>1. g[0].codes = << >> /\ g[0].next = 0
        BY <1>11
    <2>2. << >> \in Seq(Code) /\ Len(<< >>) = 0 /\ DOMAIN << >> = {} /\ 0 \in Nat
        OBVIOUS
    <2>3. \A u \in 1 .. 0 : FALSE
        OBVIOUS
    <2>4. \A i \in 2 .. 0 : FALSE
        OBVIOUS
    <2>5. ~ (Len(<< >>) > 0)
        OBVIOUS
    <2>6. StreamOK(<< >>, 0, 0)
        BY <2>2, <2>3, <2>4, <2>5 DEF StreamOK
    <2> QED BY <2>1, <2>6
<1>13. ASSUME NEW u \in 1 .. n, OK(u - 1) PROVE OK(u)
    <2>1. u - 1 \in Nat /\ (u - 1) + 1 = u
        BY <1>1
    <2>2. StreamOK(g[u - 1].codes \o V!Coded(units[u], u, g[u - 1].next), u,
                   g[u - 1].next + V!Behind(units[u])[Len(units[u])])
        BY <2>1, <1>1, <1>13, StreamGrows
    <2>3. g[u] = to(u, g[u - 1])
        BY <1>11
    <2>4. /\ g[u].codes = g[u - 1].codes \o V!Coded(units[u], u, g[u - 1].next)
          /\ g[u].next = g[u - 1].next + V!Behind(units[u])[Len(units[u])]
        <3> DEFINE a == g[u - 1].codes \o V!Coded(units[u], u, g[u - 1].next)
                   b == g[u - 1].next + V!Behind(units[u])[Len(units[u])]
        <3>1. g[u] = [codes |-> a, next |-> b]
            BY <2>3, Zenon
        <3> HIDE DEF a, b
        <3>2. g[u].codes = a /\ g[u].next = b
            BY <3>1
        <3> QED BY <3>2 DEF a, b
    <2> QED BY <2>2, <2>4
<1>14. OK(n)
    <2> HIDE DEF OK
    <2> DEFINE Bad == {u \in Nat : u <= n /\ ~OK(u)}
    <2>1. SUFFICES ASSUME Bad # {} PROVE FALSE
        BY <1>1
    <2>2. Bad \subseteq Nat
        OBVIOUS
    <2>3. PICK u \in Bad : \A y \in Bad : u <= y
        <3> HIDE DEF Bad
        <3> QED BY <2>1, <2>2, LeastElement
    <2>4. u # 0
        BY <2>3, <1>12
    <2>5. u \in 1 .. n /\ u - 1 \in Nat /\ u - 1 <= n /\ ~ (u <= u - 1)
        BY <2>3, <2>4, <1>1
    <2>6. OK(u - 1)
        BY <2>5, <2>3
    <2> QED BY <2>3, <2>5, <2>6, <1>13
<1> QED BY <1>9, <1>14

(* What stands behind it in the stream: a code before another, and a code  *)
(* before the end.                                                         *)
LEMMA CodesAre ==
    ASSUME NEW c, NEW k, NEW next, StreamOK(c, k, next)
    PROVE  /\ Len(c) \in Nat /\ DOMAIN c = 1 .. Len(c) /\ next \in Nat
           /\ \A i \in 1 .. Len(c) :
                  /\ c[i].at \in Nat /\ c[i].rest \in Nat /\ Whole(c[i]) /\ c[i].unit \in 1 .. k
                  /\ c[i].unit \in Nat /\ ZeroOf(c[i]) \in {0, 1} /\ c[i].zero \in BOOLEAN
<1>1. c \in Seq(Code) /\ next \in Nat /\ \A i \in DOMAIN c : Whole(c[i]) /\ c[i].unit \in 1 .. k
    BY Zenon DEF StreamOK
<1>2. Len(c) \in Nat /\ DOMAIN c = 1 .. Len(c) /\ \A i \in 1 .. Len(c) : c[i] \in Code
    BY <1>1
<1>3. \A r \in Code : /\ r.at \in Nat /\ r.rest \in Nat /\ ZeroOf(r) \in {0, 1} /\ r.zero \in BOOLEAN
                      /\ r.unit \in Nat
    BY DEF Code, ZeroOf
<1> HIDE DEF Code
<1> QED BY <1>1, <1>2, <1>3, Zenon

LEMMA CodeNext ==
    ASSUME NEW c, NEW k, NEW next, StreamOK(c, k, next), NEW i \in 2 .. Len(c)
    PROVE  /\ i \in 1 .. Len(c) /\ i - 1 \in 1 .. Len(c)
           /\ c[i].at = c[i - 1].at + 4 + c[i - 1].rest + ZeroOf(c[i])
           /\ \/ c[i].unit = c[i - 1].unit
              \/ c[i].unit = c[i - 1].unit + 1 /\ V!StartsUnit(c[i])
<1>1. /\ c[i].at = c[i - 1].at + 4 + c[i - 1].rest + ZeroOf(c[i])
      /\ \/ c[i].unit = c[i - 1].unit
         \/ c[i].unit = c[i - 1].unit + 1 /\ V!StartsUnit(c[i])
    BY Zenon DEF StreamOK
<1>2. i \in 1 .. Len(c) /\ i - 1 \in 1 .. Len(c)
    BY CodesAre
<1> QED BY <1>1, <1>2, Zenon

LEMMA CodesRise ==
    ASSUME NEW c, NEW k, NEW next, StreamOK(c, k, next),
           NEW i \in 1 .. Len(c), NEW j \in 1 .. Len(c), i < j
    PROVE  c[i].at + 4 + c[i].rest + ZeroOf(c[j]) <= c[j].at /\ c[i].unit <= c[j].unit
<1> DEFINE n     == Len(c)
           top   == c[i].at + 4 + c[i].rest
           OK(m) == top + ZeroOf(c[m]) <= c[m].at /\ c[i].unit <= c[m].unit
           Bad   == {m \in 1 .. n : i < m /\ ~OK(m)}
<1>1. /\ n \in Nat
      /\ \A m \in 1 .. n : /\ c[m].at \in Nat /\ c[m].rest \in Nat /\ c[m].unit \in Nat
                           /\ ZeroOf(c[m]) \in {0, 1}
    BY CodesAre
<1>2. SUFFICES ASSUME Bad # {} PROVE FALSE
    <2>1. j \in Bad \/ OK(j)
        BY Zenon
    <2> QED BY <2>1
<1>3. PICK m \in Bad : \A y \in Bad : m <= y
    <2>1. Bad \subseteq Nat
        BY <1>1
    <2> HIDE DEF Bad
    <2> QED BY <1>2, <2>1, LeastElement
<1>4. m \in 2 .. n /\ m - 1 \in 1 .. n /\ m \in 1 .. n /\ i < m /\ ~OK(m) /\ i \in Nat /\ m \in Nat
    BY <1>1, <1>3
<1>5. /\ c[m].at = c[m - 1].at + 4 + c[m - 1].rest + ZeroOf(c[m])
      /\ c[m].unit = c[m - 1].unit \/ c[m].unit = c[m - 1].unit + 1
    BY <1>4, CodeNext
<1>6. CASE i = m - 1
    <2>1. c[i].unit <= c[m].unit
        BY <1>1, <1>4, <1>5, <1>6
    <2>2. c[m].at = top + ZeroOf(c[m])
        BY <1>5, <1>6
    <2>3. c[m].at \in Nat
        BY <1>1, <1>4
    <2> QED BY <2>1, <2>2, <2>3, <1>4
<1>7. CASE i # m - 1
    <2>1. OK(m - 1)
        <3>1. m - 1 \in 1 .. n /\ i < m - 1 /\ ~ (m <= m - 1)
            BY <1>4, <1>7
        <3> QED BY <3>1, <1>3
    <2> DEFINE p == m - 1
    <2>2. /\ top \in Nat /\ c[p].at \in Nat /\ c[p].rest \in Nat /\ c[p].unit \in Nat
          /\ c[m].at \in Nat /\ c[m].unit \in Nat /\ c[i].unit \in Nat /\ ZeroOf(c[m]) \in {0, 1}
          /\ ZeroOf(c[p]) \in {0, 1}
        <3>1. c[i].at \in Nat /\ c[i].rest \in Nat /\ c[i].unit \in Nat
            BY <1>1
        <3>2. p \in 1 .. n /\ m \in 1 .. n
            BY <1>4
        <3>3. top \in Nat
            <4> DEFINE a == c[i].at
                       r == c[i].rest
            <4>1. a \in Nat /\ r \in Nat
                BY <3>1, Zenon
            <4> HIDE DEF a, r
            <4>2. a + 4 + r \in Nat
                BY <4>1
            <4> QED BY <4>2, Zenon DEF a, r
        <3> HIDE DEF p, top, n
        <3> QED BY <3>1, <3>2, <3>3, <1>1, Zenon
    <2>3. /\ c[m].at = c[p].at + 4 + c[p].rest + ZeroOf(c[m])
          /\ c[m].unit = c[p].unit \/ c[m].unit = c[p].unit + 1
          /\ top + ZeroOf(c[p]) <= c[p].at /\ c[i].unit <= c[p].unit
        BY <1>5, <2>1
    <2> HIDE DEF p, top
    <2>4. c[i].unit <= c[m].unit
        <3> DEFINE u == c[i].unit
                   v == c[p].unit
                   w == c[m].unit
        <3>1. u \in Nat /\ v \in Nat /\ w \in Nat /\ u <= v /\ (w = v \/ w = v + 1)
            BY <2>2, <2>3, Zenon
        <3> HIDE DEF u, v, w
        <3>2. u <= w
            BY <3>1
        <3> QED BY <3>2 DEF u, w
    <2>5. top + ZeroOf(c[m]) <= c[m].at
        <3> DEFINE t == top
                   a == c[p].at
                   r == c[p].rest
                   z == ZeroOf(c[m])
                   y == ZeroOf(c[p])
                   b == c[m].at
        <3>1. /\ t \in Nat /\ a \in Nat /\ r \in Nat /\ z \in Nat /\ y \in Nat /\ b \in Nat
              /\ b = a + 4 + r + z /\ t + y <= a
            <4>1. b = a + 4 + r + z /\ t + y <= a
                BY <2>3, Zenon
            <4>2. \A o \in {0, 1} : o \in Nat
                OBVIOUS
            <4> QED BY <4>1, <4>2, <2>2, Zenon
        <3> HIDE DEF t, a, r, z, y, b
        <3>2. t + z <= b
            BY <3>1
        <3> QED BY <3>2 DEF t, z, b
    <2> QED BY <2>4, <2>5, <1>4 DEF top
<1> QED BY <1>6, <1>7

(* So the codes are told apart by where they are, and all of the stream's  *)
(* but perhaps one that ends it have their two bytes.                      *)
LEMMA CodesApart ==
    ASSUME NEW c, NEW k, NEW next, StreamOK(c, k, next),
           NEW i \in 1 .. Len(c), NEW j \in 1 .. Len(c), i < j
    PROVE  c[i].at + 4 <= c[j].at
<1> DEFINE a == c[i].at
           r == c[i].rest
           z == ZeroOf(c[j])
           b == c[j].at
<1>1. a \in Nat /\ r \in Nat /\ z \in Nat /\ b \in Nat
    BY CodesAre
<1>2. a + 4 + r + z <= b
    BY CodesRise
<1> HIDE DEF a, r, z, b
<1>3. a + 4 <= b
    BY <1>1, <1>2
<1> QED BY <1>3 DEF a, b

LEMMA CodesEnd ==
    ASSUME NEW c, NEW k, NEW next, StreamOK(c, k, next), NEW i \in 1 .. Len(c)
    PROVE  /\ c[i].at + 4 <= next
           /\ c[i].at + 6 <= next \/ (i = Len(c) /\ c[i].kind = "other")
<1> DEFINE n == Len(c)
           a == c[i].at
           b == c[n].at
           r == c[n].rest
<1>1. n \in Nat /\ n \in 1 .. Len(c)
    BY CodesAre
<1>2. a \in Nat /\ b \in Nat /\ r \in Nat /\ next \in Nat
    BY CodesAre, <1>1
<1>3. next = b + 4 + r
    <2>1. n > 0
        BY <1>1
    <2> QED BY <2>1, Zenon DEF StreamOK
<1>4. i = n \/ i < n
    BY <1>1
<1>5. i < n => a + 4 <= b
    BY <1>1, CodesApart
<1>6. i = n => a = b /\ (c[i].kind = "other" \/ r >= 2)
    BY CodesAre DEF Whole
<1> HIDE DEF a, b, r, n
<1>7. a + 4 <= next /\ (a + 6 <= next \/ (i = n /\ c[i].kind = "other"))
    BY <1>2, <1>3, <1>4, <1>5, <1>6
<1> QED BY <1>7 DEF a, n

(* Code i is the first of unit u; each unit has one.                       *)
IsFirst(c, u, i) == i \in 1 .. Len(c) /\ c[i].unit = u /\ (i = 1 \/ c[i - 1].unit # u)

LEMMA FirstOnly ==
    ASSUME NEW c, NEW k, NEW next, StreamOK(c, k, next), NEW u, NEW i, IsFirst(c, u, i),
           NEW j \in 1 .. Len(c), c[j].unit = u
    PROVE  i <= j
<1>1. SUFFICES ASSUME j < i PROVE FALSE
    BY CodesAre DEF IsFirst
<1>2. i \in 1 .. Len(c) /\ c[i].unit = u /\ i - 1 \in 1 .. Len(c) /\ i # 1
    BY <1>1, CodesAre DEF IsFirst
<1>3. c[i - 1].unit # u
    BY <1>2 DEF IsFirst
<1>4. j < i - 1
    BY <1>1, <1>2, <1>3
<1>5. c[j].unit <= c[i - 1].unit
    BY <1>2, <1>4, CodesRise
<1>6. c[i - 1].unit <= c[i].unit
    <2>1. i - 1 < i
        BY <1>2
    <2> QED BY <2>1, <1>2, CodesRise
<1>7. c[i - 1].unit \in Nat /\ c[j].unit \in Nat
    BY <1>2, CodesAre
<1> QED BY <1>2, <1>3, <1>5, <1>6, <1>7

LEMMA FirstIs ==
    ASSUME NEW c, NEW k, NEW next, StreamOK(c, k, next), NEW u, NEW i, IsFirst(c, u, i)
    PROVE  /\ V!StartsUnit(c[i]) /\ i \in 1 .. Len(c) /\ c[i].unit = u /\ u \in 1 .. k
           /\ i = 1 => u = 1 /\ c[i].at - ZeroOf(c[i]) = 0
           /\ i # 1 => /\ i - 1 \in 1 .. Len(c) /\ u = c[i - 1].unit + 1
                       /\ c[i].at - ZeroOf(c[i]) = c[i - 1].at + 4 + c[i - 1].rest
           /\ c[i].at - ZeroOf(c[i]) \in Nat
<1>1. i \in 1 .. Len(c) /\ c[i].unit = u /\ Len(c) \in Nat /\ u \in 1 .. k
    BY CodesAre DEF IsFirst
<1>2. c[i].at \in Nat /\ ZeroOf(c[i]) \in {0, 1}
    BY <1>1, CodesAre
<1>3. CASE i = 1
    <2>1. c[1].unit = 1 /\ c[1].at = ZeroOf(c[1]) /\ V!StartsUnit(c[1])
        <3>1. Len(c) > 0
            BY <1>1
        <3> QED BY <3>1, Zenon DEF StreamOK
    <2> QED BY <2>1, <1>1, <1>2, <1>3
<1>4. CASE i # 1
    <2>1. i \in 2 .. Len(c) /\ i - 1 \in 1 .. Len(c) /\ c[i - 1].unit # u
        BY <1>1, <1>4 DEF IsFirst
    <2>2. /\ c[i].at = c[i - 1].at + 4 + c[i - 1].rest + ZeroOf(c[i])
          /\ c[i].unit = c[i - 1].unit + 1 /\ V!StartsUnit(c[i])
        BY <2>1, <1>1, CodeNext
    <2> DEFINE p == i - 1
               a == c[p].at
               r == c[p].rest
               z == ZeroOf(c[i])
               b == c[i].at
    <2>3. a \in Nat /\ r \in Nat /\ z \in Nat /\ b = a + 4 + r + z
        BY <2>1, <2>2, <1>2, CodesAre
    <2>4. b - z = a + 4 + r /\ b - z \in Nat
        <3> HIDE DEF a, r, z, b
        <3> QED BY <2>3
    <2> HIDE DEF a, r, z, b
    <2> QED BY <2>1, <2>2, <2>4, <1>1, <1>4 DEF a, r, z, b
<1> QED BY <1>3, <1>4

LEMMA FirstExists ==
    ASSUME NEW c, NEW k, NEW next, StreamOK(c, k, next), NEW u \in 1 .. k
    PROVE  \E i : IsFirst(c, u, i)
<1> DEFINE S == {i \in 1 .. Len(c) : c[i].unit = u}
<1>1. Len(c) \in Nat /\ DOMAIN c = 1 .. Len(c)
    BY CodesAre
<1>2. S # {}
    <2>1. \E i \in DOMAIN c : c[i].unit = u
        BY Zenon DEF StreamOK
    <2> QED BY <2>1, <1>1
<1>3. S \subseteq Nat
    BY <1>1
<1>4. PICK i \in S : \A y \in S : i <= y
    <2> HIDE DEF S
    <2> QED BY <1>2, <1>3, LeastElement
<1>5. i \in 1 .. Len(c) /\ c[i].unit = u
    BY <1>4
<1>6. i = 1 \/ c[i - 1].unit # u
    <2>1. SUFFICES ASSUME i # 1, c[i - 1].unit = u PROVE FALSE
        OBVIOUS
    <2>2. i - 1 \in S /\ ~ (i <= i - 1)
        BY <2>1, <1>1, <1>5
    <2> QED BY <2>2, <1>4
<1> QED BY <1>5, <1>6 DEF IsFirst

(* Where unit u begins: at its first code, or the zero byte before that.   *)
Stream == StreamOK(codes, Pictures, esLength)

LEMMA FromIs ==
    ASSUME Stream, NEW u, NEW i, IsFirst(codes, u, i)
    PROVE  /\ V!CodeOf(u) = codes[i] /\ V!UnitFrom(u) = codes[i].at - ZeroOf(codes[i])
           /\ V!UnitFrom(u) \in Nat
<1> DEFINE Q(j) == j \in DOMAIN codes /\ codes[j].unit = u /\ (j = 1 \/ codes[j - 1].unit # u)
           j    == CHOOSE x : Q(x)
<1>1. /\ Len(codes) \in Nat /\ DOMAIN codes = 1 .. Len(codes)
      /\ \A m \in 1 .. Len(codes) : codes[m].at \in Nat /\ ZeroOf(codes[m]) \in {0, 1}
    BY CodesAre, Zenon DEF Stream
<1>2. Q(i)
    BY <1>1, Zenon DEF IsFirst
<1>3. Q(j)
    BY <1>2, Zenon
<1>4. V!CodeOf(u) = codes[j]
    BY Zenon DEF V!CodeOf
<1> HIDE DEF j
<1>5. i = j
    <2>1. IsFirst(codes, u, j)
        BY <1>1, <1>3, Zenon DEF IsFirst
    <2>2. i \in 1 .. Len(codes) /\ j \in 1 .. Len(codes) /\ codes[i].unit = u /\ codes[j].unit = u
        BY <1>1, <1>2, <1>3
    <2>3. i <= j /\ j <= i
        BY <2>1, <2>2, FirstOnly DEF Stream
    <2> QED BY <2>2, <2>3, <1>1
<1>6. codes[i].at - ZeroOf(codes[i]) \in Nat
    BY FirstIs DEF Stream
<1> QED BY <1>4, <1>5, <1>6, Zenon DEF V!UnitFrom, ZeroOf

LEMMA FromsAre ==
    ASSUME Stream
    PROVE  /\ \A u \in 1 .. Pictures : V!UnitFrom(u) \in Nat /\ V!UnitFrom(u) < esLength
           /\ Len(codes) > 0 => V!UnitFrom(1) = 0 /\ 1 \in 1 .. Pictures
           /\ \A n \in 1 .. Len(codes) : V!UnitFrom(codes[n].unit) <= codes[n].at
           /\ \A u, w \in 1 .. Pictures : u < w => V!UnitFrom(u) < V!UnitFrom(w)
<1>1. /\ Len(codes) \in Nat /\ esLength \in Nat
      /\ \A m \in 1 .. Len(codes) :
             /\ codes[m].at \in Nat /\ ZeroOf(codes[m]) \in {0, 1} /\ codes[m].unit \in 1 .. Pictures
             /\ codes[m].unit \in Nat /\ codes[m].at + 4 <= esLength
    BY CodesAre, CodesEnd DEF Stream
<1>2. ASSUME NEW u \in 1 .. Pictures
      PROVE  \E i \in 1 .. Len(codes) :
                 /\ IsFirst(codes, u, i) /\ codes[i].unit = u
                 /\ V!UnitFrom(u) = codes[i].at - ZeroOf(codes[i]) /\ V!UnitFrom(u) \in Nat
    <2>1. PICK i : IsFirst(codes, u, i)
        BY FirstExists DEF Stream
    <2>2. i \in 1 .. Len(codes) /\ codes[i].unit = u
        BY <2>1 DEF IsFirst
    <2> QED BY <2>1, <2>2, FromIs
<1>3. ASSUME NEW u \in 1 .. Pictures
      PROVE  V!UnitFrom(u) \in Nat /\ V!UnitFrom(u) < esLength
    <2>1. PICK i \in 1 .. Len(codes) :
              /\ IsFirst(codes, u, i)
              /\ V!UnitFrom(u) = codes[i].at - ZeroOf(codes[i]) /\ V!UnitFrom(u) \in Nat
        BY <1>2
    <2>2. codes[i].at \in Nat /\ ZeroOf(codes[i]) \in {0, 1} /\ codes[i].at + 4 <= esLength
        BY <1>1
    <2> DEFINE a == codes[i].at
    <2>3. a \in Nat /\ V!UnitFrom(u) <= a /\ a + 4 <= esLength /\ V!UnitFrom(u) \in Nat
        BY <2>1, <2>2
    <2> HIDE DEF a
    <2> QED BY <2>3, <1>1
<1>4. ASSUME Len(codes) > 0 PROVE V!UnitFrom(1) = 0 /\ 1 \in 1 .. Pictures
    <2>1. 1 \in 1 .. Len(codes) /\ codes[1].unit = 1
        <3>1. codes[1].unit = 1
            BY <1>4, Zenon DEF Stream, StreamOK
        <3> QED BY <1>1, <1>4, <3>1
    <2>2. IsFirst(codes, 1, 1)
        BY <2>1 DEF IsFirst
    <2>3. V!UnitFrom(1) = codes[1].at - ZeroOf(codes[1])
        BY <2>2, FromIs
    <2>4. codes[1].at - ZeroOf(codes[1]) = 0
        BY <2>2, FirstIs DEF Stream
    <2>5. 1 \in 1 .. Pictures
        BY <2>1, <1>1
    <2> QED BY <2>3, <2>4, <2>5
<1>5. ASSUME NEW n \in 1 .. Len(codes) PROVE V!UnitFrom(codes[n].unit) <= codes[n].at
    <2>1. PICK i \in 1 .. Len(codes) :
              /\ IsFirst(codes, codes[n].unit, i)
              /\ V!UnitFrom(codes[n].unit) = codes[i].at - ZeroOf(codes[i])
              /\ V!UnitFrom(codes[n].unit) \in Nat
        BY <1>1, <1>2
    <2>2. i <= n
        BY <2>1, FirstOnly DEF Stream
    <2>3. i < n => codes[i].at + 4 <= codes[n].at
        BY CodesApart DEF Stream
    <2>4. i < n \/ i = n
        BY <2>2, <1>1
    <2>5. codes[i].at <= codes[n].at
        <3> DEFINE a == codes[i].at
                   b == codes[n].at
        <3>1. a \in Nat /\ b \in Nat /\ (i = n => a = b) /\ (i < n => a + 4 <= b)
            BY <2>3, <1>1
        <3> HIDE DEF a, b
        <3>2. a <= b
            BY <3>1, <2>4
        <3> QED BY <3>2 DEF a, b
    <2> DEFINE a == codes[i].at
               b == codes[n].at
               z == ZeroOf(codes[i])
    <2>6. a \in Nat /\ b \in Nat /\ z \in {0, 1} /\ a <= b /\ V!UnitFrom(codes[n].unit) = a - z
        BY <2>1, <2>5, <1>1
    <2> HIDE DEF a, b, z
    <2>7. V!UnitFrom(codes[n].unit) <= b
        BY <2>6
    <2> QED BY <2>7 DEF b
<1>6. ASSUME NEW u \in 1 .. Pictures, NEW w \in 1 .. Pictures, u < w
      PROVE  V!UnitFrom(u) < V!UnitFrom(w)
    <2>1. PICK i \in 1 .. Len(codes) :
              /\ IsFirst(codes, u, i) /\ codes[i].unit = u
              /\ V!UnitFrom(u) = codes[i].at - ZeroOf(codes[i]) /\ V!UnitFrom(u) \in Nat
        BY <1>2
    <2>2. PICK j \in 1 .. Len(codes) :
              /\ IsFirst(codes, w, j) /\ codes[j].unit = w
              /\ V!UnitFrom(w) = codes[j].at - ZeroOf(codes[j]) /\ V!UnitFrom(w) \in Nat
        BY <1>2
    <2>3. i < j
        <3>1. i # j
            BY <1>6, <2>1, <2>2
        <3>2. ~ (j < i)
            <4>1. j < i => codes[j].unit <= codes[i].unit
                BY CodesRise DEF Stream
            <4> QED BY <4>1, <1>6, <2>1, <2>2
        <3> QED BY <3>1, <3>2, <1>1
    <2>4. codes[i].at + 4 <= codes[j].at
        BY <2>3, CodesApart DEF Stream
    <2> DEFINE a == codes[i].at
               b == codes[j].at
               y == ZeroOf(codes[i])
               z == ZeroOf(codes[j])
    <2>5. /\ a \in Nat /\ b \in Nat /\ y \in {0, 1} /\ z \in {0, 1} /\ a + 4 <= b
          /\ V!UnitFrom(u) = a - y /\ V!UnitFrom(w) = b - z
        BY <2>1, <2>2, <2>4, <1>1
    <2> HIDE DEF a, b, y, z
    <2> QED BY <2>5
<1> QED BY <1>3, <1>4, <1>5, <1>6

(* What the first n codes say of the unit the last of them is in.          *)
PictureIn(n) == \E i \in 1 .. n : codes[i].unit = codes[n].unit /\ V!HasPicture(codes[i])
KeyIn(n)     == \E i \in 1 .. n : /\ codes[i].unit = codes[n].unit
                                  /\ V!HasPicture(codes[i]) /\ codes[i].intra

(* The splitter before the first code, ...                                 *)
Unbegun ==
    /\ scanned = 0 /\ auStart = V!NoUnit /\ hasPicture = FALSE /\ key = FALSE
    /\ esBase = 0 /\ cut = << >>

(* ... behind code n, gathering the unit it is in, ...                     *)
Gathering(n) ==
    /\ scanned = codes[n].at + 4 /\ codes[n].at + 6 <= end
    /\ auStart = V!UnitFrom(codes[n].unit) /\ esBase = auStart
    /\ hasPicture = PictureIn(n) /\ key = KeyIn(n)
    /\ Len(cut) = codes[n].unit - 1

(* ... and when all is cut.                                                *)
Finished ==
    /\ end = esLength /\ V!Seen = {}
    /\ auStart = V!NoUnit /\ Len(cut) = Pictures

SplitterOK ==
    /\ Stream
    /\ end \in Nat /\ end <= esLength
    /\ anchors \in Seq(Nat \X Nat)
    /\ cut \in Seq(Nat \X Int) /\ \A i \in DOMAIN cut : cut[i][1] = i
    /\ Unbegun \/ (\E n \in 1 .. Len(codes) : Gathering(n)) \/ Finished

(* A unit that is cut from where it begins to where the next does is known *)
(* for the one it is.                                                      *)
LEMMA KnownFor ==
    ASSUME Stream, NEW u \in 1 .. Pictures, NEW s, NEW e, V!IsUnit(u, s, e)
    PROVE  V!NumberOf(s, e) = u
<1>1. \A w \in 1 .. Pictures : V!IsUnit(w, s, e) => w = u
    <2>1. SUFFICES ASSUME NEW w \in 1 .. Pictures, V!IsUnit(w, s, e), w # u PROVE FALSE
        BY Zenon
    <2>2. V!UnitFrom(w) = V!UnitFrom(u) /\ V!UnitFrom(u) \in Nat
        BY <2>1, FromsAre DEF V!IsUnit
    <2>3. w < u \/ u < w
        BY <2>1
    <2> QED BY <2>2, <2>3, FromsAre
<1> QED BY <1>1, Zenon DEF V!NumberOf

LEMMA CountsAgree == \A S : V!Cardinality(S) = Cardinality(S)
    BY DEF V!Cardinality, Cardinality, V!IsFiniteSet, IsFiniteSet

(* Of the anchors, those at or before s are the first ones: as many as     *)
(* there are of them.                                                      *)
LEMMA DueAre ==
    ASSUME anchors \in Seq(Nat \X Nat), NEW s \in Nat
    PROVE  /\ Cardinality(V!Due(s)) \in 0 .. Len(anchors) /\ V!PtsAt(s) \in Int
           /\ V!Due(s) # {} => Cardinality(V!Due(s)) > 0
           /\ SubSeq(anchors, Cardinality(V!Due(s)) + 1, Len(anchors)) \in Seq(Nat \X Nat)
<1> DEFINE d == V!Due(s)
           n == Len(anchors)
           m == Cardinality(d)
<1>1. n \in Nat /\ DOMAIN anchors = 1 .. n /\ \A i \in 1 .. n : anchors[i][2] \in Nat
    OBVIOUS
<1>2. d \subseteq 1 .. n
    BY <1>1 DEF V!Due
<1>3. IsFiniteSet(1 .. n) /\ Cardinality(1 .. n) = n
    <2> HIDE DEF n
    <2>1. 1 \in Int /\ n \in Int
        BY <1>1
    <2>2. IsFiniteSet(1 .. n) /\ Cardinality(1 .. n) = IF 1 > n THEN 0 ELSE n - 1 + 1
        BY <2>1, FS_Interval, Zenon
    <2> QED BY <1>1, <2>2
<1> HIDE DEF d
<1>4. IsFiniteSet(d) /\ m \in Nat /\ m <= n
    <2>1. IsFiniteSet(d) /\ Cardinality(d) <= Cardinality(1 .. n)
        BY <1>2, <1>3, FS_Subset
    <2> QED BY <2>1, <1>3, FS_CardinalityType
<1>5. d # {} => m # 0
    BY <1>4, FS_EmptySet
<1>6. V!PtsAt(s) \in Int
    <2>1. CASE d = {}
        BY <2>1 DEF V!PtsAt, V!NoPts, d
    <2>2. CASE d # {}
        <3>1. m \in 1 .. n
            BY <2>2, <1>1, <1>4, <1>5
        <3>2. V!PtsAt(s) = IF d = {} THEN V!NoPts ELSE anchors[m][2]
            BY CountsAgree, Zenon DEF V!PtsAt, d
        <3>3. V!PtsAt(s) = anchors[m][2]
            BY <2>2, <3>2, Zenon
        <3> HIDE DEF m
        <3> QED BY <3>1, <3>3, <1>1
    <2> QED BY <2>1, <2>2
<1>7. SubSeq(anchors, m + 1, n) \in Seq(Nat \X Nat)
    <2> HIDE DEF m, n
    <2>1. \A i \in m + 1 .. n : anchors[i] \in Nat \X Nat
        BY <1>1, <1>4 DEF n
    <2>2. m + 1 \in 1 .. n + 1
        BY <1>1, <1>4
    <2> QED BY <2>1, <2>2, <1>1 DEF n
<1> QED BY <1>4, <1>5, <1>6, <1>7, <1>1 DEF d

(* The search has passed the first n codes; it finds the next one.         *)
Searched(n) == n \in 0 .. Len(codes) /\ scanned = IF n = 0 THEN 0 ELSE codes[n].at + 4

LEMMA SeenIs ==
    ASSUME Stream, end \in Nat, NEW n, Searched(n)
    PROVE  /\ V!Seen \subseteq Nat /\ \A i \in V!Seen : n + 1 <= i /\ n + 1 \in V!Seen
           /\ n < Len(codes) /\ codes[n + 1].at + 6 <= end => n + 1 \in V!Seen
           /\ V!Seen \subseteq 1 .. Len(codes) /\ \A i \in V!Seen : codes[i].at + 6 <= end
<1>1. /\ Len(codes) \in Nat /\ DOMAIN codes = 1 .. Len(codes)
      /\ \A i \in 1 .. Len(codes) : codes[i].at \in Nat
      /\ \A i, j \in 1 .. Len(codes) : i < j => codes[i].at + 4 <= codes[j].at
    BY CodesAre, CodesApart DEF Stream
<1>2. n \in 0 .. Len(codes) /\ n \in Nat
    BY <1>1 DEF Searched
<1>3. ASSUME NEW i \in 1 .. Len(codes) PROVE codes[i].at >= scanned <=> i > n
    <2>1. CASE n = 0
        <3>1. scanned = 0
            BY <2>1 DEF Searched
        <3>2. codes[i].at \in Nat
            BY <1>1
        <3> QED BY <2>1, <3>1, <3>2
    <2>2. CASE n # 0
        <3> DEFINE a == codes[n].at
                   b == codes[i].at
        <3>1. n \in 1 .. Len(codes) /\ scanned = a + 4
            BY <2>2, <1>2 DEF Searched
        <3>2. a \in Nat /\ b \in Nat /\ (n < i => a + 4 <= b) /\ (i < n => b + 4 <= a) /\ (i = n => a = b)
            BY <3>1, <1>1
        <3>3. i \in Nat
            OBVIOUS
        <3> HIDE DEF a, b
        <3>4. b >= scanned <=> i > n
            BY <3>1, <3>2, <3>3, <1>2
        <3> QED BY <3>4 DEF b
    <2> QED BY <2>1, <2>2
<1>4. V!Seen = {i \in 1 .. Len(codes) : i > n /\ codes[i].at + 6 <= end}
    BY <1>1, <1>3 DEF V!Seen
<1>5. ASSUME NEW i \in V!Seen PROVE n + 1 <= i /\ n + 1 \in V!Seen
    <2>1. i \in 1 .. Len(codes) /\ i > n /\ codes[i].at + 6 <= end
        BY <1>4
    <2>2. n + 1 \in 1 .. Len(codes) /\ n + 1 <= i
        BY <2>1, <1>1, <1>2
    <2> DEFINE a == codes[n + 1].at
               b == codes[i].at
    <2>3. a \in Nat /\ b \in Nat /\ (n + 1 < i => a + 4 <= b) /\ (n + 1 = i => a = b) /\ b + 6 <= end
        BY <2>1, <2>2, <1>1
    <2>4. n + 1 < i \/ n + 1 = i
        BY <2>2, <2>1, <1>2
    <2> HIDE DEF a, b
    <2>5. a + 6 <= end
        BY <2>3, <2>4
    <2>6. n + 1 > n
        BY <1>2
    <2> QED BY <2>2, <2>5, <2>6, <1>4 DEF a
<1>6. n < Len(codes) /\ codes[n + 1].at + 6 <= end => n + 1 \in V!Seen
    <2>1. n < Len(codes) => n + 1 \in 1 .. Len(codes) /\ n + 1 > n
        BY <1>1, <1>2
    <2> QED BY <2>1, <1>4
<1> QED BY <1>1, <1>4, <1>5, <1>6

LEMMA FoundIs ==
    ASSUME Stream, end \in Nat, NEW n, Searched(n), V!Seen # {}
    PROVE  /\ n + 1 \in 1 .. Len(codes) /\ codes[n + 1].at + 6 <= end
           /\ (CHOOSE i \in V!Seen : \A j \in V!Seen : i <= j) = n + 1
<1>1. /\ V!Seen \subseteq Nat /\ n + 1 \in V!Seen /\ \A i \in V!Seen : n + 1 <= i
      /\ V!Seen \subseteq 1 .. Len(codes) /\ \A i \in V!Seen : codes[i].at + 6 <= end
    BY SeenIs
<1>2. \A i \in V!Seen : (\A j \in V!Seen : i <= j) => i = n + 1
    <2> SUFFICES ASSUME NEW i \in V!Seen, \A j \in V!Seen : i <= j PROVE i = n + 1
        OBVIOUS
    <2>1. i <= n + 1 /\ n + 1 <= i /\ i \in Nat /\ n + 1 \in Nat
        BY <1>1
    <2> QED BY <2>1
<1> DEFINE m == CHOOSE i \in V!Seen : \A j \in V!Seen : i <= j
<1>3. m \in V!Seen /\ \A j \in V!Seen : m <= j
    BY <1>1, Zenon
<1>4. m = n + 1
    BY <1>2, <1>3, Zenon
<1> QED BY <1>1, <1>4, Zenon

(* At the end of the stream all have been searched but perhaps one that    *)
(* ends it.                                                                *)
Trailing(n) == n = Len(codes) \/ (n + 1 = Len(codes) /\ codes[n + 1].kind = "other")

LEMMA AllSearched ==
    ASSUME Stream, end = esLength, NEW n, Searched(n), V!Seen = {}
    PROVE  Trailing(n)
<1>1. Len(codes) \in Nat /\ esLength \in Nat
    BY CodesAre DEF Stream
<1>2. n \in 0 .. Len(codes)
    BY DEF Searched
<1>3. CASE n < Len(codes)
    <2>1. n + 1 \in 1 .. Len(codes)
        BY <1>1, <1>2, <1>3
    <2>2. ~ (codes[n + 1].at + 6 <= esLength)
        <3>1. SUFFICES ASSUME codes[n + 1].at + 6 <= esLength PROVE FALSE
            OBVIOUS
        <3>2. n + 1 \in V!Seen
            BY <3>1, <1>1, <1>3, SeenIs
        <3> QED BY <3>2
    <2> QED BY <2>1, <2>2, CodesEnd, Zenon DEF Stream, Trailing
<1> QED BY <1>1, <1>2, <1>3 DEF Trailing

(* What a unit's codes say is known once the last of them that may say it  *)
(* has been seen.                                                          *)
LEMMA SaidOf ==
    ASSUME Stream, NEW n \in 1 .. Len(codes),
           Trailing(n) \/ codes[n + 1].unit # codes[n].unit
    PROVE  /\ PictureIn(n)
           /\ KeyIn(n) <=> \E i \in DOMAIN codes : /\ codes[i].unit = codes[n].unit
                                                   /\ V!HasPicture(codes[i]) /\ codes[i].intra
<1> DEFINE k == Len(codes)
<1>0. DOMAIN codes = 1 .. k
    BY CodesAre DEF Stream
<1>1. k \in Nat /\ n \in 1 .. k
    BY CodesAre DEF Stream
<1>2. \A i \in 1 .. k : codes[i].unit \in Nat /\ codes[i].unit \in 1 .. Pictures
    BY CodesAre DEF Stream
<1>3. \A i, j \in 1 .. k : i < j => codes[i].unit <= codes[j].unit
    BY CodesRise DEF Stream
<1> HIDE DEF k
<1>4. ASSUME NEW i \in 1 .. k, codes[i].unit = codes[n].unit, V!HasPicture(codes[i]) PROVE i \in 1 .. n
    <2>1. SUFFICES ASSUME n < i PROVE FALSE
        BY <1>1
    <2>2. n + 1 \in 1 .. k /\ n < n + 1 /\ (n + 1 < i \/ n + 1 = i) /\ n # k /\ n \in 1 .. k
        <3>1. n \in Nat /\ i \in Nat /\ i <= k
            BY <1>1
        <3> QED BY <3>1, <2>1, <1>1
    <2>3. ~Trailing(n)
        <3>1. SUFFICES ASSUME n + 1 = k, codes[n + 1].kind = "other" PROVE FALSE
            BY <2>2 DEF Trailing, k
        <3>2. i = n + 1
            BY <3>1, <2>2, <1>1
        <3> QED BY <3>1, <3>2, <1>4 DEF V!HasPicture
    <2>4. codes[n].unit <= codes[n + 1].unit /\ codes[n + 1].unit <= codes[i].unit
        <3>1. codes[n].unit <= codes[n + 1].unit
            BY <2>2, <1>3
        <3>2. CASE n + 1 < i
            BY <3>1, <3>2, <2>2, <1>3
        <3>3. CASE n + 1 = i
            BY <3>1, <3>3, <2>2, <1>2
        <3> QED BY <3>2, <3>3, <2>2
    <2>5. codes[n + 1].unit \in Nat /\ codes[n].unit \in Nat
        BY <2>2, <1>2
    <2>6. codes[n + 1].unit # codes[n].unit
        BY <2>3
    <2> QED BY <2>4, <2>5, <2>6, <1>4
<1>5. \E i \in DOMAIN codes : codes[i].unit = codes[n].unit /\ V!HasPicture(codes[i])
    <2>1. codes[n].unit \in 1 .. Pictures
        BY <1>2 DEF k
    <2> QED BY <2>1, Zenon DEF Stream, StreamOK
<1>6. \A i \in 1 .. n : i \in 1 .. k
    BY <1>1
<1> QED BY <1>0, <1>4, <1>5, <1>6, Zenon DEF PictureIn, KeyIn

(* What the next code adds.                                                *)
LEMMA SaidNext ==
    ASSUME Stream, NEW n \in 0 .. Len(codes), n + 1 \in 1 .. Len(codes)
    PROVE  /\ n > 0 /\ codes[n + 1].unit = codes[n].unit =>
                  /\ PictureIn(n + 1) = (PictureIn(n) \/ V!HasPicture(codes[n + 1]))
                  /\ KeyIn(n + 1) = (KeyIn(n) \/ (V!HasPicture(codes[n + 1]) /\ codes[n + 1].intra))
           /\ n = 0 \/ codes[n + 1].unit # codes[n].unit =>
                  /\ PictureIn(n + 1) = (FALSE \/ V!HasPicture(codes[n + 1]))
                  /\ KeyIn(n + 1) = (FALSE \/ (V!HasPicture(codes[n + 1]) /\ codes[n + 1].intra))
<1> DEFINE m == n + 1
           k == Len(codes)
<1>1. k \in Nat /\ n \in Nat /\ n \in 0 .. k /\ m \in 1 .. k
    BY CodesAre DEF Stream
<1>2. \A i \in 1 .. m : i \in 1 .. n \/ i = m
    BY <1>1
<1>3. \A i \in 1 .. n : i \in 1 .. m
    BY <1>1
<1>4. m \in 1 .. m
    BY <1>1
<1>5. ASSUME n > 0, codes[m].unit = codes[n].unit
      PROVE  /\ PictureIn(m) = (PictureIn(n) \/ V!HasPicture(codes[m]))
             /\ KeyIn(m) = (KeyIn(n) \/ (V!HasPicture(codes[m]) /\ codes[m].intra))
    <2> HIDE DEF m
    <2>1. PictureIn(m) <=> (PictureIn(n) \/ V!HasPicture(codes[m]))
        BY <1>2, <1>3, <1>4, <1>5, Zenon DEF PictureIn
    <2>2. KeyIn(m) <=> (KeyIn(n) \/ (V!HasPicture(codes[m]) /\ codes[m].intra))
        BY <1>2, <1>3, <1>4, <1>5, Zenon DEF KeyIn
    <2> QED BY <2>1, <2>2, Zenon DEF PictureIn, KeyIn
<1>6. ASSUME n = 0 \/ codes[m].unit # codes[n].unit
      PROVE  /\ PictureIn(m) = (FALSE \/ V!HasPicture(codes[m]))
             /\ KeyIn(m) = (FALSE \/ (V!HasPicture(codes[m]) /\ codes[m].intra))
    <2>1. ASSUME NEW i \in 1 .. m, codes[i].unit = codes[m].unit PROVE i = m
        <3>1. SUFFICES ASSUME i \in 1 .. n PROVE FALSE
            BY <2>1, <1>2
        <3>2. n \in 1 .. k /\ i \in 1 .. k /\ (i < n \/ i = n) /\ n < m /\ n # 0
            BY <3>1, <1>1
        <3>3. codes[n].unit <= codes[m].unit
            BY <3>2, <1>1, CodesRise DEF Stream
        <3>4. i < n => codes[i].unit <= codes[n].unit
            BY <3>2, CodesRise DEF Stream
        <3>5. codes[n].unit \in Nat /\ codes[m].unit \in Nat
            BY <3>2, <1>1, CodesAre DEF Stream
        <3> DEFINE a == codes[i].unit
                   b == codes[n].unit
                   c == codes[m].unit
        <3>6. /\ b \in Nat /\ c \in Nat /\ b <= c /\ a = c /\ b # c
              /\ (i < n => a <= b) /\ (i = n => a = b)
            BY <3>2, <3>3, <3>4, <3>5, <2>1, <1>6
        <3> HIDE DEF a, b, c
        <3> QED BY <3>6, <3>2
    <2> HIDE DEF m
    <2>2. PictureIn(m) <=> (FALSE \/ V!HasPicture(codes[m]))
        BY <1>4, <2>1, Zenon DEF PictureIn
    <2>3. KeyIn(m) <=> (FALSE \/ (V!HasPicture(codes[m]) /\ codes[m].intra))
        BY <1>4, <2>1, Zenon DEF KeyIn
    <2> QED BY <2>2, <2>3, Zenon DEF PictureIn, KeyIn
<1> QED BY <1>5, <1>6

(* A scan is of the code behind those searched.                            *)
LEMMA ScanIs ==
    ASSUME Stream, end \in Nat, NEW n, Searched(n), V!Scan
    PROVE  /\ n + 1 \in 1 .. Len(codes) /\ codes[n + 1].at + 6 <= end
           /\ scanned' = codes[n + 1].at + 4
           /\ codes' = codes /\ esLength' = esLength /\ end' = end /\ stamped' = stamped
           /\ V!StartsUnit(codes[n + 1]) /\ auStart # V!NoUnit /\ hasPicture =>
                  /\ V!Cut(auStart, IF V!BeginsAt(codes[n + 1]) > auStart
                                    THEN V!BeginsAt(codes[n + 1]) ELSE auStart)
                  /\ auStart' = esBase'
                  /\ hasPicture' = (FALSE \/ V!HasPicture(codes[n + 1]))
                  /\ key' = (FALSE \/ (V!HasPicture(codes[n + 1]) /\ codes[n + 1].intra))
           /\ ~ (V!StartsUnit(codes[n + 1]) /\ auStart # V!NoUnit /\ hasPicture) =>
                  /\ auStart' = IF V!StartsUnit(codes[n + 1]) /\ auStart = V!NoUnit
                                THEN V!BeginsAt(codes[n + 1]) ELSE auStart
                  /\ hasPicture' = (hasPicture \/ V!HasPicture(codes[n + 1]))
                  /\ key' = (key \/ (V!HasPicture(codes[n + 1]) /\ codes[n + 1].intra))
                  /\ cut' = cut /\ anchors' = anchors /\ esBase' = esBase
<1> DEFINE m == CHOOSE i \in V!Seen : \A j \in V!Seen : i <= j
<1>1. V!Seen # {}
    BY DEF V!Scan
<1>2. n + 1 \in 1 .. Len(codes) /\ codes[n + 1].at + 6 <= end /\ m = n + 1
    BY <1>1, FoundIs
<1>3. /\ IF V!StartsUnit(codes[m]) /\ auStart # V!NoUnit /\ hasPicture
         THEN /\ V!Cut(auStart, IF V!BeginsAt(codes[m]) > auStart THEN V!BeginsAt(codes[m]) ELSE auStart)
              /\ auStart' = esBase'
              /\ V!NotePicture(codes[m], FALSE, FALSE)
         ELSE /\ auStart' = IF V!StartsUnit(codes[m]) /\ auStart = V!NoUnit
                            THEN V!BeginsAt(codes[m]) ELSE auStart
              /\ V!NotePicture(codes[m], hasPicture, key)
              /\ cut' = cut /\ anchors' = anchors /\ esBase' = esBase
      /\ scanned' = codes[m].at + 4
      /\ codes' = codes /\ esLength' = esLength /\ end' = end /\ stamped' = stamped
    BY Zenon DEF V!Scan
<1> HIDE DEF m
<1> QED BY <1>2, <1>3, Zenon DEF V!NotePicture

(* The next unit is cut, with the PTS of the last payload due, or none is. *)
CutsNext ==
    LET u == Len(cut) + 1
        s == V!UnitFrom(u)
    IN  /\ u \in 1 .. Pictures
        /\ cut' = Append(cut, <<u, V!PtsAt(s)>>)
        /\ anchors' = SubSeq(anchors, Cardinality(V!Due(s)) + 1, Len(anchors))
CutsNone == cut' = cut /\ anchors' = anchors

LEMMA CutIs ==
    ASSUME SplitterOK, NEW u, u = Len(cut) + 1, u \in 1 .. Pictures, NEW e,
           V!Cut(V!UnitFrom(u), e), V!IsUnit(u, V!UnitFrom(u), e)
    PROVE  /\ CutsNext /\ esBase' = e /\ anchors' \in Seq(Nat \X Nat)
           /\ cut' \in Seq(Nat \X Int) /\ \A i \in DOMAIN cut' : cut'[i][1] = i
           /\ Len(cut') = u /\ Len(cut) \in Nat
<1> DEFINE s == V!UnitFrom(u)
           p == V!PtsAt(s)
<1>1. /\ Stream /\ anchors \in Seq(Nat \X Nat) /\ cut \in Seq(Nat \X Int)
      /\ \A i \in DOMAIN cut : cut[i][1] = i
    BY Zenon DEF SplitterOK
<1>2. s \in Nat
    BY <1>1, FromsAre
<1>3. p \in Int /\ SubSeq(anchors, Cardinality(V!Due(s)) + 1, Len(anchors)) \in Seq(Nat \X Nat)
    BY <1>1, <1>2, DueAre
<1>4. V!NumberOf(s, e) = u
    BY <1>1, KnownFor
<1>5. /\ cut' = Append(cut, <<u, p>>) /\ esBase' = e
      /\ anchors' = SubSeq(anchors, Cardinality(V!Due(s)) + 1, Len(anchors))
    BY <1>4, CountsAgree, Zenon DEF V!Cut
<1> HIDE DEF p, s
<1>6. <<u, p>> \in Nat \X Int /\ Len(cut) \in Nat
    BY <1>1, <1>3
<1>7. /\ Append(cut, <<u, p>>) \in Seq(Nat \X Int) /\ DOMAIN Append(cut, <<u, p>>) = 1 .. u
      /\ Append(cut, <<u, p>>)[u] = <<u, p>> /\ Len(Append(cut, <<u, p>>)) = u
      /\ \A i \in 1 .. Len(cut) : Append(cut, <<u, p>>)[i] = cut[i]
    BY <1>1, <1>6
<1> DEFINE all == Append(cut, <<u, p>>)
<1> HIDE DEF all
<1>8. \A i \in 1 .. u : i = u \/ i \in 1 .. Len(cut)
    BY <1>6
<1>9. \A i \in 1 .. u : all[i][1] = i
    <2>1. DOMAIN cut = 1 .. Len(cut) /\ <<u, p>>[1] = u
        BY <1>1
    <2>2. ASSUME NEW i \in 1 .. u PROVE all[i][1] = i
        <3>1. CASE i = u
            <4>1. all[i] = <<u, p>>
                BY <3>1, <1>7, Zenon DEF all
            <4> QED BY <4>1, <3>1, <2>1, Zenon
        <3>2. CASE i \in 1 .. Len(cut)
            <4>1. all[i] = cut[i]
                BY <3>2, <1>7, Zenon DEF all
            <4> QED BY <4>1, <3>2, <2>1, <1>1, Zenon
        <3> QED BY <3>1, <3>2, <1>8
    <2> QED BY <2>2
<1>10. cut' = all /\ all \in Seq(Nat \X Int) /\ DOMAIN all = 1 .. u /\ Len(all) = u
    BY <1>5, <1>7, Zenon DEF all
<1>11. CutsNext
    BY <1>5, Zenon DEF CutsNext, s, p
<1> QED BY <1>3, <1>5, <1>6, <1>9, <1>10, <1>11, Zenon

(* The steps of the splitter, and which unit they cut, if any.             *)
Scans == SplitterOK' /\ (CutsNext \/ CutsNone)

(* The next code of the unit being gathered.                               *)
LEMMA ScansOn ==
    ASSUME SplitterOK, NEW n \in 1 .. Len(codes), Gathering(n), V!Scan,
           codes[n + 1].unit = codes[n].unit
    PROVE  Scans
<1> DEFINE m == n + 1
<1>1. Stream /\ end \in Nat /\ end <= esLength /\ Len(codes) \in Nat /\ n # 0 /\ n > 0 /\ n \in 0 .. Len(codes)
    BY CodesAre DEF SplitterOK, Stream
<1>2. Searched(n)
    BY <1>1, Zenon DEF Searched, Gathering
<1>3. m \in 1 .. Len(codes) /\ n < m
    BY <1>1, <1>2, ScanIs
<1>4. V!StartsUnit(codes[m]) => ~hasPicture
    <2>1. SUFFICES ASSUME V!StartsUnit(codes[m]), PictureIn(n) PROVE FALSE
        BY Zenon DEF Gathering
    <2>2. PICK i \in 1 .. n : codes[i].unit = codes[n].unit /\ V!HasPicture(codes[i])
        BY <2>1, Zenon DEF PictureIn
    <2>3. i \in DOMAIN codes /\ m \in DOMAIN codes /\ i < m
        BY <1>1, <1>3, CodesAre DEF Stream
    <2>4. \A x, y \in DOMAIN codes :
              x < y /\ codes[x].unit = codes[y].unit /\ V!HasPicture(codes[x]) => ~V!StartsUnit(codes[y])
        BY <1>1, Zenon DEF Stream, StreamOK
    <2>5. codes[i].unit = codes[m].unit
        BY <2>2, Zenon
    <2> QED BY <2>1, <2>2, <2>3, <2>4, <2>5, Zenon
<1>5. /\ codes[m].at + 6 <= end /\ scanned' = codes[m].at + 4
      /\ codes' = codes /\ esLength' = esLength /\ end' = end
      /\ auStart' = IF V!StartsUnit(codes[m]) /\ auStart = V!NoUnit
                    THEN V!BeginsAt(codes[m]) ELSE auStart
      /\ hasPicture' = (hasPicture \/ V!HasPicture(codes[m]))
      /\ key' = (key \/ (V!HasPicture(codes[m]) /\ codes[m].intra))
      /\ cut' = cut /\ anchors' = anchors /\ esBase' = esBase
    BY <1>1, <1>2, <1>4, ScanIs, Zenon
<1>6. auStart # V!NoUnit /\ auStart = V!UnitFrom(codes[m].unit)
    <2>1. auStart = V!UnitFrom(codes[n].unit) /\ codes[n].unit \in 1 .. Pictures
        BY <1>1, CodesAre DEF Gathering, Stream
    <2>2. V!UnitFrom(codes[n].unit) \in Nat
        BY <2>1, <1>1, FromsAre
    <2> QED BY <2>1, <2>2 DEF V!NoUnit
<1>7. PictureIn(m) = (PictureIn(n) \/ V!HasPicture(codes[m]))
      /\ KeyIn(m) = (KeyIn(n) \/ (V!HasPicture(codes[m]) /\ codes[m].intra))
    BY <1>1, <1>3, SaidNext
<1> HIDE DEF m
<1>8. Gathering(m)'
    <2>1. hasPicture' = PictureIn(m) /\ key' = KeyIn(m)
        BY <1>5, <1>7, Zenon DEF Gathering
    <2>2. V!UnitFrom(codes[m].unit)' = V!UnitFrom(codes[m].unit)
        BY <1>5, Zenon DEF V!UnitFrom, V!CodeOf
    <2>3. PictureIn(m)' = PictureIn(m) /\ KeyIn(m)' = KeyIn(m)
        BY <1>5, Zenon DEF PictureIn, KeyIn
    <2>4. auStart' = auStart /\ esBase' = auStart /\ Len(cut) = codes[m].unit - 1
        BY <1>5, <1>6, Zenon DEF Gathering, m
    <2>5. /\ scanned' = codes'[m].at + 4 /\ codes'[m].at + 6 <= end'
          /\ auStart' = V!UnitFrom(codes[m].unit)' /\ esBase' = auStart'
          /\ Len(cut') = codes'[m].unit - 1
        BY <2>2, <2>4, <1>5, <1>6, Zenon
    <2> QED BY <2>1, <2>3, <2>5, Zenon DEF Gathering
<1>9. SplitterOK'
    <2>1. Stream'
        BY <1>1, <1>5, Zenon DEF Stream
    <2> QED BY <2>1, <1>3, <1>5, <1>8, Zenon DEF SplitterOK
<1> QED BY <1>5, <1>9, Zenon DEF Scans, CutsNone

(* The first code of all.                                                  *)
LEMMA ScansFirst ==
    ASSUME SplitterOK, Unbegun, V!Scan
    PROVE  Scans
<1>1. Stream /\ end \in Nat /\ end <= esLength /\ Len(codes) \in Nat /\ 0 \in 0 .. Len(codes)
    BY CodesAre DEF SplitterOK, Stream
<1>2. Searched(0)
    BY <1>1, Zenon DEF Searched, Unbegun
<1>3. 1 \in 1 .. Len(codes) /\ 0 + 1 = 1 /\ Len(codes) > 0
    <2>1. 0 + 1 \in 1 .. Len(codes)
        BY <1>1, <1>2, ScanIs, Zenon
    <2> QED BY <2>1, <1>1
<1>4. ~hasPicture /\ auStart = V!NoUnit /\ esBase = 0 /\ cut = << >> /\ hasPicture = FALSE /\ key = FALSE
    BY DEF Unbegun
<1>5. /\ codes[0 + 1].at + 6 <= end /\ scanned' = codes[0 + 1].at + 4
      /\ codes' = codes /\ esLength' = esLength /\ end' = end
      /\ auStart' = IF V!StartsUnit(codes[0 + 1]) /\ auStart = V!NoUnit
                    THEN V!BeginsAt(codes[0 + 1]) ELSE auStart
      /\ hasPicture' = (hasPicture \/ V!HasPicture(codes[0 + 1]))
      /\ key' = (key \/ (V!HasPicture(codes[0 + 1]) /\ codes[0 + 1].intra))
      /\ cut' = cut /\ anchors' = anchors /\ esBase' = esBase
    BY <1>1, <1>2, <1>4, ScanIs, Zenon
<1>6. V!StartsUnit(codes[1]) /\ codes[1].unit = 1 /\ codes[1].at = ZeroOf(codes[1])
    BY <1>1, <1>3, Zenon DEF Stream, StreamOK
<1>7. V!BeginsAt(codes[1]) = 0
    <2>1. codes[1].zero => codes[1].at = 1
        BY <1>6 DEF ZeroOf
    <2>2. ~codes[1].zero => codes[1].at = 0
        BY <1>6 DEF ZeroOf
    <2> QED BY <2>1, <2>2, <1>4 DEF V!BeginsAt
<1>8. auStart' = 0 /\ V!UnitFrom(1) = 0
    <2>1. V!UnitFrom(1) = 0
        BY <1>1, <1>3, FromsAre
    <2> QED BY <2>1, <1>3, <1>4, <1>5, <1>6, <1>7, Zenon
<1>9. PictureIn(1) = (FALSE \/ V!HasPicture(codes[1]))
      /\ KeyIn(1) = (FALSE \/ (V!HasPicture(codes[1]) /\ codes[1].intra))
    <2>1. 0 + 1 \in 1 .. Len(codes)
        BY <1>3
    <2>2. PictureIn(0 + 1) = (FALSE \/ V!HasPicture(codes[0 + 1]))
          /\ KeyIn(0 + 1) = (FALSE \/ (V!HasPicture(codes[0 + 1]) /\ codes[0 + 1].intra))
        BY <1>1, <2>1, SaidNext, Zenon
    <2> QED BY <2>2, <1>3, Zenon
<1>10. Gathering(1)'
    <2>1. hasPicture' = PictureIn(1) /\ key' = KeyIn(1)
        BY <1>3, <1>4, <1>5, <1>9, Zenon
    <2>2. V!UnitFrom(1)' = V!UnitFrom(1)
        BY <1>5, Zenon DEF V!UnitFrom, V!CodeOf
    <2>3. PictureIn(1)' = PictureIn(1) /\ KeyIn(1)' = KeyIn(1)
        BY <1>5, Zenon DEF PictureIn, KeyIn
    <2>4. V!UnitFrom(codes[1].unit)' = 0
        BY <2>2, <1>5, <1>6, <1>8, Zenon
    <2>5. esBase' = 0 /\ Len(cut') = codes'[1].unit - 1
        BY <1>4, <1>5, <1>6
    <2>6. scanned' = codes'[1].at + 4 /\ codes'[1].at + 6 <= end'
        BY <1>3, <1>5, Zenon
    <2> QED BY <2>1, <2>3, <2>4, <2>5, <2>6, <1>8, Zenon DEF Gathering
<1>11. SplitterOK'
    <2>1. Stream'
        BY <1>1, <1>5, Zenon DEF Stream
    <2> QED BY <2>1, <1>3, <1>5, <1>10, Zenon DEF SplitterOK
<1> QED BY <1>5, <1>11, Zenon DEF Scans, CutsNone

(* The first code of the next unit.                                        *)
LEMMA ScansOver ==
    ASSUME SplitterOK, NEW n \in 1 .. Len(codes), Gathering(n), V!Scan,
           codes[n + 1].unit # codes[n].unit
    PROVE  Scans
<1> DEFINE m == n + 1
           u == codes[n].unit
           w == codes[m].unit
           e == V!UnitFrom(w)
<1>1. Stream /\ end \in Nat /\ end <= esLength /\ Len(codes) \in Nat /\ n # 0 /\ n > 0 /\ n \in 0 .. Len(codes)
    BY CodesAre DEF SplitterOK, Stream
<1>2. Searched(n)
    BY <1>1, Zenon DEF Searched, Gathering
<1>3. m \in 1 .. Len(codes) /\ n < m /\ m \in 2 .. Len(codes) /\ m - 1 = n
    <2>1. m \in 1 .. Len(codes)
        BY <1>1, <1>2, ScanIs
    <2> QED BY <2>1, <1>1
<1>4. w = u + 1 /\ V!StartsUnit(codes[m])
    <2>1. \/ codes[m].unit = codes[m - 1].unit
          \/ codes[m].unit = codes[m - 1].unit + 1 /\ V!StartsUnit(codes[m])
        BY <1>1, <1>3, CodeNext DEF Stream
    <2> QED BY <2>1, <1>3
<1>5. u \in 1 .. Pictures /\ w \in 1 .. Pictures /\ u \in Nat /\ u # Pictures /\ u < w
    <2>1. u \in 1 .. Pictures /\ w \in 1 .. Pictures
        BY <1>1, <1>3, CodesAre DEF Stream
    <2> QED BY <2>1, <1>4
<1>6. PictureIn(n) /\ (KeyIn(n) <=> \E i \in DOMAIN codes : /\ codes[i].unit = u
                                                            /\ V!HasPicture(codes[i]) /\ codes[i].intra)
    BY <1>1, SaidOf
<1>7. auStart = V!UnitFrom(u) /\ auStart \in Nat /\ auStart # V!NoUnit /\ hasPicture /\ Len(cut) = u - 1
      /\ esBase = auStart /\ (key <=> KeyIn(n))
    <2>1. V!UnitFrom(u) \in Nat
        BY <1>1, <1>5, FromsAre
    <2> QED BY <2>1, <1>6 DEF Gathering, V!NoUnit
<1>8. IsFirst(codes, w, m)
    BY <1>3 DEF IsFirst
<1>9. V!BeginsAt(codes[m]) = e /\ auStart < e
    <2>1. e = codes[m].at - ZeroOf(codes[m]) /\ e \in Nat
        BY <1>1, <1>8, FromIs
    <2>2. auStart < e
        BY <1>1, <1>5, <1>7, FromsAre
    <2>3. codes[m].at \in Nat /\ codes[m].zero \in BOOLEAN
        BY <1>1, <1>3, CodesAre DEF Stream
    <2> DEFINE b == codes[m].at
    <2>4. codes[m].zero => e = b - 1
        BY <2>1 DEF ZeroOf
    <2>5. ~codes[m].zero => e = b
        BY <2>1, <2>3 DEF ZeroOf
    <2>6. V!BeginsAt(codes[m]) = IF codes[m].zero /\ b > esBase THEN b - 1 ELSE b
        BY DEF V!BeginsAt
    <2> HIDE DEF b, e
    <2>7. codes[m].zero => b > esBase
        BY <2>1, <2>2, <2>3, <2>4, <1>7 DEF b
    <2> QED BY <2>2, <2>4, <2>5, <2>6, <2>7
<1>10. /\ codes[m].at + 6 <= end /\ scanned' = codes[m].at + 4
       /\ codes' = codes /\ esLength' = esLength /\ end' = end
       /\ V!Cut(auStart, IF V!BeginsAt(codes[m]) > auStart THEN V!BeginsAt(codes[m]) ELSE auStart)
       /\ auStart' = esBase'
       /\ hasPicture' = (FALSE \/ V!HasPicture(codes[m]))
       /\ key' = (FALSE \/ (V!HasPicture(codes[m]) /\ codes[m].intra))
    BY <1>1, <1>2, <1>4, <1>7, ScanIs, Zenon
<1>11. V!Cut(V!UnitFrom(u), e)
    <2>1. V!BeginsAt(codes[m]) > auStart
        BY <1>9
    <2> HIDE DEF e, u, m
    <2> QED BY <2>1, <1>7, <1>9, <1>10, Zenon
<1>12. V!IsUnit(u, V!UnitFrom(u), e)
    <2>1. V!UnitTo(u) = e
        BY <1>4, <1>5 DEF V!UnitTo
    <2> HIDE DEF e, u, m
    <2> QED BY <2>1, <1>6, <1>7, Zenon DEF V!IsUnit
<1>13. u = Len(cut) + 1
    BY <1>5, <1>7
<1>14. /\ CutsNext /\ esBase' = e /\ anchors' \in Seq(Nat \X Nat)
       /\ cut' \in Seq(Nat \X Int) /\ \A i \in DOMAIN cut' : cut'[i][1] = i
       /\ Len(cut') = u
    <2> HIDE DEF e, u, m, w
    <2> QED BY <1>5, <1>11, <1>12, <1>13, CutIs, Zenon
<1>15. PictureIn(m) = (FALSE \/ V!HasPicture(codes[m]))
       /\ KeyIn(m) = (FALSE \/ (V!HasPicture(codes[m]) /\ codes[m].intra))
    BY <1>1, <1>3, SaidNext
<1>16. Len(cut') = w - 1
    BY <1>4, <1>5, <1>14
<1> HIDE DEF m, u, w, e
<1>17. Gathering(m)'
    <2>1. hasPicture' = PictureIn(m) /\ key' = KeyIn(m)
        BY <1>10, <1>15, Zenon
    <2>2. V!UnitFrom(w)' = V!UnitFrom(w)
        BY <1>10, Zenon DEF V!UnitFrom, V!CodeOf, w
    <2>3. PictureIn(m)' = PictureIn(m) /\ KeyIn(m)' = KeyIn(m)
        BY <1>10, Zenon DEF PictureIn, KeyIn, m
    <2>4. codes'[m].unit = w /\ V!UnitFrom(codes[m].unit)' = e
        BY <2>2, <1>10, Zenon DEF w, e
    <2>5. /\ scanned' = codes'[m].at + 4 /\ codes'[m].at + 6 <= end'
          /\ auStart' = V!UnitFrom(codes[m].unit)' /\ esBase' = auStart'
          /\ Len(cut') = codes'[m].unit - 1
        BY <2>4, <1>10, <1>14, <1>16, Zenon
    <2> QED BY <2>1, <2>3, <2>5, Zenon DEF Gathering, m
<1>18. SplitterOK'
    <2>1. Stream'
        BY <1>1, <1>10, Zenon DEF Stream
    <2> QED BY <2>1, <1>1, <1>3, <1>10, <1>14, <1>17, Zenon DEF SplitterOK
<1> QED BY <1>14, <1>18, Zenon DEF Scans

LEMMA SplitterScans == SplitterOK /\ V!Scan => Scans
<1> SUFFICES ASSUME SplitterOK, V!Scan PROVE Scans
    OBVIOUS
<1>1. CASE Unbegun
    BY <1>1, ScansFirst
<1>2. ASSUME NEW n \in 1 .. Len(codes), Gathering(n) PROVE Scans
    BY <1>2, ScansOn, ScansOver
<1>3. ~Finished
    BY DEF Finished, V!Scan
<1> QED BY <1>1, <1>2, <1>3 DEF SplitterOK

(* The last unit is cut when the stream ends, unless it was.               *)
LEMMA SplitterFlushes == SplitterOK /\ V!Flush => SplitterOK' /\ CutsNext
<1> SUFFICES ASSUME SplitterOK, V!Flush PROVE SplitterOK' /\ CutsNext
    OBVIOUS
<1>1. /\ V!Seen = {} /\ end = esLength /\ auStart # V!NoUnit /\ V!Cut(auStart, end)
      /\ auStart' = V!NoUnit /\ hasPicture' = FALSE /\ key' = FALSE
      /\ codes' = codes /\ esLength' = esLength /\ end' = end /\ scanned' = scanned
    BY DEF V!Flush
<1> DEFINE n == Len(codes)
<1>2. PICK m \in 1 .. n : Gathering(m)
    BY <1>1 DEF SplitterOK, Unbegun, Finished
<1>3. Stream /\ end \in Nat /\ n \in Nat /\ m # 0 /\ m \in 0 .. n
    BY CodesAre DEF SplitterOK, Stream
<1>4. Searched(m)
    BY <1>2, <1>3, Zenon DEF Searched, Gathering
<1>5. Trailing(m)
    BY <1>1, <1>3, <1>4, AllSearched
<1>6. n \in 1 .. n /\ n > 0
    BY <1>2, <1>3
<1>7. codes[m].unit = Pictures /\ codes[m].unit \in 1 .. Pictures /\ Pictures \in Nat
    <2>1. codes[n].unit = Pictures
        BY <1>3, <1>6, Zenon DEF Stream, StreamOK
    <2>2. codes[n].unit \in 1 .. Pictures /\ codes[n].unit \in Nat
        BY <1>3, <1>6, CodesAre DEF Stream
    <2>3. CASE m = n
        BY <2>1, <2>2, <2>3
    <2>4. CASE m + 1 = n /\ codes[n].kind = "other"
        <3>1. n \in 2 .. n /\ n - 1 = m
            BY <2>4, <1>3, <1>6
        <3>2. codes[n].unit = codes[n - 1].unit \/ V!StartsUnit(codes[n])
            BY <3>1, <1>3, CodeNext DEF Stream
        <3>3. ~V!StartsUnit(codes[n])
            BY <2>4 DEF V!StartsUnit
        <3> QED BY <3>1, <3>2, <3>3, <2>1, <2>2
    <2> QED BY <2>3, <2>4, <1>5 DEF Trailing
<1>8. PictureIn(m) /\ (KeyIn(m) <=> \E i \in DOMAIN codes : /\ codes[i].unit = codes[m].unit
                                                            /\ V!HasPicture(codes[i]) /\ codes[i].intra)
    BY <1>3, <1>5, SaidOf
<1>9. auStart = V!UnitFrom(Pictures) /\ Len(cut) = Pictures - 1 /\ (key <=> KeyIn(m))
    BY <1>2, <1>7 DEF Gathering
<1>10. V!IsUnit(Pictures, V!UnitFrom(Pictures), end)
    BY <1>1, <1>7, <1>8, <1>9, Zenon DEF V!IsUnit, V!UnitTo
<1>11. Pictures = Len(cut) + 1 /\ Pictures \in 1 .. Pictures
    BY <1>7, <1>9
<1>12. /\ CutsNext /\ anchors' \in Seq(Nat \X Nat)
       /\ cut' \in Seq(Nat \X Int) /\ \A i \in DOMAIN cut' : cut'[i][1] = i
       /\ Len(cut') = Pictures
    <2>1. V!Cut(V!UnitFrom(Pictures), end)
        BY <1>1, <1>9, Zenon
    <2> QED BY <2>1, <1>10, <1>11, CutIs, Zenon
<1>13. Finished'
    <2>1. V!Seen' = V!Seen
        BY <1>1, Zenon DEF V!Seen
    <2> QED BY <2>1, <1>1, <1>12, Zenon DEF Finished, V!NoUnit
<1>14. SplitterOK'
    <2>1. Stream' /\ end' \in Nat /\ end' <= esLength'
        BY <1>1, <1>3, Zenon DEF Stream, SplitterOK
    <2> QED BY <2>1, <1>12, <1>13, Zenon DEF SplitterOK
<1> QED BY <1>12, <1>14

(* The units that commence in a payload, and the first of them.            *)
LEMMA FirstOfIs ==
    ASSUME NEW a, NEW b, V!Commencing(a, b) # {}
    PROVE  /\ V!FirstOf(V!Commencing(a, b)) \in V!Commencing(a, b)
           /\ V!FirstOf(V!Commencing(a, b)) \in 1 .. Pictures
           /\ \A v \in V!Commencing(a, b) : V!FirstOf(V!Commencing(a, b)) <= v
<1> DEFINE S == V!Commencing(a, b)
<1>1. S \subseteq 1 .. Pictures
    BY Zenon DEF V!Commencing
<1>2. S \subseteq Nat
    BY <1>1
<1> HIDE DEF S
<1>3. S # {}
    BY DEF S
<1>4. \E x \in S : \A y \in S : x <= y
    BY <1>2, <1>3, LeastElement
<1>5. V!FirstOf(S) \in S /\ \A y \in S : V!FirstOf(S) <= y
    BY <1>4, Zenon DEF V!FirstOf
<1> QED BY <1>1, <1>5 DEF S

LEMMA SplitterTakes ==
    ASSUME SplitterOK, NEW n \in PesSizes, NEW w, V!Push(n, w)
    PROVE  /\ SplitterOK' /\ cut' = cut /\ codes' = codes /\ end' = end + n /\ end' <= esLength
           /\ n \in Nat
<1>1. Stream /\ end \in Nat /\ end <= esLength /\ esLength \in Nat /\ anchors \in Seq(Nat \X Nat)
    BY CodesAre DEF SplitterOK, Stream
<1>2. n \in Nat
    BY VideoAssumption DEF V!ShapeAssumption
<1>3. /\ end' = end + n /\ end + n <= esLength /\ codes' = codes /\ esLength' = esLength
      /\ esBase' = esBase /\ scanned' = scanned /\ auStart' = auStart /\ hasPicture' = hasPicture
      /\ key' = key /\ cut' = cut
    BY DEF V!Push
<1>4. end' \in Nat /\ end' <= esLength' /\ end <= end'
    BY <1>1, <1>2, <1>3
<1>5. anchors' \in Seq(Nat \X Nat)
    <2> DEFINE us == V!Commencing(end, end + n)
    <2>1. \/ anchors' = anchors
          \/ us # {} /\ anchors' = Append(anchors, <<end, V!FirstOf(us)>>)
        BY Zenon DEF V!Push
    <2>2. us # {} => V!FirstOf(us) \in Nat
        BY FirstOfIs
    <2> DEFINE q == <<end, V!FirstOf(us)>>
    <2>3. us # {} => q \in Nat \X Nat
        BY <2>2, <1>1
    <2> HIDE DEF us, q
    <2>4. q \in Nat \X Nat => Append(anchors, q) \in Seq(Nat \X Nat)
        BY <1>1
    <2> QED BY <2>1, <2>3, <2>4, <1>1, Zenon DEF q
<1>6. Stream'
    BY <1>1, <1>3, Zenon DEF Stream
<1>7. Unbegun => Unbegun'
    BY <1>3, Zenon DEF Unbegun, V!NoUnit
<1>8. ASSUME NEW m \in 1 .. Len(codes), Gathering(m) PROVE Gathering(m)'
    <2>1. V!UnitFrom(codes[m].unit)' = V!UnitFrom(codes[m].unit)
          /\ PictureIn(m)' = PictureIn(m) /\ KeyIn(m)' = KeyIn(m)
        BY <1>3, Zenon DEF V!UnitFrom, V!CodeOf, PictureIn, KeyIn
    <2>2. codes[m].at + 6 <= end'
        <3>1. codes[m].at \in Nat /\ codes[m].at + 6 <= end
            BY <1>1, <1>8, CodesAre DEF Gathering, Stream
        <3> QED BY <3>1, <1>1, <1>4
    <2> QED BY <2>1, <2>2, <1>3, <1>8, Zenon DEF Gathering
<1>9. ASSUME Finished PROVE Finished'
    <2>1. end = esLength
        BY <1>9 DEF Finished
    <2>2. end' = end
        BY <2>1, <1>1, <1>2, <1>3
    <2>3. V!Seen' = V!Seen
        BY <2>2, <1>3, Zenon DEF V!Seen
    <2> QED BY <2>1, <2>2, <2>3, <1>3, <1>9, Zenon DEF Finished, V!NoUnit
<1>10. SplitterOK'
    <2>1. Unbegun' \/ (\E m \in 1 .. Len(codes) : Gathering(m)') \/ Finished'
        BY <1>7, <1>8, <1>9, Zenon DEF SplitterOK
    <2>2. cut \in Seq(Nat \X Int) /\ \A i \in DOMAIN cut : cut[i][1] = i
        BY Zenon DEF SplitterOK
    <2> QED BY <2>1, <2>2, <1>3, <1>4, <1>5, <1>6, Zenon DEF SplitterOK
<1> QED BY <1>2, <1>3, <1>10

LEMMA SplitterBegins == V!VideoInit => SplitterOK
<1> SUFFICES ASSUME V!VideoInit PROVE SplitterOK
    OBVIOUS
<1>1. Stream
    BY StreamsAreOK DEF Stream
<1>2. /\ end = 0 /\ esBase = 0 /\ scanned = 0 /\ auStart = V!NoUnit /\ hasPicture = FALSE
      /\ key = FALSE /\ anchors = << >> /\ cut = << >>
    BY DEF V!VideoInit
<1>3. Unbegun
    BY <1>2, Zenon DEF Unbegun
<1>4. end \in Nat /\ end <= esLength
    BY <1>1, <1>2, CodesAre DEF Stream
<1>5. /\ << >> \in Seq(Nat \X Nat) /\ << >> \in Seq(Nat \X Int) /\ DOMAIN << >> = {}
    OBVIOUS
<1>6. \A i \in DOMAIN << >> : << >>[i][1] = i
    BY <1>5, Zenon
<1> QED BY <1>1, <1>2, <1>3, <1>4, <1>5, <1>6, Zenon DEF SplitterOK

(* The units cut are numbered in order, and the next is the least that was *)
(* not.                                                                    *)
LEMMA NumbersAre ==
    ASSUME NEW s \in Seq(Nat \X Int), \A i \in DOMAIN s : s[i][1] = i
    PROVE  [i \in DOMAIN s |-> s[i][1]] = [i \in 1 .. Len(s) |-> i]
<1>1. DOMAIN s = 1 .. Len(s)
    OBVIOUS
<1> QED BY <1>1, Zenon

LEMMA NextOfThem ==
    ASSUME NEW n \in Nat, NEW k \in Nat, n + 1 \in 1 .. k
    PROVE  LET left == (1 .. k) \ D!Range([i \in 1 .. n |-> i])
           IN  left # {} /\ D!Min(left) = n + 1
<1> DEFINE s    == [i \in 1 .. n |-> i]
           left == (1 .. k) \ D!Range(s)
<1>1. D!Range(s) = 1 .. n
    BY DEF D!Range
<1>2. left = (1 .. k) \ (1 .. n)
    BY <1>1
<1> HIDE DEF left, s
<1>3. n + 1 \in left /\ \A y \in left : n + 1 <= y /\ y \in Nat
    BY <1>2
<1>4. \A x \in left : (\A y \in left : x <= y) => x = n + 1
    <2> SUFFICES ASSUME NEW x \in left, \A y \in left : x <= y PROVE x = n + 1
        OBVIOUS
    <2>1. x <= n + 1 /\ n + 1 <= x /\ x \in Nat
        BY <1>3
    <2> QED BY <2>1
<1> DEFINE m == CHOOSE x \in left : \A y \in left : x <= y
<1>5. m \in left /\ \A y \in left : m <= y
    BY <1>3, Zenon
<1>6. D!Min(left) = m
    BY Zenon DEF D!Min
<1>7. m = n + 1
    BY <1>4, <1>5, Zenon
<1> QED BY <1>3, <1>6, <1>7, Zenon DEF left, s

LEMMA CutDelivers ==
    ASSUME SplitterOK, SplitterOK', CutsNext, machine = "video", machine' = "video"
    PROVE  D!Deliver
<1> DEFINE n == Len(cut)
           p == <<n + 1, V!PtsAt(V!UnitFrom(n + 1))>>
<1>1. n \in Nat /\ Pictures \in Nat /\ n + 1 \in 1 .. Pictures /\ cut' = Append(cut, p)
    <2>1. cut \in Seq(Nat \X Int)
        BY DEF SplitterOK
    <2>2. Len(cut) \in Nat
        BY <2>1
    <2> QED BY <2>2, VideoAssumption DEF V!ShapeAssumption, CutsNext
<1>2. V!Numbers = [i \in 1 .. n |-> i]
    BY NumbersAre, Zenon DEF SplitterOK, V!Numbers
<1>3. V!Numbers' = [i \in 1 .. Len(cut') |-> i]
    <2>1. cut' \in Seq(Nat \X Int) /\ \A i \in DOMAIN cut' : cut'[i][1] = i
        BY Zenon DEF SplitterOK
    <2>2. [i \in DOMAIN cut' |-> cut'[i][1]] = [i \in 1 .. Len(cut') |-> i]
        BY <2>1, NumbersAre, Zenon
    <2> QED BY <2>2, Zenon DEF V!Numbers
<1>4. Len(cut') = n + 1
    <2>1. cut \in Seq(Nat \X Int)
        BY DEF SplitterOK
    <2> HIDE DEF p
    <2> QED BY <2>1, <1>1
<1> HIDE DEF n, p
<1>5. /\ CutOut = [i \in 1 .. n |-> i] /\ CutOut' = [i \in 1 .. n + 1 |-> i]
      /\ Expected = 1 .. Pictures /\ Expected' = 1 .. Pictures
    BY <1>2, <1>3, <1>4, Zenon DEF CutOut, Expected
<1>6. [i \in 1 .. n + 1 |-> i] = Append([i \in 1 .. n |-> i], n + 1)
    <2>1. [i \in 1 .. n |-> i] \in Seq(Nat) /\ Len([i \in 1 .. n |-> i]) = n
        BY <1>1
    <2> QED BY <2>1, <1>1
<1>7. D!Left # {} /\ D!Min(D!Left) = n + 1
    BY <1>1, <1>5, NextOfThem, Zenon DEF D!Left
<1> QED BY <1>5, <1>6, <1>7, Zenon DEF D!Deliver

VideoHolds == machine = "video" => SplitterOK

LEMMA MachineCuts ==
    /\ Init => VideoHolds /\ D!Init
    /\ VideoHolds /\ [Next]_vars => VideoHolds' /\ [D!Deliver]_<<Expected, CutOut>>
<1>1. ASSUME Init PROVE VideoHolds /\ D!Init
    <2>1. VideoHolds
        BY <1>1, SplitterBegins DEF Init, VideoHolds
    <2>2. CutOut = << >>
        <3>1. machine = "video" => cut = << >>
            BY <1>1 DEF Init, V!VideoInit
        <3>2. [i \in DOMAIN << >> |-> << >>[i][1]] = << >>
            OBVIOUS
        <3> QED BY <3>1, <3>2, Zenon DEF CutOut, V!Numbers
    <2>3. Expected \subseteq Nat
        <3>1. Pictures \in Nat
            BY VideoAssumption DEF V!ShapeAssumption
        <3> QED BY <3>1 DEF Expected
    <2> QED BY <2>1, <2>2, <2>3 DEF D!Init
<1>2. ASSUME VideoHolds, [Next]_vars PROVE VideoHolds' /\ [D!Deliver]_<<Expected, CutOut>>
    <2>1. CASE Video
        <3>1. machine = "video" /\ machine' = "video" /\ SplitterOK /\ V!VideoNext
            BY <1>2, <2>1 DEF Video, VideoHolds
        <3>2. SplitterOK' /\ (CutsNext \/ cut' = cut)
            <4>1. ASSUME NEW n \in PesSizes, NEW w \in BOOLEAN, V!Push(n, w)
                  PROVE  SplitterOK' /\ cut' = cut
                BY <3>1, <4>1, SplitterTakes
            <4>2. CASE V!Scan
                BY <3>1, <4>2, SplitterScans DEF Scans, CutsNone
            <4>3. CASE V!Flush
                BY <3>1, <4>3, SplitterFlushes
            <4> QED BY <3>1, <4>1, <4>2, <4>3, Zenon DEF V!VideoNext
        <3>3. CASE CutsNext
            BY <3>1, <3>2, <3>3, CutDelivers DEF VideoHolds
        <3>4. CASE cut' = cut
            <4>1. Expected' = Expected /\ CutOut' = CutOut
                BY <3>1, <3>4, Zenon DEF Expected, CutOut, V!Numbers
            <4> QED BY <4>1, <3>2 DEF VideoHolds
        <3> QED BY <3>2, <3>3, <3>4
    <2>2. CASE UNCHANGED <<machine, videoVars>>
        <3>1. /\ machine' = machine /\ cut' = cut /\ codes' = codes /\ esLength' = esLength
              /\ end' = end /\ esBase' = esBase /\ scanned' = scanned /\ auStart' = auStart
              /\ hasPicture' = hasPicture /\ key' = key /\ anchors' = anchors
            BY <2>2 DEF videoVars
        <3>2. SplitterOK => SplitterOK'
            <4>1. Stream => Stream'
                BY <3>1, Zenon DEF Stream
            <4>2. Unbegun => Unbegun'
                BY <3>1, Zenon DEF Unbegun, V!NoUnit
            <4>3. Finished => Finished'
                <5>1. V!Seen' = V!Seen
                    BY <3>1, Zenon DEF V!Seen
                <5> QED BY <5>1, <3>1, Zenon DEF Finished, V!NoUnit
            <4>4. ASSUME NEW n, Gathering(n) PROVE Gathering(n)'
                <5>1. V!UnitFrom(codes[n].unit)' = V!UnitFrom(codes[n].unit)
                      /\ PictureIn(n)' = PictureIn(n) /\ KeyIn(n)' = KeyIn(n)
                    BY <3>1, Zenon DEF V!UnitFrom, V!CodeOf, PictureIn, KeyIn
                <5> QED BY <3>1, <4>4, <5>1, Zenon DEF Gathering
            <4> QED BY <3>1, <4>1, <4>2, <4>3, <4>4, Zenon DEF SplitterOK
        <3>3. Expected' = Expected /\ CutOut' = CutOut
            BY <3>1, Zenon DEF Expected, CutOut, V!Numbers
        <3> QED BY <3>1, <3>2, <3>3, <1>2 DEF VideoHolds
    <2>3. CASE Walk \/ Audio
        BY <2>3, <2>2 DEF Walk, Audio
    <2> QED BY <1>2, <2>1, <2>2, <2>3 DEF Next, vars
<1> QED BY <1>1, <1>2

(* For every video stream of units as they are made, cut into payloads     *)
(* anywhere, whatever convention its zero bytes follow: the splitter cuts  *)
(* the units whole, once each, in order and with the intra ones marked     *)
(* (ps.rs: VideoAuSplitter) - the initial states and steps of Delivery.    *)
THEOREM UnitsInOrder == Spec => D!Init /\ [][D!Deliver]_<<Expected, CutOut>>
BY MachineCuts, PTL DEF Spec

------------------------------------------------------------------------------
(* The anchors a of the units that are to come behind the first n, units   *)
(* beginning where from says and e having been pushed: each payload with a *)
(* PTS is kept for its unit, the first that begins in it.                  *)
Kept(from, a, st, n, e) ==
    /\ a \in Seq(Nat \X Nat)
    /\ \A u \in st : u \in 1 .. Pictures /\ from[u] < e
    /\ \A i \in DOMAIN a :
           /\ a[i][2] \in st /\ a[i][2] > n /\ a[i][1] <= from[a[i][2]]
           /\ \A w \in 1 .. Pictures : w < a[i][2] => from[w] < a[i][1]
    /\ \A i, j \in DOMAIN a : i < j => a[i][2] < a[j][2]
    /\ \A u \in st : u > n => \E i \in DOMAIN a : a[i][2] = u

Froms     == [u \in 1 .. Pictures |-> V!UnitFrom(u)]
AnchorsOK == Kept(Froms, anchors, stamped, Len(cut), end) /\ V!StampsBelong

LEMMA FromsRise ==
    ASSUME Stream
    PROVE  /\ Froms \in [1 .. Pictures -> Nat] /\ Pictures \in Nat
           /\ \A u \in 1 .. Pictures : Froms[u] = V!UnitFrom(u) /\ Froms[u] < esLength
           /\ \A u, w \in 1 .. Pictures : u < w => Froms[u] < Froms[w]
<1>1. \A u \in 1 .. Pictures : V!UnitFrom(u) \in Nat /\ V!UnitFrom(u) < esLength
    BY FromsAre
<1>2. \A u, w \in 1 .. Pictures : u < w => V!UnitFrom(u) < V!UnitFrom(w)
    BY FromsAre
<1>3. Pictures \in Nat
    BY VideoAssumption DEF V!ShapeAssumption
<1> QED BY <1>1, <1>2, <1>3 DEF Froms

LEMMA FromsStay == codes' = codes => Froms' = Froms
<1> SUFFICES ASSUME codes' = codes PROVE Froms' = Froms
    OBVIOUS
<1>1. ASSUME NEW u PROVE V!UnitFrom(u)' = V!UnitFrom(u)
    BY Zenon DEF V!UnitFrom, V!CodeOf
<1> QED BY <1>1, Zenon DEF Froms

(* What is due when the next unit is cut is the first anchor, if its       *)
(* payload came with a PTS, and nothing if it did not.                     *)
LEMMA DueNext ==
    ASSUME NEW from \in [1 .. Pictures -> Nat], NEW a, NEW st, NEW n \in Nat, NEW e,
           Kept(from, a, st, n, e), n + 1 \in 1 .. Pictures
    PROVE  LET d == {i \in DOMAIN a : a[i][1] <= from[n + 1]}
           IN  /\ n + 1 \in st => /\ d = {1} /\ Len(a) > 0 /\ a[1][2] = n + 1
                                  /\ \A i \in 2 .. Len(a) : a[i][2] > n + 1
               /\ n + 1 \notin st => d = {} /\ \A i \in 1 .. Len(a) : a[i][2] > n + 1
<1> DEFINE u   == n + 1
           k   == Len(a)
           d == {i \in DOMAIN a : a[i][1] <= from[u]}
<1>1. a \in Seq(Nat \X Nat)
    BY Zenon DEF Kept
<1>2. k \in Nat /\ DOMAIN a = 1 .. k /\ \A i \in 1 .. k : a[i][1] \in Nat /\ a[i][2] \in Nat
    BY <1>1
<1>3. u \in 1 .. Pictures /\ from[u] \in Nat /\ u > n /\ u \in Nat
    OBVIOUS
<1> HIDE DEF k
<1>4. ASSUME NEW i \in 1 .. k
      PROVE  /\ a[i][2] \in st /\ a[i][2] > n /\ a[i][1] <= from[a[i][2]]
             /\ \A w \in 1 .. Pictures : w < a[i][2] => from[w] < a[i][1]
    BY <1>2, Zenon DEF Kept
<1>5. ASSUME NEW i \in 1 .. k, a[i][2] # u PROVE a[i][2] > u /\ i \notin d
    <2>1. a[i][2] > n /\ a[i][2] \in Nat /\ a[i][1] \in Nat
        BY <1>2, <1>4
    <2>2. a[i][2] > u
        BY <2>1, <1>5
    <2>3. u < a[i][2]
        BY <2>1, <2>2
    <2>4. from[u] < a[i][1]
        BY <2>3, <1>3, <1>4, Zenon
    <2> QED BY <2>1, <2>2, <2>4, <1>3
<1>6. ASSUME u \in st
      PROVE  d = {1} /\ k > 0 /\ a[1][2] = u /\ \A i \in 2 .. k : a[i][2] > u
    <2>1. PICK i \in 1 .. k : a[i][2] = u
        BY <1>2, <1>3, <1>6, Zenon DEF Kept
    <2>2. \A x, y \in 1 .. k : x < y => a[x][2] < a[y][2]
        BY <1>2, Zenon DEF Kept
    <2>3. i = 1
        <3>1. SUFFICES ASSUME i # 1 PROVE FALSE
            OBVIOUS
        <3>2. 1 \in 1 .. k /\ 1 < i
            BY <3>1, <1>2
        <3>3. a[1][2] < a[i][2]
            BY <3>2, <2>2
        <3>4. a[1][2] > n /\ a[1][2] \in Nat
            BY <3>2, <1>2, <1>4
        <3> QED BY <3>3, <3>4, <2>1
    <2>4. k > 0 /\ 1 \in 1 .. k /\ a[1][2] = u
        BY <2>1, <2>3, <1>2
    <2>5. ASSUME NEW j \in 2 .. k PROVE a[j][2] # u /\ j \in 1 .. k
        <3>1. j \in 1 .. k /\ 1 < j
            BY <1>2
        <3>2. a[1][2] < a[j][2]
            BY <3>1, <2>2, <2>4
        <3>3. a[j][2] \in Nat
            BY <3>1, <1>2
        <3> QED BY <3>1, <3>2, <3>3, <2>4
    <2>6. 1 \in d
        <3>1. a[1][1] <= from[u]
            BY <2>4, <1>4
        <3> QED BY <3>1, <2>4, <1>2
    <2>7. ASSUME NEW j \in d PROVE j = 1
        <3>1. j \in 1 .. k
            BY <1>2
        <3>2. j = 1 \/ j \in 2 .. k
            BY <3>1, <1>2
        <3> HIDE DEF d
        <3> QED BY <3>2, <2>5, <1>5
    <2> HIDE DEF d
    <2> QED BY <2>4, <2>5, <2>6, <2>7, <1>5
<1>7. ASSUME u \notin st
      PROVE  d = {} /\ \A i \in 1 .. k : a[i][2] > u
    <2>1. \A i \in 1 .. k : a[i][2] # u
        BY <1>4, <1>7
    <2>2. d \subseteq 1 .. k
        BY <1>2
    <2> HIDE DEF d
    <2> QED BY <2>1, <2>2, <1>5
<1> QED BY <1>6, <1>7 DEF k

(* When the next unit is cut, its anchor goes.                             *)
LEMMA KeptLess ==
    ASSUME NEW from \in [1 .. Pictures -> Nat], NEW a, NEW st, NEW n \in Nat, NEW e,
           Kept(from, a, st, n, e), n + 1 \in 1 .. Pictures
    PROVE  Kept(from, SubSeq(a, (IF n + 1 \in st THEN 1 ELSE 0) + 1, Len(a)), st, n + 1, e)
<1> DEFINE u == n + 1
           k == Len(a)
           m == IF u \in st THEN 1 ELSE 0
           b == SubSeq(a, m + 1, k)
<1>1. a \in Seq(Nat \X Nat)
    BY Zenon DEF Kept
<1>2. k \in Nat /\ DOMAIN a = 1 .. k /\ \A i \in 1 .. k : a[i] \in Nat \X Nat
    BY <1>1
<1>3. /\ u \in st => k > 0 /\ a[1][2] = u /\ \A i \in 2 .. k : a[i][2] > u
      /\ u \notin st => \A i \in 1 .. k : a[i][2] > u
    BY DueNext
<1>4. m \in 0 .. k /\ m \in Nat
    BY <1>2, <1>3
<1>5. \A i \in m + 1 .. k : a[i][2] > u /\ i \in 1 .. k
    <2>1. CASE u \in st
        <3>1. m = 1
            BY <2>1
        <3>2. \A i \in m + 1 .. k : i \in 2 .. k /\ i \in 1 .. k
            BY <3>1, <1>2
        <3> QED BY <3>2, <2>1, <1>3
    <2>2. CASE u \notin st
        <3>1. m = 0
            BY <2>2
        <3>2. \A i \in m + 1 .. k : i \in 1 .. k
            BY <3>1, <1>2
        <3> QED BY <3>2, <2>2, <1>3
    <2> QED BY <2>1, <2>2
<1> HIDE DEF m, k, u
<1>6. b \in Seq(Nat \X Nat) /\ DOMAIN b = 1 .. k - m /\ \A i \in 1 .. k - m : b[i] = a[m + i]
    <2>1. \A i \in m + 1 .. k : a[i] \in Nat \X Nat
        BY <1>2, <1>4
    <2>2. \A i \in 1 .. k - m : m + i \in m + 1 .. k
        BY <1>2, <1>4
    <2>3. m + 1 \in Int /\ k \in Int /\ k - (m + 1) + 1 = k - m
        BY <1>2, <1>4
    <2>4. /\ b \in Seq(Nat \X Nat) /\ Len(b) = (IF m + 1 <= k THEN k - (m + 1) + 1 ELSE 0)
          /\ \A i \in 1 .. k - (m + 1) + 1 : b[i] = a[m + 1 + i - 1]
        BY <2>1, <2>3, SubSeqProperties
    <2> HIDE DEF b
    <2>5. Len(b) = k - m
        BY <2>3, <2>4, <1>2, <1>4
    <2>6. \A i \in 1 .. k - m : m + 1 + i - 1 = m + i
        BY <1>4
    <2>7. \A i \in 1 .. k - m : b[i] = a[m + i]
        BY <2>3, <2>4, <2>6
    <2>8. DOMAIN b = 1 .. Len(b)
        BY <2>4
    <2> QED BY <2>4, <2>5, <2>7, <2>8
<1> HIDE DEF b
<1>7. ASSUME NEW i \in 1 .. k - m
      PROVE  /\ b[i][2] \in st /\ b[i][2] > u /\ b[i][1] <= from[b[i][2]]
             /\ \A w \in 1 .. Pictures : w < b[i][2] => from[w] < b[i][1]
    <2>1. m + i \in m + 1 .. k /\ m + i \in DOMAIN a
        BY <1>2, <1>4
    <2>2. b[i] = a[m + i] /\ a[m + i][2] > u
        BY <2>1, <1>5, <1>6
    <2> QED BY <2>1, <2>2, Zenon DEF Kept
<1>8. ASSUME NEW i \in 1 .. k - m, NEW j \in 1 .. k - m, i < j PROVE b[i][2] < b[j][2]
    <2>1. m + i \in DOMAIN a /\ m + j \in DOMAIN a /\ m + i < m + j
        BY <1>2, <1>4, <1>8
    <2>2. a[m + i][2] < a[m + j][2]
        BY <2>1, Zenon DEF Kept
    <2> QED BY <2>2, <1>6
<1>9. ASSUME NEW v \in st, v > u PROVE \E i \in 1 .. k - m : b[i][2] = v
    <2>1. v \in 1 .. Pictures /\ v > n
        <3>1. v \in 1 .. Pictures
            BY Zenon DEF Kept
        <3> QED BY <3>1, <1>9 DEF u
    <2>2. PICK i \in DOMAIN a : a[i][2] = v
        BY <2>1, Zenon DEF Kept
    <2>3. i \in m + 1 .. k
        <3>1. CASE u \in st
            <4>1. i # 1
                BY <3>1, <2>1, <2>2, <1>3, <1>9 DEF u
            <4>2. m = 1
                BY <3>1 DEF m
            <4> QED BY <4>1, <4>2, <1>2
        <3>2. CASE u \notin st
            <4>1. m = 0
                BY <3>2 DEF m
            <4> QED BY <4>1, <1>2
        <3> QED BY <3>1, <3>2
    <2>4. i - m \in 1 .. k - m /\ m + (i - m) = i
        <3>1. k \in Nat /\ m \in Nat
            BY <1>2, <1>4, Zenon
        <3> QED BY <3>1, <2>3
    <2>5. b[i - m] = a[i]
        BY <2>4, <1>6
    <2> QED BY <2>2, <2>4, <2>5
<1>10. \A v \in st : v \in 1 .. Pictures /\ from[v] < e
    BY Zenon DEF Kept
<1>11. Kept(from, b, st, u, e)
    BY <1>6, <1>7, <1>8, <1>9, <1>10, Zenon DEF Kept
<1> QED BY <1>11 DEF b, k, m, u

(* A payload with a PTS, the first unit that begins in it being u, that    *)
(* no unit begins before since.                                            *)
LEMMA KeptMore ==
    ASSUME NEW from \in [1 .. Pictures -> Nat],
           \A v, w \in 1 .. Pictures : v < w => from[v] < from[w],
           NEW a, NEW st, NEW n \in Nat, NEW e \in Nat, NEW f \in Nat, Kept(from, a, st, n, e),
           NEW u \in 1 .. Pictures, e <= from[u], from[u] < f, u > n,
           \A w \in 1 .. Pictures : w < u => from[w] < e
    PROVE  Kept(from, Append(a, <<e, u>>), st \cup {u}, n, f)
<1> DEFINE b == Append(a, <<e, u>>)
           k == Len(a)
           q == <<e, u>>
<1>1. a \in Seq(Nat \X Nat)
    BY Zenon DEF Kept
<1>2. q \in Nat \X Nat /\ q[1] = e /\ q[2] = u /\ u \in Nat /\ from[u] \in Nat
    OBVIOUS
<1> HIDE DEF q
<1>3. /\ k \in Nat /\ DOMAIN a = 1 .. k /\ b \in Seq(Nat \X Nat) /\ DOMAIN b = 1 .. k + 1
      /\ b[k + 1] = q /\ \A i \in 1 .. k : b[i] = a[i]
    <2>1. b = Append(a, q)
        BY DEF q
    <2> HIDE DEF b
    <2> QED BY <2>1, <1>1, <1>2
<1> HIDE DEF b, k
<1>4. ASSUME NEW v \in st PROVE v \in 1 .. Pictures /\ from[v] < f /\ v < u
    <2>1. v \in 1 .. Pictures /\ from[v] < e
        BY Zenon DEF Kept
    <2>2. from[v] \in Nat /\ v \in Nat
        BY <2>1
    <2>3. from[v] < f
        BY <2>1, <2>2, <1>2
    <2>4. v < u
        <3>1. SUFFICES ASSUME ~ (v < u) PROVE FALSE
            OBVIOUS
        <3>2. v = u \/ u < v
            BY <3>1, <2>2, <1>2
        <3>3. u < v => from[u] < from[v]
            BY <2>1
        <3> QED BY <3>2, <3>3, <2>1, <2>2, <1>2
    <2> QED BY <2>1, <2>3, <2>4
<1>5. ASSUME NEW i \in 1 .. k
      PROVE  /\ b[i][2] \in st /\ b[i][2] > n /\ b[i][1] <= from[b[i][2]]
             /\ \A w \in 1 .. Pictures : w < b[i][2] => from[w] < b[i][1]
    <2>1. b[i] = a[i] /\ i \in DOMAIN a
        BY <1>3
    <2> QED BY <2>1, Zenon DEF Kept
<1>6. \A i \in 1 .. k + 1 : i \in 1 .. k \/ i = k + 1
    BY <1>3
<1>7. ASSUME NEW i \in 1 .. k + 1
      PROVE  /\ b[i][2] \in st \cup {u} /\ b[i][2] > n /\ b[i][1] <= from[b[i][2]]
             /\ \A w \in 1 .. Pictures : w < b[i][2] => from[w] < b[i][1]
    <2>1. CASE i \in 1 .. k
        BY <2>1, <1>5
    <2>2. CASE i = k + 1
        <3>1. b[i] = q
            BY <2>2, <1>3
        <3> QED BY <3>1, <1>2
    <2> QED BY <2>1, <2>2, <1>6
<1>8. ASSUME NEW i \in 1 .. k + 1, NEW j \in 1 .. k + 1, i < j PROVE b[i][2] < b[j][2]
    <2>1. i \in 1 .. k
        BY <1>3, <1>8
    <2>2. CASE j \in 1 .. k
        <3>1. a[i][2] < a[j][2]
            BY <2>1, <2>2, <1>3, <1>8, Zenon DEF Kept
        <3> QED BY <3>1, <2>1, <2>2, <1>3
    <2>3. CASE j = k + 1
        <3>1. b[i][2] < u
            BY <2>1, <1>4, <1>5
        <3>2. b[j][2] = u
            BY <2>3, <1>2, <1>3
        <3> QED BY <3>1, <3>2
    <2> QED BY <2>2, <2>3, <1>6
<1>9. ASSUME NEW v \in st \cup {u}, v > n PROVE \E i \in 1 .. k + 1 : b[i][2] = v
    <2>1. CASE v = u
        <3>1. k + 1 \in 1 .. k + 1 /\ b[k + 1][2] = u
            BY <1>2, <1>3
        <3> QED BY <3>1, <2>1
    <2>2. CASE v \in st
        <3>1. PICK i \in DOMAIN a : a[i][2] = v
            BY <2>2, <1>9, Zenon DEF Kept
        <3>2. i \in 1 .. k /\ i \in 1 .. k + 1
            BY <1>3
        <3> QED BY <3>1, <3>2, <1>3
    <2> QED BY <2>1, <2>2
<1>10. \A v \in st \cup {u} : v \in 1 .. Pictures /\ from[v] < f
    BY <1>4
<1>11. Kept(from, b, st \cup {u}, n, f)
    BY <1>3, <1>7, <1>8, <1>9, <1>10, Zenon DEF Kept
<1> QED BY <1>11 DEF b, q

(* More pushed without one.                                                *)
LEMMA KeptOn ==
    ASSUME NEW from \in [1 .. Pictures -> Nat], NEW a, NEW st, NEW n, NEW e \in Nat, NEW f \in Nat,
           Kept(from, a, st, n, e), e <= f
    PROVE  Kept(from, a, st, n, f)
<1>1. ASSUME NEW v \in st PROVE v \in 1 .. Pictures /\ from[v] < f
    <2>1. v \in 1 .. Pictures /\ from[v] < e
        BY Zenon DEF Kept
    <2>2. from[v] \in Nat
        BY <2>1
    <2> QED BY <2>1, <2>2
<1> QED BY <1>1, Zenon DEF Kept

(* A unit that is still to come has not been cut.                          *)
LEMMA ToComeUncut ==
    ASSUME SplitterOK, NEW u \in 1 .. Pictures, end <= V!UnitFrom(u)
    PROVE  u > Len(cut) /\ Len(cut) \in Nat
<1>1. Stream /\ end \in Nat /\ cut \in Seq(Nat \X Int) /\ esLength \in Nat
    BY CodesAre DEF SplitterOK, Stream
<1>2. Len(cut) \in Nat
    BY <1>1
<1>3. V!UnitFrom(u) \in Nat /\ V!UnitFrom(u) < esLength
    BY <1>1, FromsAre
<1>4. CASE Unbegun
    <2>1. Len(cut) = 0
        BY <1>4 DEF Unbegun
    <2> QED BY <2>1
<1>5. ASSUME NEW n \in 1 .. Len(codes), Gathering(n) PROVE u > Len(cut)
    <2> DEFINE w == codes[n].unit
               a == codes[n].at
    <2>1. w \in 1 .. Pictures /\ w \in Nat /\ a \in Nat
        BY <1>1, CodesAre DEF Stream
    <2>2. Len(cut) = w - 1 /\ a + 6 <= end
        BY <1>5 DEF Gathering
    <2>3. V!UnitFrom(w) <= a /\ V!UnitFrom(w) \in Nat
        BY <1>1, <2>1, FromsAre
    <2>4. u < w => V!UnitFrom(u) < V!UnitFrom(w)
        BY <1>1, <2>1, FromsAre
    <2> HIDE DEF w, a
    <2>5. ~ (u < w)
        BY <2>1, <2>2, <2>3, <2>4, <1>1, <1>3
    <2> QED BY <2>1, <2>2, <2>5
<1>6. CASE Finished
    <2>1. end = esLength
        BY <1>6 DEF Finished
    <2> QED BY <2>1, <1>1, <1>3
<1> QED BY <1>2, <1>4, <1>5, <1>6 DEF SplitterOK

LEMMA StampsBegin == V!VideoInit => AnchorsOK
<1> SUFFICES ASSUME V!VideoInit PROVE AnchorsOK
    OBVIOUS
<1>1. anchors = << >> /\ stamped = {} /\ cut = << >>
    BY DEF V!VideoInit
<1>2. << >> \in Seq(Nat \X Nat) /\ DOMAIN << >> = {}
    OBVIOUS
<1>3. Kept(Froms, << >>, {}, Len(cut), end)
    BY <1>2, Zenon DEF Kept
<1>4. V!StampsBelong
    BY <1>1, <1>2, Zenon DEF V!StampsBelong
<1> QED BY <1>1, <1>3, <1>4, Zenon DEF AnchorsOK

LEMMA StampsCut ==
    ASSUME SplitterOK, AnchorsOK, CutsNext, codes' = codes, end' = end, stamped' = stamped
    PROVE  AnchorsOK'
<1> DEFINE n == Len(cut)
           u == n + 1
           s == V!UnitFrom(u)
           d == V!Due(s)
           p == <<u, V!PtsAt(s)>>
           m == IF u \in stamped THEN 1 ELSE 0
<1>1. /\ Stream /\ anchors \in Seq(Nat \X Nat) /\ cut \in Seq(Nat \X Int) /\ n \in Nat
      /\ Kept(Froms, anchors, stamped, n, end) /\ V!StampsBelong
    <2>1. cut \in Seq(Nat \X Int)
        BY DEF SplitterOK
    <2>2. n \in Nat
        BY <2>1
    <2> QED BY <2>2, Zenon DEF SplitterOK, AnchorsOK
<1>2. /\ u \in 1 .. Pictures /\ cut' = Append(cut, p)
      /\ anchors' = SubSeq(anchors, Cardinality(d) + 1, Len(anchors))
    BY Zenon DEF CutsNext
<1>3. Froms \in [1 .. Pictures -> Nat] /\ Froms[u] = s
    BY <1>1, <1>2, FromsRise
<1>4. d = {i \in DOMAIN anchors : anchors[i][1] <= Froms[u]}
    BY <1>3, Zenon DEF V!Due
<1> HIDE DEF d, s
<1>5. /\ u \in stamped => d = {1} /\ anchors[1][2] = u
      /\ u \notin stamped => d = {}
    <2> HIDE DEF u
    <2> DEFINE f == n + 1
    <2>1. LET x == {i \in DOMAIN anchors : anchors[i][1] <= Froms[f]}
          IN  /\ f \in stamped => x = {1} /\ anchors[1][2] = f
              /\ f \notin stamped => x = {}
        <3>1. f \in 1 .. Pictures
            BY <1>2 DEF u
        <3> QED BY <3>1, <1>1, <1>3, DueNext
    <2> QED BY <2>1, <1>4 DEF u
<1>6. Cardinality(d) = m
    <2>1. CASE u \in stamped
        <3>1. Cardinality({1}) = 1
            BY FS_Singleton
        <3> QED BY <3>1, <2>1, <1>5
    <2>2. CASE u \notin stamped
        <3>1. Cardinality({}) = 0
            BY FS_EmptySet
        <3> QED BY <3>1, <2>2, <1>5
    <2> QED BY <2>1, <2>2
<1>7. p[1] = u /\ p[2] = IF u \in stamped THEN u ELSE V!NoPts
    <2>1. V!PtsAt(s) = IF d = {} THEN V!NoPts ELSE anchors[Cardinality(d)][2]
        BY CountsAgree, Zenon DEF V!PtsAt, d
    <2>2. CASE u \in stamped
        BY <2>1, <2>2, <1>5, <1>6
    <2>3. CASE u \notin stamped
        BY <2>1, <2>3, <1>5
    <2> QED BY <2>2, <2>3
<1>8. Kept(Froms, anchors', stamped, u, end)
    <2>1. Kept(Froms, SubSeq(anchors, m + 1, Len(anchors)), stamped, u, end)
        BY <1>1, <1>2, <1>3, KeptLess, Zenon
    <2> HIDE DEF m
    <2> QED BY <2>1, <1>2, <1>6, Zenon
<1> HIDE DEF p, m
<1>9. /\ Len(cut') = u /\ DOMAIN cut = 1 .. n /\ DOMAIN cut' = 1 .. u /\ cut'[u] = p
      /\ \A i \in 1 .. n : cut'[i] = cut[i]
    BY <1>1, <1>2
<1>10. V!StampsBelong'
    <2>1. ASSUME NEW i \in 1 .. u PROVE cut'[i][2] = IF i \in stamped THEN i ELSE V!NoPts
        <3>1. CASE i = u
            BY <3>1, <1>7, <1>9, Zenon
        <3>2. CASE i # u
            <4>1. i \in 1 .. n
                BY <3>2, <1>1
            <4>2. cut[i][2] = IF i \in stamped THEN i ELSE V!NoPts
                BY <4>1, <1>1, <1>9, Zenon DEF V!StampsBelong
            <4> QED BY <4>1, <4>2, <1>9, Zenon
        <3> QED BY <3>1, <3>2
    <2>2. stamped' = stamped
        OBVIOUS
    <2> HIDE DEF u
    <2> QED BY <2>1, <2>2, <1>9, Zenon DEF V!StampsBelong, V!NoPts
<1>11. Froms' = Froms
    BY FromsStay, Zenon
<1> QED BY <1>8, <1>9, <1>10, <1>11, Zenon DEF AnchorsOK

LEMMA StampsTaken ==
    ASSUME ZeroBelongs, SplitterOK, AnchorsOK, NEW n \in PesSizes, NEW w, V!Push(n, w)
    PROVE  AnchorsOK'
<1>1. /\ Stream /\ end \in Nat /\ cut \in Seq(Nat \X Int)
      /\ Kept(Froms, anchors, stamped, Len(cut), end) /\ V!StampsBelong
    BY Zenon DEF SplitterOK, AnchorsOK
<1>2. /\ cut' = cut /\ codes' = codes /\ end' = end + n /\ end' <= esLength /\ n \in Nat
    BY SplitterTakes
<1>3. Froms' = Froms
    BY <1>2, FromsStay, Zenon
<1>4. /\ Froms \in [1 .. Pictures -> Nat]
      /\ \A u \in 1 .. Pictures : Froms[u] = V!UnitFrom(u)
      /\ \A v, x \in 1 .. Pictures : v < x => Froms[v] < Froms[x]
    BY <1>1, FromsRise
<1>5. CASE anchors' = anchors /\ stamped' = stamped
    <2>1. end + n \in Nat /\ end <= end + n
        BY <1>1, <1>2
    <2>2. Kept(Froms, anchors, stamped, Len(cut), end + n)
        BY <2>1, <1>1, <1>4, KeptOn, Zenon
    <2>3. V!StampsBelong'
        BY <1>1, <1>2, <1>5, Zenon DEF V!StampsBelong, V!NoPts
    <2> QED BY <2>2, <2>3, <1>2, <1>3, <1>5, Zenon DEF AnchorsOK
<1> DEFINE us == V!Commencing(end, end + n)
           u  == V!FirstOf(us)
<1>6. CASE us # {} /\ anchors' = Append(anchors, <<end, u>>) /\ stamped' = stamped \cup {u}
    <2>1. u \in us /\ u \in 1 .. Pictures /\ \A v \in us : u <= v
        BY <1>6, FirstOfIs
    <2>2. us = {v \in 1 .. Pictures : end <= V!UnitFrom(v) /\ V!UnitFrom(v) < end + n}
        BY Zenon DEF V!Commencing
    <2> HIDE DEF us, u
    <2>3. end <= V!UnitFrom(u) /\ V!UnitFrom(u) < end + n
        BY <2>1, <2>2
    <2>4. u > Len(cut) /\ Len(cut) \in Nat
        BY <2>1, <2>3, ToComeUncut
    <2>5. ASSUME NEW v \in 1 .. Pictures, v < u PROVE Froms[v] < end
        <3>1. v \notin us
            BY <2>1, <2>5
        <3>2. Froms[v] < Froms[u] /\ Froms[v] \in Nat /\ Froms[u] \in Nat
            BY <2>1, <2>5, <1>4
        <3>3. Froms[v] = V!UnitFrom(v) /\ Froms[u] = V!UnitFrom(u)
            BY <2>1, <1>4
        <3>4. ~ (end <= V!UnitFrom(v) /\ V!UnitFrom(v) < end + n)
            BY <3>1, <2>2
        <3>5. V!UnitFrom(v) < end + n
            BY <3>2, <3>3, <2>3, <1>1, <1>2
        <3> QED BY <3>2, <3>3, <3>4, <3>5, <1>1
    <2>6. end + n \in Nat /\ end <= Froms[u] /\ Froms[u] < end + n
        BY <2>1, <2>3, <1>1, <1>2, <1>4
    <2>7. Kept(Froms, anchors', stamped', Len(cut), end + n)
        <3>1. Kept(Froms, Append(anchors, <<end, u>>), stamped \cup {u}, Len(cut), end + n)
            BY <2>1, <2>4, <2>5, <2>6, <1>1, <1>4, KeptMore
        <3> QED BY <3>1, <1>6, Zenon
    <2>8. V!StampsBelong'
        <3>1. DOMAIN cut = 1 .. Len(cut)
            BY <1>1
        <3>2. \A i \in DOMAIN cut : i # u
            BY <3>1, <2>1, <2>4
        <3>3. \A i \in DOMAIN cut : i \in stamped' <=> i \in stamped
            BY <3>2, <1>6
        <3> QED BY <3>3, <1>1, <1>2, Zenon DEF V!StampsBelong, V!NoPts
    <2> QED BY <2>7, <2>8, <1>2, <1>3, Zenon DEF AnchorsOK
<1>7. \/ anchors' = anchors /\ stamped' = stamped
      \/ us # {} /\ anchors' = Append(anchors, <<end, u>>) /\ stamped' = stamped \cup {u}
    BY Zenon DEF V!Push
<1> QED BY <1>5, <1>6, <1>7, Zenon

(* For the same streams, the zero byte before a start code being the       *)
(* unit's as in H.264: a unit cut has the PTS of the payload it is the     *)
(* first to begin in, and no other has it (ps.rs: push, cut_pts).          *)
THEOREM StampsStayTrue == ASSUME ZeroBelongs PROVE Spec => []StampsBelong
<1> DEFINE Holds == machine = "video" => SplitterOK /\ AnchorsOK
<1>1. Init => Holds
    BY SplitterBegins, StampsBegin DEF Init
<1>2. ASSUME Holds, [Next]_vars PROVE Holds'
    <2>1. VideoHolds /\ VideoHolds'
        <3>1. VideoHolds
            BY <1>2, Zenon DEF VideoHolds
        <3> QED BY <3>1, <1>2, MachineCuts
    <2>2. CASE Video
        <3>1. machine = "video" /\ machine' = "video" /\ SplitterOK /\ AnchorsOK /\ V!VideoNext /\ SplitterOK'
            BY <1>2, <2>1, <2>2 DEF Video, VideoHolds
        <3>2. ASSUME NEW n \in PesSizes, NEW w \in BOOLEAN, V!Push(n, w) PROVE AnchorsOK'
            BY <3>1, <3>2, StampsTaken
        <3>3. CASE V!Scan
            <4>1. CutsNext \/ CutsNone
                BY <3>1, <3>3, SplitterScans DEF Scans
            <4>2. codes' = codes /\ end' = end /\ stamped' = stamped
                BY <3>3 DEF V!Scan
            <4>3. CASE CutsNext
                BY <3>1, <4>2, <4>3, StampsCut
            <4>4. CASE CutsNone
                <5>1. Froms' = Froms
                    BY <4>2, FromsStay, Zenon
                <5> QED BY <5>1, <3>1, <4>2, <4>4, Zenon DEF CutsNone, AnchorsOK, V!StampsBelong, V!NoPts
            <4> QED BY <4>1, <4>3, <4>4
        <3>4. CASE V!Flush
            <4>1. CutsNext
                BY <3>1, <3>4, SplitterFlushes
            <4>2. codes' = codes /\ end' = end /\ stamped' = stamped
                BY <3>4 DEF V!Flush
            <4> QED BY <3>1, <4>1, <4>2, StampsCut
        <3>5. AnchorsOK'
            BY <3>1, <3>2, <3>3, <3>4, Zenon DEF V!VideoNext
        <3> QED BY <3>1, <3>5
    <2>3. CASE machine' = machine /\ UNCHANGED videoVars
        <3>1. /\ machine' = machine /\ cut' = cut /\ codes' = codes /\ anchors' = anchors
              /\ stamped' = stamped /\ end' = end
            BY <2>3 DEF videoVars
        <3>2. Froms' = Froms
            BY <3>1, FromsStay, Zenon
        <3>3. AnchorsOK => AnchorsOK'
            BY <3>1, <3>2, Zenon DEF AnchorsOK, V!StampsBelong, V!NoPts
        <3> QED BY <3>1, <3>3, <2>1, <1>2, Zenon DEF VideoHolds
    <2>4. Video \/ (machine' = machine /\ UNCHANGED videoVars)
        BY <1>2 DEF Next, Walk, Audio, vars
    <2> QED BY <2>2, <2>3, <2>4
<1>3. Holds => StampsBelong
    BY DEF StampsBelong, AnchorsOK
<1> QED BY <1>1, <1>2, <1>3, PTL DEF Spec

=============================================================================
