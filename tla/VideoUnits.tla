----------------------------- MODULE VideoUnits -----------------------------
(***************************************************************************)
(* The access unit splitter of the program stream demuxer (ps.rs           *)
(* VideoAuSplitter).  PES packets cut the elementary stream anywhere; the  *)
(* splitter scans for start codes and cuts it again where a unit begins.   *)
(* Positions count from the start of the elementary stream, so the         *)
(* compaction of the buffer shows in `base` only.                          *)
(***************************************************************************)
EXTENDS Integers, Sequences, FiniteSets

CONSTANTS
    Shapes,        \* the access units: sequences of start codes
    Units,         \* how many follow each other
    PesSizes,      \* the sizes of the payloads
    ZeroBelongs    \* whether the zero byte before a start code is the unit's:
                   \* so in H.264, where MPEG-2 counts it with what it follows

VARIABLES
    codes,         \* the start codes: where, in which unit, what they mean
    length,        \* of the elementary stream
    end, base,     \* what has been pushed, and where the buffer begins
    scanned,       \* up to where it was searched
    auStart,       \* of the unit being gathered, or NoUnit
    hasPicture, key,
    anchors,       \* <<offset, pts>> of payloads whose unit is to come
    stamped,       \* the units whose payload came with their PTS
    cut            \* the units cut: <<number, pts>>

videoVars == <<codes, length, end, base, scanned, auStart, hasPicture, key, anchors,
               stamped, cut>>

NoUnit == -1
NoPts  == -1

(* A start code of an elementary stream: a header that may begin a unit, a *)
(* picture (or the first slice of one), a slice that only follows, or any  *)
(* other; behind a zero byte or not; followed by bytes that mean nothing:  *)
(* [kind, intra, zero, rest].                                              *)
StartsUnit(c)  == c.kind \in {"header", "picture"}
HasPicture(c)  == c.kind \in {"picture", "slice"}
SizeOf(c)      == (IF c.zero THEN 1 ELSE 0) + 4 + c.rest
(* A unit begins with what may begin one and holds one picture, behind     *)
(* which nothing does; what has a meaning has its two bytes.               *)
ShapeAssumption ==
    /\ Units \in Nat /\ PesSizes \subseteq Nat
    /\ \A s \in Shapes :
           /\ s \in Seq([kind : {"header", "picture", "slice", "other"}, intra : BOOLEAN,
                         zero : BOOLEAN, rest : Nat])
           /\ Len(s) > 0 /\ StartsUnit(s[1])
           /\ \A i \in DOMAIN s : s[i].kind = "other" \/ s[i].rest >= 2
           /\ \E i \in DOMAIN s : HasPicture(s[i])
           /\ \A i, j \in DOMAIN s : i < j /\ HasPicture(s[i]) => ~StartsUnit(s[j])

Behind(shape) ==                      \* where its codes end, from where it begins
    LET f[i \in 0..Len(shape)] == IF i = 0 THEN 0 ELSE f[i - 1] + SizeOf(shape[i])
    IN  f
Coded(shape, u, from) ==
    [i \in 1..Len(shape) |->
        [at |-> from + Behind(shape)[i - 1] + IF shape[i].zero THEN 1 ELSE 0, unit |-> u,
         zero |-> shape[i].zero, rest |-> shape[i].rest, kind |-> shape[i].kind,
         intra |-> shape[i].intra]]
Placed(units) ==
    LET f[u \in 0..Units] ==
            IF u = 0 THEN [codes |-> << >>, next |-> 0]
            ELSE [codes |-> f[u - 1].codes \o Coded(units[u], u, f[u - 1].next),
                  next  |-> f[u - 1].next + Behind(units[u])[Len(units[u])]]
    IN  f[Units]

VideoInit ==
    /\ \E units \in [1..Units -> Shapes] :
           /\ codes = Placed(units).codes
           /\ length = Placed(units).next
    /\ end = 0 /\ base = 0 /\ scanned = 0
    /\ auStart = NoUnit /\ hasPicture = FALSE /\ key = FALSE
    /\ anchors = << >> /\ stamped = {} /\ cut = << >>

------------------------------------------------------------------------------
Seen == {i \in DOMAIN codes : codes[i].at >= scanned /\ codes[i].at + 6 <= end}

CodeOf(u)   == codes[CHOOSE i \in DOMAIN codes :
                   codes[i].unit = u /\ (i = 1 \/ codes[i - 1].unit # u)]
UnitFrom(u) == CodeOf(u).at - IF CodeOf(u).zero THEN 1 ELSE 0
UnitTo(u) == IF u = Units THEN length ELSE UnitFrom(u + 1)
Commencing(from, to) ==
    {u \in 1..Units :
        LET at == IF ZeroBelongs THEN UnitFrom(u) ELSE CodeOf(u).at
        IN  from <= at /\ at < to}
FirstOf(us) == CHOOSE u \in us : \A v \in us : u <= v

(* The payload of the next PES packet; a PTS is that of the first unit     *)
(* that commences in it.                                                   *)
Push(n, withPts) ==
    /\ Seen = {}
    /\ end + n <= length
    /\ LET us == Commencing(end, end + n)
       IN  IF withPts
           THEN /\ us # {}
                /\ anchors' = Append(anchors, <<end, FirstOf(us)>>)
                /\ stamped' = stamped \cup {FirstOf(us)}
           ELSE UNCHANGED <<anchors, stamped>>
    /\ end' = end + n
    /\ UNCHANGED <<codes, length, base, scanned, auStart, hasPicture, key, cut>>

DueBefore(s) == {i \in DOMAIN anchors : anchors[i][1] < s}   \* mutant: off by one
Due(s)    == {i \in DOMAIN anchors : anchors[i][1] <= s}
PtsAt(s)  == IF Due(s) = {} THEN NoPts ELSE anchors[Cardinality(Due(s))][2]
(* Which unit was cut: one that is not whole, or marked a key unit and is  *)
(* not, has a number no unit has.                                          *)
IsUnit(u, s, e) ==
    /\ s = UnitFrom(u) /\ e = UnitTo(u)
    /\ key <=> \E i \in DOMAIN codes :
           codes[i].unit = u /\ HasPicture(codes[i]) /\ codes[i].intra
NumberOf(s, e) == IF \E u \in 1..Units : IsUnit(u, s, e)
                  THEN CHOOSE u \in 1..Units : IsUnit(u, s, e) ELSE Units + 1

Cut(s, e) == /\ cut' = Append(cut, <<NumberOf(s, e), PtsAt(s)>>)
             /\ anchors' = SubSeq(anchors, Cardinality(Due(s)) + 1, Len(anchors))
             /\ base' = e

(* The unit is taken to start with the zero byte before its start code,    *)
(* when the buffer still holds that.                                       *)
BeginsAtPrefix(c) == c.at             \* mutant: the zero byte ends the unit before
BeginsAt(c) == IF c.zero /\ c.at > base THEN c.at - 1 ELSE c.at

NotePicture(c, had, was) ==
    /\ hasPicture' = (had \/ HasPicture(c))
    /\ key' = (was \/ (HasPicture(c) /\ c.intra))

Scan ==
    /\ Seen # {}
    /\ LET c == codes[CHOOSE i \in Seen : \A j \in Seen : i <= j]
       IN  /\ IF StartsUnit(c) /\ auStart # NoUnit /\ hasPicture
              THEN /\ Cut(auStart, IF BeginsAt(c) > auStart THEN BeginsAt(c) ELSE auStart)
                   /\ auStart' = base'
                   /\ NotePicture(c, FALSE, FALSE)
              ELSE /\ auStart' = IF StartsUnit(c) /\ auStart = NoUnit THEN BeginsAt(c) ELSE auStart
                   /\ NotePicture(c, hasPicture, key)
                   /\ UNCHANGED <<cut, anchors, base>>
           /\ scanned' = c.at + 4
    /\ UNCHANGED <<codes, length, end, stamped>>

Flush ==
    /\ Seen = {} /\ end = length
    /\ auStart # NoUnit /\ auStart < end
    /\ Cut(auStart, end)
    /\ auStart' = NoUnit
    /\ hasPicture' = FALSE /\ key' = FALSE
    /\ UNCHANGED <<codes, length, end, scanned, stamped>>

VideoNext ==
    \/ \E n \in PesSizes, withPts \in BOOLEAN : Push(n, withPts)
    \/ Scan
    \/ Flush

Numbers == [i \in DOMAIN cut |-> cut[i][1]]

(* A unit has the PTS of the payload it is the first to commence in, and   *)
(* no other unit has it.                                                   *)
StampsBelong ==
    \A u \in DOMAIN cut : cut[u][2] = IF u \in stamped THEN u ELSE NoPts
=============================================================================
