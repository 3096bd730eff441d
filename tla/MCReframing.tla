----------------------------- MODULE MCReframing -----------------------------
(* An instance of Reframing for TLC, with the units it is made of.         *)
EXTENDS Reframing

Unit(kind, stream, size) == [kind |-> kind, stream |-> stream, size |-> size]
MCKinds ==
    {Unit("pack", "none", 14), Unit("mpeg1", "none", 12), Unit("system", "none", 8),
     Unit("map", "none", 16), Unit("unbounded", "none", 10), Unit("end", "none", 4),
     Unit("stray", "none", 5), Unit("garbage", "none", 3),
     Unit("pes", "video", 12), Unit("pes", "audio", 20), Unit("pes", "lpcm", 15)}
(* A pack may carry up to seven stuffing bytes.                            *)
MCStuffed == MCKinds \cup {Unit("pack", "none", 16)}
MCClass   == [video |-> 1, audio |-> 2, lpcm |-> 3]

StartCode(kind, intra, zero, rest) == [kind |-> kind, intra |-> intra, zero |-> zero, rest |-> rest]
Plain(kind, zero) == StartCode(kind, FALSE, zero, 3)
Intra(kind, zero) == StartCode(kind, TRUE, zero, 2)
MCShapes ==
    {<<Plain("header", FALSE), Intra("picture", FALSE), StartCode("other", FALSE, FALSE, 0)>>,
     <<Plain("picture", TRUE)>>,
     <<Plain("header", TRUE), Plain("picture", FALSE), Plain("slice", TRUE)>>,
     <<Intra("picture", FALSE)>>}

(* Six frames; within the second and third, bytes that look like a header, *)
(* the latter of a frame shorter than its header.                          *)
MCLengths    == <<4, 5, 4, 6, 5, 4>>
MCLookalikes == {<<6, 4>>, <<10, 1>>}
=============================================================================
