------------------------------ MODULE MCFormats ------------------------------
(* An instance of Formats for TLC.                                         *)
EXTENDS Formats, HuffmanTables

(* Every fourth 1st of March from 1900 on: with the days of four years     *)
(* from each, every day of the 16-bit number from then to 2038.            *)
MCStarts == {<<1900 + 4 * k, 3, 1, 15079 + 1461 * k>> : k \in 0..34}

(* The tables of the source, and characters that are common in them, that  *)
(* one of them lacks and that have no code at all.                         *)
MCCodes == <<TitleCodes, DescriptionCodes>>
MCCharacters == {84, 104, 42, 200}
=============================================================================
