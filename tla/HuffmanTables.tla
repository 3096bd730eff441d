---------------------------- MODULE HuffmanTables ----------------------------
(***************************************************************************)
(* The two code tables of ATSC A/65 annex C (atsc_huffman.rs): to each     *)
(* character the codes of those that may follow it, as <<symbol, length,   *)
(* code>>, the code as a number of that many bits.                         *)
(***************************************************************************)
EXTENDS Integers, TLC

After(prior, codes) == prior :> codes

(* After these a character only ever comes escaped, behind one bit.        *)
EscapesOnly(priors) == [p \in priors |-> {<<27, 1, 1>>}]

(* Program titles, table C4.                                              *)
TitleAfter0 ==
    EscapesOnly((1..31) \cup {34, 35, 37, 40, 41, 43, 47})
    @@ After(0, {<<27,8,203>>, <<36,10,811>>, <<50,9,210>>, <<52,10,810>>, <<55,9,211>>,
            <<65,4,7>>, <<66,4,9>>, <<67,4,11>>, <<68,5,27>>, <<69,5,17>>, <<70,5,24>>,
            <<71,5,28>>, <<72,5,31>>, <<73,5,16>>, <<74,5,12>>, <<75,7,102>>, <<76,5,29>>,
            <<77,4,10>>, <<78,4,3>>, <<79,6,27>>, <<80,5,30>>, <<81,8,104>>, <<82,5,26>>,
            <<83,3,0>>, <<84,3,2>>, <<85,7,53>>, <<86,7,103>>, <<87,4,2>>, <<89,7,100>>,
            <<90,9,404>>})
    @@ After(32, {<<27,8,148>>, <<38,6,17>>, <<39,9,132>>, <<45,8,1>>, <<49,9,133>>,
            <<50,8,2>>, <<51,8,65>>, <<57,9,0>>, <<65,5,23>>, <<66,4,2>>, <<67,4,12>>,
            <<68,5,28>>, <<69,6,26>>, <<70,5,19>>, <<71,5,1>>, <<72,5,21>>, <<73,6,63>>,
            <<74,6,62>>, <<75,6,19>>, <<76,5,30>>, <<77,4,5>>, <<78,5,22>>, <<79,6,27>>,
            <<80,5,29>>, <<81,9,291>>, <<82,5,20>>, <<83,4,13>>, <<84,4,8>>, <<85,7,73>>,
            <<86,7,75>>, <<87,4,3>>, <<88,10,2>>, <<89,6,1>>, <<90,8,3>>, <<97,5,12>>,
            <<98,8,149>>, <<99,8,64>>, <<100,8,67>>, <<101,10,3>>, <<102,8,144>>, <<105,6,18>>,
            <<108,9,290>>, <<111,4,1>>, <<116,4,7>>})
    @@ After(33, {<<0,1,1>>, <<27,2,1>>, <<32,2,0>>})
    @@ After(36, {<<27,1,1>>, <<49,1,0>>})
    @@ After(38, {<<27,1,0>>, <<32,1,1>>})
    @@ After(39, {<<27,3,3>>, <<32,3,2>>, <<57,4,1>>, <<100,4,0>>, <<115,1,1>>, <<116,3,1>>})
    @@ After(42, {<<27,2,0>>, <<65,2,1>>, <<72,2,2>>, <<83,2,3>>})
    @@ After(44, {<<27,1,0>>, <<32,1,1>>})
    @@ After(45, {<<27,2,1>>, <<32,3,7>>, <<45,4,13>>, <<49,4,8>>, <<65,3,1>>, <<77,3,0>>,
            <<82,4,9>>, <<83,4,10>>, <<84,4,11>>, <<85,4,12>>})
    @@ After(46, {<<0,3,7>>, <<27,3,5>>, <<32,1,0>>, <<46,3,6>>, <<73,5,18>>, <<83,4,8>>,
            <<87,5,19>>})

TitleAfter48 ==
    EscapesOnly((59..62) \cup {53, 54, 64})
    @@ After(48, {<<0,2,1>>, <<27,3,1>>, <<32,2,2>>, <<45,3,0>>, <<48,2,3>>})
    @@ After(49, {<<0,3,2>>, <<27,3,3>>, <<32,3,6>>, <<48,3,7>>, <<49,3,4>>, <<50,3,5>>,
            <<57,2,0>>})
    @@ After(50, {<<0,2,3>>, <<27,2,2>>, <<48,2,1>>, <<49,3,0>>, <<58,3,1>>})
    @@ After(51, {<<0,1,0>>, <<27,2,3>>, <<48,2,2>>})
    @@ After(52, {<<27,1,0>>, <<56,1,1>>})
    @@ After(55, {<<27,1,0>>, <<48,1,1>>})
    @@ After(56, {<<27,1,0>>, <<32,1,1>>})
    @@ After(57, {<<27,2,3>>, <<48,2,1>>, <<49,3,4>>, <<51,3,5>>, <<57,2,0>>})
    @@ After(58, {<<27,1,0>>, <<32,1,1>>})
    @@ After(63, {<<0,1,1>>, <<27,1,0>>})
    @@ After(65, {<<27,5,2>>, <<32,3,2>>, <<42,7,104>>, <<45,7,105>>, <<46,7,106>>,
            <<66,6,54>>, <<98,6,50>>, <<99,5,12>>, <<100,3,1>>, <<102,5,13>>, <<103,6,30>>,
            <<105,6,51>>, <<108,3,4>>, <<109,3,7>>, <<110,3,5>>, <<112,6,55>>, <<114,4,0>>,
            <<115,5,3>>, <<116,6,31>>, <<117,5,24>>, <<118,7,107>>, <<119,5,14>>})
    @@ After(66, {<<27,5,2>>, <<65,6,6>>, <<67,4,0>>, <<83,6,7>>, <<97,3,7>>, <<101,2,1>>,
            <<105,4,10>>, <<108,4,11>>, <<111,3,6>>, <<114,3,1>>, <<117,3,4>>})
    @@ After(67, {<<27,5,5>>, <<32,5,22>>, <<65,7,28>>, <<66,6,15>>, <<79,6,46>>, <<97,3,4>>,
            <<101,6,47>>, <<104,2,1>>, <<105,5,6>>, <<108,3,0>>, <<111,2,3>>, <<114,4,10>>,
            <<117,5,4>>, <<121,7,29>>})
    @@ After(68, {<<27,5,9>>, <<97,2,2>>, <<101,3,7>>, <<105,3,6>>, <<111,2,0>>, <<114,3,3>>,
            <<117,4,5>>, <<121,5,8>>})
    @@ After(69, {<<27,3,3>>, <<67,4,10>>, <<97,3,7>>, <<100,3,0>>, <<108,4,12>>, <<109,4,4>>,
            <<110,4,13>>, <<113,6,46>>, <<115,5,22>>, <<117,6,47>>, <<118,3,4>>, <<120,3,1>>,
            <<121,4,5>>})
    @@ After(70, {<<27,6,31>>, <<32,6,30>>, <<76,5,14>>, <<97,2,2>>, <<101,4,6>>, <<105,3,6>>,
            <<108,3,0>>, <<111,3,2>>, <<114,3,7>>, <<117,3,1>>})
    @@ After(71, {<<27,5,22>>, <<46,6,42>>, <<65,6,47>>, <<97,4,14>>, <<101,3,6>>,
            <<104,5,20>>, <<105,3,4>>, <<108,6,43>>, <<111,2,1>>, <<114,2,0>>, <<117,4,15>>,
            <<121,6,46>>})
    @@ After(72, {<<0,6,58>>, <<27,6,59>>, <<97,3,6>>, <<101,2,2>>, <<105,4,15>>, <<111,1,0>>,
            <<117,5,28>>})

TitleAfter73 ==
    EscapesOnly({88})
    @@ After(73, {<<0,4,8>>, <<27,4,9>>, <<32,5,30>>, <<46,6,62>>, <<58,6,46>>, <<73,4,12>>,
            <<84,6,47>>, <<99,5,22>>, <<109,4,10>>, <<110,1,0>>, <<114,6,63>>, <<115,4,13>>,
            <<116,4,14>>})
    @@ After(74, {<<27,3,0>>, <<97,2,1>>, <<101,2,3>>, <<111,2,2>>, <<117,3,1>>})
    @@ After(75, {<<27,3,0>>, <<97,4,4>>, <<101,3,1>>, <<105,1,1>>, <<110,4,7>>, <<111,4,5>>,
            <<117,4,6>>})
    @@ After(76, {<<27,5,9>>, <<32,5,8>>, <<97,2,2>>, <<101,3,3>>, <<105,2,3>>, <<111,2,0>>,
            <<117,4,5>>})
    @@ After(77, {<<27,7,95>>, <<42,8,188>>, <<84,8,189>>, <<97,2,3>>, <<99,6,46>>,
            <<101,4,10>>, <<105,3,4>>, <<111,2,0>>, <<114,5,22>>, <<117,3,2>>, <<121,3,3>>})
    @@ After(78, {<<27,4,8>>, <<32,6,49>>, <<66,4,9>>, <<70,6,50>>, <<78,6,48>>, <<97,4,13>>,
            <<101,1,0>>, <<105,3,7>>, <<111,3,5>>, <<117,6,51>>})
    @@ After(79, {<<27,3,2>>, <<32,3,1>>, <<100,5,14>>, <<102,5,26>>, <<108,4,12>>,
            <<110,2,2>>, <<112,4,1>>, <<114,4,6>>, <<115,5,15>>, <<117,3,7>>, <<118,5,27>>,
            <<119,4,0>>})
    @@ After(80, {<<27,6,63>>, <<32,7,124>>, <<46,6,25>>, <<71,6,61>>, <<82,6,60>>, <<97,2,0>>,
            <<101,3,2>>, <<105,4,7>>, <<108,4,14>>, <<111,3,6>>, <<114,2,2>>, <<115,7,125>>,
            <<117,5,13>>, <<121,6,24>>})
    @@ After(81, {<<27,2,0>>, <<86,2,1>>, <<117,1,1>>})
    @@ After(82, {<<27,5,17>>, <<97,3,5>>, <<101,2,3>>, <<104,5,16>>, <<105,2,0>>, <<111,2,1>>,
            <<117,4,9>>})
    @@ After(83, {<<27,6,46>>, <<32,7,116>>, <<42,7,88>>, <<46,7,91>>, <<97,4,15>>,
            <<99,5,28>>, <<101,3,0>>, <<104,3,4>>, <<105,4,12>>, <<107,6,47>>, <<108,7,89>>,
            <<109,7,118>>, <<110,7,119>>, <<111,4,10>>, <<112,3,1>>, <<113,7,90>>, <<116,2,1>>,
            <<117,4,13>>, <<119,7,117>>})
    @@ After(84, {<<27,7,122>>, <<45,8,246>>, <<78,8,247>>, <<86,6,60>>, <<97,4,10>>,
            <<101,4,11>>, <<104,1,0>>, <<105,4,14>>, <<111,3,6>>, <<114,3,4>>, <<117,6,62>>,
            <<119,6,63>>})
    @@ After(85, {<<27,3,5>>, <<46,4,9>>, <<108,4,8>>, <<110,1,0>>, <<112,2,3>>})
    @@ After(86, {<<0,3,0>>, <<27,4,3>>, <<32,5,10>>, <<67,5,11>>, <<97,3,3>>, <<101,4,4>>,
            <<105,1,1>>, <<111,4,2>>})
    @@ After(87, {<<27,5,3>>, <<70,6,4>>, <<87,6,5>>, <<97,3,7>>, <<101,3,6>>, <<104,3,1>>,
            <<105,2,1>>, <<111,2,2>>, <<114,4,0>>})
    @@ After(89, {<<27,3,1>>, <<97,3,0>>, <<101,2,1>>, <<111,1,1>>})

TitleAfter90 ==
    EscapesOnly((91..96))
    @@ After(90, {<<27,2,0>>, <<97,2,1>>, <<111,1,1>>})
    @@ After(97, {<<0,5,2>>, <<27,10,982>>, <<32,5,22>>, <<39,8,244>>, <<58,10,983>>,
            <<98,6,18>>, <<99,5,31>>, <<100,5,20>>, <<101,9,344>>, <<102,8,173>>, <<103,5,8>>,
            <<104,7,39>>, <<105,5,23>>, <<106,9,345>>, <<107,6,42>>, <<108,3,1>>, <<109,4,5>>,
            <<110,3,6>>, <<112,6,60>>, <<114,3,4>>, <<115,4,14>>, <<116,3,3>>, <<117,7,123>>,
            <<118,5,3>>, <<119,7,87>>, <<120,9,490>>, <<121,4,0>>, <<122,7,38>>})
    @@ After(98, {<<0,5,31>>, <<27,6,61>>, <<32,4,6>>, <<97,2,0>>, <<98,5,15>>, <<101,4,10>>,
            <<105,4,14>>, <<108,3,2>>, <<111,3,6>>, <<114,4,11>>, <<115,6,60>>, <<117,5,14>>,
            <<121,3,4>>})
    @@ After(99, {<<0,6,22>>, <<27,7,67>>, <<32,4,4>>, <<67,7,22>>, <<71,7,66>>, <<76,7,23>>,
            <<97,3,3>>, <<99,6,10>>, <<101,3,7>>, <<104,3,5>>, <<105,4,3>>, <<107,3,6>>,
            <<108,6,23>>, <<111,4,9>>, <<114,5,17>>, <<115,5,4>>, <<116,3,0>>, <<117,5,10>>,
            <<121,6,32>>})
    @@ After(100, {<<0,3,3>>, <<27,6,46>>, <<32,2,3>>, <<46,9,366>>, <<97,4,10>>, <<100,6,32>>,
            <<101,2,0>>, <<103,6,33>>, <<105,4,9>>, <<108,7,90>>, <<111,6,47>>, <<114,6,44>>,
            <<115,4,5>>, <<117,9,367>>, <<118,5,17>>, <<119,8,182>>, <<121,4,4>>})
    @@ After(101, {<<0,3,1>>, <<27,10,700>>, <<32,2,1>>, <<33,10,701>>, <<39,8,172>>,
            <<45,10,702>>, <<58,8,18>>, <<97,4,8>>, <<98,8,173>>, <<99,6,39>>, <<100,5,3>>,
            <<101,5,20>>, <<102,7,76>>, <<103,7,84>>, <<104,10,703>>, <<105,8,174>>,
            <<106,9,32>>, <<107,7,85>>, <<108,5,18>>, <<109,7,77>>, <<110,4,14>>, <<111,6,5>>,
            <<112,6,1>>, <<113,9,33>>, <<114,3,6>>, <<115,4,15>>, <<116,5,22>>, <<117,9,34>>,
            <<118,6,0>>, <<119,5,23>>, <<120,8,19>>, <<121,5,1>>, <<122,9,35>>})
    @@ After(102, {<<0,5,28>>, <<27,7,121>>, <<32,1,0>>, <<97,5,29>>, <<101,3,6>>,
            <<102,4,11>>, <<105,4,9>>, <<108,6,61>>, <<111,4,10>>, <<114,6,63>>, <<115,6,62>>,
            <<116,4,8>>, <<117,7,120>>})

TitleAfter103 ==
    After(103, {<<0,3,6>>, <<27,7,112>>, <<32,2,1>>, <<39,7,76>>, <<58,8,226>>, <<97,4,8>>,
            <<101,3,5>>, <<103,7,122>>, <<104,2,0>>, <<105,5,29>>, <<108,7,123>>, <<110,6,39>>,
            <<111,6,57>>, <<114,5,18>>, <<115,5,31>>, <<116,7,77>>, <<117,6,60>>, <<121,8,227>>})
    @@ After(104, {<<0,5,29>>, <<27,7,113>>, <<32,4,11>>, <<97,4,12>>, <<98,8,230>>,
            <<101,1,0>>, <<105,3,4>>, <<108,7,114>>, <<110,6,41>>, <<111,4,13>>, <<114,5,21>>,
            <<116,4,15>>, <<117,8,231>>, <<119,7,112>>, <<121,6,40>>})
    @@ After(105, {<<0,8,53>>, <<27,8,54>>, <<32,6,4>>, <<33,9,104>>, <<97,5,3>>, <<98,7,24>>,
            <<99,4,15>>, <<100,4,2>>, <<101,4,13>>, <<102,5,7>>, <<103,4,12>>, <<105,8,50>>,
            <<107,8,51>>, <<108,4,6>>, <<109,5,29>>, <<110,2,2>>, <<111,4,4>>, <<112,6,5>>,
            <<114,5,28>>, <<115,4,7>>, <<116,4,5>>, <<118,4,0>>, <<120,9,105>>, <<122,8,55>>})
    @@ After(106, {<<27,2,2>>, <<97,2,3>>, <<111,1,0>>})
    @@ After(107, {<<0,2,1>>, <<27,5,3>>, <<32,3,7>>, <<58,5,1>>, <<84,6,0>>, <<97,6,15>>,
            <<101,2,2>>, <<102,6,4>>, <<105,3,6>>, <<108,6,5>>, <<111,6,1>>, <<115,4,2>>,
            <<119,6,14>>, <<121,5,6>>})
    @@ After(108, {<<0,4,8>>, <<27,7,57>>, <<32,3,2>>, <<39,8,98>>, <<45,8,243>>, <<58,8,99>>,
            <<97,4,14>>, <<98,7,48>>, <<99,8,112>>, <<100,3,0>>, <<101,3,6>>, <<102,7,120>>,
            <<105,3,1>>, <<107,6,25>>, <<108,3,5>>, <<109,7,122>>, <<111,5,31>>, <<114,8,242>>,
            <<115,5,13>>, <<116,6,29>>, <<117,5,15>>, <<118,7,123>>, <<119,8,113>>, <<121,4,9>>})
    @@ After(109, {<<0,4,4>>, <<27,6,21>>, <<32,3,1>>, <<97,3,5>>, <<98,4,0>>, <<101,2,3>>,
            <<105,3,3>>, <<109,4,1>>, <<111,4,9>>, <<112,4,8>>, <<115,6,23>>, <<117,6,22>>,
            <<121,6,20>>})
    @@ After(110, {<<0,3,0>>, <<27,8,115>>, <<32,3,6>>, <<39,6,29>>, <<58,7,74>>, <<97,5,28>>,
            <<98,9,464>>, <<99,5,15>>, <<100,3,1>>, <<101,3,2>>, <<102,7,75>>, <<103,3,5>>,
            <<104,9,469>>, <<105,4,8>>, <<106,9,465>>, <<107,7,118>>, <<108,9,470>>,
            <<109,9,471>>, <<110,5,19>>, <<111,7,119>>, <<114,9,468>>, <<115,4,6>>,
            <<116,4,15>>, <<117,8,233>>, <<118,7,56>>, <<121,6,36>>, <<122,8,114>>})

TitleAfter111 ==
    After(111, {<<0,5,5>>, <<27,8,113>>, <<32,4,5>>, <<39,8,112>>, <<46,10,474>>,
            <<63,9,236>>, <<97,7,98>>, <<98,6,9>>, <<99,6,48>>, <<100,5,15>>, <<101,7,57>>,
            <<102,4,9>>, <<103,5,2>>, <<104,7,58>>, <<105,8,119>>, <<107,7,99>>, <<108,4,4>>,
            <<109,4,8>>, <<110,3,7>>, <<111,4,3>>, <<112,5,13>>, <<114,3,5>>, <<115,5,25>>,
            <<116,5,3>>, <<117,4,13>>, <<118,5,12>>, <<119,4,0>>, <<120,7,16>>, <<121,7,17>>,
            <<122,10,475>>})
    @@ After(112, {<<0,4,13>>, <<27,6,46>>, <<32,3,2>>, <<39,7,101>>, <<97,4,9>>, <<100,6,47>>,
            <<101,3,7>>, <<104,5,24>>, <<105,4,10>>, <<108,4,6>>, <<109,7,100>>, <<111,2,0>>,
            <<112,4,7>>, <<114,5,17>>, <<115,5,16>>, <<116,5,22>>, <<121,6,51>>})
    @@ After(113, {<<27,1,0>>, <<117,1,1>>})
    @@ After(114, {<<0,4,9>>, <<27,8,101>>, <<32,4,15>>, <<39,7,51>>, <<44,9,413>>,
            <<46,7,60>>, <<58,9,412>>, <<97,3,0>>, <<98,8,125>>, <<99,7,63>>, <<100,5,24>>,
            <<101,3,5>>, <<102,8,207>>, <<103,7,61>>, <<105,3,2>>, <<107,6,50>>, <<108,4,3>>,
            <<109,6,24>>, <<110,5,13>>, <<111,4,13>>, <<112,8,124>>, <<114,5,14>>, <<115,4,14>>,
            <<116,4,8>>, <<117,7,102>>, <<118,8,100>>, <<121,4,2>>})
    @@ After(115, {<<0,2,3>>, <<27,7,19>>, <<32,2,1>>, <<39,9,90>>, <<44,9,91>>, <<46,8,37>>,
            <<58,7,1>>, <<63,9,92>>, <<67,9,93>>, <<72,9,94>>, <<97,6,42>>, <<99,6,43>>,
            <<100,9,95>>, <<101,4,11>>, <<102,8,0>>, <<104,5,1>>, <<105,4,3>>, <<107,6,1>>,
            <<108,8,42>>, <<109,8,1>>, <<110,8,43>>, <<111,5,20>>, <<112,6,8>>, <<114,8,36>>,
            <<115,4,1>>, <<116,3,4>>, <<117,7,20>>, <<121,8,44>>})
    @@ After(116, {<<0,3,2>>, <<27,8,194>>, <<32,3,5>>, <<39,8,195>>, <<58,9,432>>,
            <<63,9,433>>, <<97,4,0>>, <<98,6,32>>, <<99,7,109>>, <<100,8,192>>, <<101,3,3>>,
            <<104,3,7>>, <<105,3,1>>, <<108,5,17>>, <<109,6,33>>, <<110,8,217>>, <<111,4,9>>,
            <<114,5,26>>, <<115,4,1>>, <<116,6,55>>, <<117,5,25>>, <<119,8,193>>, <<121,6,49>>})
    @@ After(117, {<<0,7,30>>, <<27,6,4>>, <<32,6,14>>, <<97,5,6>>, <<98,5,19>>, <<99,5,28>>,
            <<100,5,16>>, <<101,4,2>>, <<102,7,31>>, <<103,5,29>>, <<105,5,3>>, <<107,7,10>>,
            <<108,4,0>>, <<109,5,18>>, <<110,3,6>>, <<112,5,17>>, <<114,2,1>>, <<115,3,5>>,
            <<116,4,15>>, <<122,7,11>>})

TitleAfter118 ==
    EscapesOnly((123..127))
    @@ After(118, {<<27,4,2>>, <<97,3,0>>, <<101,1,1>>, <<105,2,1>>, <<111,5,7>>, <<115,5,6>>})
    @@ After(119, {<<0,3,1>>, <<27,5,10>>, <<32,3,3>>, <<39,6,18>>, <<97,3,0>>, <<98,6,19>>,
            <<99,6,23>>, <<101,4,15>>, <<105,4,12>>, <<108,6,22>>, <<110,4,14>>, <<111,4,13>>,
            <<114,5,8>>, <<115,2,2>>})
    @@ After(120, {<<0,3,6>>, <<27,4,10>>, <<32,4,11>>, <<97,3,0>>, <<101,3,1>>, <<105,3,4>>,
            <<112,3,7>>, <<116,2,1>>})
    @@ After(121, {<<0,2,2>>, <<27,6,62>>, <<32,1,0>>, <<33,7,109>>, <<39,6,53>>, <<45,8,245>>,
            <<97,7,110>>, <<98,7,123>>, <<99,8,244>>, <<100,7,96>>, <<101,5,25>>, <<105,7,97>>,
            <<108,6,63>>, <<109,7,111>>, <<110,7,98>>, <<111,7,99>>, <<112,7,104>>,
            <<115,4,14>>, <<116,7,105>>, <<118,7,108>>, <<119,6,60>>})
    @@ After(122, {<<0,3,6>>, <<27,3,4>>, <<32,3,0>>, <<97,2,1>>, <<101,4,10>>, <<105,3,7>>,
            <<121,3,1>>, <<122,4,11>>})

TitleCodes ==
    TitleAfter0 @@ TitleAfter48 @@ TitleAfter73 @@ TitleAfter90 
        @@ TitleAfter103 @@ TitleAfter111 @@ TitleAfter118

(* Program descriptions, table C6.                                        *)
DescriptionAfter0 ==
    EscapesOnly((1..31) \cup (35..38) \cup {33, 40, 42, 43})
    @@ After(0, {<<27,7,112>>, <<34,6,57>>, <<65,3,2>>, <<66,4,3>>, <<67,4,7>>, <<68,5,29>>,
            <<69,5,18>>, <<70,5,22>>, <<71,6,27>>, <<72,5,23>>, <<73,6,24>>, <<74,4,12>>,
            <<75,5,5>>, <<76,5,19>>, <<77,4,15>>, <<78,5,4>>, <<79,6,25>>, <<80,3,0>>,
            <<82,4,8>>, <<83,4,10>>, <<84,4,13>>, <<86,7,113>>, <<87,6,26>>})
    @@ After(32, {<<27,9,321>>, <<34,9,506>>, <<40,10,1020>>, <<45,11,2046>>, <<47,11,2047>>,
            <<49,7,43>>, <<50,7,34>>, <<51,10,1021>>, <<52,9,404>>, <<53,10,1022>>,
            <<55,10,640>>, <<65,5,18>>, <<66,6,20>>, <<67,6,60>>, <<68,7,122>>, <<69,7,35>>,
            <<70,7,42>>, <<71,6,2>>, <<72,7,123>>, <<73,8,203>>, <<74,6,3>>, <<75,7,100>>,
            <<76,6,22>>, <<77,6,41>>, <<78,6,12>>, <<79,8,161>>, <<80,6,13>>, <<82,7,124>>,
            <<83,5,9>>, <<84,7,102>>, <<85,9,507>>, <<86,9,508>>, <<87,6,16>>, <<89,9,509>>,
            <<90,10,641>>, <<97,3,3>>, <<98,5,23>>, <<99,5,19>>, <<100,5,16>>, <<101,6,34>>,
            <<102,5,29>>, <<103,6,35>>, <<104,4,1>>, <<105,5,21>>, <<106,8,207>>, <<107,8,250>>,
            <<108,6,23>>, <<109,5,0>>, <<110,7,81>>, <<111,4,2>>, <<112,5,22>>, <<113,9,405>>,
            <<114,5,7>>, <<115,5,28>>, <<116,4,13>>, <<117,8,251>>, <<118,8,252>>, <<119,5,24>>,
            <<121,8,206>>})
    @@ After(34, {<<0,3,0>>, <<27,2,2>>, <<32,2,3>>, <<46,3,1>>, <<72,3,2>>, <<84,3,3>>})
    @@ After(39, {<<27,2,0>>, <<32,3,2>>, <<115,1,1>>, <<116,3,3>>})
    @@ After(41, {<<27,1,1>>, <<44,1,0>>})
    @@ After(44, {<<27,2,0>>, <<32,1,1>>, <<34,2,1>>})
    @@ After(45, {<<27,2,2>>, <<32,4,14>>, <<97,3,0>>, <<98,4,2>>, <<99,3,6>>, <<100,4,3>>,
            <<101,4,4>>, <<102,4,5>>, <<114,4,15>>, <<115,3,3>>})

DescriptionAfter46 ==
    EscapesOnly((60..62) \cup {54, 56, 64})
    @@ After(46, {<<0,1,1>>, <<27,3,0>>, <<32,2,1>>, <<34,4,2>>, <<74,5,6>>, <<83,5,7>>})
    @@ After(47, {<<27,1,0>>, <<32,1,1>>})
    @@ After(48, {<<27,3,4>>, <<32,3,7>>, <<48,2,0>>, <<55,3,5>>, <<115,2,1>>, <<116,3,6>>})
    @@ After(49, {<<27,3,7>>, <<32,2,2>>, <<56,3,6>>, <<57,1,0>>})
    @@ After(50, {<<27,3,5>>, <<32,2,3>>, <<46,1,0>>, <<54,3,4>>})
    @@ After(51, {<<27,2,2>>, <<32,1,0>>, <<48,2,3>>})
    @@ After(52, {<<27,2,2>>, <<32,2,3>>, <<46,1,0>>})
    @@ After(53, {<<27,2,3>>, <<32,2,2>>, <<46,1,0>>})
    @@ After(55, {<<27,1,0>>, <<44,2,2>>, <<46,2,3>>})
    @@ After(57, {<<27,3,6>>, <<32,3,7>>, <<53,2,0>>, <<54,2,1>>, <<56,2,2>>})
    @@ After(58, {<<27,1,0>>, <<32,1,1>>})
    @@ After(59, {<<27,1,0>>, <<32,1,1>>})
    @@ After(63, {<<27,1,0>>, <<32,1,1>>})
    @@ After(65, {<<27,5,18>>, <<32,2,3>>, <<100,5,19>>, <<102,6,40>>, <<108,2,0>>,
            <<109,5,21>>, <<110,2,1>>, <<114,4,11>>, <<115,5,16>>, <<116,5,17>>, <<117,6,41>>})
    @@ After(66, {<<27,5,18>>, <<97,3,5>>, <<101,3,7>>, <<105,2,0>>, <<108,5,19>>, <<111,3,6>>,
            <<114,2,1>>, <<117,4,8>>})
    @@ After(67, {<<27,5,14>>, <<97,2,0>>, <<104,2,2>>, <<105,5,15>>, <<108,3,6>>, <<111,3,7>>,
            <<114,4,5>>, <<117,4,6>>, <<121,4,4>>})
    @@ After(68, {<<27,4,15>>, <<97,2,1>>, <<101,3,4>>, <<105,2,0>>, <<111,3,5>>, <<114,4,13>>,
            <<117,4,14>>, <<121,4,12>>})
    @@ After(69, {<<27,2,2>>, <<97,4,6>>, <<100,3,0>>, <<105,4,7>>, <<108,3,1>>, <<110,4,12>>,
            <<114,3,7>>, <<115,3,2>>, <<118,4,13>>})
    @@ After(70, {<<27,2,0>>, <<101,3,4>>, <<108,3,5>>, <<111,2,1>>, <<114,2,3>>})
    @@ After(71, {<<27,3,0>>, <<97,3,6>>, <<101,2,1>>, <<105,3,4>>, <<108,3,1>>, <<111,4,11>>,
            <<114,3,7>>, <<117,4,10>>})
    @@ After(72, {<<27,3,2>>, <<97,2,0>>, <<101,3,3>>, <<105,3,6>>, <<111,2,2>>, <<117,3,7>>})
    @@ After(73, {<<27,3,3>>, <<32,3,0>>, <<46,3,4>>, <<73,3,1>>, <<110,2,3>>, <<114,3,5>>,
            <<115,3,2>>})
    @@ After(74, {<<27,4,8>>, <<46,4,9>>, <<97,3,7>>, <<101,4,13>>, <<105,4,12>>, <<111,1,0>>,
            <<117,3,5>>})
    @@ After(75, {<<27,3,7>>, <<97,3,4>>, <<101,1,0>>, <<105,3,5>>, <<114,3,6>>})
    @@ After(76, {<<27,4,6>>, <<97,2,3>>, <<101,2,0>>, <<105,4,7>>, <<111,2,2>>, <<117,3,2>>})
    @@ After(77, {<<27,5,26>>, <<97,1,0>>, <<99,5,27>>, <<101,4,15>>, <<105,2,2>>,
            <<111,4,12>>, <<117,4,14>>})

DescriptionAfter78 ==
    EscapesOnly((90..96) \cup {81, 88})
    @@ After(78, {<<27,4,12>>, <<97,3,7>>, <<101,1,0>>, <<105,4,13>>, <<111,2,2>>})
    @@ After(79, {<<27,2,2>>, <<39,3,2>>, <<108,3,6>>, <<110,3,3>>, <<114,3,7>>, <<115,2,0>>})
    @@ After(80, {<<27,5,18>>, <<97,1,0>>, <<101,3,7>>, <<104,5,19>>, <<105,4,8>>,
            <<108,4,13>>, <<111,3,5>>, <<114,4,12>>})
    @@ After(82, {<<27,4,0>>, <<46,4,1>>, <<97,2,1>>, <<101,2,2>>, <<105,3,1>>, <<111,2,3>>})
    @@ After(83, {<<27,4,11>>, <<46,4,1>>, <<97,3,4>>, <<99,4,2>>, <<101,4,14>>, <<104,3,6>>,
            <<105,4,3>>, <<111,4,15>>, <<116,2,1>>, <<117,4,10>>, <<118,5,0>>, <<121,5,1>>})
    @@ After(84, {<<27,4,10>>, <<86,4,8>>, <<97,4,9>>, <<101,5,26>>, <<104,1,0>>, <<105,4,11>>,
            <<111,3,7>>, <<114,4,12>>, <<119,5,27>>})
    @@ After(85, {<<27,2,2>>, <<46,1,0>>, <<110,2,3>>})
    @@ After(86, {<<27,3,7>>, <<32,2,2>>, <<101,3,6>>, <<105,1,0>>})
    @@ After(87, {<<27,3,2>>, <<97,3,7>>, <<101,3,6>>, <<104,3,3>>, <<105,2,2>>, <<111,2,0>>})
    @@ After(89, {<<27,1,0>>, <<111,1,1>>})
    @@ After(97, {<<27,9,461>>, <<32,3,5>>, <<39,9,462>>, <<46,7,114>>, <<98,6,11>>,
            <<99,5,25>>, <<100,5,7>>, <<101,7,25>>, <<102,6,10>>, <<103,5,4>>, <<104,9,98>>,
            <<105,6,56>>, <<107,6,48>>, <<108,4,13>>, <<109,5,29>>, <<110,2,1>>, <<111,9,99>>,
            <<112,5,0>>, <<114,3,4>>, <<115,4,1>>, <<116,4,15>>, <<117,6,49>>, <<118,6,13>>,
            <<119,9,463>>, <<120,9,460>>, <<121,5,1>>, <<122,8,48>>})
    @@ After(98, {<<27,6,40>>, <<32,4,5>>, <<46,6,41>>, <<97,3,4>>, <<98,6,42>>, <<100,7,86>>,
            <<101,2,0>>, <<105,4,11>>, <<108,4,4>>, <<111,3,6>>, <<114,4,14>>, <<115,7,87>>,
            <<117,4,15>>, <<121,3,3>>})
    @@ After(99, {<<27,5,2>>, <<32,5,16>>, <<44,6,16>>, <<46,7,35>>, <<68,7,38>>, <<97,3,6>>,
            <<99,6,18>>, <<101,3,3>>, <<104,3,7>>, <<105,4,5>>, <<107,4,9>>, <<108,5,17>>,
            <<111,3,5>>, <<113,7,34>>, <<114,5,3>>, <<116,3,1>>, <<117,4,0>>, <<121,7,39>>})

DescriptionAfter100 ==
    After(100, {<<27,7,81>>, <<32,2,3>>, <<39,8,122>>, <<44,6,43>>, <<46,4,4>>,
            <<59,8,123>>, <<97,4,8>>, <<100,5,10>>, <<101,2,0>>, <<102,8,160>>, <<103,8,171>>,
            <<105,4,11>>, <<108,6,31>>, <<109,8,161>>, <<110,7,84>>, <<111,4,6>>, <<114,5,14>>,
            <<115,4,9>>, <<117,6,41>>, <<118,7,60>>, <<119,8,170>>, <<121,5,11>>})
    @@ After(101, {<<27,9,371>>, <<32,3,7>>, <<39,8,186>>, <<41,9,304>>, <<44,6,7>>,
            <<45,8,153>>, <<46,5,6>>, <<59,8,154>>, <<97,4,8>>, <<98,7,12>>, <<99,5,18>>,
            <<100,4,0>>, <<101,5,20>>, <<102,8,187>>, <<103,7,13>>, <<104,9,305>>, <<105,6,4>>,
            <<107,8,155>>, <<108,4,2>>, <<109,6,39>>, <<110,3,2>>, <<111,6,14>>, <<112,6,15>>,
            <<114,3,6>>, <<115,3,3>>, <<116,5,21>>, <<117,9,370>>, <<118,6,44>>, <<119,6,47>>,
            <<120,6,5>>, <<121,6,45>>, <<122,8,184>>})
    @@ After(102, {<<27,7,119>>, <<32,2,2>>, <<46,7,118>>, <<97,4,15>>, <<101,3,0>>,
            <<102,4,5>>, <<105,3,1>>, <<108,6,58>>, <<111,3,6>>, <<114,3,3>>, <<116,4,4>>,
            <<117,5,28>>})
    @@ After(103, {<<27,7,122>>, <<32,2,2>>, <<39,7,123>>, <<44,6,62>>, <<45,7,42>>,
            <<46,5,11>>, <<97,4,14>>, <<101,2,0>>, <<103,7,43>>, <<104,3,3>>, <<105,4,13>>,
            <<108,6,60>>, <<111,4,4>>, <<114,6,63>>, <<115,5,24>>, <<117,5,25>>, <<121,6,20>>})
    @@ After(104, {<<27,7,92>>, <<32,3,4>>, <<39,8,168>>, <<44,8,169>>, <<45,8,171>>,
            <<46,6,41>>, <<97,3,3>>, <<101,2,3>>, <<105,2,0>>, <<110,6,43>>, <<111,3,2>>,
            <<114,6,47>>, <<115,8,170>>, <<116,5,22>>, <<117,6,40>>, <<121,7,93>>})
    @@ After(105, {<<27,8,29>>, <<32,7,15>>, <<44,9,308>>, <<46,8,152>>, <<97,5,26>>,
            <<98,9,309>>, <<99,4,15>>, <<100,5,16>>, <<101,4,14>>, <<102,6,39>>, <<103,5,18>>,
            <<107,8,155>>, <<108,4,12>>, <<109,5,17>>, <<110,2,1>>, <<111,5,27>>, <<112,6,6>>,
            <<114,4,0>>, <<115,3,5>>, <<116,3,1>>, <<118,5,2>>, <<120,8,28>>, <<122,8,153>>})
    @@ After(106, {<<27,3,0>>, <<97,3,1>>, <<101,3,2>>, <<111,1,1>>, <<117,3,3>>})
    @@ After(107, {<<27,4,0>>, <<32,2,1>>, <<39,5,16>>, <<44,5,19>>, <<46,4,1>>, <<101,2,3>>,
            <<105,3,5>>, <<108,6,36>>, <<110,5,17>>, <<115,3,1>>, <<121,6,37>>})

DescriptionAfter108 ==
    After(108, {<<27,7,28>>, <<32,3,6>>, <<39,8,60>>, <<44,6,13>>, <<45,8,61>>, <<46,5,4>>,
            <<97,3,0>>, <<98,7,29>>, <<99,8,63>>, <<100,5,23>>, <<101,3,7>>, <<102,6,22>>,
            <<105,3,3>>, <<107,8,182>>, <<108,3,4>>, <<109,6,23>>, <<110,8,62>>, <<111,4,10>>,
            <<112,5,5>>, <<114,8,183>>, <<115,5,10>>, <<116,6,12>>, <<117,7,90>>, <<118,6,44>>,
            <<121,4,4>>})
    @@ After(109, {<<27,6,42>>, <<32,3,7>>, <<39,7,86>>, <<46,6,53>>, <<59,7,87>>, <<97,2,0>>,
            <<98,5,20>>, <<101,2,1>>, <<105,4,12>>, <<109,5,22>>, <<111,4,8>>, <<112,4,9>>,
            <<115,5,23>>, <<117,5,27>>, <<121,6,52>>})
    @@ After(110, {<<27,7,32>>, <<32,2,2>>, <<39,7,35>>, <<44,6,60>>, <<45,9,218>>,
            <<46,5,12>>, <<59,9,219>>, <<97,5,31>>, <<98,9,220>>, <<99,5,9>>, <<100,3,6>>,
            <<101,3,1>>, <<102,8,69>>, <<103,3,0>>, <<105,5,15>>, <<106,9,221>>, <<107,7,122>>,
            <<108,8,108>>, <<109,9,222>>, <<110,5,14>>, <<111,7,123>>, <<114,9,223>>,
            <<115,4,5>>, <<116,4,14>>, <<117,7,33>>, <<118,7,52>>, <<121,7,53>>, <<122,8,68>>})
    @@ After(111, {<<27,9,339>>, <<32,3,1>>, <<44,8,79>>, <<45,8,78>>, <<46,7,38>>,
            <<66,9,338>>, <<97,6,33>>, <<98,6,55>>, <<99,6,32>>, <<100,6,53>>, <<101,7,85>>,
            <<102,3,0>>, <<103,7,104>>, <<104,7,105>>, <<105,7,109>>, <<107,6,18>>, <<108,4,5>>,
            <<109,4,12>>, <<110,3,7>>, <<111,5,20>>, <<112,5,8>>, <<114,3,3>>, <<115,5,17>>,
            <<116,5,18>>, <<117,4,11>>, <<118,6,43>>, <<119,5,19>>, <<120,8,168>>, <<121,7,108>>})
    @@ After(112, {<<27,6,27>>, <<32,3,0>>, <<45,7,82>>, <<46,6,40>>, <<97,3,1>>, <<101,3,6>>,
            <<104,4,15>>, <<105,4,11>>, <<108,3,2>>, <<109,7,83>>, <<111,4,7>>, <<112,5,29>>,
            <<114,3,4>>, <<115,5,12>>, <<116,5,28>>, <<117,5,21>>, <<121,6,26>>})
    @@ After(113, {<<27,1,0>>, <<117,1,1>>})
    @@ After(114, {<<27,8,159>>, <<32,3,7>>, <<39,7,78>>, <<41,9,316>>, <<44,6,36>>,
            <<45,8,204>>, <<46,5,17>>, <<59,9,317>>, <<97,4,13>>, <<98,8,205>>, <<99,6,33>>,
            <<100,5,24>>, <<101,3,5>>, <<102,9,415>>, <<103,6,37>>, <<105,3,2>>, <<107,6,50>>,
            <<108,5,4>>, <<109,5,5>>, <<110,5,12>>, <<111,3,0>>, <<112,8,206>>, <<114,6,38>>,
            <<115,4,7>>, <<116,4,3>>, <<117,6,32>>, <<118,9,414>>, <<121,5,13>>})

DescriptionAfter115 ==
    EscapesOnly((123..127))
    @@ After(115, {<<27,8,156>>, <<32,1,0>>, <<34,9,316>>, <<39,9,317>>, <<44,6,59>>,
            <<46,4,8>>, <<59,8,235>>, <<97,6,51>>, <<98,9,318>>, <<99,5,18>>, <<101,4,13>>,
            <<104,5,24>>, <<105,5,28>>, <<107,9,319>>, <<108,7,116>>, <<109,9,468>>,
            <<110,9,469>>, <<111,5,30>>, <<112,7,77>>, <<115,5,31>>, <<116,3,5>>, <<117,6,50>>,
            <<119,8,157>>, <<121,7,76>>})
    @@ After(116, {<<27,8,195>>, <<32,3,7>>, <<39,8,196>>, <<44,7,60>>, <<45,8,126>>,
            <<46,5,13>>, <<59,9,388>>, <<97,4,4>>, <<98,9,389>>, <<99,8,197>>, <<101,3,5>>,
            <<104,2,0>>, <<105,4,13>>, <<108,7,61>>, <<109,8,127>>, <<110,7,62>>, <<111,3,4>>,
            <<114,5,25>>, <<115,4,5>>, <<116,5,12>>, <<117,5,14>>, <<119,7,96>>, <<121,7,99>>})
    @@ After(117, {<<27,7,76>>, <<32,6,32>>, <<97,6,39>>, <<98,6,33>>, <<99,5,17>>,
            <<100,5,28>>, <<101,5,29>>, <<103,5,30>>, <<105,5,18>>, <<107,7,77>>, <<108,4,4>>,
            <<109,6,63>>, <<110,3,6>>, <<111,8,250>>, <<112,4,5>>, <<114,2,0>>, <<115,3,3>>,
            <<116,3,5>>, <<118,8,251>>, <<121,7,124>>})
    @@ After(118, {<<27,5,2>>, <<97,3,1>>, <<101,1,1>>, <<105,2,1>>, <<111,4,0>>, <<115,6,6>>,
            <<121,6,7>>})
    @@ After(119, {<<27,6,29>>, <<32,3,1>>, <<46,6,28>>, <<97,3,2>>, <<101,4,14>>, <<104,3,0>>,
            <<105,2,2>>, <<108,6,30>>, <<109,6,31>>, <<110,5,31>>, <<111,3,6>>, <<114,4,6>>,
            <<115,5,30>>})
    @@ After(120, {<<27,2,2>>, <<32,4,6>>, <<44,4,7>>, <<45,4,12>>, <<97,3,7>>, <<101,2,0>>,
            <<105,3,2>>, <<116,4,13>>})
    @@ After(121, {<<27,5,10>>, <<32,1,1>>, <<39,6,18>>, <<44,4,1>>, <<46,4,7>>, <<59,6,25>>,
            <<63,7,38>>, <<97,7,39>>, <<98,7,48>>, <<100,6,1>>, <<101,4,2>>, <<102,7,49>>,
            <<105,6,2>>, <<108,5,8>>, <<109,6,0>>, <<110,5,11>>, <<111,5,13>>, <<115,4,3>>,
            <<119,6,3>>})
    @@ After(122, {<<27,3,4>>, <<32,4,14>>, <<46,4,15>>, <<97,3,0>>, <<101,3,1>>, <<105,3,6>>,
            <<108,3,2>>, <<111,3,5>>, <<122,3,3>>})

DescriptionCodes ==
    DescriptionAfter0 @@ DescriptionAfter46 @@ DescriptionAfter78 @@ DescriptionAfter100 
        @@ DescriptionAfter108 @@ DescriptionAfter115

=============================================================================
