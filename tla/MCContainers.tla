----------------------------- MODULE MCContainers ------------------------------
(***************************************************************************)
(* Two strings of one content, a third of another, an instance, a NaN and  *)
(* an integer as keys, in containers that grow twice.                      *)
(***************************************************************************)
EXTENDS NikiContainers, TLC

CONSTANTS s1, s2, s3, o, text1, text2

MCHeap == {s1, s2, s3, o}
MCKey  == {makeObject(x) : x \in MCHeap} \cup {makeFloat(NaN), makeInt(0)}
MCVal  == {makeInt(0), makeInt(1)}
MCChars == s1 :> text1 @@ s2 :> text1 @@ s3 :> text2
=============================================================================
