--------------------------- MODULE MCQualification ---------------------------
(* Instances of Qualification for TLC.                                     *)
EXTENDS Qualification

(* Similarity of names is not transitive.  Account d was given by its id.  *)
MCSimilar == {<<"a", "c">>, <<"c", "a">>, <<"c", "b">>, <<"b", "c">>}
MCOwner == "ca" :> "a" @@ "cb" :> "b"

(* Nothing; three accounts of which the second does not survive; and three *)
(* accounts, more than the recursion limit allows.                         *)
MCBatches == {<<>>, <<"a", "c", "b">>, <<"d", "a", "b">>}
=============================================================================
