------------------------------ MODULE MCConfig ------------------------------
(* INI files for TLC: every file of two lines over eight, of three over four *)
(* of them, and one that spells the key a.b.c twice.                         *)
EXTENDS Config

Sec(name)      == [kind |-> "section", name |-> name, value |-> "none"]
Pair(name, v)  == [kind |-> "pair", name |-> name, value |-> v]
Other(kind)    == [kind |-> kind, name |-> <<>>, value |-> "none"]

Lines == {Sec(<<"a">>), Sec(<<"a", "b">>), Other("skip"), Other("unclosed"), Other("invalid"),
          Pair(<<"c">>, "1"), Pair(<<"b", "c">>, "yes"), Pair(<<"b", "c">>, ".5")}

FilesOfTwo   == [1 .. 2 -> Lines]
FilesOfThree == [1 .. 3 -> {Sec(<<"a">>), Other("unclosed"), Pair(<<"c">>, "1"),
                            Pair(<<"c">>, "yes")}]
FilesOfFour  == {<<Sec(<<"a">>), Pair(<<"b", "c">>, ".5"), Sec(<<"a", "b">>), Pair(<<"c">>, "1")>>}
Small        == FilesOfTwo \cup FilesOfThree \cup FilesOfFour

Asked == {<<"c">>, <<"b", "c">>, <<"a", "c">>, <<"a", "b", "c">>}
=============================================================================
