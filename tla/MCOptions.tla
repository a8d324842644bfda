------------------------------ MODULE MCOptions ------------------------------
(* The setup of the client, and others that use what the library offers.    *)
EXTENDS Options

MCLetters == {"a", "b", "d", "f", "l", "n", "o", "r", "s", "t", "u", "v", "x", "D", "F", "1"}

Equals(name, text) == [Argument(2, name) EXCEPT !.eq = TRUE, !.text = text]

MCArguments ==
    {Argument(2, <<>>), Argument(1, <<>>), Word(<<"x">>), Word(<<"1">>), Word(<<>>),
     [Word(<<"x">>) EXCEPT !.more = <<<<>>, <<"1">>>>], [Word(<<"x">>) EXCEPT !.more = <<<<>>>>],
     Argument(1, <<"f">>), Argument(1, <<"v">>), Argument(1, <<"v", "o">>),
     Argument(1, <<"f", "v">>), Argument(1, <<"u", "v">>), Argument(2, <<"t", "F">>),
     Argument(2, <<"u", "u">>), Equals(<<"t", "F">>, <<>>), Equals(<<"v", "b">>, <<"x">>),
     Equals(<<"f">>, <<"x">>)}

With(options, positional, unrecognised) ==
    [options |-> options, positional |-> positional, unrecognised |-> unrecognised]

MCSetups ==
    LET f == String(<<"f">>, <<"t", "F">>, <<>>)
        o == String(<<>>, <<"o">>, <<Word(<<"r">>)>>)
        v == Bool(<<"v">>, <<"v", "b">>)
        l == List(<<>>, <<"l", "s">>, <<Word(<<"d">>)>>)
        u == [Bool(<<"v">>, <<"u", "u">>) EXCEPT !.default = <<Word(<<"x">>)>>]
    IN {ClientSetup,
        With(<<f, o, v>>, <<<<"t", "F">>, <<"o">>>>, FALSE),
        With(<<f, v, l>>, <<<<"f">>, <<"v">>, <<"l", "s">>>>, TRUE),
        With(<<v>>, <<<<"v">>, <<"n", "o">>>>, FALSE),
        With(<<f, String(<<"f">>, <<>>, <<>>)>>, <<>>, FALSE),
        With(<<v, String(<<"a">>, <<"v", "b">>, <<>>)>>, <<>>, FALSE),
        With(<<v, String(<<"a">>, <<"b">>, <<>>)>>, <<>>, FALSE),
        With(<<f, u>>, <<<<"u", "u">>>>, FALSE)}
=============================================================================
