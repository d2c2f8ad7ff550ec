----------------------------- MODULE MCReplyJson -----------------------------
(***************************************************************************)
(* Instances of ReplyJson for TLC: values nested up to three deep, with    *)
(* brackets and escaped quotes in their strings, whole, cut off at any     *)
(* token, and with prose, fences and garbage around them.                  *)
(***************************************************************************)
EXTENDS ReplyJson

CONSTANT Failed

Scalars == {<<"number">>,
            <<"quote", "}", "quote">>,
            <<"quote", "backslash", "quote", "]", "quote">>}

Objects(values) ==
    {<<"{", "}">>} \cup {<<"{", "key">> \o v \o <<"}">> : v \in values}

Lists(values) ==
    {<<"[", "]">>}
    \cup {<<"[">> \o v \o <<"]">> : v \in values}
    \cup {<<"[">> \o v[1] \o <<"comma">> \o v[2] \o <<"]">> : v \in values \X values}

Flat == Objects(Scalars) \cup Lists(Scalars)
Items == Objects(Scalars \cup {<<"[", "number", "]">>})

MCJson == Scalars \cup Flat \cup Items \cup Lists(Items) \cup Objects(Lists(Items))

Before == {<<>>, <<"word">>, <<"word", "number", "comma">>, <<"word", "quote">>, <<"[">>}
After == {<<>>, <<"word">>, <<"quote">>, <<"backslash", "quote">>, <<"}">>, <<"]", "word">>,
          <<"comma", "{", "}">>, <<"fence">>}

MCTexts ==
    {<<>>, <<"word">>, <<"fence", "fence">>}
    \cup {b \o v \o a : b \in Before, v \in MCJson, a \in After}
    \cup {b \o <<"fence">> \o v \o a \o <<"fence", "word">> :
            b \in Before, v \in MCJson, a \in After}
    \cup UNION {{SubSeq(v, 1, n) : n \in 1 .. Len(v)} : v \in MCJson}
=============================================================================
