----------------------------- MODULE MCRequests ------------------------------
(* Codes of up to four characters; two tag files, one of them with nodes   *)
(* that name no page, a configuration that is not JSON and one that lacks  *)
(* a key.                                                                  *)
EXTENDS Requests, TLC

MCChar == {"v", "-", ".", " "}
MCDelims == {" ", "."}
MCWordChar == {"k", "v"}

Strings(chars, n) == UNION {[1..m -> chars] : m \in 0..n}

MCCodes == Strings(MCChar, 4)

Scoped == <<"k", ":", ":", "k">>
MCInspected ==
    Strings({"k", "v", ".", ":"}, 3) \cup
    {Scoped, Scoped \o <<".", "v">>, <<"v", " ", "(", "k", ")">>,
     <<" ", "v", "(", "k", ")">>, <<"k", "(", " ", ")", ".">>,
     <<"k", "<", "v", ">">>, <<"v", "v", ".", "v">>}

MCTypes == <<"k">> :> <<"k">>
MCDeclarable == {<<<<"v">>, <<"k">>>>, <<<<"v", "v">>, Scoped>>,
                 <<Scoped, Scoped>>}

Function(name, page) == [kind |-> "function", name |-> name, page |-> page]
FirstTags ==
    <<[kind |-> "class", name |-> Scoped, page |-> "Scoped",
       members |-> <<Function(<<"k">>, "Scoped/k"),
                     Function(<<"v">>, "Scoped/v")>>],
      [kind |-> "struct", name |-> <<"k">>, page |-> "k",
       members |-> <<Function(<<"v">>, "k/v"),
                     Function(<<"v", " ", "(", "k", ")">>, "v")>>]>>
SecondTags ==
    <<[kind |-> "namespace", name |-> <<"v">>, page |-> "ns", members |-> << >>],
      [kind |-> "class", name |-> Scoped, page |-> "",
       members |-> <<Function(<<"v">>, "")>>],
      [kind |-> "class", name |-> <<"k">>, page |-> "k2",
       members |-> <<Function(<<"k">>, "k2/k")>>]>>

Conf(url, json, tags) == [url |-> url, json |-> json, tags |-> tags]
First == Conf("first", "ok", FirstTags)
Second == Conf("second", "ok", SecondTags)
MCDirectories ==
    {{First, Second}, {Second}, {First, Conf("lost", "ok", << >>)},
     {First, Conf("bad", "broken", << >>)},
     {Second, Conf("", "no keys", << >>)}, {}}
=============================================================================
