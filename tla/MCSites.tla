------------------------------ MODULE MCSites ------------------------------
(* Configurations for TLC: every three servers out of some lists of names,  *)
(* every three locations out of some routes, and one server whose files     *)
(* come and go.                                                             *)
EXTENDS Sites

MCSymbols ==
    {"/", ".", "*", "a", "b", "c", "d", "e", "f", "n", "p", "s", "t", "w", "x", "z", "index", "dindex",
     "cgi", "cgi-bin", "py", "php", "txt", "sh", "pl"}

Plain(route, alias) ==
    [route |-> route, exact |-> FALSE, cgi |-> FALSE, methods |-> {"GET"}, redirect |-> {},
     extensions |-> {<<".", "py">>, <<".", "php">>}, alias |-> alias, files |-> <<<<"index">>>>,
     listing |-> FALSE, size |-> 1]

Server(listen, names, locations) == [listen |-> listen, names |-> names, locations |-> locations]

Root == Plain(<<"/">>, <<"/", "w", "/">>)
Script == [Plain(<<"/", "cgi-bin", "/">>, <<"/", "cgi", "/">>) EXCEPT
               !.cgi = TRUE, !.methods = {"GET", "POST"}, !.extensions = @ \cup {<<".", "txt">>}]
Returns(route, code) == [Plain(route, <<"/", "w", "/">>) EXCEPT !.redirect = {<<code, <<"z">>>>}]

NameLists ==
    {<<>>, <<<<"b">>>>, <<<<"a", ".", "b">>>>, <<<<"*", ".", "b">>>>, <<<<"*", ".", "a", ".", "b">>>>,
     <<<<"a", ".", "*">>>>, <<<<"a", ".", "b", ".", "*">>>>, <<<<"*", ".", "b">>, <<"a">>>>,
     <<<<"a", ".", "*">>, <<"*", ".", "a", ".", "b">>>>}

Named ==
    {[pages |-> <<>>, servers |-> <<Server(<<"80">>, n[1], <<Root>>), Server(<<"80", "81">>, n[2], <<Root>>),
                                    Server(<<"81", "80">>, n[3], <<Root>>)>>] : n \in [1 .. 3 -> NameLists]}

Routes ==
    {[Root EXCEPT !.listing = TRUE], [Root EXCEPT !.alias = <<"/", "w", "/", "d", "/">>],
     Plain(<<"/", "p">>, <<"/", "w">>), [Plain(<<"/", "p">>, <<"/", "w", "/">>) EXCEPT !.listing = TRUE],
     [Plain(<<"/", "p", "/">>, <<"/", "w", "/">>) EXCEPT !.listing = TRUE],
     [Plain(<<"/", "p", "/", "c", "/">>, <<"/", "w", "/">>) EXCEPT !.listing = TRUE, !.methods = {"DELETE"}],
     [Plain(<<"/", "p">>, <<"/", "w", "/", "e">>) EXCEPT !.exact = TRUE],
     Script, Returns(<<"/", "p", "/", "c">>, 302), Returns(<<"/", "p">>, 204), Returns(<<"/", "p", "/">>, 410)}

Routed ==
    {[pages |-> (404 :> <<"w", "/", "e">>) @@ (403 :> <<"w", "/", "d">>),
      servers |-> <<Server(<<"80">>, <<>>, l)>>] : l \in [1 .. 3 -> Routes]}

Stored ==
    [pages |-> <<>>,
     servers |-> <<Server(<<"80">>, <<>>,
        <<[Plain(<<"/", "d", "/">>, <<"/", "w", "/", "d", "/">>) EXCEPT
               !.methods = {"GET", "POST", "DELETE"}, !.listing = TRUE],
          Script>>)>>]

MCClusters == Named \cup Routed \cup {Stored}

MCHosts ==
    {<<"a">>, <<"a", ".", "b">>, <<"a", ".", "c">>, <<"x", ".", "b">>, <<"x", ".", "a", ".", "b">>,
     <<"a", ".", "b", ".", "b">>, <<"c">>}

MCFiles ==
    {<<"w", "/", "e">>, <<"w", "/", "d", "/", "index">>, <<"w", "/", "d", "/", "f">>,
     <<"w", "/", "dindex">>, <<"w", "/", "b", "/", "f">>, <<"w", "/", "c", "/", "f">>,
     <<"cgi", "/", "s", ".", "py">>, <<"cgi", "/", "s", ".", "txt">>, <<"cgi", "/", "s", ".", "py", ".", "sh">>,
     <<"cgi", "/", "e", "/", "s", ".", "py">>}
MCDirectories ==
    {<<"w">>, <<"w", "/", "d">>, <<"w", "/", "d", "/", "n">>, <<"w", "/", "b">>, <<"w", "/", "c">>,
     <<"cgi">>, <<"cgi", "/", "e">>}

Typed ==
    {<<"/">>, <<"/", "e">>, <<"/", "b">>, <<"/", "d">>, <<"/", "d", "/">>, <<"/", "e", "/">>, <<"/", "z">>,
     <<"/", "p">>, <<"/", "p", "/">>, <<"/", "p", "/", "d">>, <<"/", "p", "/", "b">>, <<"/", "p", "/", "b", "/">>,
     <<"/", "p", "/", "c">>, <<"/", "p", "/", "c", "/">>, <<"/", "p", "/", "c", "/", "b">>}

Kept ==
    {<<"/", "d">>, <<"/", "d", "/">>, <<"/", "d", "/", "n">>, <<"/", "d", "/", "n", "/">>, <<"/", "d", "/", "f">>,
     <<"/", "d", "/", "n", "/", "f">>, <<"/", "d", "/", "f", "/", "f">>}

Scripts ==
    {<<"/", "cgi-bin">>, <<"/", "cgi-bin", "/">>, <<"/", "cgi-bin", "/", "s">>,
     <<"/", "cgi-bin", "/", "s", ".", "py">>,
     <<"/", "cgi-bin", "/", "s", ".", "txt">>, <<"/", "cgi-bin", "/", "s", ".", "pl">>,
     <<"/", "cgi-bin", "/", "t", ".", "py">>, <<"/", "cgi-bin", "/", "s", ".", "py", ".", "sh">>,
     <<"/", "cgi-bin", "/", "s", ".", "py", "/", "e">>, <<"/", "cgi-bin", "/", "e", "/", "s", ".", "py">>}

MCAsked(c) ==
    CASE c \in Named -> {"GET"} \X MCHosts \X {<<"/", "b">>}
      [] c \in Routed -> {"GET"} \X {<<"c">>} \X (Typed \cup {<<"/", "cgi-bin", "/", "s", ".", "py">>})
      [] OTHER -> {"GET", "POST", "DELETE"} \X {<<"c">>} \X (Kept \cup Scripts)

=============================================================================
