------------------------------ MODULE MCTexts ------------------------------
(* What the server parses, for TLC: request targets (dots and slashes in    *)
(* any order, escapes of what matters, absolute forms), configuration files *)
(* and the output of scripts, one after the other.                          *)
EXTENDS RqTarget, Configuration, CgiMessages

MCStarts == {<<"/">>, <<"/", "z">>, <<"http", ":", "/", "/">>}

MCPieces ==
    (<<"/">> :> {<<"/">>, <<".">>, <<"z">>, <<"%", "2", "e">>})
    @@ (<<"/", "z">> :> {<<"/">>, <<"%">>, <<"2">>, <<"f">>, <<"?">>, <<"%", "2", "F">>,
                         <<"%", "2", "E">>, <<"%", "2", "5">>, <<"%", "0", "0">>})
    @@ (<<"http", ":", "/", "/">> :> {<<":">>, <<"/">>, <<"@">>, <<"?">>, <<"#">>, <<"z">>, <<"80">>,
                                             <<"%", "4", "0">>})

MCMaxPieces == (<<"/">> :> 7) @@ (<<"/", "z">> :> 4) @@ (<<"http", ":", "/", "/">> :> 5)

Set(key, val) == [kind |-> ";", key |-> key, val |-> val]
Begin(key, val) == [kind |-> "{", key |-> key, val |-> val]
End == [kind |-> "}", key |-> ""]
Bad == {[kind |-> "other"], Set("", <<>>), Begin("", <<>>), [End EXCEPT !.key = "z"]}

Http == Begin("http", <<>>)
Server == Begin("server", <<>>)
Root == Begin("location", <<<<"/">>>>)
Script == Begin("location", <<<<"=">>, <<"/", "cgi-bin", "/">>>>)
Listen == Set("listen", <<[port |-> 80]>>)
Alias(name) == Set("alias", <<<<"/", name>>>>)
Size(n, unit) == Set("client_max_body_size", <<n, unit>>)
Index(a, b) == Set("index", <<<<a>>, <<b>>>>)

Around(http, server, location) ==
    [d \in 0 .. 3 |-> CASE d = 0 -> {Http, End} [] d = 1 -> {Server, End} \cup http
                        [] d = 2 -> {Listen, Root, End} \cup server [] OTHER -> {End} \cup location]

MCPalettes ==
    {Around({Alias("a")}, {Alias("b"), Script}, {Alias("c")}),
     Around({Size(3, "MB"), Set("autoindex", <<"on">>)}, {Size(4, "GB")},
            {Set("client_max_body_size", <<-1>>), Set("autoindex", <<"off">>)}),
     Around({Index("a", "b")}, {Index("b", "c")}, {Index("c", "d"), Set("upload_store", <<<<"a">>>>)}),
     Around(Bad \cup {[kind |-> "#"], Set("keepalive_timeout", <<1>>)}, Bad, Bad)}

MCShift == [KB |-> 2, MB |-> 4, GB |-> 6]

MCWrites ==
    {<<"Status", ":", "2", "0", "4", " ", " ", "z", "LF">>, <<"Status", ":", "2", "0", "4", " ", "z", "LF">>,
     <<"Content-Length", ":", "1", "LF">>, <<"content-length", ":", "tab", "2", "LF">>,
     <<"Connection", ":", "Close", "LF">>, <<"z", ":", "LF">>, <<"z", ":", "z", "CR", "LF">>,
     <<"LF">>, <<"LF", "z">>, <<"z">>, <<"z", "LF", "LF">>}

-----------------------------------------------------------------------------
Init == TgInit /\ CfInit /\ CgInit /\ word = <<"/">>

(* Targets are read beside one palette, files beside one target, scripts    *)
(* beside both.                                                             *)
OneTarget == word = <<"/">>
OnePalette == file = <<>> /\ state = "reading" /\ palette = (CHOOSE p \in Palettes : TRUE)
NoScripts == output = <<>> /\ outputs = <<>> /\ writes = 0

Next ==
    \/ TgNext /\ OnePalette /\ NoScripts /\ UNCHANGED <<cfVars, cgVars>>
    \/ CfNext /\ OneTarget /\ NoScripts /\ UNCHANGED <<tgVars, cgVars>>
    \/ CgNext /\ OneTarget /\ OnePalette /\ UNCHANGED <<tgVars, cfVars>>

Spec == Init /\ [][Next]_<<tgVars, cfVars, cgVars>>

=============================================================================
