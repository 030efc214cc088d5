-------------------------- MODULE MCRequestBuilder --------------------------
(***************************************************************************)
(* Clients for RequestBuilder.  The words of a request line are followed   *)
(* by the symbols x that make it longer.                                   *)
(***************************************************************************)
EXTENDS RequestBuilder

Plain(line, headers, body) ==
    [line |-> line, headers |-> headers, body |-> body, chunks |-> <<>>]
Chunked(line, headers, chunks) ==
    [line |-> line, headers |-> headers, body |-> <<>>, chunks |-> chunks]
Chunk(size, data) == [size |-> size, data |-> data]
One(S) == {<<r>> : r \in S}

host == <<"host">>
X(n) == [i \in 1 .. n |-> "x"]

Get == Plain(<<"GET">>, <<host>>, <<>>)
Post(cl, body) == Plain(<<"POST">>, <<host, <<cl>> >>, body)
Upload(chunks) == Chunked(<<"POST">>, <<host, <<"chunked">> >>, chunks)
Cgi(chunks) == Chunked(<<"POSTcgi">>, <<host, <<"chunked">> >>, chunks)

(* Every kind of request line, of header section and of body.  A POST that  *)
(* is accepted is among the bodies.                                         *)
Lines == {<<"GET">>, <<"POST">>, <<"GETnoloc">>, <<"FOO">>, <<"LONG">>, <<"x">>, <<>>,
          <<"GET", "x">>, <<"GET", "x", "x">>, <<"GET", "x", "x", "x">>,
          <<"GET", "CR">>, <<"GET", "NUL">>, <<"GET", "LF">>, <<"NUL", "GET">>}
HeaderLines == {<<"host">>, <<"bad">>, <<"gzip">>, <<"clx">>, <<"cl0">>, <<"x">>,
                <<"chunked">>, <<"host", "x", "x">>, <<"host", "x", "x", "x">>,
                <<"host", "CR">>, <<"NUL">>}
HeaderSets ==
    {<<>>} \cup {<<h>> : h \in HeaderLines} \cup {<<host, h>> : h \in HeaderLines}
      \cup {<<h, host>> : h \in HeaderLines}
      \cup {<<host, host, host>>, <<host, host, host, host>>,
            <<host, host, host, <<"x">> >>, <<host, <<"host", "x">>, <<"host", "x">> >>}
Bodies == {<<"x">>, <<"CR">>, <<"LF">>, <<"CR", "LF">>, <<"x", "CR">>,
           <<"GET", "CR">>, <<"NUL", "x">>}
Heads == [line : Lines, headers : HeaderSets, body : {<<>>}, chunks : {<<>>}]
Refusable(r) == Word(r) \notin Posts \/ Verdict(Checks(r, FALSE)) # HTTP_OK
HeadScripts == One({r \in Heads : Refusable(r)})

ChunkLists ==
    {<<Chunk(s, X(1))>> : s \in {<<"1">>, <<"0", "1">>, <<"x">>, <<"1", "x">>, <<>>,
                                <<"F", "F">>, <<"CR">>, <<"0", "0", "0", "1">>}}
    \cup {<<Chunk(<<"1">>, b)>> : b \in {X(2), <<"CR", "LF">>, <<"CR">>, <<"LF">>}}
    \cup {<<Chunk(<<"2">>, b)>> : b \in {X(2), <<"CR", "LF">>, <<"LF", "CR">>, <<"0", "CR">>}}
    \cup {<<Chunk(<<"3">>, X(3))>>, <<Chunk(<<"1">>, X(1)), Chunk(<<"1">>, <<"CR">>)>>,
          <<Chunk(<<"1">>, X(1)), Chunk(<<"2">>, X(2))>>,
          <<Chunk(<<"1">>, X(1)), Chunk(<<"1">>, X(1)), Chunk(<<"1">>, X(1))>>}
BodyScripts ==
    One({Post("cl1", b) : b \in {c \in Bodies : Len(c) = 1}}
        \cup {Post("cl2", b) : b \in {c \in Bodies : Len(c) = 2}}
        \cup {Plain(<<"POST">>, <<host, <<"cl1">>, <<"cl2">> >>, X(2)),
              Plain(<<"POSTcgi">>, <<host, <<"cl2">> >>, X(2)),
              Plain(<<"POST">>, <<host, <<"cl2">> >>, X(2))}
        \cup {Upload(c) : c \in ChunkLists} \cup {Cgi(c) : c \in ChunkLists})

(* Requests that follow each other on one connection.                       *)
Few == {Get, Post("cl1", <<"LF">>), Post("cl2", <<"CR", "LF">>),
        Upload(<<Chunk(<<"1">>, <<"CR">>), Chunk(<<"1">>, <<"LF">>)>>),
        Cgi(<<Chunk(<<"1">>, <<"x">>)>>),
        Plain(<<"GET", "x">>, <<host, <<"host", "x">> >>, <<>>),
        Plain(<<"FOO">>, <<>>, <<>>)}
TripleScripts == {<<r, s, Get>> : r \in Few, s \in Few}

ClientScripts == HeadScripts \cup BodyScripts \cup TripleScripts

TwoGets == {<<Upload(<<Chunk(<<"1">>, X(1))>>), Get>>}
=============================================================================
