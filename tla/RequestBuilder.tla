--------------------------- MODULE RequestBuilder ---------------------------
(***************************************************************************)
(* http::RequestBuilder and http::RequestParser, driven by ClientSession:  *)
(* the bytes of one connection arrive in pieces of any size; the builder   *)
(* reads requests out of them, one after the other.                        *)
(*                                                                         *)
(* A symbol stands for one byte, or for the word at the head of a line     *)
(* that gives the line its meaning: a request line, a header field.  Any   *)
(* other line is its symbols.  `script' is what the client sends on the    *)
(* connection, a sequence of requests; `received' counts the symbols of    *)
(* its encoding that recv() has returned so far.                           *)
(***************************************************************************)
EXTENDS Integers, Sequences, FiniteSets, SequencesExt

CONSTANTS
    Scripts,        \* the sequences of requests a client may send
    Pipelining,     \* TRUE: the client does not wait for the answers
    FinalLine,      \* TRUE: a chunked body ends with an empty line (RFC 9112)
    FilesFail,      \* TRUE: opening the file of a body may fail
    SplitChunkEnds, \* TRUE: recv() may end between a chunk's last CR and LF
    LineLimit,      \* RQ_LINE_LEN_LIMIT
    SectionLimit,   \* RQ_HEADER_SECTION_LIMIT
    MaxHeaders,     \* RQ_MAX_HEADER_COUNT
    IntRange,       \* the number of values of int and unsigned int: 2^32
    SizeRange,      \* the number of values of size_t: 2^64
    BodyLimit       \* client_max_body_size of the location, an unsigned int

ASSUME LimitsAssumption ==
    /\ LineLimit \in Nat /\ SectionLimit \in Nat /\ MaxHeaders \in Nat
    /\ IntRange \in Nat \ {0} /\ SizeRange \in Nat /\ IntRange <= SizeRange
    /\ BodyLimit \in 0 .. IntRange - 1
ASSUME SwitchesAssumption ==
    /\ Pipelining \in BOOLEAN /\ FinalLine \in BOOLEAN
    /\ SplitChunkEnds \in BOOLEAN /\ FilesFail \in BOOLEAN

VARIABLES
    script,         \* the requests of this client
    received,       \* how much of their encoding has arrived
    buf,            \* RequestParser::buf_
    pos,            \* RequestParser::element_end_idx_
    building,       \* Build() is running
    builder_status, \* RequestBuilder::builder_status_
    build_state,    \* RequestBuilder::build_state_
    rq,             \* rq_, with the body written to body_stream
    header_count,   \* RequestBuilder::header_count_
    section_size,   \* RequestBuilder::header_section_size_
    has_body,       \* RequestBuilder::rq_has_body_
    bb,             \* RequestBuilder::body_builder_
    uploaded,       \* the file of the upload location exists
    answers,        \* what the session answered
    closed,         \* the session is closed
    ended           \* an exception ended the server

netVars == <<script, received>>
parserVars == <<buf, pos>>
headVars == <<header_count, section_size>>
bodyVars == <<has_body, bb, uploaded>>
sessionVars == <<building, builder_status, answers, closed, ended>>
vars == <<netVars, parserVars, build_state, rq, headVars, bodyVars, sessionVars>>

-----------------------------------------------------------------------------
(* The words.  POSTcgi is a POST to a location that is not a static path;   *)
(* GETnoloc has no location; FOO is an unknown method, LONG a target over   *)
(* its limit.  `bad' is a header field whose name is no token.              *)

HTTP_OK == 200
LineStatus ==
    [GET |-> 200, POST |-> 200, POSTcgi |-> 200, GETnoloc |-> 200,
     FOO |-> 501, LONG |-> 414]
Posts == {"POST", "POSTcgi"}
HeaderKey ==
    [host |-> "host", bad |-> "bad", chunked |-> "te", gzip |-> "te",
     cl0 |-> "cl", cl1 |-> "cl", cl2 |-> "cl", clx |-> "cl"]
HeaderKeys == {"host", "bad", "te", "cl"}
HeaderValues == DOMAIN HeaderKey \cup {"none"}
Number == [cl0 |-> 0, cl1 |-> 1, cl2 |-> 2]
Digit ==
    [d \in {"0", "1", "2", "3", "F"} |->
        CASE d = "0" -> 0 [] d = "1" -> 1 [] d = "2" -> 2 [] d = "3" -> 3
          [] d = "F" -> 15]

Symbols ==
    DOMAIN LineStatus \cup DOMAIN HeaderKey \cup DOMAIN Digit
      \cup {"CR", "LF", "NUL", "x"}

(* The status of a request line: 400 unless it starts with a known word.    *)
FirstLineStatus(line) ==
    IF line # <<>> /\ line[1] \in DOMAIN LineStatus
    THEN LineStatus[line[1]] ELSE 400

(* HexToUnsignedNumericNoThrow<size_t>: a number that fits, or nothing.     *)
HexValue(line) == FoldLeft(LAMBDA n, d : 16 * n + Digit[d], 0, line)
IsHex(line) ==
    /\ line # <<>>
    /\ ToSet(line) \subseteq DOMAIN Digit
    /\ HexValue(line) \in 0 .. SizeRange - 1

AsInt(u) == IF 2 * u < IntRange THEN u ELSE u - IntRange
(* Slip: a number keeps its sign.                                           *)
AsSizeSigned(i) == i
AsSize(i) == i % SizeRange
Sizes == 0 .. SizeRange - 1
Ints == {AsInt(u) : u \in 0 .. IntRange - 1}

-----------------------------------------------------------------------------
(* The client: how a request is written on the wire.                        *)

CRLF == <<"CR", "LF">>
ChunkWire(c) == c.size \o CRLF \o c.data \o CRLF
HeadWire(r) ==
    r.line \o CRLF
      \o FlattenSeq([i \in DOMAIN r.headers |-> r.headers[i] \o CRLF]) \o CRLF
ChunksWire(r, n) == FlattenSeq([j \in 1 .. n |-> ChunkWire(r.chunks[j])])
LastChunk == <<"0">> \o CRLF \o (IF FinalLine THEN CRLF ELSE <<>>)
Wire(r) ==
    HeadWire(r) \o
      IF r.chunks = <<>> THEN r.body
      ELSE ChunksWire(r, Len(r.chunks)) \o LastChunk
Stream(s) == FlattenSeq([i \in DOMAIN s |-> Wire(s[i])])
EndOf(k) == Len(Stream(SubSeq(script, 1, k)))   \* where request k ends
Payload(r) ==
    IF r.chunks = <<>> THEN r.body
    ELSE FlattenSeq([j \in DOMAIN r.chunks |-> r.chunks[j].data])

(* The places one symbol after the data that a chunk announces: between the *)
(* CR and the LF after it, if the chunk is well formed.                     *)
Announced(c) == IF IsHex(c.size) THEN HexValue(c.size) ELSE Len(c.data)
ChunkEnd(r, j) ==
    LET c == r.chunks[j]
    IN Len(HeadWire(r) \o ChunksWire(r, j - 1) \o c.size \o CRLF) + Announced(c) + 1
ChunkEnds ==
    UNION {{EndOf(i - 1) + ChunkEnd(script[i], j) : j \in DOMAIN script[i].chunks}
             : i \in DOMAIN script}

Sendable ==
    IF Pipelining \/ Len(answers) = Len(script) THEN EndOf(Len(script))
    ELSE EndOf(Len(answers) + 1)

(* What a client sends is made of these symbols.                            *)
ClientChunks == [size : Seq(Symbols), data : Seq(Symbols)]
ClientRequests ==
    [line : Seq(Symbols), headers : Seq(Seq(Symbols)), body : Seq(Symbols),
     chunks : Seq(ClientChunks)]
ASSUME ScriptsAssumption == Scripts \subseteq Seq(ClientRequests)

-----------------------------------------------------------------------------
Requests ==
    [line : DOMAIN LineStatus \cup {""}, headers : [HeaderKeys -> HeaderValues],
     status : Nat, body : Seq(Symbols)]
NewRequest == [line |-> "", headers |-> [k \in HeaderKeys |-> "none"],
               status |-> HTTP_OK, body |-> <<>>]
BodyBuilders ==
    [chunked : BOOLEAN, body_len : Sizes, remaining : Nat, max_body : Sizes]
NewBody == [chunked |-> FALSE, body_len |-> 0, remaining |-> 0, max_body |-> 0]

Init ==
    /\ script \in Scripts
    /\ received = 0
    /\ buf = <<>> /\ pos = 0
    /\ building = FALSE
    /\ builder_status = "RB_BUILDING"
    /\ build_state = "BS_RQ_LINE"
    /\ rq = NewRequest
    /\ header_count = 0 /\ section_size = 0
    /\ has_body = FALSE
    /\ bb = NewBody
    /\ uploaded = FALSE
    /\ answers = <<>>
    /\ closed = FALSE /\ ended = FALSE

(* Slips: the end of the buffer goes unnoticed; it stops the builder even   *)
(* when the headers are complete.                                           *)
CanBuildAnyway == build_state \notin {"BS_BAD_REQUEST", "BS_END"}
CanBuildFromDataAlone == CanBuildAnyway /\ pos < Len(buf)
CanBuild ==
    /\ build_state \notin {"BS_BAD_REQUEST", "BS_END"}
    /\ build_state = "BS_AFTER_HEADERS" \/ pos < Len(buf)

(* recv() returns some of what the client sent, and Build() starts.         *)
Receive ==
    /\ ~building /\ ~closed /\ builder_status # "RB_DONE"
    /\ \E to \in received + 1 .. Len(Stream(script)) :
        /\ to <= Sendable
        /\ SplitChunkEnds \/ to \notin ChunkEnds
        /\ buf' = buf \o SubSeq(Stream(script), received + 1, to)
        /\ received' = to
    /\ building' = TRUE
    /\ UNCHANGED <<script, pos, build_state, rq, headVars, bodyVars,
                   builder_status, answers, closed, ended>>

(* The loop of Build() ends.                                                *)
LeaveBuild ==
    /\ building /\ ~CanBuild
    /\ building' = FALSE
    /\ builder_status' = IF build_state \in {"BS_END", "BS_BAD_REQUEST"}
                         THEN "RB_DONE" ELSE "RB_NEED_DATA_FROM_CLIENT"
    /\ UNCHANGED <<netVars, parserVars, build_state, rq, headVars, bodyVars,
                   answers, closed, ended>>

InState(state) == building /\ CanBuild /\ build_state = state

(* SetStatusAndExitBuilder_                                                 *)
Fail(status) ==
    /\ rq' = [rq EXCEPT !.status = status]
    /\ build_state' = "BS_BAD_REQUEST"

-----------------------------------------------------------------------------
(* TryToExtractLine_: where the scan of the line stops, if it does.         *)

At(i) == buf[i + 1]
(* Slip: the scan does not look behind the place where it resumes.          *)
AfterCRSincePos(i) == i > pos /\ At(i - 1) = "CR"
AfterCR(i) == i >= 1 /\ At(i - 1) = "CR"
Stops ==
    {i \in pos .. Len(buf) - 1 :
        i + 1 > LineLimit \/ AfterCR(i) \/ At(i) = "NUL"}
Stop == Min(Stops)

LineMissing == Stops = {} /\ pos' = Len(buf) /\ UNCHANGED buf
LineGood == Stops # {} /\ Stop < LineLimit /\ AfterCR(Stop) /\ At(Stop) = "LF"
LineBad ==
    /\ Stops # {} /\ ~LineGood
    /\ pos' = Stop
    /\ UNCHANGED buf
    /\ Fail(400)
Line == SubSeq(buf, 1, Stop - 1)
TakeLine ==
    /\ LineGood
    /\ buf' = SubSeq(buf, Stop + 2, Len(buf))
    /\ pos' = 0

BuildFirstLine ==
    /\ InState("BS_RQ_LINE")
    /\ \/ LineMissing /\ UNCHANGED <<build_state, rq, section_size>>
       \/ LineBad /\ UNCHANGED section_size
       \/ /\ TakeLine
          /\ section_size' = section_size + Len(Line)
          /\ \/ /\ FirstLineStatus(Line) # HTTP_OK
                /\ Fail(FirstLineStatus(Line))
             \/ /\ FirstLineStatus(Line) = HTTP_OK
                /\ rq' = [rq EXCEPT !.line = Line[1]]
                /\ build_state' = "BS_HEADER_FIELDS"
    /\ UNCHANGED <<netVars, header_count, bodyVars, sessionVars>>

(* BuildHeaderField_ with a line in hand.                                   *)
InsertHeaderField ==
    /\ Line # <<>>
    /\ \/ /\ Line[1] \notin DOMAIN HeaderKey
          /\ Fail(400)
          /\ UNCHANGED header_count
       \/ /\ Line[1] \in DOMAIN HeaderKey
          /\ header_count' = header_count + 1
          /\ \/ header_count' > MaxHeaders /\ Fail(431)
             \/ /\ header_count' <= MaxHeaders
                /\ rq' = [rq EXCEPT !.headers[HeaderKey[Line[1]]] = Line[1]]
                /\ UNCHANGED build_state

BuildHeaderField ==
    /\ InState("BS_HEADER_FIELDS")
    /\ \/ LineMissing /\ UNCHANGED <<build_state, rq, headVars>>
       \/ LineBad /\ UNCHANGED headVars
       \/ /\ TakeLine
          /\ section_size' = section_size + Len(Line)
          /\ \/ /\ section_size' > SectionLimit
                /\ Fail(431)
                /\ UNCHANGED header_count
             \/ section_size' <= SectionLimit /\ InsertHeaderField
             \/ /\ section_size' <= SectionLimit
                /\ Line = <<>>
                /\ build_state' = "BS_AFTER_HEADERS"
                /\ UNCHANGED <<rq, header_count>>
    /\ UNCHANGED <<netVars, bodyVars, sessionVars>>

-----------------------------------------------------------------------------
Has(key) == rq.headers[key] # "none"
IsChunked == rq.headers["te"] = "chunked"
WithBody == IsChunked \/ Has("cl")

(* ValidateHeadersSyntax_, InterpretHeaders_, ChooseServerCb::Call          *)
HeadersBad ==
    \/ Has("bad") \/ ~Has("host")
    \/ Has("cl") /\ Has("te")
    \/ Has("cl") /\ rq.headers["cl"] \notin DOMAIN Number
HeadersStatus ==
    IF HeadersBad THEN 400
    ELSE IF rq.line \in Posts /\ ~WithBody THEN 411
    ELSE IF rq.line \notin Posts /\ WithBody THEN 400
    ELSE IF rq.line = "GETnoloc" THEN 404 ELSE HTTP_OK

ContentLength == IF Has("cl") THEN Number[rq.headers["cl"]] ELSE 0

(* What max_body_size may be: HeadersValidationResult does not initialise   *)
(* it, and ChooseServerCb sets it for a POST to a static path alone.        *)
MaxBodySizes ==
    IF rq.line = "POST" THEN {AsSize(AsInt(BodyLimit))}
    ELSE {AsSize(i) : i \in Ints}

(* An upload goes to the file of its location, which must not exist yet;    *)
(* any other body goes to a new temporary file.  (If that one cannot be     *)
(* opened: TmpFileFails.)                                                   *)
PrepareBody ==
    \E max \in MaxBodySizes :
        LET conflict == rq.line = "POST" /\ uploaded
        IN /\ bb' = [bb EXCEPT !.chunked = IsChunked,
                              !.remaining = ContentLength, !.max_body = max]
           /\ \/ conflict /\ Fail(409) /\ UNCHANGED uploaded
              \/ /\ ~conflict /\ rq.line = "POST" /\ FilesFail
                 /\ Fail(500) /\ UNCHANGED uploaded
              \/ /\ ~conflict
                 /\ uploaded' = (uploaded \/ rq.line = "POST")
                 /\ \/ /\ IsChunked
                       /\ build_state' = "BS_BODY_CHUNK_SIZE"
                       /\ UNCHANGED rq
                    \/ ~IsChunked /\ ContentLength > max /\ Fail(413)
                    \/ /\ ~IsChunked /\ ContentLength <= max
                       /\ build_state' = "BS_BODY_REGULAR"
                       /\ UNCHANGED rq

(* Whatever a refused request leaves in the builder goes with its session.  *)
ProcessHeaders ==
    /\ InState("BS_AFTER_HEADERS")
    /\ \/ /\ HeadersStatus # HTTP_OK
          /\ Fail(HeadersStatus)
          /\ UNCHANGED bodyVars
       \/ /\ HeadersStatus = HTTP_OK /\ ~WithBody
          /\ build_state' = "BS_END"
          /\ UNCHANGED <<rq, bodyVars>>
       \/ /\ HeadersStatus = HTTP_OK /\ WithBody
          /\ has_body' = TRUE
          /\ PrepareBody
    /\ UNCHANGED <<netVars, parserVars, headVars, sessionVars>>

(* The name of the temporary file is logged before it is known to be open:  *)
(* an unset maybe throws, and nothing catches it but main, which returns.   *)
TmpFileFails ==
    /\ InState("BS_AFTER_HEADERS") /\ HeadersStatus = HTTP_OK /\ WithBody
    /\ rq.line # "POST" /\ FilesFail
    /\ ended' = TRUE /\ closed' = TRUE /\ building' = FALSE
    /\ UNCHANGED <<netVars, parserVars, build_state, rq, headVars, bodyVars,
                   builder_status, answers>>

-----------------------------------------------------------------------------
(* MoveToStream: as much of the body as the buffer holds.                   *)
(* Slip: the whole buffer is taken for the body.                            *)
MovedAll == Len(buf)
Moved == Min({bb.remaining, Len(buf)})
MoveToStream ==
    /\ rq' = [rq EXCEPT !.body = @ \o SubSeq(buf, 1, Moved)]
    /\ bb' = [bb EXCEPT !.remaining = @ - Moved]

BuildBodyRegular ==
    /\ InState("BS_BODY_REGULAR")
    /\ MoveToStream
    /\ buf' = SubSeq(buf, Moved + 1, Len(buf))
    /\ pos' = 0
    /\ build_state' = IF bb'.remaining > 0 THEN build_state ELSE "BS_END"
    /\ UNCHANGED <<netVars, headVars, has_body, uploaded, sessionVars>>

(* The size of a chunk: body_len wraps as size_t does.                      *)
(* Slip: each chunk is held to the limit by itself.                         *)
TakeChunkSizeAlone(size) ==
    \/ size = 0 /\ build_state' = "BS_END" /\ UNCHANGED <<rq, bb>>
    \/ /\ size # 0
       /\ bb' = [bb EXCEPT !.body_len = size, !.remaining = size]
       /\ \/ bb'.body_len > bb.max_body /\ Fail(413)
          \/ /\ bb'.body_len <= bb.max_body
             /\ build_state' = "BS_BODY_CHUNK_CONTENT"
             /\ UNCHANGED rq
TakeChunkSize(size) ==
    \/ size = 0 /\ build_state' = "BS_END" /\ UNCHANGED <<rq, bb>>
    \/ /\ size # 0
       /\ bb' = [bb EXCEPT !.body_len = AsSize(@ + size), !.remaining = size]
       /\ \/ bb'.body_len > bb.max_body /\ Fail(413)
          \/ /\ bb'.body_len <= bb.max_body
             /\ build_state' = "BS_BODY_CHUNK_CONTENT"
             /\ UNCHANGED rq

BuildBodyChunkSize ==
    /\ InState("BS_BODY_CHUNK_SIZE")
    /\ \/ LineMissing /\ UNCHANGED <<build_state, rq, bb>>
       \/ LineBad /\ UNCHANGED bb
       \/ /\ TakeLine
          /\ \/ ~IsHex(Line) /\ Fail(400) /\ UNCHANGED bb
             \/ IsHex(Line) /\ TakeChunkSize(HexValue(Line))
    /\ UNCHANGED <<netVars, headVars, has_body, uploaded, sessionVars>>

(* The rest of a chunk and the CRLF after it.  With one symbol left the     *)
(* code neither takes it nor reports the end of the buffer.                 *)
Rest == SubSeq(buf, Moved + 1, Len(buf))
AwaitChunkEnd == bb.remaining > Moved \/ Len(Rest) < 2

BuildBodyChunkContent ==
    /\ InState("BS_BODY_CHUNK_CONTENT")
    /\ bb' = [bb EXCEPT !.remaining = @ - Moved]
    /\ LET body == rq.body \o SubSeq(buf, 1, Moved)
       IN \/ /\ AwaitChunkEnd
             /\ buf' = Rest
             /\ rq' = [rq EXCEPT !.body = body]
             /\ UNCHANGED build_state
          \/ /\ ~AwaitChunkEnd /\ ~IsPrefix(CRLF, Rest)
             /\ buf' = Rest
             /\ rq' = [rq EXCEPT !.body = body, !.status = 400]
             /\ build_state' = "BS_BAD_REQUEST"
          \/ /\ ~AwaitChunkEnd /\ IsPrefix(CRLF, Rest)
             /\ buf' = SubSeq(Rest, 3, Len(Rest))
             /\ rq' = [rq EXCEPT !.body = body]
             /\ build_state' = "BS_BODY_CHUNK_SIZE"
    /\ pos' = 0
    /\ UNCHANGED <<netVars, headVars, has_body, uploaded, sessionVars>>

-----------------------------------------------------------------------------
(* The response has been sent (ResponseSentCleanup): an error response has  *)
(* the header Connection: Close; after any other the builder starts over,   *)
(* and keeps what is in its buffer.                                         *)

AnswerGiven ==
    [status |-> rq.status, body |-> IF rq.status = HTTP_OK THEN rq.body ELSE <<>>]

ResponseSent ==
    /\ ~building /\ ~closed /\ builder_status = "RB_DONE"
    /\ answers' = Append(answers, AnswerGiven)
    /\ closed' = (rq.status # HTTP_OK)
    /\ rq' = NewRequest
    /\ builder_status' = "RB_BUILDING"
    /\ build_state' = "BS_RQ_LINE"
    /\ bb' = NewBody
    /\ header_count' = 0 /\ section_size' = 0
    /\ has_body' = FALSE
    /\ UNCHANGED <<netVars, parserVars, building, uploaded, ended>>

Build ==
    \/ BuildFirstLine \/ BuildHeaderField \/ ProcessHeaders \/ TmpFileFails
    \/ BuildBodyRegular \/ BuildBodyChunkSize \/ BuildBodyChunkContent
    \/ LeaveBuild
Next == Receive \/ Build \/ ResponseSent
Spec == Init /\ [][Next]_vars
(* The loop of Build() runs to its end; the session writes its response.    *)
FairSpec == Spec /\ WF_vars(Build) /\ WF_vars(ResponseSent)

-----------------------------------------------------------------------------
(* The reference: what a request deserves, read off it as a whole.          *)

(* A list of <<condition, status>> in the order they are checked: the first *)
(* condition that holds gives the status.                                   *)
Verdict(checks) ==
    LET failing == {i \in DOMAIN checks : checks[i][1]}
    IN IF failing = {} THEN HTTP_OK ELSE checks[Min(failing)][2]

BadText(line) ==
    Len(line) + 2 > LineLimit \/ ToSet(line) \cap {"CR", "NUL"} # {}
Word(r) == IF r.line = <<>> THEN "" ELSE r.line[1]
Fields(r) == {r.headers[i][1] : i \in DOMAIN r.headers}
Lengths == DOMAIN Number \cup {"clx"}
SectionSize(r, i) == Len(r.line \o FlattenSeq(SubSeq(r.headers, 1, i)))
HeaderChecks(r, i) ==
    << <<BadText(r.headers[i]), 400>>,
       <<SectionSize(r, i) > SectionLimit, 431>>,
       <<r.headers[i][1] \notin DOMAIN HeaderKey, 400>>,
       <<i > MaxHeaders, 431>> >>
FieldChecks(r) ==
    LET sized == Fields(r) \cap Lengths # {}
        coded == Fields(r) \cap {"chunked", "gzip"} # {}
        body == sized \/ "chunked" \in Fields(r)
    IN << <<"bad" \in Fields(r) \/ "host" \notin Fields(r), 400>>,
          <<(sized /\ coded) \/ "clx" \in Fields(r), 400>>,
          <<Word(r) \in Posts /\ ~body, 411>>,
          <<Word(r) \notin Posts /\ body, 400>>,
          <<Word(r) = "GETnoloc", 404>> >>
ChunkChecks(r, j) ==
    LET c == r.chunks[j]
    IN << <<BadText(c.size) \/ ~IsHex(c.size), 400>>,
          <<Word(r) = "POST"
              /\ Len(Payload([r EXCEPT !.chunks = SubSeq(@, 1, j)])) > BodyLimit, 413>>,
          <<IsHex(c.size) /\ HexValue(c.size) # Len(c.data), 400>> >>
Checks(r, conflict) ==
    << <<BadText(r.line), 400>>,
       <<FirstLineStatus(r.line) # HTTP_OK, FirstLineStatus(r.line)>> >>
    \o FlattenSeq([i \in DOMAIN r.headers |-> HeaderChecks(r, i)])
    \o << <<SectionSize(r, Len(r.headers)) > SectionLimit, 431>> >>
    \o FieldChecks(r)
    \o << <<Word(r) = "POST" /\ conflict, 409>>,
          <<Word(r) = "POST" /\ r.chunks = <<>> /\ Len(r.body) > BodyLimit, 413>> >>
    \o FlattenSeq([j \in DOMAIN r.chunks |-> ChunkChecks(r, j)])

Reference(i) ==
    LET r == script[i]
        status == Verdict(Checks(r, \E j \in 1 .. i - 1 : Word(script[j]) = "POST"))
    IN [status |-> status, body |-> IF status = HTTP_OK THEN Payload(r) ELSE <<>>]
Refused(status) == [status |-> status, body |-> <<>>]

-----------------------------------------------------------------------------
TypeOK ==
    /\ script \in Scripts
    /\ received \in Nat /\ pos \in Nat
    /\ buf \in Seq(Symbols)
    /\ building \in BOOLEAN /\ closed \in BOOLEAN /\ ended \in BOOLEAN
    /\ builder_status \in {"RB_BUILDING", "RB_NEED_DATA_FROM_CLIENT", "RB_DONE"}
    /\ build_state \in
         {"BS_RQ_LINE", "BS_HEADER_FIELDS", "BS_AFTER_HEADERS", "BS_BODY_REGULAR",
          "BS_BODY_CHUNK_SIZE", "BS_BODY_CHUNK_CONTENT", "BS_END", "BS_BAD_REQUEST"}
    /\ rq \in Requests
    /\ header_count \in Nat /\ section_size \in Nat
    /\ has_body \in BOOLEAN /\ uploaded \in BOOLEAN
    /\ bb \in BodyBuilders

(* However the bytes were cut into pieces, each request gets the answer it  *)
(* deserves, with the body the client sent: the k-th answer is the          *)
(* reference's for the k-th request.  (The limit on the body of a CGI       *)
(* request is undefined, and an upload whose file cannot be opened gets     *)
(* 500.)  No request ends the server but one for a script, whose temporary  *)
(* file cannot be opened.                                                   *)
AnswersFit ==
    \A i \in DOMAIN answers :
        \/ answers[i] = Reference(i)
        \/ Word(script[i]) = "POSTcgi" /\ answers[i] = Refused(413)
        \/ FilesFail /\ Word(script[i]) = "POST" /\ answers[i] = Refused(500)
EndIsForAFile ==
    ended => /\ FilesFail /\ Len(answers) < Len(script)
             /\ Word(script[Len(answers) + 1]) = "POSTcgi"
AnswersAreRight == AnswersFit /\ EndIsForAFile

(* The builder takes from the buffer exactly the bytes of the requests it   *)
(* answered: when it looks for a request line, the buffer starts where the  *)
(* last request ended.  A byte too few or too many and the next request of  *)
(* a kept-alive connection would be read out of the middle of something.    *)
RequestsStartWhereTheLastEnded ==
    build_state = "BS_RQ_LINE" /\ ~closed =>
        buf = SubSeq(Stream(script), EndOf(Len(answers)) + 1, received)

(* client_max_body_size holds: no more than that of an upload is ever       *)
(* written, wherever its chunks and pieces begin and end.                   *)
BodyWithinLimit == rq.line = "POST" => Len(rq.body) <= BodyLimit

(* Build() returns: it reads what it can of the buffer and then waits for   *)
(* more data, or has a request.  While it runs the server does nothing      *)
(* else.                                                                    *)
BuildReturns == building ~> ~building

(* A request whose last byte arrives while it is read is answered, without  *)
(* the client sending anything after it, unless it ends the server.  (One   *)
(* that arrived behind another request waits in the buffer for the next     *)
(* receive.)                                                                *)
Arrives(k) == building /\ Len(answers) = k - 1 /\ received >= EndOf(k)
CompleteRequestIsAnswered ==
    \A k \in 1 .. 2 :
        (k <= Len(script) /\ Arrives(k)) ~> (Len(answers) >= k \/ ended)
=============================================================================
