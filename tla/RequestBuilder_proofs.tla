------------------------ MODULE RequestBuilder_proofs ------------------------
(***************************************************************************)
(* Theorems about RequestBuilder: its type invariant, and the limit on the *)
(* body of an upload whose length is given by Content-Length.              *)
(***************************************************************************)
EXTENDS RequestBuilder, Lists_proofs

-----------------------------------------------------------------------------
(* Numbers.                                                                 *)

(* The conversions of the body limit.                                       *)
LEMMA SizesAreSizes ==
    /\ 0 \in Sizes
    /\ \A i \in Int : AsSize(i) \in Sizes
    /\ \A u \in 0 .. IntRange - 1 : AsInt(u) \in Int
    /\ 2 * BodyLimit < IntRange => AsSize(AsInt(BodyLimit)) = BodyLimit
BY LimitsAssumption DEF Sizes, AsSize, AsInt

-----------------------------------------------------------------------------
(* The helpers of the actions.                                              *)

LEMMA WordsAreTyped ==
    /\ \A line : FirstLineStatus(line) \in Nat
    /\ \A w \in DOMAIN HeaderKey : HeaderKey[w] \in HeaderKeys
    /\ \A w \in DOMAIN HeaderKey : w \in HeaderValues
    /\ \A w \in DOMAIN Number : Number[w] \in Nat
<1>1. \A w \in DOMAIN LineStatus : LineStatus[w] \in Nat
  BY DEF LineStatus
<1>2. \A w \in DOMAIN HeaderKey : HeaderKey[w] \in HeaderKeys
  BY DEF HeaderKey, HeaderKeys
<1>3. \A w \in DOMAIN Number : Number[w] \in Nat
  BY DEF Number
<1>. QED
  BY <1>1, <1>2, <1>3 DEF FirstLineStatus, HeaderValues

(* What a client sends is made of symbols.                                  *)
HeadersWire(r) == [i \in DOMAIN r.headers |-> r.headers[i] \o CRLF]
ChunkWires(r) == [j \in DOMAIN r.chunks |-> ChunkWire(r.chunks[j])]
Wires(s) == [i \in DOMAIN s |-> Wire(s[i])]

LEMMA LineEndIsTyped ==
    /\ CRLF \in Seq(Symbols) /\ Len(CRLF) = 2
    /\ CRLF[1] = "CR" /\ CRLF[2] = "LF"
    /\ LastChunk \in Seq(Symbols)
<1>1. "CR" \in Symbols /\ "LF" \in Symbols /\ "0" \in Symbols
  BY DEF Symbols, Digit
<1>2. CRLF \in Seq(Symbols) /\ <<"0">> \in Seq(Symbols) /\ <<>> \in Seq(Symbols)
  BY <1>1 DEF CRLF
<1>3. LastChunk \in Seq(Symbols)
  BY <1>2, ConcatProperties DEF LastChunk
<1>. QED
  BY <1>2, <1>3 DEF CRLF

LEMMA WiresAreTyped ==
    ASSUME NEW r \in ClientRequests
    PROVE  /\ r.line \in Seq(Symbols) /\ r.body \in Seq(Symbols)
           /\ r.headers \in Seq(Seq(Symbols))
           /\ r.chunks \in Seq(ClientChunks)
           /\ HeadersWire(r) \in Seq(Seq(Symbols)) /\ Len(HeadersWire(r)) = Len(r.headers)
           /\ ChunkWires(r) \in Seq(Seq(Symbols)) /\ Len(ChunkWires(r)) = Len(r.chunks)
           /\ FlattenSeq(HeadersWire(r)) \in Seq(Symbols)
           /\ FlattenSeq(ChunkWires(r)) \in Seq(Symbols)
           /\ HeadWire(r) \in Seq(Symbols)
           /\ ChunksWire(r, Len(r.chunks)) = FlattenSeq(ChunkWires(r))
           /\ Wire(r) \in Seq(Symbols)
<1>1. /\ r.line \in Seq(Symbols) /\ r.body \in Seq(Symbols)
      /\ r.headers \in Seq(Seq(Symbols))
      /\ r.chunks \in Seq(ClientChunks)
  BY DEF ClientRequests
<1>2. ASSUME NEW i \in DOMAIN r.headers PROVE r.headers[i] \o CRLF \in Seq(Symbols)
  <2>1. r.headers[i] \in Seq(Symbols)
    BY <1>1
  <2>. QED
    BY <2>1, LineEndIsTyped, ConcatProperties
<1>3. HeadersWire(r) \in Seq(Seq(Symbols)) /\ Len(HeadersWire(r)) = Len(r.headers)
  <2>1. DOMAIN r.headers = 1 .. Len(r.headers) /\ Len(r.headers) \in Nat
    BY <1>1
  <2>. QED
    BY <1>2, <2>1 DEF HeadersWire
<1>4. ASSUME NEW c \in ClientChunks
      PROVE  ChunkWire(c) \in Seq(Symbols)
  <2>1. c.size \in Seq(Symbols) /\ c.data \in Seq(Symbols)
    BY DEF ClientChunks
  <2>. QED
    <3>1. c.size \o CRLF \in Seq(Symbols)
      BY <2>1, LineEndIsTyped, ConcatProperties
    <3>2. c.size \o CRLF \o c.data \in Seq(Symbols)
      BY <2>1, <3>1, ConcatProperties
    <3>. QED
      BY <3>2, LineEndIsTyped, ConcatProperties DEF ChunkWire
<1>5. ChunkWires(r) \in Seq(Seq(Symbols)) /\ Len(ChunkWires(r)) = Len(r.chunks)
  <2>1. DOMAIN r.chunks = 1 .. Len(r.chunks) /\ Len(r.chunks) \in Nat
    BY <1>1
  <2>2. ASSUME NEW j \in DOMAIN r.chunks PROVE ChunkWire(r.chunks[j]) \in Seq(Symbols)
    BY <1>1, <1>4, <2>1
  <2>. QED
    BY <2>1, <2>2, FunctionIsSeq DEF ChunkWires
<1>6. FlattenSeq(HeadersWire(r)) \in Seq(Symbols) /\ FlattenSeq(ChunkWires(r)) \in Seq(Symbols)
  BY <1>3, <1>5, FlattenType
<1>7. HeadWire(r) \in Seq(Symbols)
  BY <1>1, <1>6, LineEndIsTyped, ConcatProperties DEF HeadWire, HeadersWire
<1>8. ChunksWire(r, Len(r.chunks)) = FlattenSeq(ChunkWires(r))
  <2>1. DOMAIN r.chunks = 1 .. Len(r.chunks)
    BY <1>1
  <2>. QED
    BY <2>1 DEF ChunksWire, ChunkWires
<1>9. Wire(r) \in Seq(Symbols)
  BY <1>1, <1>6, <1>7, <1>8, LineEndIsTyped, ConcatProperties DEF Wire
<1>. QED
  BY <1>1, <1>3, <1>5, <1>6, <1>7, <1>8, <1>9

LEMMA StreamIsTyped ==
    ASSUME NEW s \in Seq(ClientRequests)
    PROVE  /\ Wires(s) \in Seq(Seq(Symbols)) /\ Len(Wires(s)) = Len(s)
           /\ Stream(s) = FlattenSeq(Wires(s))
           /\ Stream(s) \in Seq(Symbols)
<1>1. DOMAIN s = 1 .. Len(s) /\ Len(s) \in Nat /\ \A i \in DOMAIN s : s[i] \in ClientRequests
  OBVIOUS
<1>2. \A i \in DOMAIN s : Wire(s[i]) \in Seq(Symbols)
  BY <1>1, WiresAreTyped
<1>3. Wires(s) \in Seq(Seq(Symbols)) /\ Len(Wires(s)) = Len(s)
  BY <1>1, <1>2 DEF Wires
<1>4. Stream(s) = FlattenSeq(Wires(s))
  BY DEF Stream, Wires
<1>. QED
  BY <1>3, <1>4, FlattenType

(* An update of one field of a request, or of the body builder.             *)
LEMMA RequestUpdates ==
    ASSUME NEW r \in Requests
    PROVE  /\ \A n \in Nat : [r EXCEPT !.status = n] \in Requests
           /\ \A l \in DOMAIN LineStatus : [r EXCEPT !.line = l] \in Requests
           /\ \A k \in HeaderKeys, v \in HeaderValues :
                [r EXCEPT !.headers[k] = v] \in Requests
           /\ \A b \in Seq(Symbols) : [r EXCEPT !.body = b] \in Requests
BY DEF Requests

LEMMA FailIsTyped ==
    ASSUME TypeOK, NEW n \in Nat, Fail(n)
    PROVE  rq' \in Requests /\ build_state' = "BS_BAD_REQUEST"
<1>1. rq \in Requests
  BY DEF TypeOK
<1>. QED
  BY <1>1, RequestUpdates DEF Fail

(* Where the scan of a line stops is a place in the buffer.                 *)
LEMMA StopInBuffer ==
    ASSUME TypeOK, Stops # {}
    PROVE  Stop \in pos .. Len(buf) - 1
<1>1. Stops \in SUBSET Nat
  BY DEF Stops, TypeOK
<1>. QED
  BY <1>1, MinOfNats DEF Stop, Stops

(* A line that is taken leaves a shorter buffer.                            *)
LEMMA LineIsTaken ==
    ASSUME TypeOK, TakeLine
    PROVE  /\ Line \in Seq(Symbols)
           /\ buf' \in Seq(Symbols) /\ Len(buf') < Len(buf)
           /\ pos' = 0
<1>1. Stop \in pos .. Len(buf) - 1 /\ Stop >= 1
  BY StopInBuffer DEF TakeLine, LineGood, AfterCR
<1>. QED
  BY <1>1 DEF TakeLine, Line, TypeOK

LEMMA LineIsBad ==
    ASSUME TypeOK, LineBad
    PROVE  /\ buf' = buf /\ pos' \in Nat
           /\ rq' \in Requests
           /\ rq' = [rq EXCEPT !.status = 400]
           /\ build_state' = "BS_BAD_REQUEST"
BY SMTT(60), StopInBuffer, RequestUpdates DEF LineBad, Fail, TypeOK

(* What the headers of an accepted request say.                             *)
LEMMA HeadersStatusIsTyped ==
    ASSUME TypeOK
    PROVE  /\ HeadersStatus \in Nat
           /\ HeadersStatus = HTTP_OK => ContentLength \in Nat
<1>1. HeadersStatus \in Nat
  BY DEF HeadersStatus, HTTP_OK
<1>2. HeadersStatus = HTTP_OK => ~HeadersBad
  BY DEF HeadersStatus, HTTP_OK
<1>. QED
  BY <1>1, <1>2, WordsAreTyped DEF HeadersBad, ContentLength

-----------------------------------------------------------------------------
(* The type invariant.                                                      *)

LEMMA NewIsTyped == NewRequest \in Requests /\ NewBody \in BodyBuilders
<1>1. [k \in HeaderKeys |-> "none"] \in [HeaderKeys -> HeaderValues]
  BY DEF HeaderValues
<1>2. NewRequest \in Requests
  BY <1>1, EmptySeq DEF NewRequest, Requests, HTTP_OK
<1>. QED
  BY <1>2, SizesAreSizes DEF NewBody, BodyBuilders

LEMMA TypeInit == Init => TypeOK
<1>. SUFFICES ASSUME Init PROVE TypeOK
  OBVIOUS
<1>1. script \in Scripts /\ received \in Nat /\ pos \in Nat /\ buf \in Seq(Symbols)
  BY EmptySeq DEF Init
<1>2. /\ rq \in Requests /\ bb \in BodyBuilders
      /\ header_count \in Nat /\ section_size \in Nat
  BY NewIsTyped DEF Init
<1>3. /\ building \in BOOLEAN /\ closed \in BOOLEAN /\ ended \in BOOLEAN
      /\ has_body \in BOOLEAN /\ uploaded \in BOOLEAN
  BY DEF Init
<1>. QED
  BY <1>1, <1>2, <1>3 DEF Init, TypeOK

LEMMA TypeReceive == TypeOK /\ Receive => TypeOK'
<1>. SUFFICES ASSUME TypeOK, Receive PROVE TypeOK'
  OBVIOUS
<1>1. PICK to \in received + 1 .. Len(Stream(script)) :
        /\ buf' = buf \o SubSeq(Stream(script), received + 1, to)
        /\ received' = to
  BY DEF Receive
<1>2. Stream(script) \in Seq(Symbols)
  BY ScriptsAssumption, StreamIsTyped DEF TypeOK
<1>3. buf' \in Seq(Symbols) /\ received' \in Nat
  BY <1>1, <1>2 DEF TypeOK
<1>. QED
  BY <1>3 DEF TypeOK, Receive, headVars, bodyVars

LEMMA TypeLeaveBuild == TypeOK /\ LeaveBuild => TypeOK'
BY DEF TypeOK, LeaveBuild, netVars, parserVars, headVars, bodyVars

LEMMA TypeBuildFirstLine == TypeOK /\ BuildFirstLine => TypeOK'
<1>. SUFFICES ASSUME TypeOK, BuildFirstLine PROVE TypeOK'
  OBVIOUS
<1>1. CASE LineMissing /\ UNCHANGED <<build_state, rq, section_size>>
  BY <1>1 DEF TypeOK, BuildFirstLine, LineMissing, netVars, bodyVars, sessionVars
<1>2. CASE LineBad /\ UNCHANGED section_size
  BY <1>2, LineIsBad DEF TypeOK, BuildFirstLine, netVars, bodyVars, sessionVars
<1>3. CASE TakeLine /\ section_size' = section_size + Len(Line)
  <2>1. /\ Line \in Seq(Symbols) /\ buf' \in Seq(Symbols) /\ pos' \in Nat
        /\ section_size' \in Nat
    BY <1>3, LineIsTaken DEF TypeOK
  <2>2. CASE Fail(FirstLineStatus(Line))
    BY <2>1, <2>2, WordsAreTyped, RequestUpdates
       DEF TypeOK, BuildFirstLine, Fail, netVars, bodyVars, sessionVars
  <2>3. CASE /\ FirstLineStatus(Line) = HTTP_OK
             /\ rq' = [rq EXCEPT !.line = Line[1]]
             /\ build_state' = "BS_HEADER_FIELDS"
    <3>1. Line # <<>>
      BY <2>3 DEF FirstLineStatus, HTTP_OK
    <3>2. Line[1] \in DOMAIN LineStatus
      BY <2>3 DEF FirstLineStatus, HTTP_OK
    <3>. QED
      BY <2>1, <2>3, <3>2, RequestUpdates DEF TypeOK, BuildFirstLine, netVars, bodyVars, sessionVars
  <2>. QED
    BY <1>3, <2>2, <2>3 DEF BuildFirstLine, TakeLine, LineMissing, LineBad,
                                           LineGood
<1>. QED
  BY <1>1, <1>2, <1>3 DEF BuildFirstLine

LEMMA TypeBuildHeaderField == TypeOK /\ BuildHeaderField => TypeOK'
<1>. SUFFICES ASSUME TypeOK, BuildHeaderField PROVE TypeOK'
  OBVIOUS
<1>1. CASE LineMissing /\ UNCHANGED <<build_state, rq, headVars>>
  BY <1>1 DEF TypeOK, BuildHeaderField, LineMissing, headVars, netVars, bodyVars,
              sessionVars
<1>2. CASE LineBad /\ UNCHANGED headVars
  BY <1>2, LineIsBad
     DEF TypeOK, BuildHeaderField, headVars, netVars, bodyVars, sessionVars
<1>3. CASE TakeLine /\ section_size' = section_size + Len(Line)
  <2>1. /\ Line \in Seq(Symbols) /\ buf' \in Seq(Symbols) /\ pos' \in Nat
        /\ section_size' \in Nat
    BY <1>3, LineIsTaken DEF TypeOK
  <2>2. ASSUME /\ header_count' \in Nat
               /\ rq' \in Requests
               /\ build_state' \in {build_state, "BS_AFTER_HEADERS", "BS_BAD_REQUEST"}
        PROVE  TypeOK'
    BY <2>1, <2>2 DEF TypeOK, BuildHeaderField, netVars, bodyVars, sessionVars
  <2>3. CASE Fail(431) /\ UNCHANGED header_count
    BY <2>2, <2>3, FailIsTyped DEF TypeOK
  <2>4. CASE InsertHeaderField
    <3>1. CASE Fail(400) /\ UNCHANGED header_count
      <4>1. rq' \in Requests
        BY <3>1, FailIsTyped
      <4>. QED
        BY <2>2, <3>1, <4>1 DEF TypeOK, Fail
    <3>2. CASE header_count' = header_count + 1 /\ Fail(431)
      <4>1. header_count' \in Nat
        BY <3>2 DEF TypeOK
      <4>2. rq' \in Requests
        BY <3>2, FailIsTyped
      <4>. QED
        BY <2>2, <3>2, <4>1, <4>2 DEF Fail
    <3>3. CASE /\ Line[1] \in DOMAIN HeaderKey
               /\ header_count' = header_count + 1
               /\ rq' = [rq EXCEPT !.headers[HeaderKey[Line[1]]] = Line[1]]
               /\ UNCHANGED build_state
      <4>1. header_count' \in Nat
        BY <3>3 DEF TypeOK
      <4>2. HeaderKey[Line[1]] \in HeaderKeys /\ Line[1] \in HeaderValues
        BY <3>3, WordsAreTyped
      <4>3. rq' \in Requests
        BY <3>3, <4>2, RequestUpdates DEF TypeOK
      <4>. QED
        BY <2>2, <3>3, <4>1, <4>3
    <3>. QED
      BY <2>4, <3>1, <3>2, <3>3 DEF InsertHeaderField
  <2>5. CASE build_state' = "BS_AFTER_HEADERS" /\ UNCHANGED <<rq, header_count>>
    BY <2>2, <2>5 DEF TypeOK
  <2>. QED
    BY <1>3, <2>3, <2>4, <2>5 DEF BuildHeaderField, TakeLine, LineMissing, LineBad,
                                           LineGood
<1>. QED
  BY <1>1, <1>2, <1>3 DEF BuildHeaderField

LEMMA TypeProcessHeaders == TypeOK /\ ProcessHeaders => TypeOK'
<1>. SUFFICES ASSUME TypeOK, ProcessHeaders PROVE TypeOK'
  OBVIOUS
<1>1. ASSUME /\ rq' \in Requests /\ bb' \in BodyBuilders
             /\ has_body' \in BOOLEAN /\ uploaded' \in BOOLEAN
             /\ build_state' \in {"BS_BAD_REQUEST", "BS_END", "BS_BODY_REGULAR",
                                  "BS_BODY_CHUNK_SIZE"}
      PROVE  TypeOK'
  BY <1>1 DEF TypeOK, ProcessHeaders, netVars, parserVars, headVars, sessionVars
<1>2. CASE Fail(HeadersStatus) /\ UNCHANGED bodyVars
  <2>1. rq' \in Requests
    BY <1>2, HeadersStatusIsTyped, FailIsTyped
  <2>. QED
    BY <1>1, <1>2, <2>1 DEF TypeOK, Fail, bodyVars
<1>3. CASE build_state' = "BS_END" /\ UNCHANGED <<rq, bodyVars>>
  BY <1>1, <1>3 DEF TypeOK, bodyVars
<1>4. CASE HeadersStatus = HTTP_OK /\ has_body' = TRUE /\ PrepareBody
  <2>1. PICK max \in MaxBodySizes :
          /\ bb' = [bb EXCEPT !.chunked = IsChunked,
                              !.remaining = ContentLength, !.max_body = max]
          /\ \/ Fail(409) /\ UNCHANGED uploaded
             \/ Fail(500) /\ UNCHANGED uploaded
             \/ /\ uploaded' = (uploaded \/ rq.line = "POST")
                /\ \/ build_state' = "BS_BODY_CHUNK_SIZE" /\ UNCHANGED rq
                   \/ Fail(413)
                   \/ build_state' = "BS_BODY_REGULAR" /\ UNCHANGED rq
    BY <1>4 DEF PrepareBody
  <2>2. MaxBodySizes \in SUBSET Sizes
    BY SizesAreSizes, LimitsAssumption DEF MaxBodySizes, Ints
  <2>3. ContentLength \in Nat /\ IsChunked \in BOOLEAN
    BY <1>4, HeadersStatusIsTyped DEF IsChunked
  <2>4. bb' \in BodyBuilders
    BY <2>1, <2>2, <2>3 DEF TypeOK, BodyBuilders
  <2>5. uploaded' \in BOOLEAN
    BY <2>1 DEF TypeOK, Fail
  <2>6. rq' \in Requests
    <3>1. Fail(409) \/ Fail(500) \/ Fail(413) \/ UNCHANGED rq
      BY <2>1
    <3>2. CASE UNCHANGED rq
      BY <3>2 DEF TypeOK
    <3>. QED
      BY <3>1, <3>2, FailIsTyped
  <2>7. build_state' \in {"BS_BAD_REQUEST", "BS_END", "BS_BODY_REGULAR",
                          "BS_BODY_CHUNK_SIZE"}
    BY <2>1 DEF Fail
  <2>. QED
    BY <1>1, <1>4, <2>4, <2>5, <2>6, <2>7
<1>. QED
  BY <1>2, <1>3, <1>4 DEF ProcessHeaders

LEMMA TypeTmpFileFails == TypeOK /\ TmpFileFails => TypeOK'
BY DEF TypeOK, TmpFileFails, netVars, parserVars, headVars, bodyVars

(* What a step takes from the buffer for the body.                          *)
LEMMA MovedIsTyped ==
    ASSUME TypeOK
    PROVE  /\ Moved \in Nat /\ Moved <= Len(buf) /\ Moved <= bb.remaining
           /\ Moved = Len(buf) \/ Moved = bb.remaining
           /\ SubSeq(buf, 1, Moved) \in Seq(Symbols)
           /\ Len(SubSeq(buf, 1, Moved)) = Moved
           /\ Rest \in Seq(Symbols) /\ Len(Rest) = Len(buf) - Moved
           /\ [bb EXCEPT !.remaining = @ - Moved] \in BodyBuilders
<1>1. bb.remaining \in Nat /\ Len(buf) \in Nat
  BY DEF TypeOK, BodyBuilders
<1>2. /\ Moved \in {bb.remaining, Len(buf)}
      /\ \A i \in {bb.remaining, Len(buf)} : Moved <= i
  BY <1>1, MinOfNats DEF Moved
<1>3. bb.remaining - Moved \in Nat
  BY <1>1, <1>2
<1>. QED
  BY SMTT(60), <1>1, <1>2, <1>3 DEF TypeOK, BodyBuilders, Rest

LEMMA TypeBuildBodyRegular == TypeOK /\ BuildBodyRegular => TypeOK'
<1>. SUFFICES ASSUME TypeOK, BuildBodyRegular PROVE TypeOK'
  OBVIOUS
<1>1. rq.body \o SubSeq(buf, 1, Moved) \in Seq(Symbols)
  <2>1. rq.body \in Seq(Symbols)
    BY DEF TypeOK, Requests
  <2>. QED
    BY <2>1, MovedIsTyped, ConcatProperties
<1>2. rq' \in Requests /\ bb' \in BodyBuilders
  BY <1>1, MovedIsTyped, RequestUpdates DEF TypeOK, BuildBodyRegular, MoveToStream
<1>3. buf' \in Seq(Symbols) /\ pos' \in Nat
  BY MovedIsTyped DEF BuildBodyRegular, Rest
<1>. QED
  BY <1>2, <1>3 DEF TypeOK, BuildBodyRegular, netVars, headVars, sessionVars

LEMMA TypeBuildBodyChunkSize == TypeOK /\ BuildBodyChunkSize => TypeOK'
<1>. SUFFICES ASSUME TypeOK, BuildBodyChunkSize PROVE TypeOK'
  OBVIOUS
<1>1. ASSUME /\ rq' \in Requests /\ bb' \in BodyBuilders
             /\ buf' \in Seq(Symbols) /\ pos' \in Nat
             /\ build_state' \in {build_state, "BS_BAD_REQUEST", "BS_END",
                                  "BS_BODY_CHUNK_CONTENT"}
      PROVE  TypeOK'
  BY <1>1 DEF TypeOK, BuildBodyChunkSize, netVars, headVars, sessionVars
<1>2. CASE LineMissing /\ UNCHANGED <<build_state, rq, bb>>
  BY <1>1, <1>2 DEF TypeOK, LineMissing
<1>3. CASE LineBad /\ UNCHANGED bb
  BY <1>1, <1>3, LineIsBad DEF TypeOK
<1>4. CASE TakeLine /\ ~IsHex(Line) /\ Fail(400) /\ UNCHANGED bb
  <2>1. rq' \in Requests
    BY <1>4, FailIsTyped
  <2>. QED
    BY <1>1, <1>4, <2>1, LineIsTaken DEF TypeOK, Fail
<1>5. CASE TakeLine /\ IsHex(Line) /\ TakeChunkSize(HexValue(Line))
  <2>. DEFINE size == HexValue(Line)
  <2>1. size \in Sizes
    BY <1>5 DEF IsHex, Sizes
  <2>. HIDE DEF size
  <2>2. CASE build_state' = "BS_END" /\ UNCHANGED <<rq, bb>>
    BY <1>1, <1>5, <2>2, LineIsTaken DEF TypeOK
  <2>3. CASE /\ bb' = [bb EXCEPT !.body_len = AsSize(@ + size), !.remaining = size]
             /\ \/ Fail(413)
                \/ build_state' = "BS_BODY_CHUNK_CONTENT" /\ UNCHANGED rq
    <3>0. bb.body_len \in Nat /\ size \in Nat /\ SizeRange \in Nat \ {0}
      BY <2>1, LimitsAssumption DEF TypeOK, BodyBuilders, Sizes
    <3>1. AsSize(bb.body_len + size) \in Sizes /\ size \in Nat
      BY <3>0 DEF AsSize, Sizes
    <3>2. bb' \in BodyBuilders
      BY <2>3, <3>1 DEF TypeOK, BodyBuilders
    <3>3. rq' \in Requests
      BY <2>3, FailIsTyped DEF TypeOK
    <3>. QED
      BY <1>1, <1>5, <2>3, <3>2, <3>3, LineIsTaken DEF Fail
  <2>. QED
    BY <1>5, <2>2, <2>3 DEF TakeChunkSize, size
<1>. QED
  BY <1>2, <1>3, <1>4, <1>5 DEF BuildBodyChunkSize

LEMMA TypeBuildBodyChunkContent == TypeOK /\ BuildBodyChunkContent => TypeOK'
<1>. SUFFICES ASSUME TypeOK, BuildBodyChunkContent PROVE TypeOK'
  OBVIOUS
<1>. DEFINE body == rq.body \o SubSeq(buf, 1, Moved)
<1>1. body \in Seq(Symbols)
  <2>1. rq.body \in Seq(Symbols)
    BY DEF TypeOK, Requests
  <2>. QED
    BY <2>1, MovedIsTyped, ConcatProperties
<1>2. bb' \in BodyBuilders /\ pos' \in Nat
  BY MovedIsTyped DEF BuildBodyChunkContent
<1>3. buf' \in Seq(Symbols)
  <2>1. buf' = Rest \/ (~AwaitChunkEnd /\ buf' = SubSeq(Rest, 3, Len(Rest)))
    BY DEF BuildBodyChunkContent
  <2>2. ASSUME ~AwaitChunkEnd PROVE SubSeq(Rest, 3, Len(Rest)) \in Seq(Symbols)
    <3>1. Rest \in Seq(Symbols) /\ Len(Rest) >= 2
      BY <2>2, MovedIsTyped DEF AwaitChunkEnd
    <3>. HIDE DEF Rest
    <3>. QED
      BY <3>1, SubSeqProperties
  <2>. QED
    BY <2>1, <2>2, MovedIsTyped
<1>4. rq' \in Requests
  <2>1. [rq EXCEPT !.body = body] \in Requests
    BY <1>1, RequestUpdates DEF TypeOK
  <2>2. [rq EXCEPT !.body = body, !.status = 400] \in Requests
    <3>. DEFINE r == [rq EXCEPT !.body = body]
    <3>1. [rq EXCEPT !.body = body, !.status = 400] = [r EXCEPT !.status = 400]
      OBVIOUS
    <3>2. r \in Requests
      BY <2>1
    <3>. HIDE DEF r
    <3>3. [r EXCEPT !.status = 400] \in Requests
      <4>1. 400 \in Nat
        OBVIOUS
      <4>. QED
        BY <3>2, <4>1, RequestUpdates, ZenonT(60)
    <3>. QED
      BY <3>1, <3>3
  <2>. QED
    BY <2>1, <2>2 DEF BuildBodyChunkContent
<1>5. build_state' \in {build_state, "BS_BAD_REQUEST", "BS_BODY_CHUNK_SIZE"}
  BY DEF BuildBodyChunkContent
<1>. QED
  BY <1>2, <1>3, <1>4, <1>5
     DEF TypeOK, BuildBodyChunkContent, netVars, headVars, sessionVars

LEMMA TypeResponseSent == TypeOK /\ ResponseSent => TypeOK'
<1>. SUFFICES ASSUME TypeOK, ResponseSent PROVE TypeOK'
  OBVIOUS
<1>1. NewRequest \in Requests /\ NewBody \in BodyBuilders
  BY NewIsTyped
<1>2. closed' \in BOOLEAN
  BY DEF ResponseSent
<1>. QED
  BY <1>1, <1>2 DEF TypeOK, ResponseSent, netVars, parserVars

(* Every variable of the builder keeps its type: in particular the lengths  *)
(* that the code subtracts from each other in size_t never go below zero.   *)
THEOREM TypeCorrect == Spec => []TypeOK
<1>1. TypeOK /\ [Next]_vars => TypeOK'
  <2>. SUFFICES ASSUME TypeOK, [Next]_vars PROVE TypeOK'
    OBVIOUS
  <2>1. CASE UNCHANGED vars
    BY <2>1 DEF TypeOK, vars, netVars, parserVars, headVars, bodyVars, sessionVars
  <2>. QED
    BY <2>1, TypeReceive, TypeLeaveBuild, TypeBuildFirstLine, TypeBuildHeaderField,
       TypeProcessHeaders, TypeTmpFileFails, TypeBuildBodyRegular, TypeBuildBodyChunkSize,
       TypeBuildBodyChunkContent, TypeResponseSent DEF Next, Build
<1>. QED
  BY TypeInit, <1>1, PTL DEF Spec

-----------------------------------------------------------------------------
(* The limit on the body of an upload.                                      *)

(* No chunk makes the sum of the sizes of its body's chunks wrap.           *)
NoChunkWraps ==
    build_state = "BS_BODY_CHUNK_SIZE" /\ LineGood /\ IsHex(Line) =>
        bb.body_len + HexValue(Line) < SizeRange

(* What is written and what is still announced, for each state of the       *)
(* builder: before the body nothing is written; then the announced bytes    *)
(* are within the limit, by Content-Length or as the sum of the chunks.     *)
HeadStates == {"BS_RQ_LINE", "BS_HEADER_FIELDS", "BS_AFTER_HEADERS"}
LimitInv ==
    /\ build_state \in HeadStates => rq.body = <<>> /\ bb.body_len = 0
    /\ rq.line = "POST" => Len(rq.body) <= BodyLimit
    /\ rq.line = "POST" /\ build_state = "BS_BODY_REGULAR" =>
         Len(rq.body) + bb.remaining <= BodyLimit
    /\ rq.line = "POST" /\ build_state = "BS_BODY_CHUNK_SIZE" =>
         /\ Len(rq.body) <= bb.body_len
         /\ bb.body_len <= BodyLimit /\ bb.max_body = BodyLimit
    /\ rq.line = "POST" /\ build_state = "BS_BODY_CHUNK_CONTENT" =>
         /\ Len(rq.body) + bb.remaining <= bb.body_len
         /\ bb.body_len <= BodyLimit /\ bb.max_body = BodyLimit

(* A limit below 2 GB keeps its value through int to size_t.                *)
LEMMA LimitIsKept ==
    ASSUME 2 * BodyLimit < IntRange
    PROVE  AsSize(AsInt(BodyLimit)) = BodyLimit
<1>1. /\ BodyLimit \in Nat /\ BodyLimit < SizeRange
      /\ SizeRange \in Nat /\ SizeRange > 0
  BY LimitsAssumption
<1>2. AsInt(BodyLimit) = BodyLimit
  BY DEF AsInt
<1>3. BodyLimit % SizeRange = BodyLimit
  BY <1>1
<1>. QED
  BY <1>2, <1>3 DEF AsSize

(* A step that touches neither the body nor what is announced of it, and    *)
(* stays in its state or fails, keeps the limit.                            *)
LEMMA LimitIsInherited ==
    ASSUME TypeOK, LimitInv, UNCHANGED bb,
           rq'.line = rq.line, rq'.body = rq.body,
           build_state' \in {build_state, "BS_BAD_REQUEST", "BS_END"}
    PROVE  LimitInv'
BY DEF LimitInv, HeadStates

LEMMA FailKeepsLimit ==
    ASSUME TypeOK, NEW n \in Nat, Fail(n)
    PROVE  rq'.line = rq.line /\ rq'.body = rq.body
<1>1. rq \in Requests
  BY DEF TypeOK
<1>. QED
  BY <1>1 DEF Fail, Requests

(* In the states before the body nothing is written.                        *)
LEMMA HeadKeepsLimit ==
    ASSUME TypeOK, LimitInv, UNCHANGED bb, build_state \in HeadStates,
           rq'.body = rq.body, BodyLimit \in Nat,
           build_state' \in HeadStates \cup {"BS_BAD_REQUEST", "BS_END"}
    PROVE  LimitInv'
<1>1. rq'.body = <<>> /\ Len(rq'.body) = 0
  BY EmptySeq DEF LimitInv
<1>. QED
  BY <1>1 DEF LimitInv, HeadStates

LEMMA LimitBuildFirstLine == TypeOK /\ LimitInv /\ BuildFirstLine => LimitInv'
<1>. SUFFICES ASSUME TypeOK, LimitInv, BuildFirstLine PROVE LimitInv'
  OBVIOUS
<1>1. UNCHANGED bb /\ build_state \in HeadStates
  BY DEF BuildFirstLine, InState, bodyVars, HeadStates
<1>2. BodyLimit \in Nat
  BY LimitsAssumption
<1>3. CASE UNCHANGED <<build_state, rq>>
  BY <1>1, <1>3, LimitIsInherited
<1>4. CASE LineBad
  BY <1>1, <1>2, <1>4, LineIsBad, FailKeepsLimit, HeadKeepsLimit DEF LineBad
<1>5. ASSUME Fail(FirstLineStatus(Line)), TakeLine PROVE LimitInv'
  <2>1. FirstLineStatus(Line) \in Nat
    BY WordsAreTyped DEF FirstLineStatus
  <2>. QED
    BY <1>1, <1>2, <1>5, <2>1, FailKeepsLimit, HeadKeepsLimit DEF Fail
<1>6. CASE /\ rq' = [rq EXCEPT !.line = Line[1]]
           /\ build_state' = "BS_HEADER_FIELDS"
  <2>1. rq'.body = rq.body
    BY <1>6 DEF TypeOK, Requests
  <2>. QED
    BY <1>1, <1>2, <1>6, <2>1, HeadKeepsLimit DEF HeadStates
<1>. QED
  BY <1>3, <1>4, <1>5, <1>6 DEF BuildFirstLine

LEMMA LimitBuildHeaderField == TypeOK /\ LimitInv /\ BuildHeaderField => LimitInv'
<1>. SUFFICES ASSUME TypeOK, LimitInv, BuildHeaderField PROVE LimitInv'
  OBVIOUS
<1>1. UNCHANGED bb /\ build_state \in HeadStates
  BY DEF BuildHeaderField, InState, bodyVars, HeadStates
<1>2. BodyLimit \in Nat
  BY LimitsAssumption
<1>3. CASE UNCHANGED <<build_state, rq>>
  BY <1>1, <1>3, LimitIsInherited
<1>4. CASE Fail(400) \/ Fail(431)
  <2>1. /\ rq'.line = rq.line /\ rq'.body = rq.body
        /\ build_state' = "BS_BAD_REQUEST"
    BY <1>4, FailKeepsLimit DEF Fail
  <2>. QED
    BY <1>1, <1>2, <2>1, HeadKeepsLimit
<1>5. CASE /\ rq' = [rq EXCEPT !.headers[HeaderKey[Line[1]]] = Line[1]]
           /\ UNCHANGED build_state
  <2>1. rq'.body = rq.body
    BY <1>5 DEF TypeOK, Requests
  <2>. QED
    BY <1>1, <1>2, <1>5, <2>1, HeadKeepsLimit
<1>6. CASE build_state' = "BS_AFTER_HEADERS" /\ UNCHANGED rq
  BY <1>1, <1>2, <1>6, HeadKeepsLimit DEF HeadStates
<1>. QED
  BY <1>3, <1>4, <1>5, <1>6 DEF BuildHeaderField, InsertHeaderField, LineBad

LEMMA LimitProcessHeaders ==
    ASSUME 2 * BodyLimit < IntRange, TypeOK, LimitInv, ProcessHeaders
    PROVE  LimitInv'
<1>1. build_state = "BS_AFTER_HEADERS"
  BY DEF ProcessHeaders, InState
<1>2. rq.body = <<>> /\ Len(rq.body) = 0 /\ bb.body_len = 0 /\ BodyLimit \in Nat
  BY <1>1, LimitsAssumption, EmptySeq DEF LimitInv, HeadStates
<1>3. CASE Fail(HeadersStatus) /\ UNCHANGED bodyVars
  BY <1>1, <1>3, HeadersStatusIsTyped, FailKeepsLimit, LimitIsInherited
     DEF Fail, bodyVars
<1>4. CASE build_state' = "BS_END" /\ UNCHANGED <<rq, bodyVars>>
  BY <1>1, <1>4, LimitIsInherited DEF bodyVars
<1>5. CASE HeadersStatus = HTTP_OK /\ PrepareBody
  <2>1. PICK max \in MaxBodySizes :
          /\ bb' = [bb EXCEPT !.chunked = IsChunked,
                              !.remaining = ContentLength, !.max_body = max]
          /\ \/ Fail(409) \/ Fail(500) \/ Fail(413)
             \/ build_state' = "BS_BODY_CHUNK_SIZE" /\ UNCHANGED rq
             \/ /\ ContentLength <= max
                /\ build_state' = "BS_BODY_REGULAR" /\ UNCHANGED rq
    BY ZenonT(120), <1>5 DEF PrepareBody
  <2>2. /\ bb'.body_len = 0 /\ bb'.max_body = max
        /\ bb'.remaining = ContentLength /\ ContentLength \in Nat
    BY <1>2, <1>5, <2>1, HeadersStatusIsTyped DEF TypeOK, BodyBuilders
  <2>3. rq.line = "POST" => max = BodyLimit
    BY LimitIsKept DEF MaxBodySizes
  <2>4. CASE Fail(409) \/ Fail(500) \/ Fail(413)
    <3>1. rq'.body = rq.body /\ build_state' = "BS_BAD_REQUEST"
      BY <2>4, FailKeepsLimit DEF Fail
    <3>. QED
      BY <1>2, <3>1 DEF LimitInv, HeadStates
  <2>5. CASE build_state' = "BS_BODY_CHUNK_SIZE" /\ UNCHANGED rq
    BY <1>2, <2>2, <2>3, <2>5 DEF LimitInv, HeadStates
  <2>6. CASE /\ ContentLength <= max
             /\ build_state' = "BS_BODY_REGULAR" /\ UNCHANGED rq
    BY <1>2, <2>2, <2>3, <2>6 DEF LimitInv, HeadStates
  <2>. QED
    BY <2>1, <2>4, <2>5, <2>6
<1>. QED
  BY <1>3, <1>4, <1>5 DEF ProcessHeaders

(* What a step writes it takes off what is announced.                       *)
LEMMA MovedIsAnnounced ==
    ASSUME TypeOK
    PROVE  /\ Len(rq.body) \in Nat /\ Moved \in Nat /\ Moved <= bb.remaining
           /\ bb.remaining \in Nat
           /\ Len(rq.body \o SubSeq(buf, 1, Moved)) = Len(rq.body) + Moved
           /\ \A b \in Seq(Symbols) : /\ [rq EXCEPT !.body = b].body = b
                                      /\ [rq EXCEPT !.body = b].line = rq.line
           /\ [bb EXCEPT !.remaining = @ - Moved].remaining = bb.remaining - Moved
           /\ [bb EXCEPT !.remaining = @ - Moved].body_len = bb.body_len
           /\ [bb EXCEPT !.remaining = @ - Moved].max_body = bb.max_body
           /\ rq.body \o SubSeq(buf, 1, Moved) \in Seq(Symbols)
<1>1. rq.body \in Seq(Symbols) /\ Len(rq.body) \in Nat
  BY LenProperties DEF TypeOK, Requests
<1>2. /\ rq.body \o SubSeq(buf, 1, Moved) \in Seq(Symbols)
      /\ Len(rq.body \o SubSeq(buf, 1, Moved)) = Len(rq.body) + Moved
  BY <1>1, MovedIsTyped, ConcatProperties
<1>3. \A b \in Seq(Symbols) : /\ [rq EXCEPT !.body = b].body = b
                              /\ [rq EXCEPT !.body = b].line = rq.line
  BY DEF TypeOK, Requests
<1>4. /\ [bb EXCEPT !.remaining = @ - Moved].remaining = bb.remaining - Moved
      /\ [bb EXCEPT !.remaining = @ - Moved].body_len = bb.body_len
      /\ [bb EXCEPT !.remaining = @ - Moved].max_body = bb.max_body
      /\ bb.remaining \in Nat
  BY DEF TypeOK, BodyBuilders
<1>. QED
  BY <1>1, <1>2, <1>3, <1>4, MovedIsTyped

LEMMA LimitBuildBodyRegular == TypeOK /\ LimitInv /\ BuildBodyRegular => LimitInv'
<1>. SUFFICES ASSUME TypeOK, LimitInv, BuildBodyRegular PROVE LimitInv'
  OBVIOUS
<1>1. build_state = "BS_BODY_REGULAR"
      /\ build_state' \in {"BS_BODY_REGULAR", "BS_END"}
  BY DEF BuildBodyRegular, InState
<1>2. /\ rq'.line = rq.line
      /\ Len(rq'.body) = Len(rq.body) + Moved
      /\ bb'.remaining = bb.remaining - Moved
  BY MovedIsAnnounced DEF BuildBodyRegular, MoveToStream
<1>3. BodyLimit \in Nat
  BY LimitsAssumption
<1>. QED
  BY <1>1, <1>2, <1>3, MovedIsAnnounced DEF LimitInv, HeadStates

LEMMA LimitBuildBodyChunkSize ==
    ASSUME TypeOK, LimitInv, NoChunkWraps, BuildBodyChunkSize
    PROVE  LimitInv'
<1>1. build_state = "BS_BODY_CHUNK_SIZE"
  BY DEF BuildBodyChunkSize, InState
<1>2. CASE UNCHANGED <<rq, bb>> /\ build_state' \in {build_state, "BS_END"}
  BY <1>2, LimitIsInherited
<1>3. CASE Fail(400) /\ UNCHANGED bb
  BY <1>3, FailKeepsLimit, LimitIsInherited DEF Fail
<1>4. CASE LineGood /\ IsHex(Line) /\ TakeChunkSize(HexValue(Line))
  <2>. DEFINE size == HexValue(Line)
  <2>1. /\ size \in Nat /\ bb.body_len \in Nat
        /\ bb.body_len + size < SizeRange /\ SizeRange \in Nat
    BY <1>1, <1>4, LimitsAssumption DEF IsHex, NoChunkWraps, TypeOK, BodyBuilders, Sizes
  <2>. HIDE DEF size
  <2>2. AsSize(bb.body_len + size) = bb.body_len + size
    BY <2>1 DEF AsSize
  <2>3. CASE /\ bb' = [bb EXCEPT !.body_len = AsSize(@ + size), !.remaining = size]
             /\ \/ Fail(413)
                \/ /\ bb'.body_len <= bb.max_body
                   /\ build_state' = "BS_BODY_CHUNK_CONTENT" /\ UNCHANGED rq
    <3>1. /\ bb'.body_len = bb.body_len + size /\ bb'.remaining = size
          /\ bb'.max_body = bb.max_body
      BY <2>2, <2>3 DEF TypeOK, BodyBuilders
    <3>2. CASE Fail(413)
      <4>1. /\ rq'.line = rq.line /\ rq'.body = rq.body
            /\ build_state' = "BS_BAD_REQUEST"
        BY <3>2, FailKeepsLimit DEF Fail
      <4>. QED
        BY <4>1 DEF LimitInv, HeadStates
    <3>3. CASE /\ bb'.body_len <= bb.max_body
               /\ build_state' = "BS_BODY_CHUNK_CONTENT" /\ UNCHANGED rq
      <4>1. Len(rq.body) \in Nat
        BY MovedIsAnnounced
      <4>. QED
        BY <1>1, <2>1, <3>1, <3>3, <4>1 DEF LimitInv, HeadStates
    <3>. QED
      BY <2>3, <3>2, <3>3
  <2>. QED
    BY <1>2, <1>4, <2>3 DEF TakeChunkSize, size
<1>. QED
  BY <1>2, <1>3, <1>4
     DEF BuildBodyChunkSize, LineMissing, LineBad, TakeLine

LEMMA LimitBuildBodyChunkContent ==
    TypeOK /\ LimitInv /\ BuildBodyChunkContent => LimitInv'
<1>. SUFFICES ASSUME TypeOK, LimitInv, BuildBodyChunkContent PROVE LimitInv'
  OBVIOUS
<1>. DEFINE body == rq.body \o SubSeq(buf, 1, Moved)
<1>1. build_state = "BS_BODY_CHUNK_CONTENT" /\ Len(body) = Len(rq.body) + Moved
  BY MovedIsAnnounced DEF BuildBodyChunkContent, InState
<1>2. /\ bb'.remaining = bb.remaining - Moved
      /\ bb'.body_len = bb.body_len /\ bb'.max_body = bb.max_body
  BY MovedIsAnnounced DEF BuildBodyChunkContent
<1>3. rq'.line = rq.line /\ rq'.body = body
  <2>1. CASE rq' = [rq EXCEPT !.body = body]
    BY <2>1, MovedIsAnnounced
  <2>2. CASE rq' = [rq EXCEPT !.body = body, !.status = 400]
    BY <2>2 DEF TypeOK, Requests
  <2>. QED
    BY <2>1, <2>2 DEF BuildBodyChunkContent
<1>4. build_state' \in {build_state, "BS_BAD_REQUEST", "BS_BODY_CHUNK_SIZE"}
  BY DEF BuildBodyChunkContent
<1>5. BodyLimit \in Nat /\ bb.body_len \in Nat
  BY LimitsAssumption DEF TypeOK, BodyBuilders, Sizes
<1>. HIDE DEF body
<1>. QED
  BY SMTT(60), <1>1, <1>2, <1>3, <1>4, <1>5, MovedIsAnnounced DEF LimitInv, HeadStates

(* A limit below 2 GB holds for every upload, with any bytes in any pieces, *)
(* as long as no sum of chunk sizes wraps: nothing more than the limit is   *)
(* ever written.                                                            *)
THEOREM LimitHolds ==
    ASSUME 2 * BodyLimit < IntRange
    PROVE  Spec /\ []NoChunkWraps => []BodyWithinLimit
<1>1. Init => LimitInv
  <2>. SUFFICES ASSUME Init PROVE LimitInv
    OBVIOUS
  <2>1. rq.body = <<>> /\ bb.body_len = 0 /\ build_state = "BS_RQ_LINE"
    BY DEF Init, NewRequest, NewBody
  <2>2. BodyLimit \in Nat /\ Len(rq.body) = 0
    BY <2>1, LimitsAssumption, EmptySeq
  <2>. QED
    BY <2>1, <2>2 DEF LimitInv
<1>2. TypeOK /\ LimitInv /\ NoChunkWraps /\ [Next]_vars => LimitInv'
  <2>. SUFFICES ASSUME TypeOK, LimitInv, NoChunkWraps, [Next]_vars PROVE LimitInv'
    OBVIOUS
  <2>1. CASE UNCHANGED <<build_state, rq, bb>>
    BY <2>1, LimitIsInherited
  <2>2. CASE ResponseSent
    BY <2>2, LimitsAssumption, EmptySeq
       DEF ResponseSent, NewRequest, NewBody, LimitInv, HeadStates
  <2>. QED
    BY <2>1, <2>2, LimitBuildFirstLine, LimitBuildHeaderField, LimitProcessHeaders,
       LimitBuildBodyRegular, LimitBuildBodyChunkSize, LimitBuildBodyChunkContent
       DEF Next, Build, Receive, LeaveBuild, TmpFileFails, bodyVars, vars
<1>3. LimitInv => BodyWithinLimit
  BY DEF LimitInv, BodyWithinLimit
<1>. QED
  BY <1>1, <1>2, <1>3, TypeCorrect, PTL DEF Spec

-----------------------------------------------------------------------------
(* The loop of Build().                                                     *)

(* How far a request has come without taking anything from the buffer.      *)
Stage(state) ==
    IF state \in {"BS_END", "BS_BAD_REQUEST"} THEN 2
    ELSE IF state \in {"BS_BODY_REGULAR", "BS_BODY_CHUNK_SIZE",
                       "BS_BODY_CHUNK_CONTENT"} THEN 1 ELSE 0

(* A step of the loop ends it, or takes from the buffer, or brings the      *)
(* request to a later stage, or scans further into the buffer: each of      *)
(* these can happen only so often before the one before it.                 *)
Advances ==
    \/ ~building'
    \/ Len(buf') < Len(buf)
    \/ buf' = buf /\ Stage(build_state) < Stage(build_state')
    \/ /\ buf' = buf /\ build_state' = build_state
       /\ pos < pos' /\ pos' <= Len(buf)

(* The data of a chunk has been taken, and one symbol after it is there.    *)
ChunkEndIsSplit ==
    build_state = "BS_BODY_CHUNK_CONTENT" /\ bb.remaining = 0 /\ Len(buf) = 1

(* Reading a line advances.                                                 *)
LEMMA LineAdvances ==
    ASSUME TypeOK, InState(build_state), build_state # "BS_AFTER_HEADERS",
           \/ LineMissing /\ UNCHANGED build_state
           \/ LineBad
           \/ TakeLine
    PROVE  Advances
<1>1. pos < Len(buf) /\ Len(buf) \in Nat
  BY DEF InState, CanBuild, TypeOK
<1>2. CASE LineMissing /\ UNCHANGED build_state
  BY <1>1, <1>2 DEF LineMissing, Advances
<1>3. CASE LineBad
  BY <1>3, LineIsBad DEF Advances, Stage, InState, CanBuild
<1>4. CASE TakeLine
  BY <1>4, LineIsTaken DEF Advances
<1>. QED
  BY <1>2, <1>3, <1>4

LEMMA ProcessHeadersAdvances ==
    ASSUME TypeOK, ProcessHeaders
    PROVE  Advances
<1>1. build_state = "BS_AFTER_HEADERS" /\ buf' = buf
  BY DEF ProcessHeaders, InState, parserVars
<1>2. build_state' \in {"BS_BAD_REQUEST", "BS_END", "BS_BODY_REGULAR",
                        "BS_BODY_CHUNK_SIZE"}
  BY DEF ProcessHeaders, PrepareBody, Fail
<1>. QED
  BY <1>1, <1>2 DEF Advances, Stage

LEMMA BodyRegularAdvances ==
    ASSUME TypeOK, BuildBodyRegular
    PROVE  Advances
<1>1. build_state = "BS_BODY_REGULAR" /\ pos < Len(buf)
  BY DEF BuildBodyRegular, InState, CanBuild
<1>2. pos \in Nat /\ Len(buf) \in Nat
  BY DEF TypeOK
<1>3. buf' = Rest /\ bb'.remaining = bb.remaining - Moved
  BY MovedIsAnnounced DEF BuildBodyRegular, MoveToStream, Rest
<1>4. CASE Moved > 0
  BY <1>2, <1>3, <1>4, MovedIsTyped DEF Advances
<1>5. CASE Moved = 0
  <2>1. bb.remaining = 0 /\ Len(Rest) = Len(buf)
    BY <1>1, <1>2, <1>5, MovedIsTyped
  <2>2. build_state' = "BS_END"
    BY <1>3, <1>5, <2>1 DEF BuildBodyRegular
  <2>3. Rest = buf
    BY <1>5, SubSeqProperties DEF Rest, TypeOK
  <2>. QED
    BY <1>1, <1>3, <2>2, <2>3 DEF Advances, Stage
<1>. QED
  BY <1>4, <1>5, MovedIsTyped

LEMMA ChunkContentAdvances ==
    ASSUME TypeOK, BuildBodyChunkContent
    PROVE  Advances \/ ChunkEndIsSplit
<1>1. build_state = "BS_BODY_CHUNK_CONTENT" /\ pos < Len(buf)
  BY DEF BuildBodyChunkContent, InState, CanBuild
<1>2. pos \in Nat /\ Len(buf) \in Nat
  BY DEF TypeOK
<1>3. Rest \in Seq(Symbols) /\ Len(Rest) = Len(buf) - Moved /\ Moved \in Nat
  BY MovedIsTyped
<1>4. \/ AwaitChunkEnd /\ buf' = Rest
      \/ buf' = Rest /\ build_state' = "BS_BAD_REQUEST"
      \/ ~AwaitChunkEnd /\ buf' = SubSeq(Rest, 3, Len(Rest))
  BY DEF BuildBodyChunkContent
<1>5. ASSUME ~AwaitChunkEnd PROVE Len(SubSeq(Rest, 3, Len(Rest))) < Len(buf)
  <2>1. Len(Rest) >= 2
    BY <1>3, <1>5 DEF AwaitChunkEnd
  <2>. HIDE DEF Rest
  <2>. QED
    BY <1>2, <1>3, <2>1, SubSeqProperties
<1>6. CASE Moved > 0 /\ buf' = Rest
  BY <1>2, <1>3, <1>6 DEF Advances
<1>7. CASE Moved = 0 /\ buf' = Rest
  <2>1. Rest = buf
    BY <1>7, SubSeqProperties DEF Rest, TypeOK
  <2>2. bb.remaining = 0
    BY <1>1, <1>2, <1>7, MovedIsTyped
  <2>3. CASE build_state' = "BS_BAD_REQUEST"
    BY <1>1, <1>7, <2>1, <2>3 DEF Advances, Stage
  <2>4. CASE AwaitChunkEnd
    BY SMTT(60), <1>1, <1>2, <1>7, <2>1, <2>2, <2>4 DEF AwaitChunkEnd, ChunkEndIsSplit
  <2>5. CASE ~AwaitChunkEnd /\ buf' = SubSeq(Rest, 3, Len(Rest))
    BY <1>5, <2>5 DEF Advances
  <2>. QED
    BY <1>4, <2>3, <2>4, <2>5
<1>. QED
  BY <1>3, <1>4, <1>5, <1>6, <1>7 DEF Advances

(* A pass of the loop of Build() advances, unless the buffer ends between   *)
(* the two bytes that end a chunk: that is the only place where the loop    *)
(* can run without end.                                                     *)
THEOREM BuildAdvances == Spec => [][Build => Advances \/ ChunkEndIsSplit]_vars
<1>1. TypeOK /\ [Next]_vars => [Build => Advances \/ ChunkEndIsSplit]_vars
  <2>. SUFFICES ASSUME TypeOK, Build PROVE Advances \/ ChunkEndIsSplit
    OBVIOUS
  <2>1. CASE BuildFirstLine
    BY <2>1, LineAdvances DEF BuildFirstLine, InState
  <2>2. CASE BuildHeaderField
    BY <2>2, LineAdvances DEF BuildHeaderField, InState
  <2>3. CASE BuildBodyChunkSize
    BY <2>3, LineAdvances DEF BuildBodyChunkSize, InState
  <2>4. CASE LeaveBuild
    BY <2>4 DEF LeaveBuild, Advances
  <2>5. CASE TmpFileFails
    BY <2>5 DEF TmpFileFails, Advances
  <2>. QED
    BY <2>1, <2>2, <2>3, <2>4, <2>5, ProcessHeadersAdvances, BodyRegularAdvances,
       ChunkContentAdvances DEF Build
<1>. QED
  BY <1>1, TypeCorrect, PTL DEF Spec
=============================================================================
