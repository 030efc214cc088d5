---------------------------- MODULE Answers_proofs ----------------------------
(***************************************************************************)
(* However the bytes of well-written requests are cut into pieces, the     *)
(* builder finds every request where the last one ended, and the session   *)
(* answers each as the reference says.                                     *)
(***************************************************************************)
EXTENDS RequestBuilder_proofs

-----------------------------------------------------------------------------
(* Well-written requests: no line holds the end of a line, no field has two *)
(* values, and the body is as long as the fields say.  The words, lengths   *)
(* and limits may still be anything: whatever the code has to refuse of     *)
(* these is refused.                                                        *)
NoLineEnd(w) == \A i \in 1 .. Len(w) - 1 : ~(w[i] = "CR" /\ w[i + 1] = "LF")
WellWritten(r) ==
    /\ NoLineEnd(r.line)
    /\ \A i \in 1 .. Len(r.headers) : r.headers[i] # <<>> /\ NoLineEnd(r.headers[i])
    /\ \A f, g \in Fields(r) \cap DOMAIN HeaderKey : HeaderKey[f] = HeaderKey[g] => f = g
    /\ \A f \in Fields(r) \cap DOMAIN Number : Number[f] = Len(r.body)
    /\ Fields(r) \cap Lengths = {} => r.body = <<>>
    /\ r.chunks # <<>> <=> "chunked" \in Fields(r)
    /\ \A j \in 1 .. Len(r.chunks) :
         /\ NoLineEnd(r.chunks[j].size)
         /\ IsHex(r.chunks[j].size) =>
              /\ HexValue(r.chunks[j].size) = Len(r.chunks[j].data)
              /\ r.chunks[j].data # <<>>
ClientWritesWell == ~FinalLine /\ \A i \in 1 .. Len(script) : WellWritten(script[i])

(* The limit and the bodies fit the integers that hold them.                *)
NumbersFit ==
    /\ 2 * BodyLimit < IntRange
    /\ \A s \in Scripts : \A i \in 1 .. Len(s) : Len(Payload(s[i])) < SizeRange

-----------------------------------------------------------------------------
(* Where the builder stands in what the client sends.                       *)

Datas(r) == [j \in DOMAIN r.chunks |-> r.chunks[j].data]
HeaderAt(r, h) == Len(r.line) + 2 + Len(FirstOf(HeadersWire(r), h))
ChunkAt(r, j) == Len(HeadWire(r)) + Len(FirstOf(ChunkWires(r), j))

Current == script[Len(answers) + 1]
Taken == received - Len(buf)
Offset == Taken - EndOf(Len(answers))
UploadedBy(n) == \E j \in 1 .. n : Word(script[j]) = "POST"
Deserved(r) == Verdict(Checks(r, UploadedBy(Len(answers))))

(* Nothing before the place where the scan resumes ends a line.             *)
Halts(i) == i + 1 > LineLimit \/ AfterCR(i) \/ At(i) = "NUL"
Scanned == pos <= Len(buf) /\ \A i \in 0 .. pos - 1 : ~Halts(i)

LinePassed(r) == ~BadText(r.line) /\ FirstLineStatus(r.line) = HTTP_OK
HeaderPassed(r, i) ==
    /\ ~BadText(r.headers[i]) /\ SectionSize(r, i) <= SectionLimit
    /\ r.headers[i][1] \in DOMAIN HeaderKey /\ i <= MaxHeaders
(* The first h header fields are read, and what they say is in rq.          *)
HeadersRead(r, h) ==
    /\ h \in 0 .. Len(r.headers)
    /\ LinePassed(r)
    /\ rq.line = r.line[1] /\ rq.body = <<>>
    /\ section_size = SectionSize(r, h)
    /\ \A i \in 1 .. h : HeaderPassed(r, i)
    /\ \A i \in 1 .. h : rq.headers[HeaderKey[r.headers[i][1]]] # "none"
    /\ \A k \in HeaderKeys : rq.headers[k] # "none" =>
         \E i \in 1 .. h : r.headers[i][1] = rq.headers[k] /\ HeaderKey[rq.headers[k]] = k

(* The head is accepted, and the body may be read.                          *)
HeadPassed(r) ==
    /\ LinePassed(r) /\ rq.line = r.line[1]
    /\ \A i \in 1 .. Len(r.headers) : HeaderPassed(r, i)
    /\ SectionSize(r, Len(r.headers)) <= SectionLimit
    /\ \A i \in 1 .. 5 : ~FieldChecks(r)[i][1]
    /\ ~(Word(r) = "POST" /\ UploadedBy(Len(answers)))
ChunkPassed(r, j) == \A i \in 1 .. 3 : ~ChunkChecks(r, j)[i][1]
ChunksRead(r, j) ==
    /\ r.chunks # <<>>
    /\ NumbersFit =>
         /\ \A i \in 1 .. j : ChunkPassed(r, i)
         /\ Word(r) = "POST" => bb.max_body = BodyLimit
         /\ bb.body_len = Len(FirstOf(Datas(r), j))

(* Where the builder is, state by state.                                    *)
LinePlace ==
    /\ Taken = EndOf(Len(answers))
    /\ rq = NewRequest /\ header_count = 0 /\ section_size = 0
HeaderPlace(r) == Offset = HeaderAt(r, header_count) /\ HeadersRead(r, header_count)
AfterPlace(r) ==
    /\ Offset = Len(HeadWire(r)) /\ HeadersRead(r, Len(r.headers))
    /\ SectionSize(r, Len(r.headers)) <= SectionLimit
RegularPlace(r) ==
    /\ r.chunks = <<>> /\ HeadPassed(r)
    /\ bb.remaining <= Len(r.body)
    /\ Offset + bb.remaining = Len(HeadWire(r)) + Len(r.body)
    /\ rq.body = SubSeq(r.body, 1, Len(r.body) - bb.remaining)
    /\ NumbersFit /\ Word(r) = "POST" => Len(r.body) <= BodyLimit
ChunkSizePlace(r, j) ==
    /\ HeadPassed(r) /\ ChunksRead(r, j)
    /\ Offset = ChunkAt(r, j)
    /\ rq.body = FirstOf(Datas(r), j)
ChunkContentPlace(r, j) ==
    LET data == r.chunks[j].data
    IN /\ HeadPassed(r) /\ ChunksRead(r, j)
       /\ bb.remaining <= Len(data)
       /\ Offset + bb.remaining + 2 = ChunkAt(r, j)
       /\ rq.body = FirstOf(Datas(r), j - 1) \o SubSeq(data, 1, Len(data) - bb.remaining)
EndPlace(r) ==
    /\ Offset = Len(Wire(r))
    /\ NumbersFit => Deserved(r) = HTTP_OK /\ rq.body = Payload(r)

BodyStates == {"BS_BODY_REGULAR", "BS_BODY_CHUNK_SIZE", "BS_BODY_CHUNK_CONTENT", "BS_END"}
Places ==
    /\ build_state \in HeadStates => bb = NewBody /\ (uploaded <=> UploadedBy(Len(answers)))
    /\ build_state \in BodyStates => (uploaded <=> UploadedBy(Len(answers) + 1))
    /\ build_state = "BS_RQ_LINE" => LinePlace
    /\ build_state = "BS_HEADER_FIELDS" => HeaderPlace(Current)
    /\ build_state = "BS_AFTER_HEADERS" => AfterPlace(Current)
    /\ build_state = "BS_BODY_REGULAR" => RegularPlace(Current)
    /\ build_state = "BS_BODY_CHUNK_SIZE" =>
         \E j \in 0 .. Len(Current.chunks) : ChunkSizePlace(Current, j)
    /\ build_state = "BS_BODY_CHUNK_CONTENT" =>
         \E j \in 1 .. Len(Current.chunks) : ChunkContentPlace(Current, j)
    /\ build_state = "BS_END" => EndPlace(Current)

RightStatus(r, status) ==
    \/ status = Deserved(r)
    \/ Word(r) = "POSTcgi" /\ status = 413
    \/ FilesFail /\ Word(r) = "POST" /\ status = 500

(* Wherever recv() cut the bytes, the buffer is a piece of what the client   *)
(* sends, it starts where the state of the builder says, what is stored of   *)
(* the request is what the client wrote before that place, no end of a line  *)
(* was overlooked in what was scanned, and what was refused and answered so  *)
(* far is as it deserves, and the server ended only for a script's file that *)
(* cannot be opened: the inductive invariant of Build's loop.                *)
InPlace ==
    /\ Occurs(buf, Stream(script), Taken)
    /\ Scanned
    /\ answers \in Seq([status : Nat, body : Seq(Symbols)])
    /\ Len(answers) <= Len(script)
    /\ build_state # "BS_RQ_LINE" => Len(answers) < Len(script)
    /\ build_state = "BS_BAD_REQUEST" <=> rq.status # HTTP_OK
    /\ builder_status = "RB_DONE" =>
         ~building /\ build_state \in {"BS_END", "BS_BAD_REQUEST"}
    /\ closed => /\ ~building /\ builder_status # "RB_DONE"
                 /\ ended \/ build_state = "BS_RQ_LINE"
    /\ ended => closed
    /\ EndIsForAFile
    /\ ~closed => Places
    /\ build_state = "BS_BAD_REQUEST" /\ NumbersFit => RightStatus(Current, rq.status)
    /\ NumbersFit => AnswersFit

(* The invariant, for a client that writes well: what others send has no     *)
(* requests to be in the place of.                                           *)
InPlaceIfWellWritten == ClientWritesWell => InPlace

-----------------------------------------------------------------------------
(* Where the parts of a request are in its encoding.                        *)

(* A line and its end.                                                      *)
LEMMA LineParts ==
    ASSUME NEW w \in Seq(Symbols)
    PROVE  /\ w \o CRLF \in Seq(Symbols) /\ Len(w \o CRLF) = Len(w) + 2 /\ Len(w) \in Nat
           /\ (w \o CRLF)[Len(w) + 1] = "CR" /\ (w \o CRLF)[Len(w) + 2] = "LF"
           /\ \A i \in 1 .. Len(w) : (w \o CRLF)[i] = w[i]
<1>. Len(w) \in Nat /\ CRLF \in Seq(Symbols) /\ Len(CRLF) = 2
  BY LineEndIsTyped
<1>1. w \o CRLF \in Seq(Symbols) /\ Len(w \o CRLF) = Len(w) + 2
  BY ConcatLen
<1>2. \A i \in 1 .. Len(w) + 2 :
        (w \o CRLF)[i] = IF i <= Len(w) THEN w[i] ELSE CRLF[i - Len(w)]
  BY ConcatProperties
<1>. QED
  BY <1>1, <1>2, LineEndIsTyped

(* The lines of a head stand one behind the other, an empty one at the end. *)
LEMMA HeadParts ==
    ASSUME NEW r \in ClientRequests
    PROVE  /\ Occurs(r.line \o CRLF, HeadWire(r), 0)
           /\ HeaderAt(r, 0) = Len(r.line) + 2
           /\ \A h \in 0 .. Len(r.headers) : HeaderAt(r, h) \in Nat
           /\ \A h \in 0 .. Len(r.headers) - 1 :
                /\ HeaderAt(r, h + 1) = HeaderAt(r, h) + Len(r.headers[h + 1]) + 2
                /\ Occurs(r.headers[h + 1] \o CRLF, HeadWire(r), HeaderAt(r, h))
           /\ Occurs(CRLF, HeadWire(r), HeaderAt(r, Len(r.headers)))
           /\ Len(HeadWire(r)) = HeaderAt(r, Len(r.headers)) + 2
<1>. DEFINE F == FlattenSeq(HeadersWire(r))
            L == r.line \o CRLF
            N == Len(r.headers)
<1>1. /\ F \in Seq(Symbols) /\ L \in Seq(Symbols) /\ CRLF \in Seq(Symbols)
      /\ L \o F \in Seq(Symbols) /\ HeadWire(r) \in Seq(Symbols)
      /\ Len(L) = Len(r.line) + 2 /\ Len(L \o F) = Len(L) + Len(F)
      /\ Len(L) \in Nat /\ Len(F) \in Nat
  <2>1. F \in Seq(Symbols) /\ HeadWire(r) \in Seq(Symbols)
    BY WiresAreTyped
  <2>2. L \in Seq(Symbols) /\ Len(L) = Len(r.line) + 2
    BY WiresAreTyped, LineParts
  <2>. HIDE DEF L, F
  <2>. QED
    BY <2>1, <2>2, LineEndIsTyped, ConcatLen
<1>2. HeadWire(r) = (L \o F) \o CRLF
  BY DEF HeadWire, HeadersWire
<1>3. HeadersWire(r) \in Seq(Seq(Symbols)) /\ Len(HeadersWire(r)) = N /\ N \in Nat
  BY WiresAreTyped
<1>. HIDE DEF F, L
<1>4. Occurs(L \o F, HeadWire(r), 0) /\ Occurs(CRLF, HeadWire(r), Len(L) + Len(F))
  BY <1>1, <1>2, OccursInConcat, Zenon
<1>5. Occurs(L, HeadWire(r), 0) /\ Occurs(F, HeadWire(r), Len(L))
  <2>1. Occurs(L, L \o F, 0) /\ Occurs(F, L \o F, Len(L))
    BY <1>1, OccursInConcat, Zenon
  <2>2. Occurs(L, HeadWire(r), 0 + 0) /\ Occurs(F, HeadWire(r), 0 + Len(L))
    BY <1>1, <1>4, <2>1, OccursWithin, Zenon
  <2>. QED
    BY <1>1, <2>2
<1>6. HeaderAt(r, 0) = Len(L) /\ HeaderAt(r, N) = Len(L) + Len(F)
  <2>1. FirstOf(HeadersWire(r), 0) = <<>> /\ FirstOf(HeadersWire(r), N) = F
    BY <1>3, FirstOfSteps DEF F
  <2>. QED
    BY <1>1, <2>1 DEF HeaderAt
<1>7. ASSUME NEW h \in 0 .. N PROVE HeaderAt(r, h) \in Nat
  <2>1. FirstOf(HeadersWire(r), h) \in Seq(Symbols)
    BY <1>3, FirstOfType
  <2>. QED
    BY <1>1, <2>1, WiresAreTyped DEF HeaderAt
<1>8. ASSUME NEW h \in 0 .. N - 1
      PROVE  /\ HeaderAt(r, h + 1) = HeaderAt(r, h) + Len(r.headers[h + 1]) + 2
             /\ Occurs(r.headers[h + 1] \o CRLF, HeadWire(r), HeaderAt(r, h))
  <2>. DEFINE w == HeadersWire(r)[h + 1]
              p == Len(FirstOf(HeadersWire(r), h))
              q == Len(FirstOf(HeadersWire(r), h + 1))
  <2>1. /\ h + 1 \in DOMAIN r.headers /\ r.headers[h + 1] \in Seq(Symbols)
        /\ HeadersWire(r)[h + 1] \in Seq(Symbols)
    <3>1. h + 1 \in 1 .. N
      BY <1>3
    <3>2. r.headers \in Seq(Seq(Symbols)) /\ HeadersWire(r) \in Seq(Seq(Symbols))
      BY WiresAreTyped
    <3>. QED
      BY <1>3, <3>1, <3>2
  <2>2. w = r.headers[h + 1] \o CRLF
    BY <2>1 DEF HeadersWire
  <2>3. w \in Seq(Symbols) /\ Len(w) = Len(r.headers[h + 1]) + 2 /\ Len(r.headers[h + 1]) \in Nat
    BY <2>1, <2>2, LineParts
  <2>4. q = p + Len(w) /\ Occurs(w, F, p)
    BY <1>3, ElementOccurs DEF F
  <2>5. p \in Nat
    BY <2>4 DEF Occurs
  <2>. HIDE DEF w, p, q
  <2>6. Occurs(w, HeadWire(r), Len(L) + p)
    BY <1>1, <1>5, <2>3, <2>4, OccursWithin, Zenon
  <2>7. HeaderAt(r, h) = Len(L) + p /\ HeaderAt(r, h + 1) = Len(L) + q
    BY <1>1 DEF HeaderAt, p, q
  <2>8. HeaderAt(r, h + 1) = HeaderAt(r, h) + Len(r.headers[h + 1]) + 2
    <3>1. Len(L) \in Nat /\ Len(r.headers[h + 1]) \in Nat
      BY <1>1, <2>3
    <3>2. q = p + Len(w) /\ Len(w) = Len(r.headers[h + 1]) + 2
      BY <2>3, <2>4
    <3>3. HeaderAt(r, h + 1) = Len(L) + (p + (Len(r.headers[h + 1]) + 2))
      BY <2>7, <3>2
    <3>. DEFINE n == Len(r.headers[h + 1])
                l == Len(L)
    <3>. HIDE DEF n, l
    <3>4. l \in Nat /\ n \in Nat /\ HeaderAt(r, h + 1) = l + (p + (n + 2)) /\ HeaderAt(r, h) = l + p
      BY <2>7, <3>1, <3>3 DEF n, l
    <3>5. HeaderAt(r, h + 1) = HeaderAt(r, h) + n + 2
      BY <2>5, <3>4
    <3>. QED
      BY <3>5 DEF n
  <2>. QED
    BY <2>2, <2>6, <2>7, <2>8
<1>9. Len(HeadWire(r)) = HeaderAt(r, N) + 2
  <2>1. Len(HeadWire(r)) = Len(L \o F) + 2
    BY <1>1, <1>2, LineParts
  <2>2. Len(L \o F) = Len(L) + Len(F) /\ Len(L) \in Nat /\ Len(F) \in Nat
    BY <1>1
  <2>. QED
    BY <1>6, <2>1, <2>2
<1>. QED
  BY <1>1, <1>4, <1>5, <1>6, <1>7, <1>8, <1>9 DEF L

(* The head, and a body of either kind behind it.                           *)
LEMMA BodyParts ==
    ASSUME NEW r \in ClientRequests
    PROVE  /\ Occurs(HeadWire(r), Wire(r), 0)
           /\ Len(HeadWire(r)) \in Nat
           /\ r.chunks = <<>> =>
                /\ Occurs(r.body, Wire(r), Len(HeadWire(r)))
                /\ Len(Wire(r)) = Len(HeadWire(r)) + Len(r.body)
           /\ ChunkAt(r, 0) = Len(HeadWire(r))
           /\ r.chunks # <<>> /\ ~FinalLine =>
                /\ Occurs(<<"0">> \o CRLF, Wire(r), ChunkAt(r, Len(r.chunks)))
                /\ Len(Wire(r)) = ChunkAt(r, Len(r.chunks)) + 3
<1>. DEFINE C == FlattenSeq(ChunkWires(r))
            H == HeadWire(r)
            Z == <<"0">> \o CRLF
<1>1. /\ C \in Seq(Symbols) /\ H \in Seq(Symbols) /\ r.body \in Seq(Symbols)
      /\ Wire(r) \in Seq(Symbols)
      /\ ChunkWires(r) \in Seq(Seq(Symbols)) /\ Len(ChunkWires(r)) = Len(r.chunks)
  BY WiresAreTyped
<1>2. Len(H) \in Nat /\ Len(C) \in Nat
  BY <1>1
<1>3. ChunkAt(r, 0) = Len(H) /\ ChunkAt(r, Len(r.chunks)) = Len(H) + Len(C)
  <2>1. FirstOf(ChunkWires(r), 0) = <<>> /\ FirstOf(ChunkWires(r), Len(r.chunks)) = C
    BY <1>1, FirstOfSteps
  <2>. QED
    BY <1>2, <2>1 DEF ChunkAt
<1>4. CASE r.chunks = <<>>
  <2>1. Wire(r) = H \o r.body
    BY <1>4 DEF Wire
  <2>. QED
    BY <1>1, <1>2, <1>3, <1>4, <2>1, OccursInConcat, ConcatProperties
<1>5. CASE r.chunks # <<>> /\ FinalLine
  <2>. DEFINE t == ChunksWire(r, Len(r.chunks)) \o LastChunk
  <2>1. Wire(r) = H \o t
    BY <1>5 DEF Wire
  <2>2. t \in Seq(Symbols)
    BY <1>1, WiresAreTyped, LineEndIsTyped, ConcatProperties
  <2>3. Occurs(H, Wire(r), 0)
    BY <1>1, <2>1, <2>2, OccursInConcat
  <2>. QED
    BY <1>2, <1>3, <1>5, <2>3
<1>6. CASE r.chunks # <<>> /\ ~FinalLine
  <2>1. LastChunk = Z
    <3>1. Z \in Seq(Symbols)
      BY LineEndIsTyped, ConcatProperties DEF Symbols, Digit
    <3>2. Z \o <<>> = Z
      BY <3>1, ConcatEmptySeq
    <3>. QED
      BY <1>6, <3>2 DEF LastChunk
  <2>2. Wire(r) = H \o (C \o Z)
    BY <1>6, <2>1, WiresAreTyped DEF Wire
  <2>3. Z \in Seq(Symbols) /\ Len(Z) = 3
    <3>1. <<"0">> \in Seq(Symbols) /\ Len(<<"0">>) = 1
      BY DEF Symbols, Digit
    <3>2. Z \in Seq(Symbols) /\ Len(Z) = Len(<<"0">>) + 2
      BY <3>1, LineParts, Zenon
    <3>. QED
      BY <3>1, <3>2
  <2>. HIDE DEF Z, H, C
  <2>4. C \o Z \in Seq(Symbols) /\ Len(C \o Z) = Len(C) + 3 /\ Len(Wire(r)) = Len(H) + (Len(C) + 3)
    <3>1. C \o Z \in Seq(Symbols) /\ Len(C \o Z) = Len(C) + Len(Z)
      BY <1>1, <2>3, ConcatLen, Zenon
    <3>2. Len(Wire(r)) = Len(H) + Len(C \o Z)
      BY <1>1, <2>2, <3>1, ConcatLen, Zenon
    <3>. QED
      BY <2>3, <3>1, <3>2
  <2>5. Occurs(H, Wire(r), 0) /\ Occurs(C \o Z, Wire(r), Len(H))
    BY <1>1, <2>2, <2>4, OccursInConcat
  <2>6. Occurs(Z, Wire(r), Len(H) + Len(C))
    <3>1. Occurs(Z, C \o Z, Len(C))
      BY <1>1, <2>3, OccursInConcat
    <3>. QED
      BY <1>1, <2>3, <2>4, <2>5, <3>1, OccursWithin
  <2>. QED
    BY <1>2, <1>3, <1>6, <2>4, <2>5, <2>6 DEF Z, H
<1>. QED
  BY <1>4, <1>5, <1>6

(* A chunk: its size, and its data.                                         *)
LEMMA ChunkParts ==
    ASSUME NEW r \in ClientRequests, NEW j \in 0 .. Len(r.chunks) - 1,
           r.chunks # <<>>
    PROVE  LET c == r.chunks[j + 1]
           IN /\ c.size \in Seq(Symbols) /\ c.data \in Seq(Symbols)
              /\ ChunkAt(r, j) \in Nat
              /\ ChunkAt(r, j + 1) = ChunkAt(r, j) + Len(c.size) + 2 + Len(c.data) + 2
              /\ Occurs(c.size \o CRLF, Wire(r), ChunkAt(r, j))
              /\ Occurs(c.data, Wire(r), ChunkAt(r, j) + Len(c.size) + 2)
              /\ Occurs(CRLF, Wire(r), ChunkAt(r, j) + Len(c.size) + 2 + Len(c.data))
<1>. DEFINE c == r.chunks[j + 1]
            C == FlattenSeq(ChunkWires(r))
            H == HeadWire(r)
            w == ChunkWires(r)[j + 1]
            p == Len(FirstOf(ChunkWires(r), j))
            q == Len(FirstOf(ChunkWires(r), j + 1))
            S1 == c.size \o CRLF
            S2 == S1 \o c.data
<1>1. /\ C \in Seq(Symbols) /\ H \in Seq(Symbols) /\ Wire(r) \in Seq(Symbols)
      /\ ChunkWires(r) \in Seq(Seq(Symbols)) /\ Len(ChunkWires(r)) = Len(r.chunks)
      /\ r.chunks \in Seq(ClientChunks)
  BY WiresAreTyped
<1>2. c \in ClientChunks /\ j + 1 \in DOMAIN r.chunks
  BY <1>1
<1>3. c.size \in Seq(Symbols) /\ c.data \in Seq(Symbols)
  BY <1>2 DEF ClientChunks
<1>4. w = S2 \o CRLF
  BY <1>2 DEF ChunkWires, ChunkWire
<1>5. q = p + Len(w) /\ Occurs(w, C, p)
  BY <1>1, ElementOccurs
<1>6. p \in Nat /\ Len(H) \in Nat
  BY <1>1, <1>5 DEF Occurs
<1>7. Occurs(C, Wire(r), Len(H))
  <2>1. C \o LastChunk \in Seq(Symbols) /\ LastChunk \in Seq(Symbols)
    BY <1>1, LineEndIsTyped, ConcatProperties
  <2>2. Wire(r) = H \o (C \o LastChunk)
    BY WiresAreTyped DEF Wire
  <2>. HIDE DEF H, C
  <2>3. Occurs(C \o LastChunk, Wire(r), Len(H)) /\ Occurs(C, C \o LastChunk, 0)
    BY <1>1, <2>1, <2>2, OccursInConcat
  <2>4. Occurs(C, Wire(r), Len(H) + 0)
    BY <1>1, <2>1, <2>3, OccursWithin
  <2>. QED
    BY <1>6, <2>4
<1>8. ChunkAt(r, j) = Len(H) + p /\ ChunkAt(r, j + 1) = Len(H) + q
  BY DEF ChunkAt
<1>. HIDE DEF c, C, H, w, p, q, S1, S2
<1>9. /\ S1 \in Seq(Symbols) /\ Len(S1) = Len(c.size) + 2
      /\ S2 \in Seq(Symbols) /\ Len(S2) = Len(S1) + Len(c.data)
      /\ w \in Seq(Symbols) /\ Len(w) = Len(S2) + 2
      /\ Len(c.size) \in Nat /\ Len(c.data) \in Nat
  <2>1. S1 \in Seq(Symbols) /\ Len(S1) = Len(c.size) + 2
    BY <1>3, LineParts DEF S1
  <2>2. S2 \in Seq(Symbols) /\ Len(S2) = Len(S1) + Len(c.data)
    BY <1>3, <2>1, ConcatLen DEF S2
  <2>3. w \in Seq(Symbols) /\ Len(w) = Len(S2) + 2
    BY <1>4, <2>2, LineParts
  <2>. QED
    BY <1>3, <2>1, <2>2, <2>3
<1>10. Occurs(w, Wire(r), Len(H) + p)
  BY <1>1, <1>5, <1>7, <1>9, OccursWithin
<1>11. Occurs(S2, w, 0) /\ Occurs(CRLF, w, Len(S2))
  BY <1>4, <1>9, LineEndIsTyped, OccursInConcat
<1>12. Occurs(S1, S2, 0) /\ Occurs(c.data, S2, Len(S1))
  BY <1>3, <1>9, OccursInConcat DEF S2
<1>13. /\ Occurs(S2, Wire(r), (Len(H) + p) + 0)
       /\ Occurs(CRLF, Wire(r), (Len(H) + p) + Len(S2))
  BY <1>1, <1>9, <1>10, <1>11, LineEndIsTyped, OccursWithin
<1>14. /\ Occurs(S1, Wire(r), ((Len(H) + p) + 0) + 0)
       /\ Occurs(c.data, Wire(r), ((Len(H) + p) + 0) + Len(S1))
  BY <1>1, <1>3, <1>9, <1>12, <1>13, OccursWithin
<1>15. /\ ((Len(H) + p) + 0) + 0 = ChunkAt(r, j)
       /\ ((Len(H) + p) + 0) + Len(S1) = ChunkAt(r, j) + Len(c.size) + 2
       /\ (Len(H) + p) + Len(S2) = ChunkAt(r, j) + Len(c.size) + 2 + Len(c.data)
       /\ ChunkAt(r, j) \in Nat
       /\ ChunkAt(r, j + 1) = ChunkAt(r, j) + Len(c.size) + 2 + Len(c.data) + 2
  <2>1. q = p + Len(w) /\ Len(w) = Len(S2) + 2 /\ Len(S2) = Len(S1) + Len(c.data)
    BY <1>5, <1>9
  <2>2. Len(S1) = Len(c.size) + 2 /\ Len(c.size) \in Nat /\ Len(c.data) \in Nat
    BY <1>9
  <2>. DEFINE l == Len(H)
              m == Len(c.size)
              n == Len(c.data)
              s1 == Len(S1)
              s2 == Len(S2)
  <2>3. /\ l \in Nat /\ m \in Nat /\ n \in Nat /\ s1 = m + 2 /\ s2 = s1 + n
        /\ q = p + (s2 + 2)
        /\ ChunkAt(r, j) = l + p /\ ChunkAt(r, j + 1) = l + q
    BY <1>6, <1>8, <2>1, <2>2
  <2>. HIDE DEF l, m, n, s1, s2
  <2>4. /\ (l + p) + 0 + 0 = ChunkAt(r, j)
        /\ ((l + p) + 0) + s1 = ChunkAt(r, j) + m + 2
        /\ (l + p) + s2 = ChunkAt(r, j) + m + 2 + n
        /\ ChunkAt(r, j) \in Nat
        /\ ChunkAt(r, j + 1) = ChunkAt(r, j) + m + 2 + n + 2
    BY <1>6, <2>3
  <2>. QED
    BY <2>4 DEF l, m, n, s1, s2
<1>16. Occurs(c.size \o CRLF, Wire(r), ChunkAt(r, j))
  BY <1>14, <1>15 DEF S1
<1>17. /\ Occurs(c.data, Wire(r), ChunkAt(r, j) + Len(c.size) + 2)
       /\ Occurs(CRLF, Wire(r), ChunkAt(r, j) + Len(c.size) + 2 + Len(c.data))
  BY <1>13, <1>14, <1>15
<1>. QED
  BY <1>3, <1>15, <1>16, <1>17 DEF c

-----------------------------------------------------------------------------
(* Where the requests are in the stream, and the buffer.                    *)

(* The requests of a script stand one behind the other in its encoding.     *)
LEMMA StreamParts ==
    ASSUME TypeOK
    PROVE  /\ script \in Seq(ClientRequests) /\ Len(script) \in Nat
           /\ \A k \in 0 .. Len(script) - 1 : script[k + 1] \in ClientRequests
           /\ Stream(script) \in Seq(Symbols)
           /\ \A k \in 0 .. Len(script) : EndOf(k) \in Nat
           /\ EndOf(0) = 0 /\ EndOf(Len(script)) = Len(Stream(script))
           /\ \A k \in 0 .. Len(script) - 1 :
                /\ EndOf(k + 1) = EndOf(k) + Len(Wire(script[k + 1]))
                /\ Occurs(Wire(script[k + 1]), Stream(script), EndOf(k))
<1>1. script \in Seq(ClientRequests)
  BY ScriptsAssumption DEF TypeOK
<1>2. /\ Len(script) \in Nat /\ DOMAIN script = 1 .. Len(script)
      /\ \A k \in 0 .. Len(script) - 1 : script[k + 1] \in ClientRequests
  BY <1>1
<1>3. /\ Wires(script) \in Seq(Seq(Symbols)) /\ Len(Wires(script)) = Len(script)
      /\ Stream(script) = FlattenSeq(Wires(script))
      /\ Stream(script) \in Seq(Symbols)
  BY <1>1, StreamIsTyped
<1>4. ASSUME NEW k \in 0 .. Len(script)
      PROVE  EndOf(k) = Len(FirstOf(Wires(script), k)) /\ EndOf(k) \in Nat
  <2>. DEFINE p == SubSeq(script, 1, k)
  <2>1. p \in Seq(ClientRequests) /\ Len(p) = k /\ \A i \in 1 .. k : p[i] = script[i]
    BY <1>1, <1>2
  <2>. HIDE DEF p
  <2>2. Stream(p) = FlattenSeq(Wires(p))
    BY <2>1, StreamIsTyped
  <2>3. Wires(p) = SubSeq(Wires(script), 1, k)
    <3>1. Wires(p) \in Seq(Seq(Symbols)) /\ Len(Wires(p)) = k
      BY <2>1, StreamIsTyped
    <3>2. ASSUME NEW i \in 1 .. k PROVE Wires(p)[i] = Wires(script)[i]
      <4>1. i \in DOMAIN p /\ i \in DOMAIN script /\ p[i] = script[i]
        BY <1>2, <2>1
      <4>. QED
        BY <4>1 DEF Wires
    <3>3. /\ SubSeq(Wires(script), 1, k) \in Seq(Seq(Symbols))
          /\ Len(SubSeq(Wires(script), 1, k)) = k
          /\ \A i \in 1 .. k : SubSeq(Wires(script), 1, k)[i] = Wires(script)[i]
      BY <1>3
    <3>. QED
      BY <3>1, <3>2, <3>3
  <2>4. EndOf(k) = Len(FirstOf(Wires(script), k))
    BY <2>2, <2>3 DEF EndOf, FirstOf, p
  <2>5. FirstOf(Wires(script), k) \in Seq(Symbols)
    BY <1>3, FirstOfType
  <2>. QED
    BY <2>4, <2>5
<1>5. EndOf(0) = 0 /\ EndOf(Len(script)) = Len(Stream(script))
  <2>1. /\ FirstOf(Wires(script), 0) = <<>>
        /\ FirstOf(Wires(script), Len(script)) = Stream(script)
    BY <1>3, FirstOfSteps
  <2>2. Len(<<>>) = 0
    OBVIOUS
  <2>3. 0 \in 0 .. Len(script) /\ Len(script) \in 0 .. Len(script)
    BY <1>2
  <2>. QED
    BY <1>4, <2>1, <2>2, <2>3
<1>6. ASSUME NEW k \in 0 .. Len(script) - 1
      PROVE  /\ EndOf(k + 1) = EndOf(k) + Len(Wire(script[k + 1]))
             /\ Occurs(Wire(script[k + 1]), Stream(script), EndOf(k))
  <2>1. k \in 0 .. Len(script) /\ k + 1 \in 0 .. Len(script) /\ k + 1 \in DOMAIN script
    BY <1>2
  <2>2. Wires(script)[k + 1] = Wire(script[k + 1])
    BY <2>1 DEF Wires
  <2>3. /\ Len(FirstOf(Wires(script), k + 1))
             = Len(FirstOf(Wires(script), k)) + Len(Wires(script)[k + 1])
        /\ Occurs(Wires(script)[k + 1], FlattenSeq(Wires(script)), Len(FirstOf(Wires(script), k)))
    BY <1>3, ElementOccurs
  <2>4. EndOf(k) = Len(FirstOf(Wires(script), k)) /\ EndOf(k + 1) = Len(FirstOf(Wires(script), k + 1))
    BY <1>4, <2>1
  <2>. QED
    BY <1>3, <2>2, <2>3, <2>4
<1>. QED
  BY <1>1, <1>2, <1>3, <1>4, <1>5, <1>6

(* What is part of a request is part of the stream.                         *)
LEMMA PartInStream ==
    ASSUME TypeOK, NEW k \in 0 .. Len(script) - 1, NEW w \in Seq(Symbols), NEW a,
           Occurs(w, Wire(script[k + 1]), a)
    PROVE  Occurs(w, Stream(script), EndOf(k) + a)
<1>1. /\ Wire(script[k + 1]) \in Seq(Symbols) /\ Stream(script) \in Seq(Symbols)
      /\ Occurs(Wire(script[k + 1]), Stream(script), EndOf(k))
  BY StreamParts, WiresAreTyped
<1>. QED
  BY <1>1, OccursWithin

(* Two sequences that stand at the same place agree as far as both reach.   *)
LEMMA OccurTogether ==
    ASSUME NEW u, NEW v, NEW s, NEW c, Occurs(u, s, c), Occurs(v, s, c),
           NEW i, i \in 1 .. Len(u), i \in 1 .. Len(v)
    PROVE  u[i] = v[i]
BY DEF Occurs

-----------------------------------------------------------------------------
(* The scan for the end of a line.                                          *)

(* The scan stops at the first place that halts it, wherever it resumed.    *)
LEMMA StopIsFirst ==
    ASSUME TypeOK, Scanned, Stops # {}
    PROVE  /\ Stop \in Nat /\ Stop < Len(buf) /\ Halts(Stop)
           /\ \A i \in Nat : i < Stop => ~Halts(i)
<1>1. Stops \in SUBSET Nat /\ pos \in Nat /\ Len(buf) \in Nat
  BY DEF Stops, TypeOK
<1>2. Stop \in Stops /\ \A i \in Stops : Stop <= i
  BY <1>1, MinOfNats DEF Stop
<1>3. Stop \in pos .. Len(buf) - 1 /\ Halts(Stop)
  BY <1>2 DEF Stops, Halts
<1>4. ASSUME NEW i \in Nat, i < Stop PROVE ~Halts(i)
  <2>1. CASE i < pos
    BY <1>1, <2>1 DEF Scanned
  <2>2. CASE i >= pos
    <3>1. i \in pos .. Len(buf) - 1 /\ i \notin Stops
      BY <1>1, <1>2, <1>3, <1>4, <2>2
    <3>. QED
      BY <3>1 DEF Stops, Halts
  <2>. QED
    BY <1>1, <2>1, <2>2
<1>. QED
  BY <1>1, <1>3, <1>4

(* When the buffer starts with a line, the line that is taken is this one,  *)
(* and it is taken or found bad as its text deserves.                       *)
LEMMA LineIsRead ==
    ASSUME TypeOK, Scanned, NEW w \in Seq(Symbols), NoLineEnd(w),
           NEW s, NEW c, Occurs(w \o CRLF, s, c), Occurs(buf, s, c), Stops # {}
    PROVE  /\ LineGood => Line = w /\ Stop = Len(w) + 1 /\ ~BadText(w)
           /\ ~LineGood => BadText(w)
<1>. DEFINE n == Len(w)
            l == w \o CRLF
<1>1. /\ n \in Nat /\ Len(buf) \in Nat /\ buf \in Seq(Symbols) /\ Len(l) = n + 2
      /\ l[n + 1] = "CR" /\ l[n + 2] = "LF" /\ \A i \in 1 .. n : l[i] = w[i]
      /\ LineLimit \in Nat
  BY LineParts, LimitsAssumption DEF TypeOK
<1>. HIDE DEF l
<1>2. /\ Stop \in Nat /\ Stop < Len(buf) /\ Halts(Stop)
      /\ \A i \in Nat : i < Stop => ~Halts(i)
  BY StopIsFirst
<1>3. ASSUME NEW i \in Nat, i < n + 2, i < Len(buf) PROVE At(i) = l[i + 1]
  <2>1. i + 1 \in 1 .. Len(l) /\ i + 1 \in 1 .. Len(buf)
    BY <1>1, <1>3
  <2>. QED
    BY <2>1, OccurTogether DEF At, l
<1>4. ASSUME NEW i \in Nat, i < n, i < Len(buf) PROVE At(i) = w[i + 1]
  <2>1. i + 1 \in 1 .. n
    BY <1>1, <1>4
  <2>. QED
    BY <1>1, <1>3, <1>4, <2>1
<1>5. Stop <= n + 1
  <2>. SUFFICES ASSUME n + 1 < Stop PROVE FALSE
    BY <1>1, <1>2
  <2>1. At(n) = "CR" /\ n + 1 \in Nat /\ n + 1 >= 1 /\ (n + 1) - 1 = n
    BY <1>1, <1>2, <1>3
  <2>. QED
    BY <1>2, <2>1 DEF Halts, AfterCR
<1>6. CASE LineGood
  <2>1. Stop < LineLimit /\ Stop >= 1 /\ At(Stop - 1) = "CR" /\ At(Stop) = "LF"
    BY <1>6 DEF LineGood, AfterCR
  <2>2. Stop = n + 1
    <3>1. CASE Stop < n
      <4>1. At(Stop - 1) = w[Stop] /\ At(Stop) = w[Stop + 1]
        <5>1. At(Stop) = w[Stop + 1]
          BY <1>1, <1>2, <1>4, <3>1
        <5>2. Stop - 1 \in Nat /\ Stop - 1 < n /\ Stop - 1 < Len(buf) /\ (Stop - 1) + 1 = Stop
          BY <1>1, <1>2, <2>1, <3>1
        <5>. QED
          BY <1>4, <5>1, <5>2
      <4>2. Stop \in 1 .. n - 1
        BY <1>1, <1>2, <2>1, <3>1
      <4>. QED
        BY <2>1, <4>1, <4>2 DEF NoLineEnd
    <3>2. CASE Stop = n
      <4>1. At(n) = "CR"
        BY <1>1, <1>2, <1>3, <3>2
      <4>. QED
        BY <2>1, <3>2, <4>1
    <3>. QED
      BY <1>1, <1>2, <1>5, <3>1, <3>2
  <2>3. Line = w
    <3>1. Line = SubSeq(buf, 1, n)
      BY <1>1, <2>2 DEF Line
    <3>2. Len(Line) = n /\ Line \in Seq(Symbols) /\ \A i \in 1 .. n : Line[i] = buf[i]
      BY <1>1, <1>2, <2>2, <3>1
    <3>3. ASSUME NEW i \in 1 .. n PROVE buf[i] = w[i]
      <4>1. i \in 1 .. Len(l) /\ i \in 1 .. Len(buf)
        BY <1>1, <1>2, <2>2
      <4>2. buf[i] = l[i]
        BY <4>1, OccurTogether DEF l
      <4>. QED
        BY <1>1, <4>2
    <3>. QED
      BY <3>2, <3>3
  <2>4. ~BadText(w)
    <3>1. n + 2 <= LineLimit
      BY <1>1, <2>1, <2>2
    <3>2. ASSUME NEW i \in 1 .. n PROVE w[i] # "CR" /\ w[i] # "NUL"
      <4>1. /\ i - 1 \in Nat /\ i - 1 < n /\ i - 1 < Len(buf) /\ (i - 1) + 1 = i
            /\ i - 1 < Stop /\ i < Stop /\ i \in Nat /\ i >= 1
        BY <1>1, <1>2, <2>2
      <4>2. At(i - 1) = w[i]
        BY <1>4, <4>1
      <4>3. ~Halts(i - 1) /\ ~Halts(i)
        BY <1>2, <4>1
      <4>. QED
        BY <4>1, <4>2, <4>3 DEF Halts, AfterCR
    <3>3. ToSet(w) \cap {"CR", "NUL"} = {}
      BY <3>2 DEF ToSet
    <3>. QED
      BY <1>1, <3>1, <3>3 DEF BadText
  <2>. QED
    BY <1>6, <2>2, <2>3, <2>4
<1>7. CASE ~LineGood
  <2>. SUFFICES BadText(w)
    BY <1>7
  <2>1. \/ Stop + 1 > LineLimit
        \/ At(Stop) = "NUL"
        \/ Stop >= 1 /\ At(Stop - 1) = "CR" /\ (At(Stop) # "LF" \/ Stop >= LineLimit)
    BY <1>1, <1>2, <1>7 DEF LineGood, Halts, AfterCR
  <2>2. CASE Stop + 1 > LineLimit \/ Stop >= LineLimit
    <3>1. n + 2 > LineLimit
      BY <1>1, <1>2, <1>5, <2>2
    <3>. QED
      BY <3>1, Zenon DEF BadText
  <2>3. CASE At(Stop) = "NUL"
    <3>1. At(Stop) = l[Stop + 1]
      BY <1>1, <1>2, <1>3, <1>5
    <3>2. Stop < n
      <4>1. Stop # n /\ Stop # n + 1
        <5>1. (n + 1) + 1 = n + 2
          BY <1>1
        <5>. QED
          BY <1>1, <2>3, <3>1, <5>1
      <4>. QED
        BY <1>1, <1>2, <1>5, <4>1
    <3>3. w[Stop + 1] = "NUL" /\ Stop + 1 \in 1 .. n
      BY <1>1, <1>2, <1>4, <2>3, <3>2
    <3>4. "NUL" \in ToSet(w)
      BY <3>3, InToSet
    <3>5. ToSet(w) \cap {"CR", "NUL"} # {}
      BY <3>4
    <3>. QED
      BY <3>5, Zenon DEF BadText
  <2>4. CASE Stop >= 1 /\ At(Stop - 1) = "CR" /\ At(Stop) # "LF"
    <3>1. Stop # n + 1
      <4>1. Stop = n + 1 => At(Stop) = l[n + 2]
        <5>1. (n + 1) + 1 = n + 2
          BY <1>1
        <5>. QED
          BY <1>1, <1>2, <1>3, <5>1
      <4>. QED
        BY <1>1, <2>4, <4>1
    <3>2. Stop - 1 \in Nat /\ Stop - 1 < n /\ Stop - 1 < Len(buf) /\ (Stop - 1) + 1 = Stop
          /\ Stop \in 1 .. n
      BY <1>1, <1>2, <1>5, <2>4, <3>1
    <3>3. w[Stop] = "CR"
      BY <1>4, <2>4, <3>2
    <3>4. "CR" \in ToSet(w)
      BY <3>2, <3>3, InToSet
    <3>5. ToSet(w) \cap {"CR", "NUL"} # {}
      BY <3>4
    <3>. QED
      BY <3>5, Zenon DEF BadText
  <2>. QED
    BY <2>1, <2>2, <2>3, <2>4
<1>. QED
  BY <1>6, <1>7

-----------------------------------------------------------------------------
(* The verdict of a list of checks is that of the first that fails.         *)

CheckSet == BOOLEAN \X Nat
Fails(l, i) == l[i][1]
NoneFails(l) == \A i \in 1 .. Len(l) : ~Fails(l, i)

(* The first check that fails gives the status.                             *)
LEMMA VerdictAt ==
    ASSUME NEW l \in Seq(CheckSet), NEW i \in 1 .. Len(l), Fails(l, i),
           \A j \in 1 .. Len(l) : j < i => ~Fails(l, j)
    PROVE  Verdict(l) = l[i][2]
<1>. DEFINE F == {j \in DOMAIN l : l[j][1]}
<1>1. DOMAIN l = 1 .. Len(l) /\ Len(l) \in Nat
  OBVIOUS
<1>2. \A j \in 1 .. Len(l) : j \in F <=> Fails(l, j)
  BY <1>1, Zenon DEF Fails
<1>3. F \in SUBSET Nat /\ F # {} /\ F \subseteq 1 .. Len(l)
  BY <1>1, <1>2
<1>4. Verdict(l) = l[Min(F)][2]
  BY <1>3, Zenon DEF Verdict
<1>. HIDE DEF F
<1>5. Min(F) \in F /\ \A j \in F : Min(F) <= j
  BY <1>3, MinOfNats
<1>6. Min(F) = i
  <2>1. i \in F /\ Min(F) \in 1 .. Len(l) /\ Fails(l, Min(F)) /\ Min(F) <= i
    BY <1>2, <1>3, <1>5
  <2>2. ~(Min(F) < i)
    BY <2>1
  <2>. QED
    BY <1>1, <2>1, <2>2
<1>. QED
  BY <1>4, <1>6

(* No check fails.                                                          *)
LEMMA VerdictNone ==
    ASSUME NEW l \in Seq(CheckSet), NoneFails(l)
    PROVE  Verdict(l) = HTTP_OK
<1>1. DOMAIN l = 1 .. Len(l)
  OBVIOUS
<1>2. {j \in DOMAIN l : l[j][1]} = {}
  BY <1>1, Zenon DEF NoneFails, Fails
<1>. QED
  BY <1>2, Zenon DEF Verdict

(* A list with a failing check has a first one.                             *)
LEMMA FirstFailing ==
    ASSUME NEW l \in Seq(CheckSet), ~NoneFails(l)
    PROVE  \E i \in 1 .. Len(l) : Fails(l, i) /\ \A j \in 1 .. Len(l) : j < i => ~Fails(l, j)
<1>. DEFINE F == {j \in 1 .. Len(l) : Fails(l, j)}
<1>1. F \in SUBSET Nat /\ F # {}
  BY DEF NoneFails
<1>2. Min(F) \in F /\ \A j \in F : Min(F) <= j
  <2>. HIDE DEF F
  <2>. QED
    BY <1>1, MinOfNats
<1>3. ASSUME NEW j \in 1 .. Len(l), j < Min(F) PROVE ~Fails(l, j)
  <2>1. j \notin F
    BY <1>1, <1>2, <1>3
  <2>. QED
    BY <2>1, Zenon
<1>4. Min(F) \in 1 .. Len(l) /\ Fails(l, Min(F))
  BY <1>2, Zenon
<1>. QED
  BY <1>3, <1>4, Zenon

(* Two lists of checks: the second counts when none of the first fails.     *)
LEMMA VerdictConcat ==
    ASSUME NEW a \in Seq(CheckSet), NEW b \in Seq(CheckSet)
    PROVE  /\ a \o b \in Seq(CheckSet)
           /\ NoneFails(a \o b) <=> NoneFails(a) /\ NoneFails(b)
           /\ NoneFails(a) => Verdict(a \o b) = Verdict(b)
           /\ ~NoneFails(a) => Verdict(a \o b) = Verdict(a)
<1>. DEFINE l == a \o b
<1>1. /\ l \in Seq(CheckSet) /\ Len(l) = Len(a) + Len(b)
      /\ Len(a) \in Nat /\ Len(b) \in Nat
  BY ConcatLen
<1>2. /\ \A i \in 1 .. Len(a) : l[i] = a[i]
      /\ \A i \in 1 .. Len(b) : l[Len(a) + i] = b[i]
      /\ \A i \in 1 .. Len(a) + Len(b) : i <= Len(a) \/ i - Len(a) \in 1 .. Len(b)
  BY ConcatProperties
<1>. HIDE DEF l
<1>3. /\ \A i \in 1 .. Len(a) : Fails(l, i) <=> Fails(a, i)
      /\ \A i \in 1 .. Len(b) : Fails(l, Len(a) + i) <=> Fails(b, i)
  BY <1>2, Zenon DEF Fails
<1>4. NoneFails(l) <=> NoneFails(a) /\ NoneFails(b)
  <2>1. ASSUME NoneFails(l) PROVE NoneFails(a) /\ NoneFails(b)
    <3>1. ASSUME NEW i \in 1 .. Len(a) PROVE ~Fails(a, i)
      <4>1. i \in 1 .. Len(l)
        BY <1>1
      <4>. QED
        BY <1>3, <2>1, <4>1 DEF NoneFails
    <3>2. ASSUME NEW i \in 1 .. Len(b) PROVE ~Fails(b, i)
      <4>1. Len(a) + i \in 1 .. Len(l)
        BY <1>1
      <4>. QED
        BY <1>3, <2>1, <4>1 DEF NoneFails
    <3>. QED
      BY <3>1, <3>2 DEF NoneFails
  <2>2. ASSUME NoneFails(a), NoneFails(b) PROVE NoneFails(l)
    <3>1. ASSUME NEW i \in 1 .. Len(l) PROVE ~Fails(l, i)
      <4>1. CASE i <= Len(a)
        <5>1. i \in 1 .. Len(a)
          BY <1>1, <4>1
        <5>. QED
          BY <1>3, <2>2, <5>1 DEF NoneFails
      <4>2. CASE i > Len(a)
        <5>1. i - Len(a) \in 1 .. Len(b) /\ Len(a) + (i - Len(a)) = i
          BY <1>1, <4>2
        <5>2. Fails(l, Len(a) + (i - Len(a))) <=> Fails(b, i - Len(a))
          BY <1>3, <5>1
        <5>. QED
          BY <2>2, <5>1, <5>2 DEF NoneFails
      <4>. QED
        BY <1>1, <4>1, <4>2
    <3>. QED
      BY <3>1 DEF NoneFails
  <2>. QED
    BY <2>1, <2>2
<1>5. ASSUME ~NoneFails(a) PROVE Verdict(l) = Verdict(a)
  <2>1. PICK i \in 1 .. Len(a) : Fails(a, i) /\ \A j \in 1 .. Len(a) : j < i => ~Fails(a, j)
    BY <1>5, FirstFailing
  <2>2. Verdict(a) = a[i][2]
    BY <2>1, VerdictAt
  <2>3. i \in 1 .. Len(l) /\ Fails(l, i) /\ l[i] = a[i]
    BY <1>1, <1>2, <1>3, <2>1
  <2>4. ASSUME NEW j \in 1 .. Len(l), j < i PROVE ~Fails(l, j)
    <3>1. j \in 1 .. Len(a)
      BY <1>1, <2>4
    <3>. QED
      BY <1>3, <2>1, <2>4, <3>1
  <2>5. Verdict(l) = l[i][2]
    BY <1>1, <2>3, <2>4, VerdictAt
  <2>. QED
    BY <2>2, <2>3, <2>5
<1>6. ASSUME NoneFails(a) PROVE Verdict(l) = Verdict(b)
  <2>1. CASE NoneFails(b)
    BY <1>1, <1>4, <1>6, <2>1, VerdictNone
  <2>2. CASE ~NoneFails(b)
    <3>1. PICK i \in 1 .. Len(b) : Fails(b, i) /\ \A j \in 1 .. Len(b) : j < i => ~Fails(b, j)
      BY <2>2, FirstFailing
    <3>2. Verdict(b) = b[i][2]
      BY <3>1, VerdictAt
    <3>. DEFINE n == Len(a) + i
    <3>3. n \in 1 .. Len(l) /\ Fails(l, n) /\ l[n] = b[i]
      BY <1>1, <1>2, <1>3, <3>1
    <3>4. ASSUME NEW j \in 1 .. Len(l), j < n PROVE ~Fails(l, j)
      <4>1. CASE j <= Len(a)
        <5>1. j \in 1 .. Len(a)
          BY <1>1, <4>1
        <5>. QED
          BY <1>3, <1>6, <5>1 DEF NoneFails
      <4>2. CASE j > Len(a)
        <5>1. /\ j - Len(a) \in 1 .. Len(b) /\ Len(a) + (j - Len(a)) = j
              /\ j - Len(a) < i
          BY <1>1, <3>4, <4>2
        <5>2. Fails(l, Len(a) + (j - Len(a))) <=> Fails(b, j - Len(a))
          BY <1>3, <5>1
        <5>. QED
          BY <3>1, <5>1, <5>2
      <4>. QED
        BY <1>1, <4>1, <4>2
    <3>. HIDE DEF n
    <3>5. Verdict(l) = l[n][2]
      BY <1>1, <3>3, <3>4, VerdictAt
    <3>. QED
      BY <3>2, <3>3, <3>5
  <2>. QED
    BY <2>1, <2>2
<1>. QED
  BY <1>1, <1>4, <1>5, <1>6 DEF l

(* Lists of checks: the first list in which one fails counts.               *)
LEMMA VerdictFlatten ==
    ASSUME NEW seqs \in Seq(Seq(CheckSet)), NEW n \in 0 .. Len(seqs),
           \A i \in 1 .. n : NoneFails(seqs[i])
    PROVE  /\ FlattenSeq(seqs) \in Seq(CheckSet)
           /\ n = Len(seqs) => NoneFails(FlattenSeq(seqs))
           /\ n < Len(seqs) /\ ~NoneFails(seqs[n + 1]) =>
                ~NoneFails(FlattenSeq(seqs)) /\ Verdict(FlattenSeq(seqs)) = Verdict(seqs[n + 1])
<1>. DEFINE f(m) == FirstOf(seqs, m)
            S == {m \in Nat : m <= n => NoneFails(f(m))}
            T == {m \in Nat : n < m /\ m <= Len(seqs) =>
                     ~NoneFails(f(m)) /\ Verdict(f(m)) = Verdict(seqs[n + 1])}
<1>1. FlattenSeq(seqs) \in Seq(CheckSet) /\ FlattenSeq(seqs) = f(Len(seqs))
  BY FlattenType, FirstOfSteps
<1>2. \A m \in 0 .. Len(seqs) : f(m) \in Seq(CheckSet)
  BY FirstOfType
<1>3. \A m \in 0 .. Len(seqs) - 1 : f(m + 1) = f(m) \o seqs[m + 1] /\ seqs[m + 1] \in Seq(CheckSet)
  BY FirstOfSteps
<1>4. NoneFails(<<>>)
  BY DEF NoneFails
<1>5. f(0) = <<>>
  BY FirstOfSteps
<1>. HIDE DEF f
<1>6. 0 \in S
  BY <1>4, <1>5, Zenon
<1>7. ASSUME NEW m \in Nat, m \in S PROVE m + 1 \in S
  <2>. SUFFICES ASSUME m + 1 <= n PROVE NoneFails(f(m + 1))
    OBVIOUS
  <2>1. m \in 0 .. Len(seqs) - 1 /\ m \in 0 .. Len(seqs) /\ m + 1 \in 1 .. n /\ NoneFails(f(m))
    BY <1>7
  <2>. QED
    BY <1>2, <1>3, <2>1, VerdictConcat
<1>8. \A m \in Nat : m \in S
  <2>. HIDE DEF S
  <2>. QED
    BY <1>6, <1>7, Induction
<1>9. NoneFails(f(n))
  BY <1>8
<1>10. ASSUME n < Len(seqs), ~NoneFails(seqs[n + 1])
       PROVE  ~NoneFails(f(Len(seqs))) /\ Verdict(f(Len(seqs))) = Verdict(seqs[n + 1])
  <2>1. 0 \in T
    OBVIOUS
  <2>2. ASSUME NEW m \in Nat, m \in T PROVE m + 1 \in T
    <3>. SUFFICES ASSUME n < m + 1, m + 1 <= Len(seqs)
         PROVE  ~NoneFails(f(m + 1)) /\ Verdict(f(m + 1)) = Verdict(seqs[n + 1])
      OBVIOUS
    <3>1. /\ f(m + 1) = f(m) \o seqs[m + 1] /\ seqs[m + 1] \in Seq(CheckSet)
          /\ f(m) \in Seq(CheckSet)
      BY <1>2, <1>3
    <3>2. CASE m = n
      <4>1. NoneFails(f(m)) /\ ~NoneFails(seqs[m + 1]) /\ seqs[m + 1] = seqs[n + 1]
        BY <1>9, <1>10, <3>2
      <4>2. ~NoneFails(f(m) \o seqs[m + 1])
              /\ Verdict(f(m) \o seqs[m + 1]) = Verdict(seqs[m + 1])
        BY <3>1, <4>1, VerdictConcat, Zenon
      <4>. QED
        BY <3>1, <4>1, <4>2, Zenon
    <3>3. CASE m # n
      <4>1. ~NoneFails(f(m)) /\ Verdict(f(m)) = Verdict(seqs[n + 1])
        BY <2>2, <3>3
      <4>2. ~NoneFails(f(m) \o seqs[m + 1]) /\ Verdict(f(m) \o seqs[m + 1]) = Verdict(f(m))
        BY <3>1, <4>1, VerdictConcat, Zenon
      <4>. QED
        BY <3>1, <4>1, <4>2, Zenon
    <3>. QED
      BY <3>2, <3>3
  <2>. HIDE DEF T
  <2>3. \A m \in Nat : m \in T
    BY <2>1, <2>2, Induction
  <2>. QED
    BY <1>10, <2>3 DEF T
<1>. QED
  BY <1>1, <1>9, <1>10

-----------------------------------------------------------------------------
(* The verdict of a list of at most five checks, check by check.             *)
Judges(l, i) ==
    i <= Len(l) /\ Fails(l, i) /\ (\A j \in 1 .. i - 1 : ~Fails(l, j)) => Verdict(l) = l[i][2]

(* VerdictAt, for lists whose checks are written out.                       *)
LEMMA ShortVerdict ==
    ASSUME NEW l \in Seq(CheckSet), NEW i \in Nat \ {0}
    PROVE  Judges(l, i)
<1>. SUFFICES ASSUME i <= Len(l), Fails(l, i), \A j \in 1 .. i - 1 : ~Fails(l, j)
              PROVE  Verdict(l) = l[i][2]
  BY DEF Judges
<1>1. i \in 1 .. Len(l)
  OBVIOUS
<1>2. ASSUME NEW j \in 1 .. Len(l), j < i PROVE ~Fails(l, j)
  <2>1. j \in 1 .. i - 1
    BY <1>2
  <2>. QED
    BY <2>1
<1>. QED
  BY <1>1, <1>2, VerdictAt

-----------------------------------------------------------------------------
(* The parts of the reference's checks.                                     *)

LineChecks(r) ==
    << <<BadText(r.line), 400>>,
       <<FirstLineStatus(r.line) # HTTP_OK, FirstLineStatus(r.line)>> >>
HeaderLists(r) == [i \in DOMAIN r.headers |-> HeaderChecks(r, i)]
SectionChecks(r) == << <<SectionSize(r, Len(r.headers)) > SectionLimit, 431>> >>
BodyChecks(r, conflict) ==
    << <<Word(r) = "POST" /\ conflict, 409>>,
       <<Word(r) = "POST" /\ r.chunks = <<>> /\ Len(r.body) > BodyLimit, 413>> >>
ChunkCheckLists(r) == [j \in DOMAIN r.chunks |-> ChunkChecks(r, j)]

(* The statuses of the checks.                                              *)
LEMMA CodesAreNumbers ==
    /\ 400 \in Nat /\ 404 \in Nat /\ 409 \in Nat /\ 411 \in Nat /\ 413 \in Nat
    /\ 431 \in Nat /\ \A line : FirstLineStatus(line) \in Nat
BY WordsAreTyped

(* Each list of checks, written out.                                        *)
LEMMA LineChecksAre ==
    ASSUME NEW r \in ClientRequests
    PROVE  LET l == LineChecks(r)
           IN /\ l \in Seq(CheckSet) /\ Len(l) = 2
              /\ (Fails(l, 1) <=> (BadText(r.line))) /\ l[1][2] = 400
              /\ (Fails(l, 2) <=> (FirstLineStatus(r.line) # HTTP_OK)) /\ l[2][2] = FirstLineStatus(r.line)
              /\ NoneFails(l) <=> ~Fails(l, 1) /\ ~Fails(l, 2)
              /\ Fails(l, 1) => Verdict(l) = 400
              /\ ~Fails(l, 1) /\ Fails(l, 2) => Verdict(l) = FirstLineStatus(r.line)
<1>. DEFINE p1 == BadText(r.line)
            p2 == FirstLineStatus(r.line) # HTTP_OK
            n1 == 400
            n2 == FirstLineStatus(r.line)
            l == LineChecks(r)
<1>1. p1 \in BOOLEAN /\ p2 \in BOOLEAN
  BY DEF BadText, IsHex
<1>2. n1 \in Nat /\ n2 \in Nat
  BY CodesAreNumbers
<1>3. l = << <<p1, n1>>, <<p2, n2>> >>
  BY Zenon DEF LineChecks
<1>. HIDE DEF p1, p2, n1, n2, l
<1>4. l \in Seq(CheckSet) /\ Len(l) = 2
  BY <1>1, <1>2, <1>3 DEF CheckSet
<1>5. /\ (Fails(l, 1) <=> p1) /\ l[1][2] = n1
      /\ (Fails(l, 2) <=> p2) /\ l[2][2] = n2
  BY <1>1, <1>2, <1>3 DEF Fails
<1>6. NoneFails(l) <=> ~Fails(l, 1) /\ ~Fails(l, 2)
  BY <1>4 DEF NoneFails
<1>7. Judges(l, 1) /\ Judges(l, 2)
  BY <1>4, ShortVerdict
<1>8. /\ Fails(l, 1) => Verdict(l) = n1
      /\ ~Fails(l, 1) /\ Fails(l, 2) => Verdict(l) = n2
  BY <1>4, <1>5, <1>7 DEF Judges
<1>. QED
  BY <1>4, <1>5, <1>6, <1>8, Zenon DEF p1, p2, n1, n2, l

LEMMA HeaderChecksAre ==
    ASSUME NEW r, NEW h
    PROVE  LET l == HeaderChecks(r, h)
           IN /\ l \in Seq(CheckSet) /\ Len(l) = 4
              /\ (Fails(l, 1) <=> (BadText(r.headers[h]))) /\ l[1][2] = 400
              /\ (Fails(l, 2) <=> (SectionSize(r, h) > SectionLimit)) /\ l[2][2] = 431
              /\ (Fails(l, 3) <=> (r.headers[h][1] \notin DOMAIN HeaderKey)) /\ l[3][2] = 400
              /\ (Fails(l, 4) <=> (h > MaxHeaders)) /\ l[4][2] = 431
              /\ NoneFails(l) <=> ~Fails(l, 1) /\ ~Fails(l, 2) /\ ~Fails(l, 3) /\ ~Fails(l, 4)
              /\ Fails(l, 1) => Verdict(l) = 400
              /\ ~Fails(l, 1) /\ Fails(l, 2) => Verdict(l) = 431
              /\ ~Fails(l, 1) /\ ~Fails(l, 2) /\ Fails(l, 3) => Verdict(l) = 400
              /\ ~Fails(l, 1) /\ ~Fails(l, 2) /\ ~Fails(l, 3) /\ Fails(l, 4) => Verdict(l) = 431
<1>. DEFINE p1 == BadText(r.headers[h])
            p2 == SectionSize(r, h) > SectionLimit
            p3 == r.headers[h][1] \notin DOMAIN HeaderKey
            p4 == h > MaxHeaders
            n1 == 400
            n2 == 431
            n3 == 400
            n4 == 431
            l == HeaderChecks(r, h)
<1>1. p1 \in BOOLEAN /\ p2 \in BOOLEAN /\ p3 \in BOOLEAN /\ p4 \in BOOLEAN
  BY DEF BadText, IsHex
<1>2. n1 \in Nat /\ n2 \in Nat /\ n3 \in Nat /\ n4 \in Nat
  BY CodesAreNumbers
<1>3. l = << <<p1, n1>>, <<p2, n2>>, <<p3, n3>>, <<p4, n4>> >>
  BY Zenon DEF HeaderChecks
<1>. HIDE DEF p1, p2, p3, p4, n1, n2, n3, n4, l
<1>4. l \in Seq(CheckSet) /\ Len(l) = 4
  BY <1>1, <1>2, <1>3 DEF CheckSet
<1>5. /\ (Fails(l, 1) <=> p1) /\ l[1][2] = n1
      /\ (Fails(l, 2) <=> p2) /\ l[2][2] = n2
      /\ (Fails(l, 3) <=> p3) /\ l[3][2] = n3
      /\ (Fails(l, 4) <=> p4) /\ l[4][2] = n4
  BY <1>1, <1>2, <1>3 DEF Fails
<1>6. NoneFails(l) <=> ~Fails(l, 1) /\ ~Fails(l, 2) /\ ~Fails(l, 3) /\ ~Fails(l, 4)
  BY <1>4 DEF NoneFails
<1>7. Judges(l, 1) /\ Judges(l, 2) /\ Judges(l, 3) /\ Judges(l, 4)
  BY <1>4, ShortVerdict
<1>8. /\ Fails(l, 1) => Verdict(l) = n1
      /\ ~Fails(l, 1) /\ Fails(l, 2) => Verdict(l) = n2
      /\ ~Fails(l, 1) /\ ~Fails(l, 2) /\ Fails(l, 3) => Verdict(l) = n3
      /\ ~Fails(l, 1) /\ ~Fails(l, 2) /\ ~Fails(l, 3) /\ Fails(l, 4) => Verdict(l) = n4
  BY <1>4, <1>5, <1>7 DEF Judges
<1>. QED
  BY <1>4, <1>5, <1>6, <1>8, Zenon DEF p1, p2, p3, p4, n1, n2, n3, n4, l

LEMMA SectionChecksAre ==
    ASSUME NEW r
    PROVE  LET l == SectionChecks(r)
           IN /\ l \in Seq(CheckSet) /\ Len(l) = 1
              /\ (Fails(l, 1) <=> (SectionSize(r, Len(r.headers)) > SectionLimit)) /\ l[1][2] = 431
              /\ NoneFails(l) <=> ~Fails(l, 1)
              /\ Fails(l, 1) => Verdict(l) = 431
<1>. DEFINE p1 == SectionSize(r, Len(r.headers)) > SectionLimit
            n1 == 431
            l == SectionChecks(r)
<1>1. p1 \in BOOLEAN
  BY DEF BadText, IsHex
<1>2. n1 \in Nat
  BY CodesAreNumbers
<1>3. l = << <<p1, n1>> >>
  BY Zenon DEF SectionChecks
<1>. HIDE DEF p1, n1, l
<1>4. l \in Seq(CheckSet) /\ Len(l) = 1
  BY <1>1, <1>2, <1>3 DEF CheckSet
<1>5. /\ (Fails(l, 1) <=> p1) /\ l[1][2] = n1
  BY <1>1, <1>2, <1>3 DEF Fails
<1>6. NoneFails(l) <=> ~Fails(l, 1)
  BY <1>4 DEF NoneFails
<1>7. Judges(l, 1)
  BY <1>4, ShortVerdict
<1>8. /\ Fails(l, 1) => Verdict(l) = n1
  BY <1>4, <1>5, <1>7 DEF Judges
<1>. QED
  BY <1>4, <1>5, <1>6, <1>8, Zenon DEF p1, n1, l

Sized(r) == Fields(r) \cap Lengths # {}
Coded(r) == Fields(r) \cap {"chunked", "gzip"} # {}

LEMMA FieldChecksAre ==
    ASSUME NEW r
    PROVE  LET l == FieldChecks(r)
           IN /\ l \in Seq(CheckSet) /\ Len(l) = 5
              /\ (Fails(l, 1) <=> ("bad" \in Fields(r) \/ "host" \notin Fields(r))) /\ l[1][2] = 400
              /\ (Fails(l, 2) <=> ((Sized(r) /\ Coded(r)) \/ "clx" \in Fields(r))) /\ l[2][2] = 400
              /\ (Fails(l, 3) <=> (Word(r) \in Posts /\ ~(Sized(r) \/ "chunked" \in Fields(r)))) /\ l[3][2] = 411
              /\ (Fails(l, 4) <=> (Word(r) \notin Posts /\ (Sized(r) \/ "chunked" \in Fields(r)))) /\ l[4][2] = 400
              /\ (Fails(l, 5) <=> (Word(r) = "GETnoloc")) /\ l[5][2] = 404
              /\ NoneFails(l) <=> ~Fails(l, 1) /\ ~Fails(l, 2) /\ ~Fails(l, 3) /\ ~Fails(l, 4) /\ ~Fails(l, 5)
              /\ Fails(l, 1) => Verdict(l) = 400
              /\ ~Fails(l, 1) /\ Fails(l, 2) => Verdict(l) = 400
              /\ ~Fails(l, 1) /\ ~Fails(l, 2) /\ Fails(l, 3) => Verdict(l) = 411
              /\ ~Fails(l, 1) /\ ~Fails(l, 2) /\ ~Fails(l, 3) /\ Fails(l, 4) => Verdict(l) = 400
              /\ ~Fails(l, 1) /\ ~Fails(l, 2) /\ ~Fails(l, 3) /\ ~Fails(l, 4) /\ Fails(l, 5) => Verdict(l) = 404
<1>. DEFINE p1 == "bad" \in Fields(r) \/ "host" \notin Fields(r)
            p2 == (Sized(r) /\ Coded(r)) \/ "clx" \in Fields(r)
            p3 == Word(r) \in Posts /\ ~(Sized(r) \/ "chunked" \in Fields(r))
            p4 == Word(r) \notin Posts /\ (Sized(r) \/ "chunked" \in Fields(r))
            p5 == Word(r) = "GETnoloc"
            n1 == 400
            n2 == 400
            n3 == 411
            n4 == 400
            n5 == 404
            l == FieldChecks(r)
<1>1. p1 \in BOOLEAN /\ p2 \in BOOLEAN /\ p3 \in BOOLEAN /\ p4 \in BOOLEAN /\ p5 \in BOOLEAN
  BY DEF BadText, IsHex
<1>2. n1 \in Nat /\ n2 \in Nat /\ n3 \in Nat /\ n4 \in Nat /\ n5 \in Nat
  BY CodesAreNumbers
<1>3. l = << <<p1, n1>>, <<p2, n2>>, <<p3, n3>>, <<p4, n4>>, <<p5, n5>> >>
  BY Zenon DEF FieldChecks, Sized, Coded
<1>. HIDE DEF p1, p2, p3, p4, p5, n1, n2, n3, n4, n5, l
<1>4. l \in Seq(CheckSet) /\ Len(l) = 5
  BY <1>1, <1>2, <1>3 DEF CheckSet
<1>5. /\ (Fails(l, 1) <=> p1) /\ l[1][2] = n1
      /\ (Fails(l, 2) <=> p2) /\ l[2][2] = n2
      /\ (Fails(l, 3) <=> p3) /\ l[3][2] = n3
      /\ (Fails(l, 4) <=> p4) /\ l[4][2] = n4
      /\ (Fails(l, 5) <=> p5) /\ l[5][2] = n5
  BY <1>1, <1>2, <1>3 DEF Fails
<1>6. NoneFails(l) <=> ~Fails(l, 1) /\ ~Fails(l, 2) /\ ~Fails(l, 3) /\ ~Fails(l, 4) /\ ~Fails(l, 5)
  BY <1>4 DEF NoneFails
<1>7. Judges(l, 1) /\ Judges(l, 2) /\ Judges(l, 3) /\ Judges(l, 4) /\ Judges(l, 5)
  BY <1>4, ShortVerdict
<1>8. /\ Fails(l, 1) => Verdict(l) = n1
      /\ ~Fails(l, 1) /\ Fails(l, 2) => Verdict(l) = n2
      /\ ~Fails(l, 1) /\ ~Fails(l, 2) /\ Fails(l, 3) => Verdict(l) = n3
      /\ ~Fails(l, 1) /\ ~Fails(l, 2) /\ ~Fails(l, 3) /\ Fails(l, 4) => Verdict(l) = n4
      /\ ~Fails(l, 1) /\ ~Fails(l, 2) /\ ~Fails(l, 3) /\ ~Fails(l, 4) /\ Fails(l, 5) => Verdict(l) = n5
  BY <1>4, <1>5, <1>7 DEF Judges
<1>. QED
  BY <1>4, <1>5, <1>6, <1>8, Zenon DEF p1, p2, p3, p4, p5, n1, n2, n3, n4, n5, l

LEMMA BodyChecksAre ==
    ASSUME NEW r, NEW conflict
    PROVE  LET l == BodyChecks(r, conflict)
           IN /\ l \in Seq(CheckSet) /\ Len(l) = 2
              /\ (Fails(l, 1) <=> (Word(r) = "POST" /\ conflict)) /\ l[1][2] = 409
              /\ (Fails(l, 2) <=> (Word(r) = "POST" /\ r.chunks = <<>> /\ Len(r.body) > BodyLimit)) /\ l[2][2] = 413
              /\ NoneFails(l) <=> ~Fails(l, 1) /\ ~Fails(l, 2)
              /\ Fails(l, 1) => Verdict(l) = 409
              /\ ~Fails(l, 1) /\ Fails(l, 2) => Verdict(l) = 413
<1>. DEFINE p1 == Word(r) = "POST" /\ conflict
            p2 == Word(r) = "POST" /\ r.chunks = <<>> /\ Len(r.body) > BodyLimit
            n1 == 409
            n2 == 413
            l == BodyChecks(r, conflict)
<1>1. p1 \in BOOLEAN /\ p2 \in BOOLEAN
  BY DEF BadText, IsHex
<1>2. n1 \in Nat /\ n2 \in Nat
  BY CodesAreNumbers
<1>3. l = << <<p1, n1>>, <<p2, n2>> >>
  BY Zenon DEF BodyChecks
<1>. HIDE DEF p1, p2, n1, n2, l
<1>4. l \in Seq(CheckSet) /\ Len(l) = 2
  BY <1>1, <1>2, <1>3 DEF CheckSet
<1>5. /\ (Fails(l, 1) <=> p1) /\ l[1][2] = n1
      /\ (Fails(l, 2) <=> p2) /\ l[2][2] = n2
  BY <1>1, <1>2, <1>3 DEF Fails
<1>6. NoneFails(l) <=> ~Fails(l, 1) /\ ~Fails(l, 2)
  BY <1>4 DEF NoneFails
<1>7. Judges(l, 1) /\ Judges(l, 2)
  BY <1>4, ShortVerdict
<1>8. /\ Fails(l, 1) => Verdict(l) = n1
      /\ ~Fails(l, 1) /\ Fails(l, 2) => Verdict(l) = n2
  BY <1>4, <1>5, <1>7 DEF Judges
<1>. QED
  BY <1>4, <1>5, <1>6, <1>8, Zenon DEF p1, p2, n1, n2, l

(* What may be wrong with a chunk.                                          *)
NoSize(r, j) == BadText(r.chunks[j].size) \/ ~IsHex(r.chunks[j].size)
TooLong(r, j) ==
    Word(r) = "POST" /\ Len(Payload([r EXCEPT !.chunks = SubSeq(@, 1, j)])) > BodyLimit
Misfit(r, j) ==
    IsHex(r.chunks[j].size) /\ HexValue(r.chunks[j].size) # Len(r.chunks[j].data)

LEMMA ChunkChecksAre ==
    ASSUME NEW r, NEW j
    PROVE  LET l == ChunkChecks(r, j)
           IN /\ l \in Seq(CheckSet) /\ Len(l) = 3
              /\ (Fails(l, 1) <=> (NoSize(r, j))) /\ l[1][2] = 400
              /\ (Fails(l, 2) <=> (TooLong(r, j))) /\ l[2][2] = 413
              /\ (Fails(l, 3) <=> (Misfit(r, j))) /\ l[3][2] = 400
              /\ NoneFails(l) <=> ~Fails(l, 1) /\ ~Fails(l, 2) /\ ~Fails(l, 3)
              /\ Fails(l, 1) => Verdict(l) = 400
              /\ ~Fails(l, 1) /\ Fails(l, 2) => Verdict(l) = 413
              /\ ~Fails(l, 1) /\ ~Fails(l, 2) /\ Fails(l, 3) => Verdict(l) = 400
<1>. DEFINE p1 == NoSize(r, j)
            p2 == TooLong(r, j)
            p3 == Misfit(r, j)
            n1 == 400
            n2 == 413
            n3 == 400
            l == ChunkChecks(r, j)
<1>1. p1 \in BOOLEAN /\ p2 \in BOOLEAN /\ p3 \in BOOLEAN
  BY DEF NoSize, TooLong, Misfit
<1>2. n1 \in Nat /\ n2 \in Nat /\ n3 \in Nat
  BY CodesAreNumbers
<1>3. l = << <<p1, n1>>, <<p2, n2>>, <<p3, n3>> >>
  BY Zenon DEF ChunkChecks, NoSize, TooLong, Misfit
<1>. HIDE DEF p1, p2, p3, n1, n2, n3, l
<1>4. l \in Seq(CheckSet) /\ Len(l) = 3
  BY <1>1, <1>2, <1>3 DEF CheckSet
<1>5. /\ (Fails(l, 1) <=> p1) /\ l[1][2] = n1
      /\ (Fails(l, 2) <=> p2) /\ l[2][2] = n2
      /\ (Fails(l, 3) <=> p3) /\ l[3][2] = n3
  BY <1>1, <1>2, <1>3 DEF Fails
<1>6. NoneFails(l) <=> ~Fails(l, 1) /\ ~Fails(l, 2) /\ ~Fails(l, 3)
  BY <1>4 DEF NoneFails
<1>7. Judges(l, 1) /\ Judges(l, 2) /\ Judges(l, 3)
  BY <1>4, ShortVerdict
<1>8. /\ Fails(l, 1) => Verdict(l) = n1
      /\ ~Fails(l, 1) /\ Fails(l, 2) => Verdict(l) = n2
      /\ ~Fails(l, 1) /\ ~Fails(l, 2) /\ Fails(l, 3) => Verdict(l) = n3
  BY <1>4, <1>5, <1>7 DEF Judges
<1>. QED
  BY <1>4, <1>5, <1>6, <1>8, Zenon DEF p1, p2, p3, n1, n2, n3, l

(* The lists that Checks is made of.                                        *)
LEMMA ChecksAreTyped ==
    ASSUME NEW r \in ClientRequests, NEW conflict \in BOOLEAN
    PROVE  /\ LineChecks(r) \in Seq(CheckSet)
           /\ HeaderLists(r) \in Seq(Seq(CheckSet)) /\ Len(HeaderLists(r)) = Len(r.headers)
           /\ \A i \in 1 .. Len(r.headers) : HeaderLists(r)[i] = HeaderChecks(r, i)
           /\ SectionChecks(r) \in Seq(CheckSet)
           /\ FieldChecks(r) \in Seq(CheckSet)
           /\ BodyChecks(r, conflict) \in Seq(CheckSet)
           /\ ChunkCheckLists(r) \in Seq(Seq(CheckSet))
           /\ Len(ChunkCheckLists(r)) = Len(r.chunks)
           /\ \A j \in 1 .. Len(r.chunks) : ChunkCheckLists(r)[j] = ChunkChecks(r, j)
<1>1. /\ DOMAIN r.headers = 1 .. Len(r.headers) /\ Len(r.headers) \in Nat
      /\ DOMAIN r.chunks = 1 .. Len(r.chunks) /\ Len(r.chunks) \in Nat
  BY WiresAreTyped
<1>2. /\ HeaderLists(r) \in Seq(Seq(CheckSet)) /\ Len(HeaderLists(r)) = Len(r.headers)
      /\ \A i \in 1 .. Len(r.headers) : HeaderLists(r)[i] = HeaderChecks(r, i)
  BY <1>1, HeaderChecksAre, FunctionIsSeq DEF HeaderLists
<1>3. /\ ChunkCheckLists(r) \in Seq(Seq(CheckSet))
      /\ Len(ChunkCheckLists(r)) = Len(r.chunks)
      /\ \A j \in 1 .. Len(r.chunks) : ChunkCheckLists(r)[j] = ChunkChecks(r, j)
  <2>1. \A j : ChunkChecks(r, j) \in Seq(CheckSet)
    BY ChunkChecksAre, Zenon
  <2>. QED
    BY <1>1, <2>1, FunctionIsSeq DEF ChunkCheckLists
<1>4. LineChecks(r) \in Seq(CheckSet)
  BY LineChecksAre, Zenon
<1>5. SectionChecks(r) \in Seq(CheckSet) /\ FieldChecks(r) \in Seq(CheckSet)
  BY SectionChecksAre, FieldChecksAre, ZenonT(40)
<1>6. BodyChecks(r, conflict) \in Seq(CheckSet)
  BY BodyChecksAre, ZenonT(40)
<1>. QED
  BY <1>2, <1>3, <1>4, <1>5, <1>6

(* The first of these lists in which a check fails gives the verdict.       *)
LEMMA ChecksVerdict ==
    ASSUME NEW r \in ClientRequests, NEW conflict \in BOOLEAN
    PROVE  LET v == Verdict(Checks(r, conflict))
               a == LineChecks(r)
               b == FlattenSeq(HeaderLists(r))
               c == SectionChecks(r)
               d == FieldChecks(r)
               e == BodyChecks(r, conflict)
               f == FlattenSeq(ChunkCheckLists(r))
           IN /\ ~NoneFails(a) => v = Verdict(a)
              /\ NoneFails(a) /\ ~NoneFails(b) => v = Verdict(b)
              /\ NoneFails(a) /\ NoneFails(b) /\ ~NoneFails(c) => v = Verdict(c)
              /\ NoneFails(a) /\ NoneFails(b) /\ NoneFails(c) /\ ~NoneFails(d) => v = Verdict(d)
              /\ NoneFails(a) /\ NoneFails(b) /\ NoneFails(c) /\ NoneFails(d)
                   /\ ~NoneFails(e) => v = Verdict(e)
              /\ NoneFails(a) /\ NoneFails(b) /\ NoneFails(c) /\ NoneFails(d)
                   /\ NoneFails(e) => v = Verdict(f)
<1>. DEFINE a == LineChecks(r)
            b == FlattenSeq(HeaderLists(r))
            c == SectionChecks(r)
            d == FieldChecks(r)
            e == BodyChecks(r, conflict)
            f == FlattenSeq(ChunkCheckLists(r))
<1>1. /\ a \in Seq(CheckSet) /\ b \in Seq(CheckSet) /\ c \in Seq(CheckSet)
      /\ d \in Seq(CheckSet) /\ e \in Seq(CheckSet) /\ f \in Seq(CheckSet)
  BY ChecksAreTyped, FlattenType
<1>2. Checks(r, conflict) = ((((a \o b) \o c) \o d) \o e) \o f
  BY Zenon DEF Checks, LineChecks, HeaderLists, SectionChecks, BodyChecks, ChunkCheckLists
<1>. HIDE DEF a, b, c, d, e, f
<1>. DEFINE ab == a \o b
            abc == ab \o c
            abcd == abc \o d
            abcde == abcd \o e
<1>3. /\ ab \in Seq(CheckSet) /\ (NoneFails(ab) <=> NoneFails(a) /\ NoneFails(b))
      /\ NoneFails(a) => Verdict(ab) = Verdict(b)
      /\ ~NoneFails(a) => Verdict(ab) = Verdict(a)
  BY <1>1, VerdictConcat, Zenon
<1>. HIDE DEF ab
<1>4. /\ abc \in Seq(CheckSet) /\ (NoneFails(abc) <=> NoneFails(ab) /\ NoneFails(c))
      /\ NoneFails(ab) => Verdict(abc) = Verdict(c)
      /\ ~NoneFails(ab) => Verdict(abc) = Verdict(ab)
  BY <1>1, <1>3, VerdictConcat, Zenon
<1>. HIDE DEF abc
<1>5. /\ abcd \in Seq(CheckSet) /\ (NoneFails(abcd) <=> NoneFails(abc) /\ NoneFails(d))
      /\ NoneFails(abc) => Verdict(abcd) = Verdict(d)
      /\ ~NoneFails(abc) => Verdict(abcd) = Verdict(abc)
  BY <1>1, <1>4, VerdictConcat, Zenon
<1>. HIDE DEF abcd
<1>6. /\ abcde \in Seq(CheckSet) /\ (NoneFails(abcde) <=> NoneFails(abcd) /\ NoneFails(e))
      /\ NoneFails(abcd) => Verdict(abcde) = Verdict(e)
      /\ ~NoneFails(abcd) => Verdict(abcde) = Verdict(abcd)
  BY <1>1, <1>5, VerdictConcat, Zenon
<1>. HIDE DEF abcde
<1>7. /\ NoneFails(abcde) => Verdict(abcde \o f) = Verdict(f)
      /\ ~NoneFails(abcde) => Verdict(abcde \o f) = Verdict(abcde)
  BY <1>1, <1>6, VerdictConcat, Zenon
<1>8. Checks(r, conflict) = abcde \o f
  BY <1>2 DEF abcde, abcd, abc, ab
<1>. QED
  BY <1>3, <1>4, <1>5, <1>6, <1>7, <1>8 DEF a, b, c, d, e, f

-----------------------------------------------------------------------------
(* What a request deserves, by the first thing that is wrong with it.       *)

-----------------------------------------------------------------------------
(* What a request deserves, by the first thing that is wrong with it.       *)

(* What a request line deserves.                                            *)
LEMMA LineJudged ==
    ASSUME NEW r \in ClientRequests, NEW u \in BOOLEAN
    PROVE  LET l == LineChecks(r)
           IN /\ NoneFails(l) <=> LinePassed(r)
              /\ Fails(l, 1) => Verdict(Checks(r, u)) = 400
              /\ ~Fails(l, 1) /\ Fails(l, 2) => Verdict(Checks(r, u)) = FirstLineStatus(r.line)
<1>. DEFINE l == LineChecks(r)
            v == Verdict(Checks(r, u))
<1>1. ~NoneFails(l) => v = Verdict(l)
  BY ChecksVerdict, Zenon
<1>2. /\ NoneFails(l) <=> ~Fails(l, 1) /\ ~Fails(l, 2)
      /\ Fails(l, 1) => Verdict(l) = 400
      /\ ~Fails(l, 1) /\ Fails(l, 2) => Verdict(l) = FirstLineStatus(r.line)
  BY LineChecksAre, ZenonT(40)
<1>3. NoneFails(l) <=> LinePassed(r)
  BY <1>2, LineChecksAre, ZenonT(40) DEF LinePassed
<1>. QED
  BY <1>1, <1>2, <1>3, Zenon

(* The size of the header section grows line by line.                       *)
LEMMA SectionSizes ==
    ASSUME NEW r \in ClientRequests
    PROVE  /\ SectionSize(r, 0) = Len(r.line)
           /\ \A h \in 0 .. Len(r.headers) : SectionSize(r, h) \in Nat
           /\ \A h \in 0 .. Len(r.headers) - 1 :
                SectionSize(r, h + 1) = SectionSize(r, h) + Len(r.headers[h + 1])
<1>. DEFINE n(h) == Len(FirstOf(r.headers, h))
            l == Len(r.line)
<1>1. /\ r.line \in Seq(Symbols) /\ r.headers \in Seq(Seq(Symbols))
      /\ Len(r.headers) \in Nat /\ l \in Nat
  BY WiresAreTyped DEF ClientRequests
<1>2. \A h \in 0 .. Len(r.headers) : FirstOf(r.headers, h) \in Seq(Symbols) /\ n(h) \in Nat
  BY <1>1, FirstOfType
<1>3. \A h \in 0 .. Len(r.headers) : SectionSize(r, h) = l + n(h)
  BY <1>1, <1>2, ConcatLen DEF SectionSize, FirstOf
<1>4. n(0) = 0
  BY <1>1, FirstOfSteps
<1>5. ASSUME NEW h \in 0 .. Len(r.headers) - 1
      PROVE  /\ h + 1 \in 0 .. Len(r.headers) /\ h \in 0 .. Len(r.headers)
             /\ r.headers[h + 1] \in Seq(Symbols) /\ Len(r.headers[h + 1]) \in Nat
             /\ n(h + 1) = n(h) + Len(r.headers[h + 1])
  <2>1. h + 1 \in 0 .. Len(r.headers) /\ h \in 0 .. Len(r.headers) /\ h + 1 \in DOMAIN r.headers
    BY <1>1
  <2>2. r.headers[h + 1] \in Seq(Symbols)
    BY <1>1, <2>1
  <2>3. FirstOf(r.headers, h + 1) = FirstOf(r.headers, h) \o r.headers[h + 1]
    BY <1>1, FirstOfSteps
  <2>. QED
    BY <1>2, <2>1, <2>2, <2>3, ConcatLen
<1>. HIDE DEF n, l
<1>6. ASSUME NEW h \in 0 .. Len(r.headers) - 1
      PROVE  SectionSize(r, h + 1) = SectionSize(r, h) + Len(r.headers[h + 1])
  <2>. DEFINE m == Len(r.headers[h + 1])
  <2>1. /\ SectionSize(r, h + 1) = l + n(h + 1) /\ SectionSize(r, h) = l + n(h)
        /\ n(h + 1) = n(h) + m /\ n(h) \in Nat /\ m \in Nat
    BY <1>2, <1>3, <1>5
  <2>. HIDE DEF m
  <2>2. SectionSize(r, h + 1) = SectionSize(r, h) + m
    BY <1>1, <2>1
  <2>. QED
    BY <2>2 DEF m
<1>. QED
  BY <1>1, <1>2, <1>3, <1>4, <1>6 DEF l

(* A header field that passes.                                              *)
LEMMA HeaderJudged ==
    ASSUME NEW r \in ClientRequests, NEW h \in 1 .. Len(r.headers)
    PROVE  NoneFails(HeaderChecks(r, h)) <=> HeaderPassed(r, h)
<1>1. ~(SectionSize(r, h) > SectionLimit) <=> SectionSize(r, h) <= SectionLimit
  BY SectionSizes, WiresAreTyped, LimitsAssumption
<1>2. ~(h > MaxHeaders) <=> h <= MaxHeaders
  BY WiresAreTyped, LimitsAssumption
<1>. DEFINE l == HeaderChecks(r, h)
            a == BadText(r.headers[h])
            b == SectionSize(r, h) > SectionLimit
            c == r.headers[h][1] \notin DOMAIN HeaderKey
            d == h > MaxHeaders
<1>3. NoneFails(l) <=> ~Fails(l, 1) /\ ~Fails(l, 2) /\ ~Fails(l, 3) /\ ~Fails(l, 4)
  BY HeaderChecksAre, ZenonT(40)
<1>4. Fails(l, 1) <=> a
  BY HeaderChecksAre
<1>5. Fails(l, 2) <=> b
  BY HeaderChecksAre, ZenonT(40)
<1>6. Fails(l, 3) <=> c
  BY HeaderChecksAre, ZenonT(40)
<1>7. Fails(l, 4) <=> d
  BY HeaderChecksAre, ZenonT(40)
<1>8. HeaderPassed(r, h) <=> ~a /\ ~b /\ ~c /\ ~d
  BY <1>1, <1>2, Zenon DEF HeaderPassed
<1>. HIDE DEF a, b, c, d, l
<1>9. NoneFails(l) <=> HeaderPassed(r, h)
  BY <1>3, <1>4, <1>5, <1>6, <1>7, <1>8, Zenon
<1>. QED
  BY <1>9 DEF l

(* What the first header field that fails deserves.                         *)
LEMMA HeaderDeserves ==
    ASSUME NEW r \in ClientRequests, NEW u \in BOOLEAN, LinePassed(r),
           NEW h \in 0 .. Len(r.headers) - 1, \A i \in 1 .. h : HeaderPassed(r, i)
    PROVE  LET l == HeaderChecks(r, h + 1)
               v == Verdict(Checks(r, u))
           IN /\ Fails(l, 1) => v = 400
              /\ ~Fails(l, 1) /\ Fails(l, 2) => v = 431
              /\ ~Fails(l, 1) /\ ~Fails(l, 2) /\ Fails(l, 3) => v = 400
              /\ ~Fails(l, 1) /\ ~Fails(l, 2) /\ ~Fails(l, 3) /\ Fails(l, 4) => v = 431
<1>. DEFINE l == HeaderChecks(r, h + 1)
            v == Verdict(Checks(r, u))
            seqs == HeaderLists(r)
            b == FlattenSeq(seqs)
<1>1. Len(r.headers) \in Nat /\ h \in 0 .. Len(r.headers) /\ h + 1 \in 1 .. Len(r.headers)
  BY WiresAreTyped
<1>2. /\ seqs \in Seq(Seq(CheckSet)) /\ Len(seqs) = Len(r.headers)
      /\ \A i \in 1 .. Len(r.headers) : seqs[i] = HeaderChecks(r, i)
  BY ChecksAreTyped
<1>3. \A i \in 1 .. h : NoneFails(seqs[i])
  <2>. SUFFICES ASSUME NEW i \in 1 .. h PROVE NoneFails(seqs[i])
    OBVIOUS
  <2>1. i \in 1 .. Len(r.headers) /\ HeaderPassed(r, i)
    BY <1>1
  <2>. HIDE DEF seqs
  <2>. QED
    BY <1>2, <2>1, HeaderJudged
<1>4. NoneFails(LineChecks(r))
  BY LineJudged, Zenon
<1>5. ~NoneFails(b) => v = Verdict(b)
  BY <1>4, ChecksVerdict, Zenon
<1>6. ~NoneFails(l) => ~NoneFails(b) /\ Verdict(b) = Verdict(l)
  <2>. HIDE DEF seqs
  <2>1. h \in 0 .. Len(seqs) /\ h < Len(seqs) /\ seqs[h + 1] = l
    BY <1>1, <1>2
  <2>. QED
    BY <1>2, <1>3, <2>1, VerdictFlatten
<1>7. ~NoneFails(l) => v = Verdict(l)
  BY <1>5, <1>6, Zenon
<1>8. /\ NoneFails(l) <=> ~Fails(l, 1) /\ ~Fails(l, 2) /\ ~Fails(l, 3) /\ ~Fails(l, 4)
      /\ Fails(l, 1) => Verdict(l) = 400
      /\ ~Fails(l, 1) /\ Fails(l, 2) => Verdict(l) = 431
      /\ ~Fails(l, 1) /\ ~Fails(l, 2) /\ Fails(l, 3) => Verdict(l) = 400
      /\ ~Fails(l, 1) /\ ~Fails(l, 2) /\ ~Fails(l, 3) /\ Fails(l, 4) => Verdict(l) = 431
  BY HeaderChecksAre
<1>. HIDE DEF l, v
<1>9. /\ Fails(l, 1) => v = 400
      /\ ~Fails(l, 1) /\ Fails(l, 2) => v = 431
      /\ ~Fails(l, 1) /\ ~Fails(l, 2) /\ Fails(l, 3) => v = 400
      /\ ~Fails(l, 1) /\ ~Fails(l, 2) /\ ~Fails(l, 3) /\ Fails(l, 4) => v = 431
  BY <1>7, <1>8
<1>. QED
  BY <1>9 DEF l, v

(* The line and all header fields pass.                                     *)
FieldsPassed(r) ==
    LinePassed(r) /\ \A i \in 1 .. Len(r.headers) : HeaderPassed(r, i)

(* All header fields pass.                                                  *)
LEMMA HeadersNone ==
    ASSUME NEW r \in ClientRequests, FieldsPassed(r)
    PROVE  NoneFails(LineChecks(r)) /\ NoneFails(FlattenSeq(HeaderLists(r)))
<1>. DEFINE seqs == HeaderLists(r)
<1>1. /\ seqs \in Seq(Seq(CheckSet)) /\ Len(seqs) = Len(r.headers)
      /\ \A i \in 1 .. Len(r.headers) : seqs[i] = HeaderChecks(r, i)
  BY ChecksAreTyped
<1>2. \A i \in 1 .. Len(seqs) : NoneFails(seqs[i])
  <2>. HIDE DEF seqs
  <2>. QED
    BY <1>1, HeaderJudged DEF FieldsPassed
<1>3. Len(seqs) \in 0 .. Len(seqs)
  BY <1>1, WiresAreTyped
<1>4. NoneFails(LineChecks(r))
  BY LineJudged, Zenon DEF FieldsPassed
<1>. HIDE DEF seqs
<1>5. NoneFails(FlattenSeq(seqs))
  BY <1>1, <1>2, <1>3, VerdictFlatten
<1>. QED
  BY <1>4, <1>5 DEF seqs

(* What a header section that is too long deserves.                         *)
LEMMA SectionDeserves ==
    ASSUME NEW r \in ClientRequests, NEW u \in BOOLEAN, FieldsPassed(r)
    PROVE  /\ NoneFails(SectionChecks(r)) <=> SectionSize(r, Len(r.headers)) <= SectionLimit
           /\ SectionSize(r, Len(r.headers)) > SectionLimit => Verdict(Checks(r, u)) = 431
<1>. DEFINE l == SectionChecks(r)
            v == Verdict(Checks(r, u))
            b == SectionSize(r, Len(r.headers)) > SectionLimit
<1>1. ~b <=> SectionSize(r, Len(r.headers)) <= SectionLimit
  <2>1. Len(r.headers) \in 0 .. Len(r.headers)
    BY WiresAreTyped
  <2>2. SectionSize(r, Len(r.headers)) \in Nat
    BY <2>1, SectionSizes
  <2>. QED
    BY <2>2, LimitsAssumption
<1>2. ~NoneFails(l) => v = Verdict(l)
  BY HeadersNone, ChecksVerdict, Zenon
<1>3. Fails(l, 1) <=> b
  BY SectionChecksAre
<1>4. NoneFails(l) <=> ~Fails(l, 1)
  BY SectionChecksAre
<1>5. Fails(l, 1) => Verdict(l) = 431
  BY SectionChecksAre
<1>. QED
  BY <1>1, <1>2, <1>3, <1>4, <1>5, Zenon

(* So does the size of the section.                                         *)
SectionPassed(r) == FieldsPassed(r) /\ SectionSize(r, Len(r.headers)) <= SectionLimit

(* What the fields as a whole deserve.                                      *)
LEMMA FieldsDeserve ==
    ASSUME NEW r \in ClientRequests, NEW u \in BOOLEAN, SectionPassed(r)
    PROVE  LET l == FieldChecks(r)
               v == Verdict(Checks(r, u))
           IN /\ Fails(l, 1) => v = 400
              /\ ~Fails(l, 1) /\ Fails(l, 2) => v = 400
              /\ ~Fails(l, 1) /\ ~Fails(l, 2) /\ Fails(l, 3) => v = 411
              /\ ~Fails(l, 1) /\ ~Fails(l, 2) /\ ~Fails(l, 3) /\ Fails(l, 4) => v = 400
              /\ ~Fails(l, 1) /\ ~Fails(l, 2) /\ ~Fails(l, 3) /\ ~Fails(l, 4) /\ Fails(l, 5) => v = 404
<1>. DEFINE l == FieldChecks(r)
            v == Verdict(Checks(r, u))
<1>1. FieldsPassed(r) /\ NoneFails(SectionChecks(r))
  BY SectionDeserves, Zenon DEF SectionPassed
<1>2. ~NoneFails(l) => v = Verdict(l)
  BY <1>1, HeadersNone, ChecksVerdict, Zenon
<1>3. NoneFails(l) <=> ~Fails(l, 1) /\ ~Fails(l, 2) /\ ~Fails(l, 3) /\ ~Fails(l, 4) /\ ~Fails(l, 5)
  BY FieldChecksAre
<1>4. /\ Fails(l, 1) => Verdict(l) = 400
      /\ ~Fails(l, 1) /\ Fails(l, 2) => Verdict(l) = 400
      /\ ~Fails(l, 1) /\ ~Fails(l, 2) /\ Fails(l, 3) => Verdict(l) = 411
      /\ ~Fails(l, 1) /\ ~Fails(l, 2) /\ ~Fails(l, 3) /\ Fails(l, 4) => Verdict(l) = 400
      /\ ~Fails(l, 1) /\ ~Fails(l, 2) /\ ~Fails(l, 3) /\ ~Fails(l, 4) /\ Fails(l, 5) => Verdict(l) = 404
  BY FieldChecksAre
<1>. HIDE DEF l, v
<1>5. /\ Fails(l, 1) => v = 400
      /\ ~Fails(l, 1) /\ Fails(l, 2) => v = 400
      /\ ~Fails(l, 1) /\ ~Fails(l, 2) /\ Fails(l, 3) => v = 411
      /\ ~Fails(l, 1) /\ ~Fails(l, 2) /\ ~Fails(l, 3) /\ Fails(l, 4) => v = 400
      /\ ~Fails(l, 1) /\ ~Fails(l, 2) /\ ~Fails(l, 3) /\ ~Fails(l, 4) /\ Fails(l, 5) => v = 404
  BY <1>2, <1>3, <1>4
<1>. QED
  BY <1>5 DEF l, v

(* So do the fields.                                                        *)
BodyWanted(r) == SectionPassed(r) /\ NoneFails(FieldChecks(r))

(* What the wish to send a body deserves.                                   *)
LEMMA BodyDeserves ==
    ASSUME NEW r \in ClientRequests, NEW u \in BOOLEAN, BodyWanted(r)
    PROVE  LET l == BodyChecks(r, u)
               v == Verdict(Checks(r, u))
           IN /\ NoneFails(l) <=> ~Fails(l, 1) /\ ~Fails(l, 2)
              /\ Fails(l, 1) => v = 409
              /\ ~Fails(l, 1) /\ Fails(l, 2) => v = 413
<1>. DEFINE l == BodyChecks(r, u)
            v == Verdict(Checks(r, u))
<1>1. /\ FieldsPassed(r) /\ NoneFails(SectionChecks(r)) /\ NoneFails(FieldChecks(r))
  BY SectionDeserves, Zenon DEF SectionPassed, BodyWanted
<1>2. ~NoneFails(l) => v = Verdict(l)
  BY <1>1, HeadersNone, ChecksVerdict, Zenon
<1>3. NoneFails(l) <=> ~Fails(l, 1) /\ ~Fails(l, 2)
  BY BodyChecksAre
<1>4. /\ Fails(l, 1) => Verdict(l) = 409
      /\ ~Fails(l, 1) /\ Fails(l, 2) => Verdict(l) = 413
  BY BodyChecksAre
<1>. HIDE DEF l, v
<1>5. /\ NoneFails(l) <=> ~Fails(l, 1) /\ ~Fails(l, 2)
      /\ Fails(l, 1) => v = 409
      /\ ~Fails(l, 1) /\ Fails(l, 2) => v = 413
  BY <1>2, <1>3, <1>4
<1>. QED
  BY <1>5 DEF l, v

(* So do the place and the announced length of the body.                    *)
BodyTaken(r, u) == BodyWanted(r) /\ NoneFails(BodyChecks(r, u))

(* What the first chunk that fails deserves; 200 if none does.              *)
LEMMA ChunkDeserves ==
    ASSUME NEW r \in ClientRequests, NEW u \in BOOLEAN, BodyTaken(r, u),
           NEW n \in 0 .. Len(r.chunks), \A i \in 1 .. n : ChunkPassed(r, i)
    PROVE  LET l == ChunkChecks(r, n + 1)
               v == Verdict(Checks(r, u))
           IN /\ n = Len(r.chunks) => v = HTTP_OK
              /\ n < Len(r.chunks) => /\ Fails(l, 1) => v = 400
                                      /\ ~Fails(l, 1) /\ Fails(l, 2) => v = 413
<1>. DEFINE l == ChunkChecks(r, n + 1)
            v == Verdict(Checks(r, u))
            seqs == ChunkCheckLists(r)
            b == FlattenSeq(seqs)
<1>1. Len(r.chunks) \in Nat
  BY WiresAreTyped
<1>2. /\ seqs \in Seq(Seq(CheckSet)) /\ Len(seqs) = Len(r.chunks)
      /\ \A i \in 1 .. Len(r.chunks) : seqs[i] = ChunkChecks(r, i)
  BY ChecksAreTyped
<1>3. ASSUME NEW i \in 1 .. n PROVE NoneFails(seqs[i])
  <2>. DEFINE k == ChunkChecks(r, i)
  <2>1. i \in 1 .. Len(r.chunks) /\ 1 \in 1 .. 3 /\ 2 \in 1 .. 3 /\ 3 \in 1 .. 3
    BY <1>1
  <2>2. ~Fails(k, 1) /\ ~Fails(k, 2) /\ ~Fails(k, 3)
    BY <2>1, Zenon DEF ChunkPassed, Fails
  <2>3. NoneFails(k)
    BY <2>2, ChunkChecksAre
  <2>. QED
    BY <1>2, <2>1, <2>3, Zenon
<1>4. /\ FieldsPassed(r) /\ NoneFails(SectionChecks(r)) /\ NoneFails(FieldChecks(r))
      /\ NoneFails(BodyChecks(r, u))
  BY SectionDeserves, Zenon DEF SectionPassed, BodyWanted, BodyTaken
<1>5. v = Verdict(b)
  BY <1>4, HeadersNone, ChecksVerdict, Zenon
<1>6. /\ NoneFails(l) <=> ~Fails(l, 1) /\ ~Fails(l, 2) /\ ~Fails(l, 3)
      /\ Fails(l, 1) => Verdict(l) = 400
      /\ ~Fails(l, 1) /\ Fails(l, 2) => Verdict(l) = 413
  BY ChunkChecksAre
<1>7. /\ b \in Seq(CheckSet) /\ (n = Len(r.chunks) => NoneFails(b))
      /\ n < Len(r.chunks) /\ ~NoneFails(l) => Verdict(b) = Verdict(l)
  <2>. HIDE DEF seqs
  <2>1. n \in 0 .. Len(seqs) /\ (n < Len(r.chunks) => n + 1 \in 1 .. Len(r.chunks))
    BY <1>1, <1>2
  <2>2. n < Len(r.chunks) => seqs[n + 1] = l
    BY <1>2, <2>1
  <2>. QED
    BY <1>2, <1>3, <2>1, <2>2, VerdictFlatten
<1>8. n = Len(r.chunks) => v = HTTP_OK
  BY <1>5, <1>7, VerdictNone, Zenon
<1>. HIDE DEF l, v, b
<1>9. n < Len(r.chunks) => /\ Fails(l, 1) => v = 400
                           /\ ~Fails(l, 1) /\ Fails(l, 2) => v = 413
  BY <1>5, <1>6, <1>7
<1>. QED
  BY <1>8, <1>9 DEF l, v

-----------------------------------------------------------------------------
(* What a step that neither answers nor touches the network leaves alone.   *)

LEMMA Frame ==
    ASSUME UNCHANGED <<script, answers>>
    PROVE  /\ Current' = Current
           /\ EndOf(Len(answers))' = EndOf(Len(answers))
           /\ Stream(script)' = Stream(script)
           /\ UploadedBy(Len(answers))' = UploadedBy(Len(answers))
           /\ UploadedBy(Len(answers) + 1)' = UploadedBy(Len(answers) + 1)
           /\ AnswersFit' <=> AnswersFit
           /\ ended' = ended => (EndIsForAFile' <=> EndIsForAFile)
BY DEF Current, EndOf, UploadedBy, AnswersFit, EndIsForAFile, Reference

(* Nor does it change what the request deserves.                            *)
LEMMA VerdictFrame ==
    ASSUME UNCHANGED <<script, answers>>, NEW r, NEW n
    PROVE  /\ Deserved(r)' = Deserved(r)
           /\ RightStatus(r, n)' <=> RightStatus(r, n)
<1>1. Deserved(r)' = Deserved(r)
  BY DEF Deserved, UploadedBy
<1>. QED
  BY <1>1 DEF RightStatus

(* The request that is read is a request of the script, and well written.   *)
LEMMA CurrentIsGood ==
    ASSUME TypeOK, InPlace, ClientWritesWell, Len(answers) < Len(script)
    PROVE  /\ Len(answers) \in 0 .. Len(script) - 1 /\ Len(script) \in Nat
           /\ Current \in ClientRequests /\ WellWritten(Current) /\ ~FinalLine
           /\ EndOf(Len(answers)) \in Nat /\ Taken \in Int
           /\ Taken = EndOf(Len(answers)) + Offset
           /\ EndOf(Len(answers) + 1) = EndOf(Len(answers)) + Len(Wire(Current))
<1>1. Len(answers) \in Nat /\ Len(script) \in Nat
  BY StreamParts DEF InPlace
<1>2. Len(answers) \in 0 .. Len(script) - 1 /\ Len(answers) \in 0 .. Len(script)
  BY <1>1
<1>3. Current \in ClientRequests
  BY <1>2, StreamParts DEF Current
<1>4. WellWritten(Current) /\ ~FinalLine
  <2>1. script \in Scripts /\ Len(answers) + 1 \in 1 .. Len(script)
    BY <1>2 DEF TypeOK
  <2>. QED
    BY <2>1 DEF ClientWritesWell, Current
<1>5. EndOf(Len(answers)) \in Nat
  BY <1>2, StreamParts
<1>6. Taken \in Int
  BY DEF TypeOK, Taken
<1>7. Taken = EndOf(Len(answers)) + Offset
  BY <1>5, <1>6 DEF Offset
<1>8. EndOf(Len(answers) + 1) = EndOf(Len(answers)) + Len(Wire(Current))
  BY <1>2, StreamParts DEF Current
<1>. QED
  BY <1>1, <1>2, <1>3, <1>4, <1>5, <1>6, <1>7, <1>8

(* A part of the current request stands in the stream.                      *)
LEMMA PartHere ==
    ASSUME TypeOK, InPlace, ClientWritesWell, Len(answers) < Len(script),
           NEW w \in Seq(Symbols), Occurs(w, Wire(Current), Offset)
    PROVE  Occurs(w, Stream(script), Taken)
<1>1. Len(answers) \in 0 .. Len(script) - 1 /\ Taken = EndOf(Len(answers)) + Offset
  BY CurrentIsGood
<1>2. Occurs(w, Wire(script[Len(answers) + 1]), Offset)
  BY DEF Current
<1>3. Occurs(w, Stream(script), EndOf(Len(answers)) + Offset)
  BY <1>1, <1>2, PartInStream
<1>. QED
  BY <1>1, <1>3

(* A line is taken out of the buffer.                                       *)
LEMMA TakenLine ==
    ASSUME TypeOK, InPlace, TakeLine, UNCHANGED <<script, received>>
    PROVE  /\ Occurs(buf, Stream(script), Taken)'
           /\ Taken' = Taken + Len(Line) + 2
           /\ Scanned' /\ Line \in Seq(Symbols)
<1>1. Stop \in pos .. Len(buf) - 1 /\ Stop >= 1 /\ LineGood
  BY StopInBuffer DEF TakeLine, LineGood, AfterCR
<1>2. Len(buf) \in Nat /\ buf \in Seq(Symbols) /\ pos \in Nat /\ received \in Nat
  BY DEF TypeOK
<1>3. Stop \in Nat /\ Stop + 1 \in 0 .. Len(buf)
  BY <1>1, <1>2
<1>4. Line \in Seq(Symbols) /\ Len(Line) = Stop - 1
  BY <1>1, <1>2, <1>3 DEF Line
<1>5. buf' = SubSeq(buf, (Stop + 1) + 1, Len(buf)) /\ pos' = 0
  BY <1>3 DEF TakeLine
<1>6. /\ Len(buf') = Len(buf) - (Stop + 1)
      /\ Occurs(buf', Stream(script), Taken + (Stop + 1))
  BY <1>2, <1>3, <1>5, OccursDropped DEF InPlace
<1>7. Taken' = Taken + (Stop + 1)
  BY <1>2, <1>3, <1>6 DEF Taken
<1>8. Stop + 1 = Len(Line) + 2
  BY <1>3, <1>4
<1>9. Taken' = Taken + Len(Line) + 2
  <2>1. Taken \in Int /\ Len(Line) \in Nat
    BY <1>2, <1>4 DEF Taken
  <2>. QED
    BY <1>7, <1>8, <2>1
<1>10. Occurs(buf, Stream(script), Taken)'
  BY <1>6, <1>7
<1>11. Scanned'
  <2>1. Len(buf') \in Nat
    BY <1>2, <1>3, <1>6
  <2>2. pos' = 0
    BY DEF TakeLine
  <2>3. pos' <= Len(buf')
    BY <2>1, <2>2
  <2>. QED
    BY <2>2, <2>3 DEF Scanned
<1>. QED
  BY <1>4, <1>9, <1>10, <1>11

(* A scan that finds no end of a line.                                      *)
LEMMA ScannedMore ==
    ASSUME TypeOK, InPlace, Stops = {}, buf' = buf, pos' = Len(buf)
    PROVE  Scanned'
<1>1. Len(buf) \in Nat /\ pos \in Nat
  BY DEF TypeOK
<1>2. ASSUME NEW i \in 0 .. Len(buf) - 1 PROVE ~Halts(i)'
  <2>1. ~Halts(i)
    <3>1. CASE i < pos
      BY <1>1, <3>1 DEF InPlace, Scanned
    <3>2. CASE i >= pos
      <4>1. i \in pos .. Len(buf) - 1 /\ i \notin Stops
        BY <1>1, <3>2
      <4>. QED
        BY <4>1 DEF Stops, Halts
    <3>. QED
      BY <1>1, <3>1, <3>2
  <2>2. Halts(i)' <=> Halts(i)
    BY DEF Halts, AfterCR, At
  <2>. QED
    BY <2>1, <2>2
<1>. QED
  BY <1>1, <1>2 DEF Scanned

-----------------------------------------------------------------------------
(* Steps that all operations of the builder share.                          *)

(* Places depends on the buffer through the place where it starts only.     *)
LEMMA PlacesFrame ==
    ASSUME UNCHANGED <<script, build_state, rq, headVars, bodyVars, answers>>,
           Taken' = Taken
    PROVE  Places' <=> Places
<1>. UNCHANGED <<script, answers>> /\ UNCHANGED <<build_state, rq, header_count,
                  section_size, bb, uploaded>>
  BY DEF headVars, bodyVars
<1>1. Current' = Current /\ Taken' = Taken /\ Offset' = Offset
  BY Frame DEF Offset
<1>2. LinePlace' <=> LinePlace
  BY <1>1, Frame DEF LinePlace
<1>3. HeaderPlace(Current)' <=> HeaderPlace(Current)
  BY <1>1 DEF HeaderPlace, HeadersRead
<1>4. AfterPlace(Current)' <=> AfterPlace(Current)
  BY <1>1 DEF AfterPlace, HeadersRead
<1>5. HeadPassed(Current)' <=> HeadPassed(Current)
  BY <1>1, Frame DEF HeadPassed
<1>6. RegularPlace(Current)' <=> RegularPlace(Current)
  BY <1>1, <1>5 DEF RegularPlace
<1>7. ASSUME NEW j PROVE ChunksRead(Current, j)' <=> ChunksRead(Current, j)
  BY <1>1 DEF ChunksRead
<1>8. ASSUME NEW j PROVE ChunkSizePlace(Current, j)' <=> ChunkSizePlace(Current, j)
  BY <1>1, <1>5, <1>7 DEF ChunkSizePlace
<1>9. ASSUME NEW j PROVE ChunkContentPlace(Current, j)' <=> ChunkContentPlace(Current, j)
  BY <1>1, <1>5, <1>7 DEF ChunkContentPlace
<1>10. EndPlace(Current)' <=> EndPlace(Current)
  BY <1>1, VerdictFrame DEF EndPlace
<1>11. (\E j \in 0 .. Len(Current.chunks) : ChunkSizePlace(Current, j))'
         <=> \E j \in 0 .. Len(Current.chunks) : ChunkSizePlace(Current, j)
  BY <1>1, <1>8
<1>12. (\E j \in 1 .. Len(Current.chunks) : ChunkContentPlace(Current, j))'
         <=> \E j \in 1 .. Len(Current.chunks) : ChunkContentPlace(Current, j)
  BY <1>1, <1>9
<1>. QED
  BY <1>2, <1>3, <1>4, <1>6, <1>10, <1>11, <1>12, Frame DEF Places

(* No end of a line yet: only the scan moves on.                            *)
LEMMA MissingKeeps ==
    ASSUME TypeOK, InPlace, LineMissing,
           UNCHANGED <<netVars, build_state, rq, headVars, bodyVars, sessionVars>>
    PROVE  InPlace'
<1>. /\ UNCHANGED <<script, answers>>
     /\ UNCHANGED <<received, buf, build_state, rq, headVars, bodyVars>>
     /\ UNCHANGED <<building, builder_status, closed, ended>>
  BY DEF netVars, sessionVars, LineMissing
<1>1. Occurs(buf, Stream(script), Taken)'
  BY Frame DEF InPlace, Taken
<1>2. Scanned'
  BY ScannedMore DEF LineMissing
<1>3. Places' <=> Places
  BY PlacesFrame DEF Taken
<1>4. RightStatus(Current, rq.status)' <=> RightStatus(Current, rq.status)
  BY Frame, VerdictFrame
<1>. QED
  BY <1>1, <1>2, <1>3, <1>4, Frame DEF InPlace

(* A request that is refused.                                               *)
LEMMA FailKeeps ==
    ASSUME TypeOK, InPlace, building, Len(answers) < Len(script),
           NEW n \in Nat, n # HTTP_OK, Fail(n), UNCHANGED <<netVars, sessionVars>>,
           Occurs(buf, Stream(script), Taken)', Scanned',
           NumbersFit => RightStatus(Current, n)
    PROVE  InPlace'
<1>. /\ UNCHANGED <<script, answers>>
     /\ UNCHANGED <<building, builder_status, closed, ended>>
  BY DEF netVars, sessionVars
<1>1. rq'.status = n /\ build_state' = "BS_BAD_REQUEST"
  BY DEF Fail, TypeOK, Requests
<1>2. ~closed' /\ building' /\ builder_status' # "RB_DONE"
  BY DEF InPlace
<1>3. NumbersFit => RightStatus(Current, rq.status)'
  BY <1>1, Frame, VerdictFrame
<1>4. Places'
  BY <1>1 DEF Places, HeadStates, BodyStates
<1>. QED
  BY <1>1, <1>2, <1>3, <1>4, Frame DEF InPlace

(* Any other step of the builder, and where it leads.                       *)
LEMMA StepKeeps ==
    ASSUME TypeOK, InPlace, building, Len(answers) < Len(script),
           UNCHANGED <<netVars, sessionVars>>,
           rq'.status = rq.status, build_state # "BS_BAD_REQUEST",
           build_state' # "BS_BAD_REQUEST",
           Occurs(buf, Stream(script), Taken)', Scanned', Places'
    PROVE  InPlace'
<1>. /\ UNCHANGED <<script, answers>>
     /\ UNCHANGED <<building, builder_status, closed, ended>>
  BY DEF netVars, sessionVars
<1>. QED
  BY Frame DEF InPlace

(* What a bad line does, whatever it was to hold.                           *)
LEMMA BadLineKeeps ==
    ASSUME TypeOK, InPlace, building, Len(answers) < Len(script),
           LineBad, UNCHANGED <<netVars, sessionVars>>,
           NumbersFit => Deserved(Current) = 400
    PROVE  InPlace'
<1>1. Stop \in Nat /\ Stop < Len(buf) /\ \A i \in Nat : i < Stop => ~Halts(i)
  BY StopIsFirst DEF LineBad, InPlace
<1>2. buf' = buf /\ pos' = Stop /\ Fail(400) /\ UNCHANGED <<script, received, answers>>
  BY DEF LineBad, netVars, sessionVars
<1>3. Occurs(buf, Stream(script), Taken)'
  BY <1>2 DEF InPlace, Taken
<1>4. Scanned'
  <2>1. Len(buf) \in Nat
    BY DEF TypeOK
  <2>2. ASSUME NEW i \in 0 .. Stop - 1 PROVE ~Halts(i)'
    <3>1. ~Halts(i)
      BY <1>1, <2>2
    <3>2. Halts(i)' <=> Halts(i)
      BY <1>2 DEF Halts, AfterCR, At
    <3>. QED
      BY <3>1, <3>2
  <2>. QED
    BY <1>1, <1>2, <2>1, <2>2 DEF Scanned
<1>5. NumbersFit => RightStatus(Current, 400)
  BY DEF RightStatus
<1>6. 400 \in Nat /\ 400 # HTTP_OK
  BY DEF HTTP_OK
<1>. QED
  BY <1>2, <1>3, <1>4, <1>5, <1>6, FailKeeps

-----------------------------------------------------------------------------
(* The invariant, operation by operation.                                   *)

(* A fresh builder is in place.                                             *)
LEMMA InvInit == TypeOK /\ Init => InPlace
<1>. SUFFICES ASSUME TypeOK, Init PROVE InPlace
  OBVIOUS
<1>1. /\ received = 0 /\ buf = <<>> /\ pos = 0 /\ ~building /\ ~closed /\ ~ended
      /\ builder_status = "RB_BUILDING" /\ build_state = "BS_RQ_LINE"
      /\ rq = NewRequest /\ header_count = 0 /\ section_size = 0
      /\ bb = NewBody /\ uploaded = FALSE /\ answers = <<>>
  BY DEF Init
<1>2. Len(answers) = 0 /\ Len(buf) = 0 /\ Taken = 0 /\ Len(script) \in Nat /\ EndOf(0) = 0
  <2>1. Len(script) \in Nat /\ EndOf(0) = 0
    BY StreamParts
  <2>2. Len(answers) = 0 /\ Len(buf) = 0
    BY <1>1
  <2>3. received = 0
    BY <1>1
  <2>. QED
    BY <2>1, <2>2, <2>3 DEF Taken
<1>3. Occurs(buf, Stream(script), Taken)
  <2>1. Stream(script) \in Seq(Symbols)
    BY StreamParts
  <2>. QED
    BY <1>1, <1>2, <2>1 DEF Occurs
<1>4. Scanned
  BY <1>1, <1>2 DEF Scanned
<1>5. rq.status = HTTP_OK
  BY <1>1 DEF NewRequest
<1>6. Places
  <2>1. ~uploaded /\ ~UploadedBy(Len(answers))
    BY <1>1, <1>2 DEF UploadedBy
  <2>2. LinePlace
    BY <1>1, <1>2 DEF LinePlace
  <2>. QED
    BY <1>1, <2>1, <2>2 DEF Places, HeadStates, BodyStates
<1>7. AnswersFit /\ EndIsForAFile /\ answers \in Seq([status : Nat, body : Seq(Symbols)])
  BY <1>1 DEF AnswersFit, EndIsForAFile
<1>8. Len(answers) <= Len(script)
  BY <1>2
<1>. QED
  BY <1>1, <1>3, <1>4, <1>5, <1>6, <1>7, <1>8 DEF InPlace

(* More bytes arrive behind those of the buffer.                            *)
LEMMA InvReceive == TypeOK /\ InPlace /\ Receive => InPlace'
<1>. SUFFICES ASSUME TypeOK, InPlace, Receive PROVE InPlace'
  OBVIOUS
<1>1. PICK to \in received + 1 .. Len(Stream(script)) :
        /\ buf' = buf \o SubSeq(Stream(script), received + 1, to)
        /\ received' = to
  BY DEF Receive
<1>2. /\ UNCHANGED <<script, pos, build_state, rq, header_count, section_size,
                     has_body, bb, uploaded, builder_status, answers, closed, ended>>
      /\ building' /\ ~closed /\ builder_status # "RB_DONE"
  BY DEF Receive, headVars, bodyVars
<1>3. /\ received \in Nat /\ Len(buf) \in Nat /\ pos \in Nat /\ buf \in Seq(Symbols)
      /\ Stream(script) \in Seq(Symbols) /\ Len(Stream(script)) \in Nat
      /\ to \in Nat /\ received < to /\ to <= Len(Stream(script))
  BY StreamParts, <1>1 DEF TypeOK
<1>4. Taken + Len(buf) = received /\ Taken \in Nat
  BY <1>3 DEF Taken, InPlace, Occurs
<1>5. Len(buf') = to - Taken /\ Occurs(buf', Stream(script), Taken)
  <2>1. Occurs(buf, Stream(script), Taken) /\ Taken + Len(buf) <= to
    BY <1>3, <1>4 DEF InPlace
  <2>2. buf' = buf \o SubSeq(Stream(script), Taken + Len(buf) + 1, to)
    BY <1>1, <1>4
  <2>. DEFINE d == buf \o SubSeq(Stream(script), Taken + Len(buf) + 1, to)
  <2>3. Len(d) = to - Taken /\ Occurs(d, Stream(script), Taken)
    BY <1>3, <2>1, OccursExtended, Zenon
  <2>. QED
    BY <2>2, <2>3
<1>6. Taken' = Taken
  <2>1. Taken' = to - Len(buf')
    BY <1>1 DEF Taken
  <2>. QED
    BY <1>3, <1>4, <1>5, <2>1
<1>7. Occurs(buf, Stream(script), Taken)'
  BY <1>2, <1>5, <1>6
<1>8. Scanned'
  <2>1. pos <= Len(buf) /\ Len(buf) <= Len(buf')
    BY <1>3, <1>4, <1>5 DEF InPlace, Scanned
  <2>2. ASSUME NEW i \in 0 .. pos - 1 PROVE ~Halts(i)'
    <3>1. ~Halts(i)
      BY DEF InPlace, Scanned
    <3>2. ASSUME NEW k \in 1 .. Len(buf) PROVE buf'[k] = buf[k]
      BY <1>1, <1>3, ConcatProperties
    <3>3. At(i)' = At(i)
      BY <1>3, <2>1, <3>2 DEF At
    <3>4. i >= 1 => At(i - 1)' = At(i - 1)
      BY <1>3, <2>1, <3>2 DEF At
    <3>. QED
      BY <3>1, <3>3, <3>4 DEF Halts, AfterCR
  <2>3. pos' <= Len(buf')
    BY <1>2, <1>3, <1>4, <1>5, <2>1
  <2>. QED
    BY <1>2, <2>2, <2>3 DEF Scanned
<1>9. Places' <=> Places
  BY <1>2, <1>6, PlacesFrame DEF headVars, bodyVars
<1>10. RightStatus(Current, rq.status)' <=> RightStatus(Current, rq.status)
  BY <1>2, Frame, VerdictFrame
<1>. QED
  BY <1>2, <1>7, <1>8, <1>9, <1>10, Frame DEF InPlace

(* The loop of Build() ends where the builder is.                           *)
LEMMA InvLeaveBuild == TypeOK /\ InPlace /\ LeaveBuild => InPlace'
<1>. SUFFICES ASSUME TypeOK, InPlace, LeaveBuild PROVE InPlace'
  OBVIOUS
<1>1. /\ UNCHANGED <<script, answers>>
      /\ UNCHANGED <<received, buf, pos, build_state, rq, headVars, bodyVars, closed, ended>>
      /\ building /\ ~building'
      /\ builder_status' = IF build_state \in {"BS_END", "BS_BAD_REQUEST"}
                           THEN "RB_DONE" ELSE "RB_NEED_DATA_FROM_CLIENT"
  BY DEF LeaveBuild, netVars, parserVars
<1>2. Occurs(buf, Stream(script), Taken)' /\ Taken' = Taken
  BY <1>1 DEF InPlace, Taken
<1>3. Scanned'
  BY <1>1 DEF InPlace, Scanned, Halts, AfterCR, At
<1>4. Places' <=> Places
  BY <1>1, <1>2, PlacesFrame
<1>5. RightStatus(Current, rq.status)' <=> RightStatus(Current, rq.status)
  BY <1>1, Frame, VerdictFrame
<1>6. builder_status' = "RB_DONE" => ~building' /\ build_state' \in {"BS_END", "BS_BAD_REQUEST"}
  BY <1>1
<1>7. ~closed /\ ~closed'
  BY <1>1 DEF InPlace
<1>. QED
  BY <1>1, <1>2, <1>3, <1>4, <1>5, <1>6, <1>7, Frame DEF InPlace

(* The request line.                                                        *)
LEMMA InvBuildFirstLine == ClientWritesWell /\ TypeOK /\ InPlace /\ BuildFirstLine => InPlace'
<1>. SUFFICES ASSUME ClientWritesWell, TypeOK, InPlace, BuildFirstLine PROVE InPlace'
  OBVIOUS
<1>1. /\ building /\ ~closed /\ build_state = "BS_RQ_LINE" /\ pos < Len(buf)
      /\ UNCHANGED <<netVars, header_count, bodyVars, sessionVars>>
      /\ UNCHANGED <<script, answers>> /\ UNCHANGED received
  BY DEF BuildFirstLine, InState, CanBuild, netVars, sessionVars, InPlace
<1>2. /\ LinePlace /\ bb = NewBody /\ (uploaded <=> UploadedBy(Len(answers)))
  BY <1>1 DEF InPlace, Places, HeadStates
<1>3. CASE LineMissing /\ UNCHANGED <<build_state, rq, section_size>>
  BY <1>1, <1>3, MissingKeeps DEF headVars
<1>4. Len(answers) < Len(script)
  <2>1. /\ Len(answers) \in Nat /\ Len(answers) <= Len(script)
        /\ Len(script) \in Nat /\ EndOf(Len(script)) = Len(Stream(script))
    BY StreamParts DEF InPlace
  <2>2. Taken + Len(buf) <= Len(Stream(script)) /\ Taken = EndOf(Len(answers)) /\ Taken \in Nat
    BY <1>2 DEF InPlace, Occurs, LinePlace
  <2>3. Len(buf) \in Nat /\ Len(buf) > 0
    BY <1>1 DEF TypeOK
  <2>4. Len(answers) # Len(script)
    BY <2>1, <2>2, <2>3
  <2>. QED
    BY <2>1, <2>4
<1>. DEFINE r == Current
            w == Current.line
<1>5. /\ r \in ClientRequests /\ WellWritten(r) /\ w \in Seq(Symbols) /\ NoLineEnd(w)
      /\ Taken \in Int /\ EndOf(Len(answers)) \in Nat /\ Len(w) \in Nat
      /\ Len(answers) \in Nat
  BY <1>4, CurrentIsGood, WiresAreTyped DEF WellWritten
<1>6. Offset = 0
  BY <1>2, <1>5 DEF LinePlace, Offset
<1>7. Occurs(w \o CRLF, Stream(script), Taken)
  <2>1. w \o CRLF \in Seq(Symbols)
    BY <1>5, LineParts
  <2>2. Occurs(w \o CRLF, HeadWire(r), 0) /\ Occurs(HeadWire(r), Wire(r), 0)
    BY <1>5, HeadParts, BodyParts
  <2>3. Occurs(w \o CRLF, Wire(r), 0 + 0)
    BY <1>5, <2>1, <2>2, WiresAreTyped, OccursWithin
  <2>4. Occurs(w \o CRLF, Wire(r), Offset)
    BY <1>6, <2>3
  <2>. QED
    BY <1>4, <2>1, <2>4, PartHere
<1>8. Stops # {} => /\ LineGood => Line = w /\ ~BadText(w)
                    /\ ~LineGood => BadText(w)
  BY <1>5, <1>7, LineIsRead DEF InPlace
<1>9. UploadedBy(Len(answers)) \in BOOLEAN
  BY DEF UploadedBy
<1>10. CASE LineBad
  <2>1. BadText(w)
    BY <1>8, <1>10 DEF LineBad
  <2>2. Deserved(r) = 400
    BY <1>5, <1>9, <2>1, LineJudged, LineChecksAre DEF Deserved
  <2>. QED
    BY <1>1, <1>4, <1>10, <2>2, BadLineKeeps
<1>11. CASE TakeLine /\ section_size' = section_size + Len(Line)
  <2>1. Line = w /\ ~BadText(w)
    BY <1>8, <1>11 DEF TakeLine, LineGood
  <2>2. /\ Occurs(buf, Stream(script), Taken)' /\ Scanned'
        /\ Taken' = Taken + Len(w) + 2
    BY <1>1, <1>11, <2>1, TakenLine
  <2>3. CASE FirstLineStatus(w) # HTTP_OK /\ Fail(FirstLineStatus(w))
    <3>1. Deserved(r) = FirstLineStatus(w)
      BY <1>5, <1>9, <2>1, <2>3, LineJudged, LineChecksAre DEF Deserved
    <3>2. RightStatus(Current, FirstLineStatus(w))
      BY <3>1 DEF RightStatus
    <3>3. FirstLineStatus(w) \in Nat
      BY WordsAreTyped
    <3>. QED
      BY <1>1, <1>4, <2>2, <2>3, <3>2, <3>3, FailKeeps
  <2>4. CASE /\ FirstLineStatus(w) = HTTP_OK
             /\ rq' = [rq EXCEPT !.line = w[1]]
             /\ build_state' = "BS_HEADER_FIELDS"
    <3>1. Offset' = HeaderAt(r, 0)
      <4>1. HeaderAt(r, 0) = Len(w) + 2
        BY <1>5, HeadParts
      <4>2. Offset' = Taken' - EndOf(Len(answers)) /\ Taken = EndOf(Len(answers))
        BY <1>1, <1>2, Frame DEF Offset, LinePlace
      <4>. QED
        BY <1>5, <2>2, <4>1, <4>2
    <3>2. /\ rq = NewRequest /\ header_count' = 0 /\ section_size = 0
          /\ section_size' = Len(w)
      BY <1>1, <1>2, <1>5, <1>11, <2>1 DEF LinePlace
    <3>3. HeadersRead(r, 0)'
      <4>1. LinePassed(r)
        BY <2>1, <2>4 DEF LinePassed
      <4>2. rq'.line = w[1] /\ rq'.body = <<>> /\ \A k \in HeaderKeys : rq'.headers[k] = "none"
        BY <2>4, <3>2 DEF NewRequest
      <4>3. section_size' = SectionSize(r, 0)
        BY <1>5, <3>2, SectionSizes
      <4>4. 0 \in 0 .. Len(r.headers) /\ 1 .. 0 = {}
        BY <1>5, WiresAreTyped
      <4>. QED
        BY <1>1, <4>1, <4>2, <4>3, <4>4, Frame DEF HeadersRead
    <3>4. HeaderPlace(Current)'
      BY <1>1, <3>1, <3>2, <3>3, Frame DEF HeaderPlace
    <3>5. Places'
      BY <1>1, <1>2, <2>4, <3>4, Frame DEF Places, HeadStates, BodyStates, bodyVars
    <3>6. rq'.status = rq.status
      BY <2>4 DEF TypeOK, Requests
    <3>. QED
      BY <1>1, <1>4, <2>2, <2>4, <3>5, <3>6, StepKeeps
  <2>. QED
    BY <1>11, <2>1, <2>3, <2>4 DEF BuildFirstLine, LineMissing, LineBad, TakeLine, LineGood
<1>. QED
  BY <1>3, <1>10, <1>11 DEF BuildFirstLine

(* A request line that passed leaves room for shorter lines.                *)
LEMMA RoomForLines ==
    ASSUME NEW r \in ClientRequests, LinePassed(r)
    PROVE  LineLimit >= 3
<1>1. r.line # <<>> /\ r.line \in Seq(Symbols)
  BY WiresAreTyped DEF LinePassed, FirstLineStatus, HTTP_OK
<1>2. Len(r.line) >= 1 /\ Len(r.line) \in Nat
  BY <1>1
<1>3. Len(r.line) + 2 <= LineLimit
  BY <1>2, LimitsAssumption DEF LinePassed, BadText
<1>. QED
  BY <1>2, <1>3, LimitsAssumption

(* A header field, or the empty line behind the last.                       *)
LEMMA InvBuildHeaderField ==
    ClientWritesWell /\ TypeOK /\ InPlace /\ BuildHeaderField => InPlace'
<1>. SUFFICES ASSUME ClientWritesWell, TypeOK, InPlace, BuildHeaderField PROVE InPlace'
  OBVIOUS
<1>1. /\ building /\ ~closed /\ build_state = "BS_HEADER_FIELDS"
      /\ UNCHANGED <<netVars, bodyVars, sessionVars>>
      /\ UNCHANGED <<script, answers>> /\ UNCHANGED received
      /\ UNCHANGED <<netVars, sessionVars>>
      /\ Len(answers) < Len(script)
  BY DEF BuildHeaderField, InState, netVars, sessionVars, InPlace
<1>2. /\ HeaderPlace(Current) /\ bb = NewBody /\ (uploaded <=> UploadedBy(Len(answers)))
  BY <1>1 DEF InPlace, Places, HeadStates
<1>3. CASE LineMissing /\ UNCHANGED <<build_state, rq, headVars>>
  BY <1>1, <1>3, MissingKeeps
<1>. DEFINE r == Current
            h == header_count
            N == Len(Current.headers)
            w == IF header_count < Len(Current.headers)
                 THEN Current.headers[header_count + 1] ELSE <<>>
<1>4. /\ r \in ClientRequests /\ WellWritten(r)
      /\ Taken \in Int /\ EndOf(Len(answers)) \in Nat
      /\ Len(answers) \in Nat /\ N \in Nat /\ Offset = Taken - EndOf(Len(answers))
      /\ r.headers \in Seq(Seq(Symbols))
  BY <1>1, CurrentIsGood, WiresAreTyped DEF Offset
<1>5. /\ Offset = HeaderAt(r, h) /\ HeadersRead(r, h) /\ h \in 0 .. N /\ LinePassed(r)
      /\ section_size = SectionSize(r, h) /\ \A i \in 1 .. h : HeaderPassed(r, i)
  BY <1>2 DEF HeaderPlace, HeadersRead
<1>6. w \in Seq(Symbols) /\ NoLineEnd(w) /\ (h < N => w # <<>>)
  <2>1. CASE h < N
    <3>1. h + 1 \in 1 .. N
      BY <1>4, <1>5, <2>1
    <3>2. w = r.headers[h + 1]
      BY <2>1
    <3>. QED
      BY <1>4, <3>1, <3>2 DEF WellWritten
  <2>2. CASE ~(h < N)
    <3>1. w = <<>>
      BY <2>2
    <3>. QED
      BY <2>2, <3>1 DEF NoLineEnd
  <2>. QED
    BY <2>1, <2>2
<1>7. /\ Occurs(w \o CRLF, HeadWire(r), Offset)
      /\ h < N => HeaderAt(r, h + 1) = HeaderAt(r, h) + Len(w) + 2
      /\ h = N => Len(HeadWire(r)) = HeaderAt(r, h) + Len(w) + 2
  <2>1. CASE h < N
    <3>1. h \in 0 .. N - 1 /\ w = r.headers[h + 1] /\ h # N
      BY <1>4, <1>5, <2>1
    <3>. HIDE DEF w, h
    <3>. QED
      BY <1>4, <1>5, <3>1, HeadParts
  <2>2. CASE ~(h < N)
    <3>1. h = N /\ w = <<>>
      BY <1>4, <1>5, <2>2
    <3>2. <<>> \o CRLF = CRLF /\ Len(<<>>) = 0
      BY LineEndIsTyped
    <3>3. Occurs(CRLF, HeadWire(r), HeaderAt(r, N)) /\ Len(HeadWire(r)) = HeaderAt(r, N) + 2
      BY <1>4, HeadParts
    <3>4. HeaderAt(r, N) \in Nat
      BY <1>4, HeadParts
    <3>5. HeaderAt(r, h) + Len(w) + 2 = HeaderAt(r, N) + 2
      BY <3>1, <3>2, <3>4
    <3>. QED
      BY <1>5, <2>2, <3>1, <3>2, <3>3, <3>5
  <2>. QED
    BY <2>1, <2>2
<1>. HIDE DEF w
<1>8. Occurs(w \o CRLF, Stream(script), Taken)
  <2>1. w \o CRLF \in Seq(Symbols)
    BY <1>6, LineParts
  <2>2. Occurs(HeadWire(r), Wire(r), 0)
    BY <1>4, BodyParts
  <2>3. Occurs(w \o CRLF, Wire(r), 0 + Offset)
    BY <1>4, <1>7, <2>1, <2>2, WiresAreTyped, OccursWithin
  <2>4. Occurs(w \o CRLF, Wire(r), Offset)
    BY <1>4, <2>3
  <2>. QED
    BY <1>1, <2>1, <2>4, PartHere
<1>9. Stops # {} => /\ LineGood => Line = w /\ ~BadText(w)
                    /\ ~LineGood => BadText(w)
  BY <1>6, <1>8, LineIsRead DEF InPlace
<1>10. UploadedBy(Len(answers)) \in BOOLEAN
  BY DEF UploadedBy
<1>11. BadText(w) => h < N /\ Deserved(r) = 400
  <2>. SUFFICES ASSUME BadText(w) PROVE h < N /\ Deserved(r) = 400
    OBVIOUS
  <2>1. h < N
    <3>. SUFFICES ASSUME ~(h < N) PROVE FALSE
      OBVIOUS
    <3>1. w = <<>>
      BY DEF w
    <3>2. Len(w) = 0 /\ ToSet(w) = {}
      BY <3>1 DEF ToSet
    <3>3. LineLimit >= 3 /\ LineLimit \in Nat
      BY <1>4, <1>5, RoomForLines, LimitsAssumption
    <3>. QED
      BY <3>2, <3>3 DEF BadText
  <2>2. h \in 0 .. N - 1 /\ w = r.headers[h + 1]
    BY <1>4, <1>5, <2>1 DEF w
  <2>3. Fails(HeaderChecks(r, h + 1), 1)
    BY <2>2, HeaderChecksAre
  <2>4. Verdict(Checks(r, UploadedBy(Len(answers)))) = 400
    BY <1>4, <1>5, <1>10, <2>2, <2>3, HeaderDeserves
  <2>. QED
    BY <2>1, <2>4 DEF Deserved
<1>12. CASE LineBad
  <2>1. Deserved(r) = 400
    BY <1>9, <1>11, <1>12 DEF LineBad
  <2>. QED
    BY <1>1, <1>12, <2>1, BadLineKeeps, Zenon
<1>13. CASE TakeLine /\ section_size' = section_size + Len(Line)
  <2>1. Line = w /\ ~BadText(w)
    BY <1>9, <1>13 DEF TakeLine, LineGood
  <2>2. /\ Occurs(buf, Stream(script), Taken)' /\ Scanned'
        /\ Taken' = Taken + Len(w) + 2
    BY <1>1, <1>13, <2>1, TakenLine
  <2>3. Offset' = Offset + Len(w) + 2
    <3>1. Offset' = Taken' - EndOf(Len(answers))
      BY <1>1, Frame DEF Offset
    <3>2. Len(w) \in Nat
      BY <1>6
    <3>. QED
      BY <1>4, <2>2, <3>1, <3>2
  <2>4. /\ h < N => h \in 0 .. N - 1 /\ h + 1 \in 1 .. N /\ w = r.headers[h + 1]
                    /\ section_size' = SectionSize(r, h + 1)
        /\ h = N => w = <<>> /\ section_size' = SectionSize(r, N)
        /\ h < N \/ h = N
        /\ h \in Nat
    <3>1. h < N => h \in 0 .. N - 1 /\ h + 1 \in 1 .. N /\ w = r.headers[h + 1]
      BY <1>4, <1>5 DEF w
    <3>2. h = N => w = <<>> /\ Len(w) = 0
      BY <1>4 DEF w
    <3>3. section_size' = SectionSize(r, h) + Len(w)
      BY <1>5, <1>13, <2>1
    <3>4. SectionSize(r, h) \in Nat
      BY <1>4, <1>5, SectionSizes
    <3>5. h < N => section_size' = SectionSize(r, h + 1)
      BY <1>4, <3>1, <3>3, SectionSizes
    <3>6. h = N => section_size' = SectionSize(r, N)
      BY <3>2, <3>3, <3>4
    <3>. QED
      BY <1>4, <1>5, <3>1, <3>2, <3>5, <3>6
  <2>5. /\ h < N => (Fails(HeaderChecks(r, h + 1), 1) <=> BadText(w))
        /\ h < N => (Fails(HeaderChecks(r, h + 1), 2) <=> section_size' > SectionLimit)
        /\ h < N => (Fails(HeaderChecks(r, h + 1), 3) <=> w[1] \notin DOMAIN HeaderKey)
        /\ h < N => (Fails(HeaderChecks(r, h + 1), 4) <=> h + 1 > MaxHeaders)
    BY <2>4, HeaderChecksAre
  <2>6. h < N /\ section_size' > SectionLimit => Deserved(r) = 431
    BY <1>4, <1>5, <1>10, <2>1, <2>4, <2>5, HeaderDeserves DEF Deserved
  <2>7. h < N /\ ~(section_size' > SectionLimit) /\ w[1] \notin DOMAIN HeaderKey => Deserved(r) = 400
    BY <1>4, <1>5, <1>10, <2>1, <2>4, <2>5, HeaderDeserves DEF Deserved
  <2>8. h < N /\ ~(section_size' > SectionLimit) /\ w[1] \in DOMAIN HeaderKey
          /\ h + 1 > MaxHeaders => Deserved(r) = 431
    BY <1>4, <1>5, <1>10, <2>1, <2>4, <2>5, HeaderDeserves DEF Deserved
  <2>9. h = N => FieldsPassed(r)
    BY <1>5 DEF FieldsPassed
  <2>10. h = N /\ section_size' > SectionLimit => Deserved(r) = 431
    BY <1>4, <1>10, <2>4, <2>9, SectionDeserves DEF Deserved
  <2>11. 400 \in Nat /\ 400 # HTTP_OK /\ 431 \in Nat /\ 431 # HTTP_OK
    BY DEF HTTP_OK
  <2>12. section_size' \in Nat /\ SectionLimit \in Nat /\ MaxHeaders \in Nat
    BY <1>4, <2>4, SectionSizes, LimitsAssumption
  <2>13. CASE section_size' > SectionLimit /\ Fail(431)
    <3>1. RightStatus(Current, 431)
      BY <2>4, <2>6, <2>10, <2>13 DEF RightStatus
    <3>. QED
      BY <1>1, <2>2, <2>11, <2>13, <3>1, FailKeeps
  <2>14. CASE section_size' <= SectionLimit /\ InsertHeaderField
    <3>1. h < N /\ w # <<>> /\ ~(section_size' > SectionLimit)
      BY <2>1, <2>4, <2>12, <2>14 DEF InsertHeaderField
    <3>2. CASE w[1] \notin DOMAIN HeaderKey /\ Fail(400)
      <4>1. RightStatus(Current, 400)
        BY <2>7, <3>1, <3>2 DEF RightStatus
      <4>. QED
        BY <1>1, <2>2, <2>11, <3>2, <4>1, FailKeeps
    <3>3. CASE w[1] \in DOMAIN HeaderKey /\ header_count' = h + 1 /\ header_count' > MaxHeaders /\ Fail(431)
      <4>1. RightStatus(Current, 431)
        BY <2>8, <3>1, <3>3 DEF RightStatus
      <4>. QED
        BY <1>1, <2>2, <2>11, <3>3, <4>1, FailKeeps
    <3>4. CASE /\ w[1] \in DOMAIN HeaderKey /\ header_count' = h + 1
               /\ header_count' <= MaxHeaders
               /\ rq' = [rq EXCEPT !.headers[HeaderKey[w[1]]] = w[1]]
               /\ UNCHANGED build_state
      <4>1. HeaderPassed(r, h + 1)
        BY <2>1, <2>4, <2>12, <2>14, <3>1, <3>4 DEF HeaderPassed
      <4>2. /\ HeaderKey[w[1]] \in HeaderKeys /\ w[1] # "none"
            /\ rq \in Requests
        BY <3>4, WordsAreTyped DEF HeaderKey, TypeOK
      <4>3. /\ rq'.line = rq.line /\ rq'.body = rq.body /\ rq'.status = rq.status
            /\ rq'.headers[HeaderKey[w[1]]] = w[1]
            /\ \A k \in HeaderKeys : k # HeaderKey[w[1]] => rq'.headers[k] = rq.headers[k]
        BY <3>4, <4>2 DEF Requests
      <4>4. HeadersRead(r, h)'
        <5>1. h + 1 \in 0 .. N /\ header_count' = h + 1
          BY <1>4, <2>4, <3>1, <3>4
        <5>2. LinePassed(r) /\ rq'.line = r.line[1] /\ rq'.body = <<>>
          BY <1>5, <4>3 DEF HeadersRead
        <5>3. \A i \in 1 .. h + 1 : i \in 1 .. h \/ i = h + 1
          BY <2>4
        <5>4. ASSUME NEW i \in 1 .. h + 1 PROVE HeaderPassed(r, i)
          BY <1>5, <4>1, <5>3
        <5>5. ASSUME NEW i \in 1 .. h + 1
              PROVE  rq'.headers[HeaderKey[r.headers[i][1]]] # "none"
          <6>1. CASE i = h + 1
            BY <2>4, <3>1, <4>2, <4>3, <6>1
          <6>2. CASE i \in 1 .. h
            <7>1. HeaderKey[r.headers[i][1]] \in HeaderKeys
              BY <5>4, WordsAreTyped DEF HeaderPassed
            <7>2. rq.headers[HeaderKey[r.headers[i][1]]] # "none"
              BY <1>5, <6>2 DEF HeadersRead
            <7>. QED
              BY <4>2, <4>3, <7>1, <7>2
          <6>. QED
            BY <5>3, <6>1, <6>2
        <5>6. ASSUME NEW k \in HeaderKeys, rq'.headers[k] # "none"
              PROVE  \E i \in 1 .. h + 1 : r.headers[i][1] = rq'.headers[k]
                                           /\ HeaderKey[rq'.headers[k]] = k
          <6>1. CASE k = HeaderKey[w[1]]
            <7>1. h + 1 \in 1 .. h + 1 /\ r.headers[h + 1][1] = rq'.headers[k]
                  /\ HeaderKey[rq'.headers[k]] = k
              BY <2>4, <3>1, <4>3, <6>1
            <7>. QED
              BY <7>1
          <6>2. CASE k # HeaderKey[w[1]]
            <7>1. rq'.headers[k] = rq.headers[k]
              BY <4>3, <6>2
            <7>2. PICK i \in 1 .. h : r.headers[i][1] = rq.headers[k] /\ HeaderKey[rq.headers[k]] = k
              BY <1>5, <5>6, <7>1 DEF HeadersRead
            <7>3. i \in 1 .. h + 1
              BY <2>4
            <7>. QED
              BY <7>1, <7>2, <7>3
          <6>. QED
            BY <6>1, <6>2
        <5>7. header_count' = h + 1 /\ section_size' = SectionSize(r, h + 1)
          BY <2>4, <3>1, <5>1
        <5>. QED
          BY <1>1, <5>1, <5>2, <5>4, <5>5, <5>6, <5>7, Frame DEF HeadersRead
      <4>5. Offset' = HeaderAt(r, h + 1)
        BY <1>5, <1>7, <2>3, <3>1
      <4>6. HeaderPlace(Current)'
        BY <1>1, <3>4, <4>4, <4>5, Frame DEF HeaderPlace
      <4>7. Places'
        BY <1>1, <1>2, <3>4, <4>6, Frame DEF Places, HeadStates, BodyStates, bodyVars
      <4>. QED
        BY <1>1, <2>2, <3>4, <4>3, <4>7, StepKeeps
    <3>. QED
      BY <2>1, <2>14, <3>2, <3>3, <3>4 DEF InsertHeaderField
  <2>15. CASE /\ section_size' <= SectionLimit /\ w = <<>>
              /\ build_state' = "BS_AFTER_HEADERS"
              /\ UNCHANGED <<rq, header_count>>
    <3>1. h = N
      BY <1>6, <2>4, <2>15
    <3>2. HeadersRead(r, N)'
      BY <1>1, <1>5, <2>4, <2>15, <3>1, Frame DEF HeadersRead
    <3>3. Offset' = Len(HeadWire(r))
      BY <1>5, <1>7, <2>3, <3>1
    <3>4. AfterPlace(Current)'
      BY <1>1, <2>4, <2>15, <3>1, <3>2, <3>3, Frame DEF AfterPlace
    <3>5. Places'
      BY <1>1, <1>2, <2>15, <3>4, Frame DEF Places, HeadStates, BodyStates, bodyVars
    <3>. QED
      BY <1>1, <2>2, <2>15, <3>5, StepKeeps
  <2>. QED
    BY <1>13, <2>1, <2>13, <2>14, <2>15 DEF BuildHeaderField, LineMissing, LineBad, TakeLine, LineGood
<1>. QED
  BY <1>3, <1>12, <1>13 DEF BuildHeaderField

(* What rq holds once all header fields are read.                           *)
LEMMA FieldsAreRead ==
    ASSUME TypeOK, NEW r \in ClientRequests, WellWritten(r), HeadersRead(r, Len(r.headers))
    PROVE  /\ \A f \in DOMAIN HeaderKey : rq.headers[HeaderKey[f]] = f <=> f \in Fields(r)
           /\ \A k \in HeaderKeys : Has(k) <=> \E f \in DOMAIN HeaderKey : HeaderKey[f] = k /\ f \in Fields(r)
<1>. DEFINE N == Len(r.headers)
            K == DOMAIN HeaderKey
<1>1. /\ r.headers \in Seq(Seq(Symbols)) /\ N \in Nat /\ DOMAIN r.headers = 1 .. N
      /\ \A i \in 1 .. N : r.headers[i][1] \in K /\ r.headers[i][1] \in Fields(r)
      /\ \A f \in Fields(r) : \E i \in 1 .. N : f = r.headers[i][1]
  <2>1. r.headers \in Seq(Seq(Symbols)) /\ N \in Nat /\ DOMAIN r.headers = 1 .. N
    BY WiresAreTyped
  <2>2. \A i \in 1 .. N : r.headers[i][1] \in K
    BY DEF HeadersRead, HeaderPassed
  <2>. QED
    BY <2>1, <2>2, Zenon DEF Fields
<1>2. "none" \notin K
  BY DEF HeaderKey
<1>3. \A f \in K : HeaderKey[f] \in HeaderKeys
  BY WordsAreTyped
<1>. HIDE DEF K, N
<1>4. /\ \A i \in 1 .. N : rq.headers[HeaderKey[r.headers[i][1]]] # "none"
      /\ \A k \in HeaderKeys : rq.headers[k] # "none" =>
           \E i \in 1 .. N : r.headers[i][1] = rq.headers[k] /\ HeaderKey[rq.headers[k]] = k
  BY DEF HeadersRead, N
<1>5. ASSUME NEW f \in K, f \in Fields(r) PROVE rq.headers[HeaderKey[f]] = f
  <2>1. PICK i \in 1 .. N : f = r.headers[i][1]
    BY <1>1, <1>5
  <2>2. rq.headers[HeaderKey[f]] # "none"
    BY <1>4, <2>1
  <2>3. PICK n \in 1 .. N : /\ r.headers[n][1] = rq.headers[HeaderKey[f]]
                            /\ HeaderKey[rq.headers[HeaderKey[f]]] = HeaderKey[f]
    BY <1>3, <1>4, <2>2
  <2>4. /\ rq.headers[HeaderKey[f]] \in Fields(r) \cap K /\ f \in Fields(r) \cap K
    BY <1>1, <1>5, <2>3
  <2>. QED
    BY <2>3, <2>4 DEF WellWritten, K
<1>6. ASSUME NEW f \in K, rq.headers[HeaderKey[f]] = f PROVE f \in Fields(r)
  BY <1>1, <1>2, <1>3, <1>4, <1>6
<1>7. ASSUME NEW k \in HeaderKeys, Has(k) PROVE \E f \in K : HeaderKey[f] = k /\ f \in Fields(r)
  <2>1. PICK i \in 1 .. N : r.headers[i][1] = rq.headers[k] /\ HeaderKey[rq.headers[k]] = k
    BY <1>4, <1>7 DEF Has
  <2>. QED
    BY <1>1, <2>1
<1>8. ASSUME NEW f \in K, f \in Fields(r) PROVE Has(HeaderKey[f])
  BY <1>2, <1>5, <1>8 DEF Has
<1>. QED
  BY <1>5, <1>6, <1>7, <1>8 DEF K

(* What InterpretHeaders_ looks for is what the fields say.                 *)
LEMMA FieldsSay ==
    ASSUME TypeOK, NEW r \in ClientRequests, WellWritten(r), HeadersRead(r, Len(r.headers))
    PROVE  /\ Has("bad") <=> "bad" \in Fields(r)
           /\ Has("host") <=> "host" \in Fields(r)
           /\ Has("cl") <=> Sized(r)
           /\ Has("te") <=> Coded(r)
           /\ IsChunked <=> "chunked" \in Fields(r)
           /\ (Has("cl") /\ rq.headers["cl"] \notin DOMAIN Number) <=> "clx" \in Fields(r)
           /\ Has("cl") /\ rq.headers["cl"] \in DOMAIN Number => ContentLength = Len(r.body)
           /\ ~Has("cl") => ContentLength = 0 /\ r.body = <<>>
<1>. DEFINE F == Fields(r)
<1>1. /\ DOMAIN HeaderKey = {"host", "bad", "chunked", "gzip", "cl0", "cl1", "cl2", "clx"}
      /\ HeaderKeys = {"host", "bad", "te", "cl"}
      /\ HeaderKey["host"] = "host" /\ HeaderKey["bad"] = "bad"
      /\ HeaderKey["chunked"] = "te" /\ HeaderKey["gzip"] = "te"
      /\ HeaderKey["cl0"] = "cl" /\ HeaderKey["cl1"] = "cl" /\ HeaderKey["cl2"] = "cl"
      /\ HeaderKey["clx"] = "cl"
  BY DEF HeaderKey, HeaderKeys
<1>2. DOMAIN Number = {"cl0", "cl1", "cl2"} /\ Lengths = {"cl0", "cl1", "cl2", "clx"}
  BY DEF Number, Lengths
<1>3. /\ \A f \in DOMAIN HeaderKey : rq.headers[HeaderKey[f]] = f <=> f \in F
      /\ \A k \in HeaderKeys : Has(k) <=> \E f \in DOMAIN HeaderKey : HeaderKey[f] = k /\ f \in F
  BY FieldsAreRead
<1>. HIDE DEF F
<1>4. Has("bad") <=> "bad" \in F
  BY <1>1, <1>3
<1>5. Has("host") <=> "host" \in F
  BY <1>1, <1>3
<1>6. Has("cl") <=> ("cl0" \in F \/ "cl1" \in F \/ "cl2" \in F \/ "clx" \in F)
  BY <1>1, <1>3
<1>7. Has("te") <=> ("chunked" \in F \/ "gzip" \in F)
  BY <1>1, <1>3
<1>8. IsChunked <=> "chunked" \in F
  BY <1>1, <1>3 DEF IsChunked
<1>9. \A f \in {"cl0", "cl1", "cl2", "clx"} : rq.headers["cl"] = f <=> f \in F
  BY <1>1, <1>3
<1>10. (Has("cl") /\ rq.headers["cl"] \notin DOMAIN Number) <=> "clx" \in F
  BY <1>2, <1>6, <1>9
<1>11. Sized(r) <=> ("cl0" \in F \/ "cl1" \in F \/ "cl2" \in F \/ "clx" \in F)
  BY <1>2 DEF Sized, F
<1>12. Coded(r) <=> ("chunked" \in F \/ "gzip" \in F)
  BY DEF Coded, F
<1>13. Has("cl") /\ rq.headers["cl"] \in DOMAIN Number => ContentLength = Len(r.body)
  <2>1. rq.headers["cl"] \in DOMAIN Number => rq.headers["cl"] \in Fields(r) \cap DOMAIN Number
    BY <1>2, <1>9 DEF F
  <2>. QED
    BY <2>1 DEF WellWritten, ContentLength
<1>14. ~Has("cl") => ContentLength = 0 /\ r.body = <<>>
  <2>1. ~Has("cl") => Fields(r) \cap Lengths = {}
    BY <1>2, <1>6 DEF F
  <2>. QED
    BY <2>1 DEF WellWritten, ContentLength
<1>. QED
  BY <1>4, <1>5, <1>6, <1>7, <1>8, <1>10, <1>11, <1>12, <1>13, <1>14 DEF F

(* The code's checks of the head come to what it deserves.                  *)
LEMMA HeadIsJudged ==
    ASSUME TypeOK, NEW r \in ClientRequests, WellWritten(r), AfterPlace(r)
    PROVE  /\ rq.line = Word(r) /\ rq.body = <<>> /\ SectionPassed(r)
           /\ WithBody <=> (Sized(r) \/ "chunked" \in Fields(r))
           /\ HeadersStatus # HTTP_OK => HeadersStatus = Deserved(r)
           /\ HeadersStatus = HTTP_OK => /\ NoneFails(FieldChecks(r))
                                         /\ ~HeadersBad
                                         /\ rq.line \in Posts <=> WithBody
<1>1. /\ HeadersRead(r, Len(r.headers)) /\ LinePassed(r) /\ rq.line = r.line[1]
      /\ rq.body = <<>> /\ \A i \in 1 .. Len(r.headers) : HeaderPassed(r, i)
      /\ SectionSize(r, Len(r.headers)) <= SectionLimit
  BY DEF AfterPlace, HeadersRead
<1>2. SectionPassed(r)
  BY <1>1 DEF SectionPassed, FieldsPassed
<1>3. rq.line = Word(r)
  <2>1. r.line # <<>>
    BY <1>1 DEF LinePassed, FirstLineStatus, HTTP_OK
  <2>. QED
    BY <1>1, <2>1 DEF Word
<1>4. WithBody <=> (Sized(r) \/ "chunked" \in Fields(r))
  BY <1>1, FieldsSay DEF WithBody
<1>. DEFINE l == FieldChecks(r)
<1>5. HeadersBad <=> Fails(l, 1) \/ Fails(l, 2)
  <2>1. Fails(l, 1) <=> ("bad" \in Fields(r) \/ "host" \notin Fields(r))
    BY FieldChecksAre
  <2>2. Fails(l, 2) <=> ((Sized(r) /\ Coded(r)) \/ "clx" \in Fields(r))
    BY FieldChecksAre
  <2>. HIDE DEF l
  <2>. QED
    BY <1>1, <2>1, <2>2, FieldsSay DEF HeadersBad
<1>6. (rq.line \in Posts /\ ~WithBody) <=> Fails(l, 3)
  BY <1>3, <1>4, FieldChecksAre
<1>7. (rq.line \notin Posts /\ WithBody) <=> Fails(l, 4)
  BY <1>3, <1>4, FieldChecksAre
<1>8. (rq.line = "GETnoloc") <=> Fails(l, 5)
  BY <1>3, FieldChecksAre
<1>9. NoneFails(l) <=> ~Fails(l, 1) /\ ~Fails(l, 2) /\ ~Fails(l, 3) /\ ~Fails(l, 4) /\ ~Fails(l, 5)
  BY FieldChecksAre
<1>10. UploadedBy(Len(answers)) \in BOOLEAN
  BY DEF UploadedBy
<1>. DEFINE v == Deserved(r)
<1>11. /\ Fails(l, 1) => v = 400
       /\ ~Fails(l, 1) /\ Fails(l, 2) => v = 400
       /\ ~Fails(l, 1) /\ ~Fails(l, 2) /\ Fails(l, 3) => v = 411
       /\ ~Fails(l, 1) /\ ~Fails(l, 2) /\ ~Fails(l, 3) /\ Fails(l, 4) => v = 400
       /\ ~Fails(l, 1) /\ ~Fails(l, 2) /\ ~Fails(l, 3) /\ ~Fails(l, 4) /\ Fails(l, 5) => v = 404
  BY <1>2, <1>10, FieldsDeserve DEF Deserved
<1>. HIDE DEF l, v
<1>12. HeadersStatus # HTTP_OK => HeadersStatus = v
  BY <1>5, <1>6, <1>7, <1>8, <1>11 DEF HeadersStatus
<1>13. HeadersStatus = HTTP_OK => ~HeadersBad /\ ~Fails(l, 3) /\ ~Fails(l, 4) /\ ~Fails(l, 5)
  BY <1>5, <1>6, <1>7, <1>8 DEF HeadersStatus, HTTP_OK
<1>14. HeadersStatus = HTTP_OK => NoneFails(l)
  BY <1>5, <1>9, <1>13
<1>15. HeadersStatus = HTTP_OK => (rq.line \in Posts <=> WithBody)
  BY <1>6, <1>7, <1>13
<1>. QED
  BY <1>1, <1>2, <1>3, <1>4, <1>12, <1>13, <1>14, <1>15 DEF l, v

(* A step that leaves the buffer alone.                                     *)
LEMMA BufferStays ==
    ASSUME InPlace, UNCHANGED <<script, received, buf, pos>>
    PROVE  Occurs(buf, Stream(script), Taken)' /\ Scanned' /\ Taken' = Taken
<1>1. Occurs(buf, Stream(script), Taken)' /\ Taken' = Taken
  BY DEF InPlace, Taken
<1>2. Scanned'
  BY DEF InPlace, Scanned, Halts, AfterCR, At
<1>. QED
  BY <1>1, <1>2

(* What is left to judge once the head has passed.                          *)
LEMMA BodyIsTaken ==
    ASSUME NEW r \in ClientRequests, HeadPassed(r),
           Word(r) = "POST" /\ r.chunks = <<>> => Len(r.body) <= BodyLimit
    PROVE  UploadedBy(Len(answers)) \in BOOLEAN /\ BodyTaken(r, UploadedBy(Len(answers)))
<1>. DEFINE l == FieldChecks(r)
            u == UploadedBy(Len(answers))
            b == BodyChecks(r, u)
<1>1. u \in BOOLEAN
  BY DEF UploadedBy
<1>2. SectionPassed(r)
  BY DEF HeadPassed, SectionPassed, FieldsPassed
<1>3. NoneFails(l)
  <2>1. Len(l) = 5
    BY FieldChecksAre
  <2>2. \A i \in 1 .. 5 : ~l[i][1]
    BY DEF HeadPassed
  <2>. HIDE DEF l
  <2>. QED
    BY <2>1, <2>2 DEF NoneFails, Fails
<1>4. BodyWanted(r)
  BY <1>2, <1>3 DEF BodyWanted
<1>5. ~Fails(b, 1)
  <2>1. Fails(b, 1) <=> (Word(r) = "POST" /\ u)
    BY BodyChecksAre
  <2>2. ~(Word(r) = "POST" /\ u)
    BY DEF HeadPassed
  <2>. HIDE DEF b, u
  <2>. QED
    BY <2>1, <2>2
<1>6. ~Fails(b, 2)
  <2>1. Fails(b, 2) <=> (Word(r) = "POST" /\ r.chunks = <<>> /\ Len(r.body) > BodyLimit)
    BY BodyChecksAre
  <2>2. Len(r.body) \in Nat /\ BodyLimit \in Nat
    BY WiresAreTyped, LimitsAssumption
  <2>. HIDE DEF b
  <2>. QED
    BY <2>1, <2>2
<1>7. NoneFails(b)
  BY <1>5, <1>6, BodyChecksAre
<1>. QED
  BY <1>1, <1>4, <1>7 DEF BodyTaken

(* The data of the chunks.                                                  *)
LEMMA DatasAreTyped ==
    ASSUME NEW r \in ClientRequests
    PROVE  /\ Len(r.chunks) \in Nat /\ DOMAIN r.chunks = 1 .. Len(r.chunks)
           /\ Datas(r) \in Seq(Seq(Symbols)) /\ Len(Datas(r)) = Len(r.chunks)
           /\ \A j \in 1 .. Len(r.chunks) :
                Datas(r)[j] = r.chunks[j].data /\ r.chunks[j].data \in Seq(Symbols)
<1>1. /\ r.chunks \in Seq(ClientChunks) /\ DOMAIN r.chunks = 1 .. Len(r.chunks)
      /\ Len(r.chunks) \in Nat
  BY WiresAreTyped
<1>2. ASSUME NEW j \in 1 .. Len(r.chunks) PROVE r.chunks[j].data \in Seq(Symbols)
  <2>1. r.chunks[j] \in ClientChunks
    BY <1>1
  <2>. QED
    BY <2>1 DEF ClientChunks
<1>. QED
  BY <1>1, <1>2, FunctionIsSeq DEF Datas

(* One more request, one more upload if it is a POST.                       *)
LEMMA UploadedNext ==
    ASSUME TypeOK, Len(answers) \in Nat
    PROVE  UploadedBy(Len(answers) + 1) <=> (UploadedBy(Len(answers)) \/ Word(Current) = "POST")
<1>. DEFINE n == Len(answers)
<1>1. \A j : j \in 1 .. n + 1 <=> (j \in 1 .. n \/ j = n + 1)
  OBVIOUS
<1>. QED
  BY <1>1 DEF UploadedBy, Current

(* The head as a whole, and the body that it announces.                     *)
LEMMA InvProcessHeaders == ClientWritesWell /\ TypeOK /\ InPlace /\ ProcessHeaders => InPlace'
<1>. SUFFICES ASSUME ClientWritesWell, TypeOK, InPlace, ProcessHeaders PROVE InPlace'
  OBVIOUS
<1>1. /\ building /\ ~closed /\ build_state = "BS_AFTER_HEADERS"
      /\ UNCHANGED <<netVars, parserVars, headVars, sessionVars>>
      /\ UNCHANGED <<netVars, sessionVars>>
      /\ UNCHANGED <<script, answers>> /\ UNCHANGED <<script, received, buf, pos>>
      /\ Len(answers) < Len(script)
  BY DEF ProcessHeaders, InState, netVars, parserVars, sessionVars, InPlace
<1>2. /\ AfterPlace(Current) /\ bb = NewBody /\ (uploaded <=> UploadedBy(Len(answers)))
  BY <1>1 DEF InPlace, Places, HeadStates
<1>. DEFINE r == Current
            u == UploadedBy(Len(answers))
<1>3. /\ r \in ClientRequests /\ WellWritten(r)
      /\ Len(answers) \in Nat /\ u \in BOOLEAN /\ rq \in Requests
      /\ r.chunks \in Seq(ClientChunks) /\ r.body \in Seq(Symbols)
  BY <1>1, CurrentIsGood, WiresAreTyped DEF UploadedBy, TypeOK
<1>4. Occurs(buf, Stream(script), Taken)' /\ Scanned' /\ Taken' = Taken /\ Offset' = Offset
  BY <1>1, BufferStays, Frame DEF Offset
<1>5. /\ rq.line = Word(r) /\ rq.body = <<>> /\ SectionPassed(r)
      /\ WithBody <=> (Sized(r) \/ "chunked" \in Fields(r))
      /\ HeadersStatus # HTTP_OK => HeadersStatus = Deserved(r)
      /\ HeadersStatus = HTTP_OK => /\ NoneFails(FieldChecks(r))
                                    /\ ~HeadersBad
                                    /\ rq.line \in Posts <=> WithBody
  BY <1>2, <1>3, HeadIsJudged
<1>6. /\ IsChunked <=> "chunked" \in Fields(r)
      /\ Has("cl") /\ rq.headers["cl"] \in DOMAIN Number => ContentLength = Len(r.body)
      /\ ~Has("cl") => ContentLength = 0 /\ r.body = <<>>
      /\ Offset = Len(HeadWire(r)) /\ LinePassed(r) /\ rq.line = r.line[1]
  BY <1>2, <1>3, FieldsSay DEF AfterPlace, HeadersRead
<1>7. /\ r.chunks # <<>> <=> IsChunked
      /\ HeadersStatus = HTTP_OK => ContentLength = Len(r.body)
  <2>1. r.chunks # <<>> <=> "chunked" \in Fields(r)
    BY <1>3 DEF WellWritten
  <2>2. HeadersStatus = HTTP_OK /\ Has("cl") => rq.headers["cl"] \in DOMAIN Number
    BY <1>5 DEF HeadersBad
  <2>3. Len(<<>>) = 0
    OBVIOUS
  <2>. QED
    BY <1>6, <2>1, <2>2, <2>3
<1>8. HeadersStatus = HTTP_OK /\ ~(Word(r) = "POST" /\ u) => HeadPassed(r)
  <2>. SUFFICES ASSUME HeadersStatus = HTTP_OK, ~(Word(r) = "POST" /\ u) PROVE HeadPassed(r)
    OBVIOUS
  <2>. DEFINE l == FieldChecks(r)
  <2>1. Len(l) = 5 /\ NoneFails(l)
    BY <1>5, FieldChecksAre
  <2>2. \A i \in 1 .. 5 : ~l[i][1]
    <3>. HIDE DEF l
    <3>. QED
      BY <2>1 DEF NoneFails, Fails
  <2>. QED
    BY <1>5, <1>6, <2>2 DEF HeadPassed, SectionPassed, FieldsPassed
<1>9. 409 \in Nat /\ 409 # HTTP_OK /\ 413 \in Nat /\ 413 # HTTP_OK
      /\ 500 \in Nat /\ 500 # HTTP_OK
  BY DEF HTTP_OK
<1>10. CASE HeadersStatus # HTTP_OK /\ Fail(HeadersStatus)
  <2>1. HeadersStatus \in Nat
    BY HeadersStatusIsTyped
  <2>2. RightStatus(Current, HeadersStatus)
    BY <1>5, <1>10 DEF RightStatus
  <2>. QED
    BY <1>1, <1>4, <1>10, <2>1, <2>2, FailKeeps
<1>11. CASE /\ HeadersStatus = HTTP_OK /\ ~WithBody
            /\ build_state' = "BS_END" /\ UNCHANGED <<rq, bodyVars>>
  <2>1. Word(r) # "POST" /\ rq.line \notin Posts
    BY <1>5, <1>11 DEF Posts
  <2>2. r.chunks = <<>> /\ r.body = <<>>
    BY <1>6, <1>7, <1>11 DEF WithBody
  <2>3. HeadPassed(r)
    BY <1>8, <1>11, <2>1
  <2>4. BodyTaken(r, u)
    BY <1>3, <2>1, <2>3, BodyIsTaken
  <2>5. Deserved(r) = HTTP_OK
    <3>1. Len(r.chunks) = 0 /\ 0 \in 0 .. Len(r.chunks) /\ 1 .. 0 = {}
      BY <2>2
    <3>. QED
      BY <1>3, <2>4, <3>1, ChunkDeserves DEF Deserved
  <2>6. Offset' = Len(Wire(r))
    <3>1. Len(Wire(r)) = Len(HeadWire(r)) + Len(r.body) /\ Len(HeadWire(r)) \in Nat
      BY <1>3, <2>2, BodyParts
    <3>2. Len(r.body) = 0
      BY <2>2
    <3>. QED
      BY <1>4, <1>6, <3>1, <3>2
  <2>7. rq'.body = Payload(r)
    BY <1>5, <1>11, <2>2 DEF Payload
  <2>8. EndPlace(Current)'
    BY <1>1, <2>5, <2>6, <2>7, Frame, VerdictFrame DEF EndPlace
  <2>9. uploaded' <=> UploadedBy(Len(answers) + 1)'
    BY <1>1, <1>2, <1>3, <1>11, <2>1, UploadedNext, Frame DEF bodyVars
  <2>10. Places'
    BY <1>1, <1>11, <2>8, <2>9 DEF Places, HeadStates, BodyStates
  <2>. QED
    BY <1>1, <1>4, <1>11, <2>10, StepKeeps
<1>12. CASE HeadersStatus = HTTP_OK /\ WithBody /\ PrepareBody
  <2>. DEFINE conflict == rq.line = "POST" /\ uploaded
  <2>1. PICK max \in MaxBodySizes :
          /\ bb' = [bb EXCEPT !.chunked = IsChunked,
                              !.remaining = ContentLength, !.max_body = max]
          /\ \/ conflict /\ Fail(409) /\ UNCHANGED uploaded
             \/ /\ ~conflict /\ rq.line = "POST" /\ FilesFail
                /\ Fail(500) /\ UNCHANGED uploaded
             \/ /\ ~conflict
                /\ uploaded' = (uploaded \/ rq.line = "POST")
                /\ \/ /\ IsChunked
                      /\ build_state' = "BS_BODY_CHUNK_SIZE"
                      /\ UNCHANGED rq
                   \/ ~IsChunked /\ ContentLength > max /\ Fail(413)
                   \/ /\ ~IsChunked /\ ContentLength <= max
                      /\ build_state' = "BS_BODY_REGULAR"
                      /\ UNCHANGED rq
    BY <1>12 DEF PrepareBody
  <2>2. /\ bb'.remaining = Len(r.body) /\ bb'.max_body = max /\ bb'.body_len = 0
        /\ Len(r.body) \in Nat
    BY <1>2, <1>3, <1>7, <1>12, <2>1 DEF NewBody
  <2>3. Word(r) \in Posts
    BY <1>5, <1>12
  <2>4. conflict <=> (Word(r) = "POST" /\ u)
    BY <1>2, <1>5
  <2>5. NumbersFit /\ Word(r) = "POST" => max = BodyLimit
    BY <1>5, SizesAreSizes DEF MaxBodySizes, NumbersFit
  <2>. HIDE DEF conflict
  <2>6. CASE conflict /\ Fail(409)
    <3>1. BodyWanted(r)
      BY <1>5, <1>12 DEF BodyWanted
    <3>2. Fails(BodyChecks(r, u), 1)
      BY <2>4, <2>6, BodyChecksAre, ZenonT(40)
    <3>3. Deserved(r) = 409
      BY <1>3, <3>1, <3>2, BodyDeserves DEF Deserved
    <3>4. RightStatus(Current, 409)
      BY <3>3 DEF RightStatus
    <3>. QED
      BY <1>1, <1>4, <1>9, <2>6, <3>4, FailKeeps
  <2>7. CASE ~conflict /\ rq.line = "POST" /\ FilesFail /\ Fail(500)
    <3>1. RightStatus(Current, 500)
      BY <1>5, <2>7 DEF RightStatus
    <3>. QED
      BY <1>1, <1>4, <1>9, <2>7, <3>1, FailKeeps
  <2>8. CASE /\ ~conflict
             /\ uploaded' = (uploaded \/ rq.line = "POST")
             /\ \/ IsChunked /\ build_state' = "BS_BODY_CHUNK_SIZE" /\ UNCHANGED rq
                \/ ~IsChunked /\ ContentLength > max /\ Fail(413)
                \/ /\ ~IsChunked /\ ContentLength <= max
                   /\ build_state' = "BS_BODY_REGULAR"
                   /\ UNCHANGED rq
    <3>1. HeadPassed(r)
      BY <1>8, <1>12, <2>4, <2>8
    <3>2. HeadPassed(Current)'
      <4>1. \/ build_state' = "BS_BAD_REQUEST"
            \/ rq' = rq
        BY <2>1, <2>8 DEF Fail
      <4>2. rq'.line = rq.line
        BY <1>3, <2>1, <2>4, <2>8 DEF Fail, Requests
      <4>. QED
        BY <1>1, <3>1, <4>2, Frame DEF HeadPassed
    <3>3. uploaded' <=> UploadedBy(Len(answers) + 1)'
      BY <1>1, <1>2, <1>3, <1>5, <2>8, UploadedNext, Frame
    <3>4. CASE IsChunked /\ build_state' = "BS_BODY_CHUNK_SIZE" /\ UNCHANGED rq
      <4>1. r.chunks # <<>> /\ Len(r.chunks) \in Nat /\ 0 \in 0 .. Len(r.chunks)
        BY <1>3, <1>7, <3>4
      <4>2. FirstOf(Datas(r), 0) = <<>>
        BY <1>3, DatasAreTyped, FirstOfSteps
      <4>3. ChunksRead(Current, 0)'
        <5>1. Len(FirstOf(Datas(r), 0)) = 0 /\ 1 .. 0 = {}
          BY <4>2
        <5>. QED
          BY <1>1, <2>2, <2>5, <4>1, <5>1, Frame DEF ChunksRead
      <4>4. ChunkSizePlace(Current, 0)'
        <5>1. Offset' = ChunkAt(r, 0)
          BY <1>3, <1>4, <1>6, BodyParts
        <5>2. rq'.body = FirstOf(Datas(r), 0)
          BY <1>5, <3>4, <4>2
        <5>. QED
          BY <1>1, <3>2, <4>3, <5>1, <5>2, Frame DEF ChunkSizePlace
      <4>5. \E j \in (0 .. Len(Current.chunks))' : ChunkSizePlace(Current, j)'
        BY <1>1, <4>1, <4>4, Frame
      <4>6. Places'
        BY <3>3, <3>4, <4>5 DEF Places, HeadStates, BodyStates
      <4>. QED
        BY <1>1, <1>4, <3>4, <4>6, StepKeeps
    <3>5. CASE ~IsChunked /\ ContentLength > max /\ Fail(413)
      <4>1. r.chunks = <<>>
        BY <1>7, <3>5
      <4>2. NumbersFit => RightStatus(Current, 413)
        <5>1. CASE Word(r) = "POSTcgi"
          BY <5>1 DEF RightStatus
        <5>2. CASE Word(r) = "POST"
          <6>. SUFFICES ASSUME NumbersFit PROVE Deserved(r) = 413
            BY DEF RightStatus
          <6>1. BodyWanted(r)
            BY <1>5, <1>12 DEF BodyWanted
          <6>2. Len(r.body) > BodyLimit
            BY <1>7, <1>12, <2>5, <3>5, <5>2
          <6>3. ~Fails(BodyChecks(r, u), 1) /\ Fails(BodyChecks(r, u), 2)
            BY <2>4, <2>8, <4>1, <5>2, <6>2, BodyChecksAre
          <6>. QED
            BY <1>3, <6>1, <6>3, BodyDeserves DEF Deserved
        <5>. QED
          BY <2>3, <5>1, <5>2 DEF Posts
      <4>. QED
        BY <1>1, <1>4, <1>9, <3>5, <4>2, FailKeeps
    <3>6. CASE /\ ~IsChunked /\ ContentLength <= max
               /\ build_state' = "BS_BODY_REGULAR"
               /\ UNCHANGED rq
      <4>1. r.chunks = <<>>
        BY <1>7, <3>6
      <4>2. Offset' + bb'.remaining = Len(HeadWire(r)) + Len(r.body)
        BY <1>4, <1>6, <2>2
      <4>3. rq'.body = SubSeq(r.body, 1, Len(r.body) - bb'.remaining)
        <5>1. Len(r.body) - bb'.remaining = 0
          BY <2>2
        <5>2. SubSeq(r.body, 1, 0) = <<>>
          BY <1>3
        <5>. QED
          BY <1>5, <3>6, <5>1, <5>2
      <4>4. NumbersFit /\ Word(r) = "POST" => Len(r.body) <= BodyLimit
        BY <1>7, <1>12, <2>5, <3>6
      <4>5. bb'.remaining <= Len(r.body)
        BY <2>2
      <4>6. RegularPlace(Current)'
        BY <1>1, <3>2, <4>1, <4>2, <4>3, <4>4, <4>5, Frame DEF RegularPlace
      <4>7. Places'
        BY <3>3, <3>6, <4>6 DEF Places, HeadStates, BodyStates
      <4>. QED
        BY <1>1, <1>4, <3>6, <4>7, StepKeeps
    <3>. QED
      BY <2>8, <3>4, <3>5, <3>6
  <2>. QED
    BY <2>1, <2>6, <2>7, <2>8
<1>. QED
  BY <1>10, <1>11, <1>12 DEF ProcessHeaders

(* The temporary file of a script's request cannot be opened.               *)
LEMMA InvTmpFileFails == ClientWritesWell /\ TypeOK /\ InPlace /\ TmpFileFails => InPlace'
<1>. SUFFICES ASSUME ClientWritesWell, TypeOK, InPlace, TmpFileFails PROVE InPlace'
  OBVIOUS
<1>1. /\ building /\ ~closed /\ build_state = "BS_AFTER_HEADERS"
      /\ HeadersStatus = HTTP_OK /\ WithBody /\ rq.line # "POST" /\ FilesFail
      /\ ended' /\ closed' /\ ~building'
      /\ UNCHANGED <<script, answers, build_state, rq, builder_status>>
      /\ UNCHANGED <<script, received, buf, pos>>
      /\ Len(answers) < Len(script) /\ builder_status # "RB_DONE"
  BY DEF TmpFileFails, InState, netVars, parserVars, InPlace
<1>2. Occurs(buf, Stream(script), Taken)' /\ Scanned'
  BY <1>1, BufferStays
<1>3. Current \in ClientRequests /\ WellWritten(Current) /\ AfterPlace(Current)
  BY <1>1, CurrentIsGood DEF InPlace, Places
<1>4. rq.line = Word(Current) /\ rq.line \in Posts
  BY <1>1, <1>3, HeadIsJudged
<1>5. Word(script[Len(answers) + 1]) = "POSTcgi"
  BY <1>1, <1>4 DEF Posts, Current
<1>6. EndIsForAFile'
  BY <1>1, <1>5 DEF EndIsForAFile
<1>. QED
  BY <1>1, <1>2, <1>6, Frame DEF InPlace

(* What is moved to the body is the next part of what was to be read.       *)
LEMMA MovedIsData ==
    ASSUME TypeOK, InPlace, NEW d \in Seq(Symbols), NEW c, Occurs(d, Stream(script), c),
           bb.remaining <= Len(d), Taken + bb.remaining = c + Len(d)
    PROVE  LET n == Len(d) - bb.remaining
           IN /\ Moved \in Nat /\ Moved <= bb.remaining /\ Moved <= Len(buf)
              /\ Moved = bb.remaining \/ Moved = Len(buf)
              /\ n \in 0 .. Len(d) /\ n + Moved \in 0 .. Len(d)
              /\ n + Moved = Len(d) - (bb.remaining - Moved)
              /\ SubSeq(d, 1, n) \o SubSeq(buf, 1, Moved) = SubSeq(d, 1, n + Moved)
<1>. DEFINE R == bb.remaining
            M == Moved
            D == Len(d)
            B == Len(buf)
            n == D - R
            S == Stream(script)
<1>1. /\ M \in Nat /\ M <= R /\ M <= B /\ (M = R \/ M = B)
      /\ R \in Nat /\ B \in Nat /\ buf \in Seq(Symbols)
  BY MovedIsTyped DEF TypeOK, BodyBuilders
<1>2. D \in Nat /\ c \in Nat /\ Taken \in Nat
  BY DEF Occurs, InPlace
<1>3. /\ \A i \in 1 .. D : d[i] = S[c + i]
      /\ \A i \in 1 .. B : buf[i] = S[Taken + i]
  BY DEF Occurs, InPlace
<1>4. R <= D /\ Taken + R = c + D
  OBVIOUS
<1>. HIDE DEF R, M, D, B, S
<1>5. n \in 0 .. D /\ n + M \in 0 .. D /\ n + M = D - (R - M) /\ Taken = c + n
  BY <1>1, <1>2, <1>4
<1>. HIDE DEF n
<1>6. /\ SubSeq(d, 1, n) \in Seq(Symbols) /\ Len(SubSeq(d, 1, n)) = n
      /\ \A i \in 1 .. n : SubSeq(d, 1, n)[i] = d[i]
  BY <1>2, <1>5 DEF D
<1>7. /\ SubSeq(buf, 1, M) \in Seq(Symbols) /\ Len(SubSeq(buf, 1, M)) = M
      /\ \A i \in 1 .. M : SubSeq(buf, 1, M)[i] = buf[i]
  BY <1>1 DEF B
<1>8. /\ SubSeq(d, 1, n + M) \in Seq(Symbols) /\ Len(SubSeq(d, 1, n + M)) = n + M
      /\ \A i \in 1 .. n + M : SubSeq(d, 1, n + M)[i] = d[i]
  BY <1>2, <1>5 DEF D
<1>. DEFINE x == SubSeq(d, 1, n)
            y == SubSeq(buf, 1, M)
            z == SubSeq(d, 1, n + M)
<1>. HIDE DEF x, y, z
<1>9. /\ x \o y \in Seq(Symbols) /\ Len(x \o y) = n + M
      /\ \A i \in 1 .. n + M : (x \o y)[i] = IF i <= n THEN x[i] ELSE y[i - n]
  BY <1>6, <1>7, ConcatProperties, SMTT(30) DEF x, y
<1>10. ASSUME NEW i \in 1 .. n + M PROVE (x \o y)[i] = z[i]
  <2>1. CASE i <= n
    <3>1. i \in 1 .. n
      BY <1>1, <1>5, <2>1
    <3>. QED
      BY <1>6, <1>8, <1>9, <2>1, <3>1 DEF x, z
  <2>2. CASE ~(i <= n)
    <3>1. i - n \in 1 .. M /\ i - n \in 1 .. B /\ i \in 1 .. D /\ Taken + (i - n) = c + i
      BY <1>1, <1>2, <1>5, <2>2
    <3>2. (x \o y)[i] = y[i - n]
      BY <1>9, <2>2
    <3>3. y[i - n] = buf[i - n]
      BY <1>7, <3>1 DEF y
    <3>4. buf[i - n] = d[i]
      BY <1>3, <3>1
    <3>. QED
      BY <1>8, <3>2, <3>3, <3>4 DEF z
  <2>. QED
    BY <2>1, <2>2
<1>11. x \o y = z
  BY <1>8, <1>9, <1>10 DEF z
<1>. QED
  BY <1>1, <1>5, <1>11 DEF x, y, z, n, R, M, D, B

(* What is taken out of the buffer leaves the rest in place.                *)
LEMMA MovedOut ==
    ASSUME TypeOK, InPlace, UNCHANGED <<script, received>>, NEW n \in 0 .. Len(buf),
           buf' = SubSeq(buf, n + 1, Len(buf)), pos' = 0
    PROVE  /\ Occurs(buf, Stream(script), Taken)' /\ Scanned'
           /\ Taken' = Taken + n
<1>1. Len(buf) \in Nat /\ buf \in Seq(Symbols) /\ received \in Nat
  BY DEF TypeOK
<1>2. Len(buf') = Len(buf) - n /\ Occurs(buf', Stream(script), Taken + n)
  BY <1>1, OccursDropped DEF InPlace
<1>3. Taken' = Taken + n
  <2>. DEFINE B == Len(buf)
              C == Len(buf')
              T == Taken
  <2>1. Taken' = received - C /\ T = received - B
    BY DEF Taken
  <2>2. C = B - n /\ B \in Nat /\ n \in 0 .. B /\ received \in Nat
    BY <1>1, <1>2
  <2>. HIDE DEF B, C, T
  <2>3. Taken' = T + n
    BY <2>1, <2>2
  <2>. QED
    BY <2>3 DEF T
<1>4. Occurs(buf, Stream(script), Taken)'
  BY <1>2, <1>3
<1>5. Scanned'
  <2>1. Len(buf') \in Nat
    BY <1>1, <1>2
  <2>2. pos' = 0 /\ pos' <= Len(buf')
    BY <2>1
  <2>. QED
    BY <2>2 DEF Scanned
<1>. QED
  BY <1>3, <1>4, <1>5

(* A piece of a body with Content-Length.                                   *)
LEMMA InvBuildBodyRegular ==
    ClientWritesWell /\ TypeOK /\ InPlace /\ BuildBodyRegular => InPlace'
<1>. SUFFICES ASSUME ClientWritesWell, TypeOK, InPlace, BuildBodyRegular PROVE InPlace'
  OBVIOUS
<1>1. /\ building /\ ~closed /\ build_state = "BS_BODY_REGULAR"
      /\ UNCHANGED <<netVars, sessionVars>>
      /\ UNCHANGED <<script, answers>> /\ UNCHANGED <<script, received>>
      /\ UNCHANGED uploaded
      /\ Len(answers) < Len(script)
  BY DEF BuildBodyRegular, InState, netVars, sessionVars, InPlace
<1>2. RegularPlace(Current) /\ (uploaded <=> UploadedBy(Len(answers) + 1))
  BY <1>1 DEF InPlace, Places, BodyStates
<1>. DEFINE r == Current
            d == Current.body
            R == bb.remaining
<1>3. /\ r \in ClientRequests /\ d \in Seq(Symbols) /\ Len(d) \in Nat
      /\ rq \in Requests /\ bb \in BodyBuilders /\ R \in Nat
      /\ Taken \in Int /\ EndOf(Len(answers)) \in Nat /\ Len(HeadWire(r)) \in Nat
      /\ Taken = EndOf(Len(answers)) + Offset
  BY <1>1, CurrentIsGood, WiresAreTyped, BodyParts DEF TypeOK, BodyBuilders
<1>4. /\ r.chunks = <<>> /\ HeadPassed(r) /\ R <= Len(d)
      /\ Offset + R = Len(HeadWire(r)) + Len(d)
      /\ rq.body = SubSeq(d, 1, Len(d) - R)
      /\ NumbersFit /\ Word(r) = "POST" => Len(d) <= BodyLimit
  BY <1>2 DEF RegularPlace
<1>5. /\ Occurs(d, Stream(script), EndOf(Len(answers)) + Len(HeadWire(r)))
      /\ Len(Wire(r)) = Len(HeadWire(r)) + Len(d)
  <2>1. Occurs(d, Wire(r), Len(HeadWire(r))) /\ Len(Wire(r)) = Len(HeadWire(r)) + Len(d)
    BY <1>3, <1>4, BodyParts
  <2>2. Len(answers) \in 0 .. Len(script) - 1
    BY <1>1, CurrentIsGood
  <2>. QED
    BY <1>3, <2>1, <2>2, PartInStream DEF Current
<1>. DEFINE D == Len(d)
            H == Len(HeadWire(r))
            E == EndOf(Len(answers))
            M == Moved
            O == Offset
            T == Taken
<1>6. /\ D \in Nat /\ H \in Nat /\ E \in Nat /\ R \in Nat /\ T \in Int
      /\ T = E + O /\ O = T - E /\ O + R = H + D /\ R <= D
  BY <1>3, <1>4 DEF Offset
<1>7. /\ M \in Nat /\ M <= R /\ M \in 0 .. Len(buf)
      /\ SubSeq(d, 1, D - R) \o SubSeq(buf, 1, M) = SubSeq(d, 1, (D - R) + M)
  <2>1. Taken + R = (E + H) + D
    <3>. HIDE DEF D, H, E, O, T, R
    <3>1. T + R = (E + H) + D
      BY <1>6
    <3>. QED
      BY <3>1 DEF T
  <2>2. Occurs(d, Stream(script), E + H)
    BY <1>5
  <2>3. bb.remaining <= Len(d)
    BY <1>4
  <2>4. Taken + bb.remaining = (E + H) + Len(d)
    BY <2>1
  <2>. HIDE DEF E, H
  <2>5. /\ M \in Nat /\ M <= R /\ M <= Len(buf)
        /\ SubSeq(d, 1, D - R) \o SubSeq(buf, 1, M) = SubSeq(d, 1, (D - R) + M)
    BY <1>3, <2>2, <2>3, <2>4, MovedIsData, Zenon
  <2>6. M \in 0 .. Len(buf)
    <3>. DEFINE B == Len(buf)
    <3>1. B \in Nat /\ M \in Nat /\ M <= B
      BY <2>5 DEF TypeOK
    <3>. HIDE DEF M, B
    <3>2. M \in 0 .. B
      BY <3>1
    <3>. QED
      BY <3>2 DEF B
  <2>. HIDE DEF M, R, D
  <2>. QED
    BY <2>5, <2>6, Zenon
<1>8. /\ rq' = [rq EXCEPT !.body = @ \o SubSeq(buf, 1, Moved)]
      /\ bb' = [bb EXCEPT !.remaining = @ - Moved]
      /\ buf' = SubSeq(buf, Moved + 1, Len(buf)) /\ pos' = 0
      /\ build_state' = IF bb'.remaining > 0 THEN build_state ELSE "BS_END"
  BY DEF BuildBodyRegular, MoveToStream
<1>. DEFINE Q == bb'.remaining
<1>9. /\ rq'.status = rq.status /\ rq'.line = rq.line
      /\ rq'.body = rq.body \o SubSeq(buf, 1, M)
  BY <1>3, <1>8 DEF Requests
<1>10. Q = R - M
  BY <1>3, <1>8 DEF BodyBuilders
<1>11. /\ Occurs(buf, Stream(script), Taken)' /\ Scanned' /\ Taken' = Taken + M
  BY <1>1, <1>7, <1>8, MovedOut
<1>12. /\ Q \in Nat /\ Q <= D /\ (D - R) + M = D - Q
       /\ Offset' + Q = H + D /\ Offset' \in Int
  <2>1. Offset' = (T + M) - E
    BY <1>1, <1>11, Frame DEF Offset
  <2>. HIDE DEF D, H, E, O, T, R, M, Q
  <2>. QED
    BY <1>6, <1>7, <1>10, <2>1
<1>16. rq'.body = SubSeq(d, 1, D - Q)
  BY <1>4, <1>7, <1>9, <1>12
<1>13. HeadPassed(Current)'
  BY <1>1, <1>4, <1>9, Frame DEF HeadPassed
<1>14. CASE bb'.remaining > 0
  <2>1. RegularPlace(Current)'
    BY <1>1, <1>4, <1>12, <1>13, <1>16, Frame DEF RegularPlace
  <2>2. build_state' = "BS_BODY_REGULAR"
    BY <1>1, <1>8, <1>14
  <2>3. Places'
    BY <1>1, <1>2, <2>1, <2>2, Frame DEF Places, HeadStates, BodyStates
  <2>. QED
    BY <1>1, <1>9, <1>11, <2>2, <2>3, StepKeeps
<1>15. CASE ~(bb'.remaining > 0)
  <2>1. Q = 0 /\ build_state' = "BS_END"
    BY <1>8, <1>12, <1>15
  <2>2. Offset' = Len(Wire(r))
    <3>1. Offset' = H + D
      <4>. DEFINE P == Offset'
      <4>1. P + Q = H + D /\ Q = 0 /\ P \in Int
        BY <1>12, <2>1
      <4>. HIDE DEF D, H, Q, P
      <4>2. P = H + D
        BY <4>1
      <4>. QED
        BY <4>2 DEF P
    <3>. QED
      BY <1>5, <3>1
  <2>3. rq'.body = Payload(r)
    <3>1. SubSeq(d, 1, Len(d)) = d
      BY <1>3
    <3>2. D - Q = D
      BY <1>3, <2>1
    <3>. QED
      BY <1>4, <1>16, <3>1, <3>2 DEF Payload
  <2>4. NumbersFit => Deserved(r) = HTTP_OK
    <3>. SUFFICES ASSUME NumbersFit PROVE Deserved(r) = HTTP_OK
      OBVIOUS
    <3>1. BodyTaken(r, UploadedBy(Len(answers))) /\ UploadedBy(Len(answers)) \in BOOLEAN
      BY <1>3, <1>4, BodyIsTaken
    <3>2. Len(r.chunks) = 0 /\ 0 \in 0 .. Len(r.chunks) /\ 1 .. 0 = {}
      BY <1>4
    <3>. QED
      BY <1>3, <3>1, <3>2, ChunkDeserves DEF Deserved
  <2>5. EndPlace(Current)'
    BY <1>1, <2>2, <2>3, <2>4, Frame, VerdictFrame DEF EndPlace
  <2>6. Places'
    BY <1>1, <1>2, <2>1, <2>5, Frame DEF Places, HeadStates, BodyStates
  <2>. QED
    BY <1>1, <1>9, <1>11, <2>1, <2>6, StepKeeps
<1>. QED
  BY <1>14, <1>15

(* The first chunks of a body: what they add up to.                         *)
LEMMA ChunkSums ==
    ASSUME NEW r \in ClientRequests, NEW j \in 0 .. Len(r.chunks) - 1
    PROVE  LET d == r.chunks[j + 1].data
               n == Len(FirstOf(Datas(r), j))
           IN /\ d \in Seq(Symbols) /\ FirstOf(Datas(r), j) \in Seq(Symbols)
              /\ FirstOf(Datas(r), j + 1) = FirstOf(Datas(r), j) \o d
              /\ n \in Nat /\ Len(d) \in Nat
              /\ Len(FirstOf(Datas(r), j + 1)) = n + Len(d)
              /\ n + Len(d) <= Len(Payload(r))
              /\ Payload([r EXCEPT !.chunks = SubSeq(@, 1, j + 1)]) = FirstOf(Datas(r), j + 1)
<1>. DEFINE d == r.chunks[j + 1].data
            n == Len(FirstOf(Datas(r), j))
            D == Datas(r)
            C == r.chunks
            q == [r EXCEPT !.chunks = SubSeq(@, 1, j + 1)]
            a == [k \in DOMAIN q.chunks |-> q.chunks[k].data]
            b == SubSeq(D, 1, j + 1)
<1>1. /\ Len(C) \in Nat /\ D \in Seq(Seq(Symbols)) /\ Len(D) = Len(C)
      /\ \A k \in 1 .. Len(C) : D[k] = C[k].data /\ C[k].data \in Seq(Symbols)
      /\ C \in Seq(ClientChunks)
  BY DatasAreTyped, WiresAreTyped
<1>2. /\ j + 1 \in 1 .. Len(C) /\ j \in 0 .. Len(D) - 1 /\ j \in 0 .. Len(D) /\ j \in Nat
      /\ d \in Seq(Symbols) /\ D[j + 1] = d /\ Len(d) \in Nat
  BY <1>1
<1>3. FirstOf(D, j) \in Seq(Symbols) /\ n \in Nat
  BY <1>1, <1>2, FirstOfType
<1>4. FirstOf(D, j + 1) = FirstOf(D, j) \o d
  BY <1>1, <1>2, FirstOfSteps
<1>5. Len(FirstOf(D, j + 1)) = n + Len(d) /\ Occurs(d, FlattenSeq(D), n)
  BY <1>1, <1>2, ElementOccurs
<1>6. C # <<>>
  BY <1>2
<1>7. Payload(r) = FlattenSeq(D)
  BY <1>6 DEF Payload, Datas
<1>8. n + Len(d) <= Len(Payload(r))
  BY <1>5, <1>7 DEF Occurs
<1>9. /\ q.chunks = SubSeq(C, 1, j + 1) /\ Len(q.chunks) = j + 1
      /\ DOMAIN q.chunks = 1 .. j + 1
      /\ \A k \in 1 .. j + 1 : q.chunks[k] = C[k]
  <2>1. q.chunks = SubSeq(C, 1, j + 1)
    BY DEF ClientRequests
  <2>. HIDE DEF C, q
  <2>. QED
    BY <1>1, <1>2, <2>1
<1>. HIDE DEF q, D
<1>10. a \in Seq(Seq(Symbols)) /\ Len(a) = j + 1 /\ \A k \in 1 .. j + 1 : a[k] = D[k]
  <2>1. ASSUME NEW k \in 1 .. j + 1
        PROVE q.chunks[k].data = D[k] /\ D[k] \in Seq(Symbols)
    BY <1>1, <1>2, <1>9
  <2>2. a \in [1 .. j + 1 -> Seq(Symbols)]
    BY <1>9, <2>1
  <2>. QED
    BY <1>2, <1>9, <2>1, <2>2, FunctionIsSeq
<1>11. b \in Seq(Seq(Symbols)) /\ Len(b) = j + 1 /\ \A k \in 1 .. j + 1 : b[k] = D[k]
  BY <1>1, <1>2
<1>12. a = b
  <2>1. Len(a) = Len(b) /\ \A k \in 1 .. Len(a) : a[k] = b[k]
    <3>. HIDE DEF a, b
    <3>. QED
      BY <1>10, <1>11
  <2>. HIDE DEF a, b
  <2>. QED
    BY <1>10, <1>11, <2>1, SeqEqual, Zenon
<1>13. Payload(q) = FlattenSeq(a)
  <2>1. q.chunks # <<>>
    BY <1>2, <1>9
  <2>. QED
    BY <2>1 DEF Payload
<1>. QED
  BY <1>2, <1>3, <1>4, <1>5, <1>8, <1>12, <1>13 DEF FirstOf, D, q

(* A sum of sizes below the range of size_t does not wrap.                  *)
LEMMA SmallSize == ASSUME NEW a \in Nat, a < SizeRange PROVE AsSize(a) = a
BY LimitsAssumption DEF AsSize

(* The size of the last chunk is zero: the fold of HexValue, unfolded by hand. *)
LEMMA HexOfZero == HexValue(<<"0">>) = 0
<1>. DEFINE Def(g) == g = [s \in SUBSET DOMAIN <<"0">> |->
              IF s = {} THEN 0 ELSE 16 * g[s \ {Max(s)}] + Digit[<<"0">>[Max(s)]]]
     F == [s \in SUBSET {1} |-> IF s = {} THEN 0 ELSE 16 * 0 + Digit["0"]]
     G == CHOOSE g : Def(g)
<1>1. HexValue(<<"0">>) = G[{1}]
  <2>1. DOMAIN <<"0">> = {1}
    OBVIOUS
  <2>2. HexValue(<<"0">>) = G[DOMAIN <<"0">>]
    BY DEF HexValue, FoldLeft, MapThenFoldSet
  <2>. QED
    BY <2>1, <2>2
<1>2. Max({1}) = 1
  BY DEF Max
<1>3. Def(F)
  <2>1. SUBSET DOMAIN <<"0">> = SUBSET {1}
    OBVIOUS
  <2>2. ASSUME NEW s \in SUBSET {1}
        PROVE  F[s] = IF s = {} THEN 0 ELSE 16 * F[s \ {Max(s)}] + Digit[<<"0">>[Max(s)]]
    <3>1. CASE s = {}
      BY <3>1
    <3>2. CASE s = {1}
      <4>1. Max(s) = 1 /\ s \ {Max(s)} = {} /\ F[{}] = 0
        BY <3>2, <1>2
      <4>. QED
        BY <3>2, <4>1
    <3>. QED
      BY <3>1, <3>2
  <2>. QED
    BY <2>1, <2>2, Zenon
<1>4. Def(G)
  BY <1>3
<1>5. G[{1}] = 16 * G[{}] + Digit["0"] /\ G[{}] = 0
  <2>1. DOMAIN <<"0">> = {1}
    OBVIOUS
  <2>2. \A s \in SUBSET {1} : G[s] = IF s = {} THEN 0 ELSE 16 * G[s \ {Max(s)}] + Digit[<<"0">>[Max(s)]]
    BY <2>1, <1>4
  <2>. HIDE DEF G
  <2>3. G[{}] = 0
    BY <2>2
  <2>4. G[{1}] = 16 * G[{1} \ {Max({1})}] + Digit[<<"0">>[Max({1})]]
    BY <2>2
  <2>5. {1} \ {1} = {} /\ <<"0">>[1] = "0"
    OBVIOUS
  <2>. QED
    BY <2>3, <2>4, <2>5, <1>2
<1>6. Digit["0"] = 0
  BY DEF Digit
<1>. HIDE DEF G
<1>. QED
  BY <1>1, <1>5, <1>6

(* The line that ends a chunked body.                                       *)
LEMMA ZeroIsHex == IsHex(<<"0">>) /\ HexValue(<<"0">>) = 0 /\ <<"0">> \in Seq(Symbols)
<1>1. ToSet(<<"0">>) \subseteq DOMAIN Digit
  BY DEF ToSet, Digit
<1>2. 0 \in 0 .. SizeRange - 1
  BY LimitsAssumption
<1>. QED
  BY <1>1, <1>2, HexOfZero DEF IsHex, Symbols, Digit

(* The size of a chunk, or the zero that ends the body.                     *)
LEMMA InvBuildBodyChunkSize ==
    ClientWritesWell /\ TypeOK /\ InPlace /\ BuildBodyChunkSize => InPlace'
<1>. SUFFICES ASSUME ClientWritesWell, TypeOK, InPlace, BuildBodyChunkSize PROVE InPlace'
  OBVIOUS
<1>1. /\ building /\ ~closed /\ build_state = "BS_BODY_CHUNK_SIZE"
      /\ UNCHANGED <<netVars, sessionVars>> /\ UNCHANGED <<headVars, has_body, uploaded>>
      /\ UNCHANGED <<script, answers>> /\ UNCHANGED <<script, received>>
      /\ Len(answers) < Len(script)
  BY DEF BuildBodyChunkSize, InState, netVars, sessionVars, InPlace
<1>2. uploaded <=> UploadedBy(Len(answers) + 1)
  BY <1>1 DEF InPlace, Places, BodyStates
<1>3. PICK j \in 0 .. Len(Current.chunks) : ChunkSizePlace(Current, j)
  BY <1>1 DEF InPlace, Places
<1>4. CASE LineMissing /\ UNCHANGED <<build_state, rq, bb>>
  BY <1>1, <1>4, MissingKeeps DEF bodyVars
<1>. DEFINE r == Current
            u == UploadedBy(Len(answers))
            N == Len(Current.chunks)
            w == IF j < N THEN Current.chunks[j + 1].size ELSE <<"0">>
<1>5. /\ r \in ClientRequests /\ WellWritten(r) /\ ~FinalLine
      /\ Taken \in Int /\ EndOf(Len(answers)) \in Nat
      /\ rq \in Requests /\ bb \in BodyBuilders
      /\ r.chunks \in Seq(ClientChunks) /\ N \in Nat
      /\ u \in BOOLEAN /\ script \in Scripts /\ Len(answers) + 1 \in 1 .. Len(script)
  BY <1>1, CurrentIsGood, WiresAreTyped DEF TypeOK, UploadedBy
<1>6. /\ HeadPassed(r) /\ ChunksRead(r, j) /\ r.chunks # <<>>
      /\ Offset = ChunkAt(r, j) /\ rq.body = FirstOf(Datas(r), j)
      /\ Word(r) = "POST" /\ NumbersFit => bb.max_body = BodyLimit
      /\ NumbersFit => /\ \A i \in 1 .. j : ChunkPassed(r, i)
                       /\ bb.body_len = Len(FirstOf(Datas(r), j))
  BY <1>3 DEF ChunkSizePlace, ChunksRead
<1>7. /\ j \in Nat /\ (j < N => j \in 0 .. N - 1 /\ j + 1 \in 1 .. N /\ w = r.chunks[j + 1].size)
      /\ (~(j < N) => j = N /\ w = <<"0">>)
  BY <1>3, <1>5
<1>8. w \in Seq(Symbols) /\ NoLineEnd(w)
  <2>1. CASE j < N
    <3>1. r.chunks[j + 1] \in ClientChunks
      BY <1>5, <1>7, <2>1
    <3>. QED
      BY <1>5, <1>7, <2>1, <3>1 DEF WellWritten, ClientChunks
  <2>2. CASE ~(j < N)
    <3>1. w = <<"0">> /\ Len(w) = 1 /\ 1 .. Len(w) - 1 = {}
      BY <1>7, <2>2
    <3>. QED
      BY <3>1, ZeroIsHex DEF NoLineEnd
  <2>. QED
    BY <2>1, <2>2
<1>. HIDE DEF w
<1>9. Occurs(w \o CRLF, Stream(script), Taken)
  <2>1. w \o CRLF \in Seq(Symbols)
    BY <1>8, LineParts
  <2>2. Occurs(w \o CRLF, Wire(r), Offset)
    <3>1. CASE j < N
      BY <1>5, <1>6, <1>7, <3>1, ChunkParts
    <3>2. CASE ~(j < N)
      BY <1>5, <1>6, <1>7, <3>2, BodyParts
    <3>. QED
      BY <3>1, <3>2
  <2>. QED
    BY <1>1, <2>1, <2>2, PartHere
<1>10. Stops # {} => /\ LineGood => Line = w /\ ~BadText(w)
                     /\ ~LineGood => BadText(w)
  BY <1>8, <1>9, LineIsRead DEF InPlace
<1>11. BodyTaken(r, u)
  BY <1>5, <1>6, BodyIsTaken
<1>12. BadText(w) => j < N
  <2>. SUFFICES ASSUME ~(j < N) PROVE ~BadText(w)
    OBVIOUS
  <2>1. w = <<"0">> /\ Len(w) = 1 /\ ToSet(w) = {"0"}
    BY <1>7 DEF ToSet
  <2>2. LineLimit >= 3 /\ LineLimit \in Nat
    BY <1>5, <1>6, RoomForLines, LimitsAssumption DEF HeadPassed
  <2>. QED
    BY <2>1, <2>2 DEF BadText
<1>13. (BadText(w) \/ ~IsHex(w)) /\ NumbersFit => Deserved(r) = 400
  <2>. SUFFICES ASSUME BadText(w) \/ ~IsHex(w), NumbersFit PROVE Deserved(r) = 400
    OBVIOUS
  <2>1. j < N
    BY <1>7, <1>12, ZeroIsHex
  <2>2. Fails(ChunkChecks(r, j + 1), 1)
    BY <1>7, <2>1, ChunkChecksAre DEF NoSize
  <2>. QED
    BY <1>3, <1>5, <1>6, <1>11, <2>1, <2>2, ChunkDeserves DEF Deserved
<1>14. 400 \in Nat /\ 400 # HTTP_OK /\ 413 \in Nat /\ 413 # HTTP_OK
  BY DEF HTTP_OK
<1>15. CASE LineBad
  <2>1. NumbersFit => Deserved(Current) = 400
    BY <1>10, <1>13, <1>15 DEF LineBad
  <2>. QED
    BY <1>1, <1>15, <2>1, BadLineKeeps, Zenon
<1>16. CASE TakeLine
  <2>1. Line = w /\ ~BadText(w)
    BY <1>10, <1>16 DEF TakeLine, LineGood
  <2>2. /\ Occurs(buf, Stream(script), Taken)' /\ Scanned'
        /\ Taken' = Taken + Len(w) + 2
    BY <1>1, <1>16, <2>1, TakenLine
  <2>3. Offset' = Offset + Len(w) + 2 /\ Offset \in Int /\ Len(w) \in Nat
    <3>1. Offset' = Taken' - EndOf(Len(answers)) /\ Offset = Taken - EndOf(Len(answers))
      BY <1>1, Frame DEF Offset
    <3>2. Len(w) \in Nat
      BY <1>8
    <3>. QED
      BY <1>5, <2>2, <3>1, <3>2
  <2>4. CASE ~IsHex(w) /\ Fail(400)
    <3>1. NumbersFit => RightStatus(Current, 400)
      BY <1>13, <2>4 DEF RightStatus
    <3>. QED
      BY <1>1, <1>14, <2>2, <2>4, <3>1, FailKeeps
  <2>5. CASE IsHex(w) /\ HexValue(w) = 0 /\ build_state' = "BS_END" /\ UNCHANGED <<rq, bb>>
    <3>1. j = N
      <4>. SUFFICES ASSUME j < N PROVE FALSE
        BY <1>7
      <4>1. /\ HexValue(w) = Len(r.chunks[j + 1].data) /\ r.chunks[j + 1].data # <<>>
            /\ r.chunks[j + 1].data \in Seq(Symbols)
        BY <1>5, <1>7, <2>5, DatasAreTyped DEF WellWritten
      <4>. QED
        BY <2>5, <4>1
    <3>2. Offset' = Len(Wire(r))
      <4>1. Len(Wire(r)) = ChunkAt(r, N) + 3
        BY <1>5, <1>6, BodyParts
      <4>2. Len(w) = 1
        BY <1>7, <3>1
      <4>. QED
        BY <1>6, <2>3, <3>1, <4>1, <4>2
    <3>3. rq'.body = Payload(r)
      <4>1. FirstOf(Datas(r), N) = FlattenSeq(Datas(r))
        BY <1>5, DatasAreTyped, FirstOfSteps
      <4>2. Payload(r) = FlattenSeq(Datas(r))
        BY <1>6 DEF Payload, Datas
      <4>. QED
        BY <1>6, <2>5, <3>1, <4>1, <4>2
    <3>4. NumbersFit => Deserved(r) = HTTP_OK
      BY <1>3, <1>5, <1>6, <1>11, <3>1, ChunkDeserves DEF Deserved
    <3>5. EndPlace(Current)'
      BY <1>1, <3>2, <3>3, <3>4, Frame, VerdictFrame DEF EndPlace
    <3>6. Places'
      BY <1>1, <1>2, <2>5, <3>5, Frame DEF Places, HeadStates, BodyStates
    <3>. QED
      BY <1>1, <2>2, <2>5, <3>6, StepKeeps
  <2>6. CASE /\ IsHex(w) /\ HexValue(w) # 0
             /\ bb' = [bb EXCEPT !.body_len = AsSize(@ + HexValue(w)), !.remaining = HexValue(w)]
             /\ \/ bb'.body_len > bb.max_body /\ Fail(413)
                \/ /\ bb'.body_len <= bb.max_body
                   /\ build_state' = "BS_BODY_CHUNK_CONTENT"
                   /\ UNCHANGED rq
    <3>. DEFINE d == r.chunks[j + 1].data
                n == Len(FirstOf(Datas(r), j))
    <3>1. j < N
      BY <1>7, <2>6, ZeroIsHex
    <3>2. j \in 0 .. N - 1 /\ j + 1 \in 1 .. N /\ w = r.chunks[j + 1].size
      BY <1>7, <3>1
    <3>3. HexValue(w) = Len(d)
      BY <1>5, <2>6, <3>2 DEF WellWritten
    <3>4. /\ d \in Seq(Symbols) /\ FirstOf(Datas(r), j) \in Seq(Symbols)
          /\ n \in Nat /\ Len(d) \in Nat
          /\ Len(FirstOf(Datas(r), j + 1)) = n + Len(d)
          /\ n + Len(d) <= Len(Payload(r))
          /\ Payload([r EXCEPT !.chunks = SubSeq(@, 1, j + 1)]) = FirstOf(Datas(r), j + 1)
      BY <1>5, <3>2, ChunkSums
    <3>5. /\ bb'.remaining = Len(d) /\ bb'.max_body = bb.max_body
          /\ bb'.body_len = AsSize(bb.body_len + Len(d))
      BY <1>5, <2>6, <3>3 DEF BodyBuilders
    <3>6. NumbersFit => bb'.body_len = n + Len(d)
      <4>. SUFFICES ASSUME NumbersFit PROVE bb'.body_len = n + Len(d)
        OBVIOUS
      <4>1. Len(Payload(r)) < SizeRange
        BY <1>5 DEF NumbersFit, Current
      <4>2. n + Len(d) < SizeRange /\ n + Len(d) \in Nat
        <5>. DEFINE p == Len(Payload(r))
                    m == Len(d)
        <5>1. n \in Nat /\ m \in Nat /\ n + m <= p /\ p < SizeRange /\ p \in Nat
          <6>1. Len(Payload(r)) \in Nat
            <7>1. Payload(r) = FlattenSeq(Datas(r))
              BY <1>6 DEF Payload, Datas
            <7>2. Payload(r) \in Seq(Symbols)
              BY <1>5, <7>1, DatasAreTyped, FlattenType
            <7>. QED
              BY <7>2
          <6>. QED
            BY <3>4, <4>1, <6>1
        <5>. HIDE DEF n, m, p
        <5>2. n + m < SizeRange /\ n + m \in Nat
          BY <5>1, LimitsAssumption
        <5>. QED
          BY <5>2 DEF m
      <4>. QED
        BY <1>6, <3>5, <4>2, SmallSize
    <3>. HIDE DEF n, d
    <3>7. /\ Fails(ChunkChecks(r, j + 1), 1) <=> NoSize(r, j + 1)
          /\ Fails(ChunkChecks(r, j + 1), 2) <=> TooLong(r, j + 1)
          /\ Fails(ChunkChecks(r, j + 1), 3) <=> Misfit(r, j + 1)
      BY ChunkChecksAre
    <3>8. ~NoSize(r, j + 1) /\ ~Misfit(r, j + 1)
      BY <2>1, <2>6, <3>2, <3>3 DEF NoSize, Misfit, d
    <3>9. TooLong(r, j + 1) <=> Word(r) = "POST" /\ n + Len(d) > BodyLimit
      BY <3>4 DEF TooLong
    <3>10. CASE bb'.body_len > bb.max_body /\ Fail(413)
      <4>1. NumbersFit => RightStatus(Current, 413)
        <5>. SUFFICES ASSUME NumbersFit PROVE RightStatus(Current, 413)
          OBVIOUS
        <5>1. Word(r) \in Posts
          <6>. DEFINE l == FieldChecks(r)
          <6>1. Fails(l, 4) <=> (Word(r) \notin Posts /\ (Sized(r) \/ "chunked" \in Fields(r)))
            BY FieldChecksAre
          <6>2. ~l[4][1]
            BY <1>6 DEF HeadPassed
          <6>3. "chunked" \in Fields(r)
            BY <1>5, <1>6 DEF WellWritten
          <6>. HIDE DEF l
          <6>. QED
            BY <6>1, <6>2, <6>3 DEF Fails
        <5>2. CASE Word(r) = "POSTcgi"
          BY <5>2 DEF RightStatus
        <5>3. CASE Word(r) = "POST"
          <6>1. TooLong(r, j + 1)
            BY <1>6, <3>6, <3>9, <3>10, <5>3
          <6>2. Deserved(r) = 413
            BY <1>3, <1>5, <1>6, <1>11, <3>1, <3>7, <3>8, <6>1, ChunkDeserves DEF Deserved
          <6>. QED
            BY <6>2 DEF RightStatus
        <5>. QED
          BY <5>1, <5>2, <5>3 DEF Posts
      <4>. QED
        BY <1>1, <1>14, <2>2, <3>10, <4>1, FailKeeps
    <3>11. CASE /\ bb'.body_len <= bb.max_body
                /\ build_state' = "BS_BODY_CHUNK_CONTENT"
                /\ UNCHANGED rq
      <4>1. HeadPassed(Current)'
        BY <1>1, <1>6, <3>11, Frame DEF HeadPassed
      <4>2. NumbersFit => ChunkPassed(r, j + 1)
        <5>. SUFFICES ASSUME NumbersFit PROVE ChunkPassed(r, j + 1)
          OBVIOUS
        <5>1. ~TooLong(r, j + 1)
          <6>. SUFFICES ASSUME Word(r) = "POST" PROVE ~(n + Len(d) > BodyLimit)
            BY <3>9
          <6>1. n + Len(d) <= BodyLimit
            BY <1>6, <3>6, <3>11
          <6>. QED
            BY <3>4, <6>1, LimitsAssumption
        <5>2. \A i \in 1 .. 3 : i = 1 \/ i = 2 \/ i = 3
          OBVIOUS
        <5>. DEFINE l == ChunkChecks(r, j + 1)
        <5>3. ~l[1][1] /\ ~l[2][1] /\ ~l[3][1]
          BY <3>7, <3>8, <5>1 DEF Fails
        <5>. HIDE DEF l
        <5>4. \A i \in 1 .. 3 : ~l[i][1]
          BY <5>2, <5>3
        <5>. QED
          BY <5>4 DEF ChunkPassed, l
      <4>3. ChunksRead(Current, j + 1)'
        <5>1. NumbersFit => \A i \in 1 .. j + 1 : ChunkPassed(r, i)
          <6>1. \A i \in 1 .. j + 1 : i \in 1 .. j \/ i = j + 1
            BY <1>7
          <6>. QED
            BY <1>6, <4>2, <6>1
        <5>2. NumbersFit => bb'.body_len = Len(FirstOf(Datas(r), j + 1))
          BY <3>4, <3>6
        <5>. QED
          BY <1>1, <1>6, <3>5, <5>1, <5>2, Frame DEF ChunksRead
      <4>4. Offset' + bb'.remaining + 2 = ChunkAt(r, j + 1)
        <5>1. /\ ChunkAt(r, j + 1) = ChunkAt(r, j) + Len(w) + 2 + Len(d) + 2
              /\ ChunkAt(r, j) \in Nat
          BY <1>5, <1>6, <3>2, ChunkParts DEF d
        <5>2. Offset' = ChunkAt(r, j) + Len(w) + 2
          BY <1>6, <2>3
        <5>. DEFINE c == ChunkAt(r, j)
                    a == Len(w)
                    m == Len(d)
                    e == ChunkAt(r, j + 1)
                    o == Offset'
                    b == bb'.remaining
        <5>3. /\ c \in Nat /\ a \in Nat /\ m \in Nat /\ e = c + a + 2 + m + 2
              /\ o = c + a + 2 /\ b = m
          BY <2>3, <3>4, <3>5, <5>1, <5>2
        <5>. HIDE DEF c, a, m, e, o, b
        <5>4. o + b + 2 = e
          BY <5>3
        <5>. QED
          BY <5>4 DEF o, b, e
      <4>5. rq'.body = FirstOf(Datas(r), (j + 1) - 1) \o SubSeq(d, 1, Len(d) - bb'.remaining)
        <5>1. Len(d) - bb'.remaining = 0 /\ (j + 1) - 1 = j
          BY <1>7, <3>4, <3>5
        <5>2. SubSeq(d, 1, 0) = <<>>
          BY <3>4
        <5>3. FirstOf(Datas(r), j) \o <<>> = FirstOf(Datas(r), j)
          BY <3>4, ConcatEmptySeq
        <5>. QED
          BY <1>6, <3>11, <5>1, <5>2, <5>3
      <4>6. bb'.remaining <= Len(d)
        BY <3>4, <3>5
      <4>7. ChunkContentPlace(Current, j + 1)'
        BY <1>1, <4>1, <4>3, <4>4, <4>5, <4>6, Frame DEF ChunkContentPlace, d
      <4>8. \E i \in (1 .. Len(Current.chunks))' : ChunkContentPlace(Current, i)'
        BY <1>1, <3>2, <4>7, Frame
      <4>9. Places'
        BY <1>1, <1>2, <3>11, <4>8, Frame DEF Places, HeadStates, BodyStates
      <4>. QED
        BY <1>1, <2>2, <3>11, <4>9, StepKeeps
    <3>. QED
      BY <2>6, <3>10, <3>11
  <2>. QED
    BY <1>4, <1>15, <1>16, <2>1, <2>4, <2>5, <2>6
       DEF BuildBodyChunkSize, LineMissing, LineBad, TakeLine, LineGood, TakeChunkSize
<1>. QED
  BY <1>4, <1>15, <1>16 DEF BuildBodyChunkSize

(* A piece of a chunk, and the end of its line.                             *)
LEMMA InvBuildBodyChunkContent ==
    ClientWritesWell /\ TypeOK /\ InPlace /\ BuildBodyChunkContent => InPlace'
<1>. SUFFICES ASSUME ClientWritesWell, TypeOK, InPlace, BuildBodyChunkContent PROVE InPlace'
  OBVIOUS
<1>1. /\ building /\ ~closed /\ build_state = "BS_BODY_CHUNK_CONTENT"
      /\ UNCHANGED <<netVars, sessionVars>> /\ UNCHANGED <<headVars, has_body, uploaded>>
      /\ UNCHANGED <<script, answers>> /\ UNCHANGED <<script, received>>
      /\ Len(answers) < Len(script) /\ pos' = 0
      /\ bb' = [bb EXCEPT !.remaining = @ - Moved]
  BY DEF BuildBodyChunkContent, InState, netVars, sessionVars, InPlace
<1>2. uploaded <=> UploadedBy(Len(answers) + 1)
  BY <1>1 DEF InPlace, Places, BodyStates
<1>3. PICK j \in 1 .. Len(Current.chunks) : ChunkContentPlace(Current, j)
  BY <1>1 DEF InPlace, Places
<1>. DEFINE r == Current
            d == Current.chunks[j].data
            F == FirstOf(Datas(Current), j - 1)
            R == bb.remaining
            M == Moved
            D == Len(d)
            B == Len(buf)
            T == Taken
            E == EndOf(Len(answers))
            C == ChunkAt(r, j)
<1>4. /\ r \in ClientRequests /\ j - 1 \in 0 .. Len(r.chunks) - 1 /\ j \in Nat /\ (j - 1) + 1 = j
      /\ rq \in Requests /\ bb \in BodyBuilders /\ R \in Nat
      /\ T \in Int /\ E \in Nat /\ T = E + Offset
      /\ B \in Nat /\ buf \in Seq(Symbols)
      /\ Len(answers) \in 0 .. Len(script) - 1
  <2>1. /\ r \in ClientRequests /\ T \in Int /\ E \in Nat /\ Len(answers) \in 0 .. Len(script) - 1
        /\ T = E + Offset
    BY <1>1, CurrentIsGood
  <2>2. Len(r.chunks) \in Nat
    BY <2>1, DatasAreTyped
  <2>3. j - 1 \in 0 .. Len(r.chunks) - 1 /\ j \in Nat /\ (j - 1) + 1 = j
    BY <1>3, <2>2
  <2>. QED
    BY <2>1, <2>3 DEF TypeOK, BodyBuilders
<1>5. /\ HeadPassed(r) /\ ChunksRead(r, j) /\ R <= D /\ r.chunks # <<>>
      /\ Offset + R + 2 = C
      /\ rq.body = F \o SubSeq(d, 1, D - R)
  BY <1>3 DEF ChunkContentPlace, ChunksRead
<1>6. /\ d \in Seq(Symbols) /\ D \in Nat /\ F \in Seq(Symbols)
      /\ FirstOf(Datas(r), j) = F \o d
  <2>. DEFINE i == j - 1
  <2>1. i \in 0 .. Len(r.chunks) - 1 /\ i + 1 = j
    BY <1>4
  <2>. HIDE DEF i
  <2>2. /\ r.chunks[i + 1].data \in Seq(Symbols) /\ Len(r.chunks[i + 1].data) \in Nat
        /\ FirstOf(Datas(r), i) \in Seq(Symbols)
        /\ FirstOf(Datas(r), i + 1) = FirstOf(Datas(r), i) \o r.chunks[i + 1].data
    BY <1>4, <2>1, ChunkSums
  <2>. QED
    BY <2>1, <2>2 DEF i
<1>7. PICK P \in Nat : /\ C = P + D + 2
                       /\ Occurs(d, Stream(script), E + P)
                       /\ Occurs(CRLF, Stream(script), E + (P + D))
  <2>. DEFINE i == j - 1
              a == Len(r.chunks[j].size)
              b == ChunkAt(r, i)
              P == b + a + 2
  <2>1. i \in 0 .. Len(r.chunks) - 1 /\ i + 1 = j
    BY <1>4
  <2>. HIDE DEF i
  <2>2. /\ C = b + a + 2 + D + 2 /\ b \in Nat
        /\ r.chunks[j].size \in Seq(Symbols)
        /\ Occurs(d, Wire(r), P) /\ Occurs(CRLF, Wire(r), P + D)
    BY <1>4, <1>5, <2>1, ChunkParts
  <2>3. a \in Nat /\ P \in Nat /\ C = P + D + 2
    <3>1. a \in Nat
      BY <2>2
    <3>. HIDE DEF a, b, C, D
    <3>. QED
      BY <1>6, <2>2, <3>1
  <2>. HIDE DEF P
  <2>4. Occurs(d, Stream(script), E + P) /\ Occurs(CRLF, Stream(script), E + (P + D))
    BY <1>4, <1>6, <2>2, PartInStream, LineEndIsTyped DEF Current
  <2>. QED
    BY <2>3, <2>4
<1>8. /\ M \in Nat /\ M <= R /\ M <= B
      /\ SubSeq(d, 1, D - R) \o SubSeq(buf, 1, M) = SubSeq(d, 1, (D - R) + M)
  <2>1. T + R = (E + P) + D
    <3>. DEFINE O == Offset
    <3>1. O + R + 2 = P + D + 2 /\ T = E + O /\ T \in Int
      BY <1>4, <1>5, <1>7
    <3>2. O \in Int
      BY <1>4 DEF Offset
    <3>3. T \in Int /\ E \in Nat /\ D \in Nat /\ R \in Nat /\ P \in Nat
      BY <1>4, <1>6
    <3>. HIDE DEF O, T, E, D, R
    <3>. QED
      BY <3>1, <3>2, <3>3
  <2>2. /\ bb.remaining <= Len(d) /\ Taken + bb.remaining = (E + P) + Len(d)
        /\ Occurs(d, Stream(script), E + P)
    BY <1>5, <1>7, <2>1
  <2>. HIDE DEF E
  <2>. QED
    BY <1>6, <2>2, MovedIsData, Zenon
<1>. DEFINE Q == R - M
            body == rq.body \o SubSeq(buf, 1, M)
<1>9. /\ Q \in Nat /\ Q <= D /\ (D - R) + M = D - Q
      /\ T + M = E + (P + D) - Q
      /\ (T + M) - E + Q + 2 = C
  <2>. DEFINE O == Offset
  <2>1. O + R + 2 = C /\ C = P + D + 2 /\ T = E + O
    BY <1>4, <1>5, <1>7
  <2>2. O \in Int
    BY <1>4 DEF Offset
  <2>3. /\ T \in Int /\ E \in Nat /\ D \in Nat /\ R \in Nat /\ P \in Nat
        /\ M \in Nat /\ M <= R /\ R <= D
    BY <1>4, <1>5, <1>6, <1>8
  <2>. HIDE DEF O, T, E, D, R, M, C
  <2>4. O + R = P + D
    BY <2>1, <2>2, <2>3
  <2>. QED
    BY <2>1, <2>2, <2>3, <2>4
<1>10. body = F \o SubSeq(d, 1, D - Q)
  <2>. DEFINE x == SubSeq(d, 1, D - R)
              y == SubSeq(buf, 1, M)
  <2>1. x \in Seq(Symbols) /\ y \in Seq(Symbols)
    <3>1. D - R \in 0 .. D /\ M \in 0 .. B /\ d \in Seq(Symbols) /\ buf \in Seq(Symbols)
      <4>1. D \in Nat /\ R \in Nat /\ R <= D /\ M \in Nat /\ M <= B /\ B \in Nat
        BY <1>4, <1>5, <1>6, <1>8
      <4>. HIDE DEF D, R, M, B
      <4>2. D - R \in 0 .. D /\ M \in 0 .. B
        BY <4>1
      <4>. QED
        BY <1>4, <1>6, <4>2
    <3>. DEFINE n == D - R
    <3>. HIDE DEF n, M
    <3>. QED
      BY <3>1 DEF x, y
  <2>2. body = (F \o x) \o y /\ x \o y = SubSeq(d, 1, D - Q)
    BY <1>5, <1>8, <1>9
  <2>. HIDE DEF x, y, body, F
  <2>3. (F \o x) \o y = F \o (x \o y)
    BY <1>6, <2>1, ConcatAssociative, SMTT(30)
  <2>. QED
    BY <2>2, <2>3
<1>11. /\ bb'.remaining = Q /\ bb'.max_body = bb.max_body /\ bb'.body_len = bb.body_len
  BY <1>1, <1>4 DEF BodyBuilders
<1>12. ASSUME rq' = [rq EXCEPT !.body = body]
       PROVE  /\ rq'.body = body /\ rq'.status = rq.status /\ rq'.line = rq.line
              /\ HeadPassed(Current)' /\ ChunksRead(Current, j)'
  <2>1. rq'.body = body /\ rq'.status = rq.status /\ rq'.line = rq.line
    BY <1>4, <1>12 DEF Requests
  <2>2. HeadPassed(Current)'
    BY <1>1, <1>5, <2>1, Frame DEF HeadPassed
  <2>3. ChunksRead(Current, j)'
    BY <1>1, <1>5, <1>11, Frame DEF ChunksRead
  <2>. QED
    BY <2>1, <2>2, <2>3
<1>13. M \in 0 .. B
  <2>. HIDE DEF M, B
  <2>. QED
    BY <1>4, <1>8
<1>14. CASE /\ AwaitChunkEnd
            /\ buf' = Rest
            /\ rq' = [rq EXCEPT !.body = body]
            /\ UNCHANGED build_state
  <2>1. Occurs(buf, Stream(script), Taken)' /\ Scanned' /\ Taken' = T + M
    BY <1>1, <1>13, <1>14, MovedOut DEF Rest
  <2>2. Offset' + bb'.remaining + 2 = ChunkAt(r, j)
    BY <1>1, <1>9, <1>11, <2>1, Frame DEF Offset
  <2>3. ChunkContentPlace(Current, j)'
    BY <1>1, <1>9, <1>10, <1>11, <1>12, <1>14, <2>2, Frame DEF ChunkContentPlace
  <2>4. \E i \in (1 .. Len(Current.chunks))' : ChunkContentPlace(Current, i)'
    BY <1>1, <1>3, <2>3, Frame
  <2>5. Places'
    BY <1>1, <1>2, <1>14, <2>4, Frame DEF Places, HeadStates, BodyStates
  <2>. QED
    BY <1>1, <1>12, <1>14, <2>1, <2>5, StepKeeps
<1>15. ASSUME ~AwaitChunkEnd
       PROVE  /\ Q = 0 /\ M + 2 \in 0 .. B /\ IsPrefix(CRLF, Rest)
              /\ SubSeq(Rest, 3, Len(Rest)) = SubSeq(buf, (M + 2) + 1, B)
  <2>1. Rest \in Seq(Symbols) /\ Len(Rest) = B - M /\ \A i \in 1 .. B - M : Rest[i] = buf[M + i]
    <3>. HIDE DEF M
    <3>. QED
      BY <1>4, <1>8, SMTT(30) DEF Rest, M
  <2>2. Q = 0 /\ M + 2 \in 0 .. B
    <3>1. ~(R > M) /\ ~(Len(Rest) < 2)
      BY <1>15 DEF AwaitChunkEnd
    <3>. HIDE DEF R, M, B
    <3>. QED
      BY <1>4, <1>8, <2>1, <3>1
  <2>3. Rest[1] = "CR" /\ Rest[2] = "LF"
    <3>1. Occurs(Rest, Stream(script), T + M)
      <4>. HIDE DEF M, T
      <4>1. Occurs(SubSeq(buf, M + 1, Len(buf)), Stream(script), T + M)
        BY <1>4, <1>13, OccursDropped DEF InPlace, T
      <4>. QED
        BY <4>1 DEF Rest, M
    <3>2. Occurs(CRLF, Stream(script), T + M)
      <4>1. T + M = E + (P + D)
        <5>. HIDE DEF T, M, E, D, Q
        <5>. QED
          BY <1>4, <1>6, <1>9, <2>2
      <4>. QED
        BY <1>7, <4>1
    <3>3. /\ 1 \in 1 .. Len(CRLF) /\ 2 \in 1 .. Len(CRLF)
          /\ 1 \in 1 .. Len(Rest) /\ 2 \in 1 .. Len(Rest)
      <4>. DEFINE l == Len(Rest)
      <4>1. l = B - M /\ M + 2 \in 0 .. B /\ B \in Nat /\ M \in Nat /\ Len(CRLF) = 2
        BY <1>4, <1>8, <2>1, <2>2, LineEndIsTyped
      <4>. HIDE DEF M, B, l
      <4>2. 1 \in 1 .. l /\ 2 \in 1 .. l
        BY <4>1
      <4>. QED
        BY <4>1, <4>2 DEF l
    <3>4. Rest[1] = CRLF[1] /\ Rest[2] = CRLF[2]
      BY <3>1, <3>2, <3>3, OccurTogether
    <3>. QED
      BY <3>4, LineEndIsTyped
  <2>4. IsPrefix(CRLF, Rest)
    <3>1. Len(Rest) >= 2 /\ Len(Rest) \in Nat
      <4>. HIDE DEF M, B
      <4>. QED
        BY <1>4, <1>8, <2>1, <2>2
    <3>. DEFINE a == SubSeq(CRLF, 1, 2)
                b == SubSeq(Rest, 1, 2)
    <3>2. /\ a \in Seq(Symbols) /\ Len(a) = 2 /\ a[1] = "CR" /\ a[2] = "LF"
          /\ b \in Seq(Symbols) /\ Len(b) = 2 /\ b[1] = "CR" /\ b[2] = "LF"
      BY <2>1, <2>3, <3>1, LineEndIsTyped
    <3>3. a = b
      <4>. HIDE DEF a, b
      <4>1. \A i \in 1 .. Len(a) : a[i] = b[i]
        BY <3>2
      <4>. QED
        BY <3>2, <4>1, SeqEqual
    <3>. QED
      BY <3>1, <3>3, LineEndIsTyped DEF IsPrefix
  <2>5. SubSeq(Rest, 3, Len(Rest)) = SubSeq(buf, (M + 2) + 1, B)
    <3>. DEFINE a == SubSeq(Rest, 3, Len(Rest))
                b == SubSeq(buf, (M + 2) + 1, B)
                n == B - M - 2
    <3>1. n \in Nat /\ Len(Rest) = n + 2 /\ M \in Nat /\ B = M + 2 + n
      <4>. HIDE DEF M, B
      <4>. QED
        BY <1>4, <1>8, <2>1, <2>2
    <3>. HIDE DEF n, M, B
    <3>2. a \in Seq(Symbols) /\ Len(a) = n /\ \A i \in 1 .. n : a[i] = Rest[i + 2]
      BY <2>1, <3>1
    <3>3. b \in Seq(Symbols) /\ Len(b) = n /\ \A i \in 1 .. n : b[i] = buf[M + 2 + i]
      <4>1. buf \in Seq(Symbols) /\ Len(buf) = M + 2 + n
        BY <1>4, <3>1 DEF B
      <4>. DEFINE m == M + 2
      <4>2. m \in Nat /\ B = m + n /\ Len(buf) = m + n /\ n \in Nat
        BY <3>1, <4>1
      <4>. HIDE DEF m
      <4>3. /\ SubSeq(buf, m + 1, B) \in Seq(Symbols) /\ Len(SubSeq(buf, m + 1, B)) = n
            /\ \A i \in 1 .. n : SubSeq(buf, m + 1, B)[i] = buf[m + i]
        BY <4>1, <4>2
      <4>. QED
        BY <4>3 DEF m
    <3>. HIDE DEF a, b
    <3>4. ASSUME NEW i \in 1 .. n PROVE a[i] = b[i]
      <4>1. i + 2 \in 1 .. B - M /\ M + (i + 2) = M + 2 + i
        BY <3>1
      <4>. QED
        BY <2>1, <3>2, <3>3, <4>1
    <3>5. a = b
      BY <3>2, <3>3, <3>4, SeqEqual
    <3>. QED
      BY <3>5 DEF a, b
  <2>. QED
    BY <2>2, <2>4, <2>5
<1>16. CASE /\ ~AwaitChunkEnd
            /\ buf' = SubSeq(Rest, 3, Len(Rest))
            /\ rq' = [rq EXCEPT !.body = body]
            /\ build_state' = "BS_BODY_CHUNK_SIZE"
  <2>1. Occurs(buf, Stream(script), Taken)' /\ Scanned' /\ Taken' = T + (M + 2)
    <3>1. M + 2 \in 0 .. B /\ buf' = SubSeq(buf, (M + 2) + 1, B)
      BY <1>15, <1>16
    <3>. HIDE DEF M
    <3>. QED
      BY <1>1, <3>1, MovedOut
  <2>2. Offset' = ChunkAt(r, j)
    <3>1. Offset' = (T + (M + 2)) - E
      BY <1>1, <2>1, Frame DEF Offset
    <3>2. Q = 0
      BY <1>15, <1>16
    <3>. HIDE DEF T, M, E, Q, C
    <3>3. Offset' = C
      BY <1>4, <1>8, <1>9, <3>1, <3>2
    <3>. QED
      BY <3>3 DEF C
  <2>3. rq'.body = FirstOf(Datas(r), j)
    <3>1. D - Q = D
      BY <1>6, <1>15, <1>16
    <3>2. SubSeq(d, 1, D) = d
      BY <1>6
    <3>. QED
      BY <1>6, <1>10, <1>12, <1>16, <3>1, <3>2
  <2>4. ChunkSizePlace(Current, j)'
    BY <1>1, <1>12, <1>16, <2>2, <2>3, Frame DEF ChunkSizePlace
  <2>5. \E i \in (0 .. Len(Current.chunks))' : ChunkSizePlace(Current, i)'
    <3>1. j \in 0 .. Len(r.chunks)
      BY <1>3
    <3>. QED
      BY <1>1, <2>4, <3>1, Frame
  <2>6. Places'
    BY <1>1, <1>2, <1>16, <2>5, Frame DEF Places, HeadStates, BodyStates
  <2>. QED
    BY <1>1, <1>12, <1>16, <2>1, <2>6, StepKeeps
<1>. QED
  BY <1>14, <1>15, <1>16 DEF BuildBodyChunkContent

(* The answer is sent, and the builder starts over where the request ended. *)
LEMMA InvResponseSent == ClientWritesWell /\ TypeOK /\ InPlace /\ ResponseSent => InPlace'
<1>. SUFFICES ASSUME ClientWritesWell, TypeOK, InPlace, ResponseSent PROVE InPlace'
  OBVIOUS
<1>. DEFINE n == Len(answers)
            r == Current
<1>1. /\ ~building /\ ~closed /\ builder_status = "RB_DONE" /\ ~building'
      /\ answers' = Append(answers, AnswerGiven)
      /\ closed' = (rq.status # HTTP_OK)
      /\ rq' = NewRequest /\ builder_status' = "RB_BUILDING" /\ build_state' = "BS_RQ_LINE"
      /\ bb' = NewBody /\ header_count' = 0 /\ section_size' = 0
      /\ UNCHANGED <<script, received, buf, pos>> /\ uploaded' = uploaded
      /\ ended' = ended
  BY DEF ResponseSent, netVars, parserVars
<1>2. build_state \in {"BS_END", "BS_BAD_REQUEST"} /\ n < Len(script)
  BY <1>1 DEF InPlace
<1>3. /\ n \in 0 .. Len(script) - 1 /\ Len(script) \in Nat /\ n \in Nat
      /\ r \in ClientRequests /\ EndOf(n) \in Nat /\ Taken \in Int
      /\ Taken = EndOf(n) + Offset
      /\ EndOf(n + 1) = EndOf(n) + Len(Wire(r)) /\ rq \in Requests
  BY <1>2, CurrentIsGood DEF TypeOK
<1>4. Occurs(buf, Stream(script), Taken)' /\ Scanned' /\ Taken' = Taken
  BY <1>1, BufferStays
<1>5. AnswerGiven \in [status : Nat, body : Seq(Symbols)]
  <2>1. rq.status \in Nat /\ rq.body \in Seq(Symbols)
    BY <1>3 DEF Requests
  <2>2. (IF rq.status = HTTP_OK THEN rq.body ELSE <<>>) \in Seq(Symbols)
    BY <2>1
  <2>. QED
    BY <2>1, <2>2 DEF AnswerGiven
<1>6. /\ answers \in Seq([status : Nat, body : Seq(Symbols)])
      /\ answers' \in Seq([status : Nat, body : Seq(Symbols)])
      /\ Len(answers') = n + 1 /\ answers'[n + 1] = AnswerGiven
      /\ \A i \in 1 .. n : answers'[i] = answers[i]
  <2>1. answers \in Seq([status : Nat, body : Seq(Symbols)])
    BY DEF InPlace
  <2>. QED
    BY <1>1, <1>5, <2>1
<1>7. rq.status = HTTP_OK => build_state = "BS_END"
  BY <1>2 DEF InPlace
<1>8. rq.status # HTTP_OK => build_state = "BS_BAD_REQUEST"
  BY DEF InPlace
<1>9. ~closed' => Places'
  <2>. SUFFICES ASSUME ~closed' PROVE Places'
    OBVIOUS
  <2>1. build_state = "BS_END"
    BY <1>1, <1>7
  <2>2. Offset = Len(Wire(r)) /\ (uploaded <=> UploadedBy(n + 1))
    BY <1>1, <2>1 DEF InPlace, Places, BodyStates, EndPlace
  <2>3. Taken' = EndOf(Len(answers))'
    <3>1. EndOf(Len(answers))' = EndOf(n + 1)
      BY <1>1, <1>6 DEF EndOf
    <3>. QED
      BY <1>3, <1>4, <2>2, <3>1
  <2>4. LinePlace'
    BY <1>1, <2>3 DEF LinePlace
  <2>5. UploadedBy(Len(answers))' <=> UploadedBy(n + 1)
    BY <1>1, <1>6 DEF UploadedBy
  <2>. QED
    BY <1>1, <2>2, <2>4, <2>5 DEF Places, HeadStates, BodyStates
<1>10. NumbersFit => AnswersFit'
  <2>. SUFFICES ASSUME NumbersFit PROVE AnswersFit'
    OBVIOUS
  <2>. DEFINE Right(i, a) ==
         \/ a = Reference(i)
         \/ Word(script[i]) = "POSTcgi" /\ a = Refused(413)
         \/ FilesFail /\ Word(script[i]) = "POST" /\ a = Refused(500)
  <2>1. ASSUME NEW i \in 1 .. n PROVE Right(i, answers[i])
    <3>1. i \in DOMAIN answers
      BY <1>6
    <3>. QED
      BY <3>1 DEF InPlace, AnswersFit
  <2>2. Reference(n + 1) =
          [status |-> Deserved(r),
           body |-> IF Deserved(r) = HTTP_OK THEN Payload(r) ELSE <<>>]
    <3>1. (n + 1) - 1 = n
      BY <1>3
    <3>. QED
      BY <3>1 DEF Reference, Deserved, UploadedBy, Current
  <2>3. Right(n + 1, AnswerGiven)
    <3>1. CASE rq.status = HTTP_OK
      <4>1. Deserved(r) = HTTP_OK /\ rq.body = Payload(r)
        BY <1>1, <1>7, <3>1 DEF InPlace, Places, EndPlace
      <4>. QED
        BY <2>2, <3>1, <4>1 DEF AnswerGiven
    <3>2. CASE rq.status # HTTP_OK
      <4>1. RightStatus(r, rq.status)
        BY <1>8, <3>2 DEF InPlace
      <4>2. AnswerGiven = Refused(rq.status)
        BY <3>2 DEF AnswerGiven, Refused
      <4>3. rq.status = Deserved(r) => AnswerGiven = Reference(n + 1)
        BY <2>2, <3>2, <4>2 DEF Refused
      <4>. QED
        BY <4>1, <4>2, <4>3 DEF RightStatus, Current
    <3>. QED
      BY <3>1, <3>2
  <2>4. DOMAIN answers' = 1 .. n + 1 /\ \A i \in 1 .. n + 1 : i \in 1 .. n \/ i = n + 1
    BY <1>3, <1>6
  <2>5. \A i \in DOMAIN answers' : Right(i, answers'[i])
    <3>. HIDE DEF Right
    <3>. QED
      BY <1>6, <2>1, <2>3, <2>4
  <2>6. script' = script
    BY <1>1
  <2>7. \A i : Reference(i)' = Reference(i)
    BY <2>6 DEF Reference
  <2>. QED
    BY <2>5, <2>6, <2>7 DEF AnswersFit
<1>11. Len(answers') <= Len(script')
  BY <1>1, <1>3, <1>6
<1>12. rq'.status = HTTP_OK
  BY <1>1 DEF NewRequest
<1>13. ~ended' /\ EndIsForAFile'
  BY <1>1 DEF InPlace, EndIsForAFile
<1>. QED
  BY <1>1, <1>4, <1>6, <1>9, <1>10, <1>11, <1>12, <1>13 DEF InPlace

(* Nothing happens.                                                         *)
LEMMA InvStutter == TypeOK /\ InPlace /\ UNCHANGED vars => InPlace'
<1>. SUFFICES ASSUME TypeOK, InPlace, UNCHANGED vars PROVE InPlace'
  OBVIOUS
<1>1. /\ UNCHANGED <<script, answers>> /\ UNCHANGED <<script, received, buf, pos>>
      /\ UNCHANGED <<script, build_state, rq, headVars, bodyVars, answers>>
      /\ UNCHANGED <<building, builder_status, build_state, closed, ended, rq>>
  BY DEF vars, netVars, parserVars, sessionVars
<1>2. Occurs(buf, Stream(script), Taken)' /\ Scanned' /\ Taken' = Taken
  BY <1>1, BufferStays
<1>3. Places' <=> Places
  BY <1>1, <1>2, PlacesFrame
<1>4. RightStatus(Current, rq.status)' <=> RightStatus(Current, rq.status)
  BY <1>1, Frame, VerdictFrame
<1>. QED
  BY <1>1, <1>2, <1>3, <1>4, Frame DEF InPlace

-----------------------------------------------------------------------------

(* The builder stays in place, whatever happens next.                       *)
LEMMA InvNext == ClientWritesWell /\ TypeOK /\ InPlace /\ [Next]_vars => InPlace'
BY InvReceive, InvLeaveBuild, InvBuildFirstLine, InvBuildHeaderField, InvProcessHeaders,
   InvTmpFileFails, InvBuildBodyRegular, InvBuildBodyChunkSize, InvBuildBodyChunkContent,
   InvResponseSent, InvStutter, Zenon DEF Next, Build

(* What a client sends is settled when it connects.                         *)
LEMMA ScriptStays == [Next]_vars => UNCHANGED script
BY Zenon DEF Next, Build, Receive, LeaveBuild, BuildFirstLine, BuildHeaderField, ProcessHeaders,
   TmpFileFails, BuildBodyRegular, BuildBodyChunkSize, BuildBodyChunkContent, ResponseSent, vars, netVars

(* While the client writes well, the builder is always in place.            *)
LEMMA AlwaysInv == Spec => []InPlaceIfWellWritten
<1>1. Init => InPlaceIfWellWritten
  BY TypeInit, InvInit DEF InPlaceIfWellWritten
<1>2. TypeOK /\ InPlaceIfWellWritten /\ [Next]_vars => InPlaceIfWellWritten'
  <2>. SUFFICES ASSUME TypeOK, InPlaceIfWellWritten, [Next]_vars, ClientWritesWell'
                PROVE  InPlace'
    BY DEF InPlaceIfWellWritten
  <2>1. UNCHANGED script
    BY ScriptStays
  <2>2. ClientWritesWell
    BY <2>1, Zenon DEF ClientWritesWell
  <2>. QED
    BY <2>2, InvNext DEF InPlaceIfWellWritten
<1>. QED
  BY <1>1, <1>2, TypeCorrect, PTL DEF Spec

(* A builder in place that looks for a request line has it in its buffer.   *)
LEMMA StartsThere == TypeOK /\ InPlace => RequestsStartWhereTheLastEnded
<1>. SUFFICES ASSUME TypeOK, InPlace, build_state = "BS_RQ_LINE", ~closed
              PROVE  buf = SubSeq(Stream(script), EndOf(Len(answers)) + 1, received)
  BY DEF RequestsStartWhereTheLastEnded
<1>. DEFINE T == Taken
            S == Stream(script)
            B == Len(buf)
            z == SubSeq(S, T + 1, received)
<1>1. T = EndOf(Len(answers)) /\ Occurs(buf, S, T)
  BY DEF InPlace, Places, LinePlace
<1>2. /\ buf \in Seq(Symbols) /\ B \in Nat /\ received \in Nat /\ T = received - B
      /\ S \in Seq(Symbols) /\ Len(S) \in Nat
  BY StreamParts DEF TypeOK, Taken
<1>3. T \in Nat /\ T + B <= Len(S) /\ \A i \in 1 .. B : S[T + i] = buf[i]
  BY <1>1 DEF Occurs
<1>. HIDE DEF T, S, B
<1>4. received = T + B
  BY <1>2, <1>3
<1>5. z \in Seq(Symbols) /\ Len(z) = B /\ \A i \in 1 .. B : z[i] = S[T + i]
  BY <1>2, <1>3, <1>4
<1>. HIDE DEF z
<1>6. Len(buf) = B
  BY DEF B
<1>7. buf = z
  BY <1>2, <1>3, <1>5, <1>6, SeqEqual
<1>. QED
  BY <1>1, <1>7 DEF z, S

(* Wherever recv() cut the bytes of a client that writes well, the builder   *)
(* is in place: in every state of Build's loop its buffer, what it stored    *)
(* and what it refused are those of the request that is next.                *)
THEOREM BuilderIsInPlace == Spec => []InPlaceIfWellWritten
BY AlwaysInv

(* The builder takes out of its buffer exactly the bytes of the requests it *)
(* answered: for a client that sends well-written requests, however recv()  *)
(* cuts their bytes, whatever is refused of them and whatever the limits    *)
(* are, the buffer starts where the last request ended when a request line  *)
(* is next.                                                                 *)
THEOREM RequestsAreFound == Spec => [](ClientWritesWell => RequestsStartWhereTheLastEnded)
<1>1. TypeOK /\ InPlaceIfWellWritten => (ClientWritesWell => RequestsStartWhereTheLastEnded)
  BY StartsThere DEF InPlaceIfWellWritten
<1>. QED
  BY <1>1, AlwaysInv, TypeCorrect, PTL

(* The k-th answer of a session is what the k-th request deserves, with the *)
(* body its client sent: for a client that sends well-written requests and  *)
(* every cut of its bytes, as long as the limit on bodies and the bodies    *)
(* themselves fit the integers the code keeps them in.  No such request ends *)
(* the server, unless it is for a script and its temporary file cannot be    *)
(* opened.                                                                   *)
THEOREM AnswersAreDeserved ==
    ASSUME NumbersFit
    PROVE  Spec => [](ClientWritesWell => AnswersAreRight)
<1>1. InPlaceIfWellWritten => (ClientWritesWell => AnswersAreRight)
  BY DEF InPlace, InPlaceIfWellWritten, AnswersAreRight
<1>. QED
  BY <1>1, AlwaysInv, PTL
=============================================================================
