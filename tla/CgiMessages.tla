---------------------------- MODULE CgiMessages ----------------------------
(***************************************************************************)
(* What scripts write and what their clients read: cgi::ParseCgiResponse   *)
(* takes the output of a script apart, Response::Dump puts the answer on   *)
(* the connection, where one answer follows the other.  A symbol stands    *)
(* for a byte, or for a word the code compares with.                       *)
(***************************************************************************)
EXTENDS SequencesExt, Integers

CONSTANTS
    Writes,         \* what scripts write at a time
    MaxWrites       \* bound: the writes on one connection

ASSUME CgiAssumption == MaxWrites \in Nat

VARIABLES
    output,         \* of the running script: cgi_out_buffer_
    writes,         \* so far, on this connection
    outputs,        \* of the scripts that have ended
    sent,           \* what the connection has carried
    kept            \* it is open

cgVars == <<output, writes, outputs, sent, kept>>

-----------------------------------------------------------------------------
(* Characters.                                                              *)
StatusDigits == {"2", "0", "4", "5"}
Words == {"Status", "Content-Length", "content-length", "Content-Type", "Connection", "Close", "z"}
Alnum == StatusDigits \cup Words \cup {"1"}
KeyChars == Alnum \cup {"-", "_"}
Blanks == {" ", "tab"}
Printable == KeyChars \cup {" ", ":"}

Trim(w) ==
    LET solid == {i \in DOMAIN w : w[i] \notin Blanks}
    IN  IF solid = {} THEN <<>> ELSE SubSeq(w, Min(solid), Max(solid))

Colon(line) == Min({i \in DOMAIN line : line[i] = ":"} \cup {Len(line) + 1})
Key(line) == SubSeq(line, 1, Colon(line) - 1)
Value(line) == Trim(SubSeq(line, Colon(line) + 1, Len(line)))

HeaderOk(line) ==
    /\ ":" \in ToSet(line)
    /\ Key(line) # <<>> /\ ToSet(Key(line)) \subseteq KeyChars
    /\ ToSet(Value(line)) \subseteq Printable

ExtractHeaderToMap(headers, line) ==
    IF Value(line) = <<>> THEN headers ELSE (Key(line) :> Value(line)) @@ headers

(* ExtractStatus; behind the end of a string its operator[] finds a NUL.    *)
StatusOk(v) ==
    /\ Len(v) > 5 /\ ToSet(SubSeq(v, 1, 3)) \subseteq StatusDigits /\ v[1] # "0"
    /\ v[5] \in Blanks /\ v[6] \in Alnum

-----------------------------------------------------------------------------
(* ParseCgiResponse: an answer, or none.  Headers end at the first empty    *)
(* line, or with the last line that ends.                                   *)
Ends(buf) == {i \in DOMAIN buf : buf[i] = "LF"}
EmptyLines(buf) == {i \in Ends(buf) : i - 1 \in Ends(buf)}
BodyStart(buf) == IF EmptyLines(buf) # {} THEN Min(EmptyLines(buf)) + 1 ELSE Max(Ends(buf) \cup {0}) + 1
HeaderLines(buf) ==
    LET ends == SetToSortSeq({i \in Ends(buf) \ EmptyLines(buf) : i < BodyStart(buf)}, <)
    IN  [k \in DOMAIN ends |-> SubSeq(buf, IF k = 1 THEN 1 ELSE ends[k - 1] + 1, ends[k] - 1)]

(* Slip: the length is taken before the headers are removed.                *)
LengthOfAll(buf) == Len(buf)
LengthOfBody(buf) == Len(buf) - BodyStart(buf) + 1

ParseCgiResponse(buf) ==
    LET lines == HeaderLines(buf)
        headers == FoldLeft(ExtractHeaderToMap, <<>>, lines)
        body == SubSeq(buf, BodyStart(buf), Len(buf))
        Has(key) == key \in DOMAIN headers
        length == IF Has(<<"Content-Length">>) \/ body = <<>> THEN <<>>
                  ELSE <<"Content-Length">> :> <<ToString(LengthOfBody(buf))>>
    IN  IF \/ buf = <<>> \/ buf[1] = "LF"
           \/ \E k \in DOMAIN lines : ~HeaderOk(lines[k])
           \/ Has(<<"Status">>) /\ ~StatusOk(headers[<<"Status">>])
        THEN {}
        ELSE {[code |-> IF Has(<<"Status">>) THEN SubSeq(headers[<<"Status">>], 1, 3) ELSE <<"2", "0", "0">>,
               headers |-> length @@ headers, body |-> body]}

(* GeneratedErrorProcessor, or a page from a file.                          *)
ErrorPage(code) ==
    [code |-> code, body |-> <<"page">>,
     headers |-> (<<"Content-Type">> :> <<"text/html">>) @@ (<<"Connection">> :> <<"Close">>)
                 @@ (<<"Content-Length">> :> <<"1">>)]

CgiAnswer(buf) ==
    IF ParseCgiResponse(buf) = {} THEN ErrorPage(<<"5", "0", "0">>)
    ELSE CHOOSE rs \in ParseCgiResponse(buf) : TRUE

-----------------------------------------------------------------------------
(* ClientSession::PrepareResponse.                                          *)
FillResponseHeaders(rs) ==
    [rs EXCEPT !.headers = @ @@ (<<"Server">> :> <<"webserv">>) @@ (<<"Date">> :> <<"now">>)]

Closes(rs) == <<"Connection">> \in DOMAIN rs.headers /\ rs.headers[<<"Connection">>] = <<"Close">>

Dump(rs) ==
    LET keys == SetToSeq(DOMAIN rs.headers)
    IN  <<"HTTP/1.1", " ">> \o rs.code \o <<" ", "reason", "CR", "LF">>
        \o FlattenSeq([k \in DOMAIN keys |-> keys[k] \o <<":", " ">> \o rs.headers[keys[k]] \o <<"CR", "LF">>])
        \o <<"CR", "LF">> \o rs.body

CgInit == output = <<>> /\ writes = 0 /\ outputs = <<>> /\ sent = <<>> /\ kept = TRUE

ScriptWrites ==
    /\ kept /\ writes < MaxWrites /\ writes' = writes + 1
    /\ \E w \in Writes : output' = output \o w
    /\ UNCHANGED <<outputs, sent, kept>>

ScriptEnds ==
    /\ kept
    /\ LET rs == FillResponseHeaders(CgiAnswer(output))
       IN  sent' = sent \o Dump(rs) /\ kept' = ~Closes(rs)
    /\ outputs' = Append(outputs, output) /\ output' = <<>> /\ UNCHANGED writes

NewConnection ==
    /\ outputs # <<>>
    /\ output' = <<>> /\ writes' = 0 /\ outputs' = <<>> /\ sent' = <<>> /\ kept' = TRUE

CgNext == ScriptWrites \/ ScriptEnds \/ NewConnection

-----------------------------------------------------------------------------
Lengths == {"Content-Length", "content-length"}

(* The client: a head up to an empty line, a body as long as announced (or  *)
(* empty), and what is left for the next answer.                            *)
ReadAnswer(w) ==
    LET breaks == {i \in 1 .. Len(w) - 1 : w[i] = "CR" /\ w[i + 1] = "LF"}
        end == Min({i \in breaks : i + 2 \in breaks} \cup {Len(w)})
        starts == {1} \cup {i + 2 : i \in {b \in breaks : b < end}}
        Named(key) == {i \in starts : w[i] \in key /\ w[i + 1] = ":"}
        lengths == {w[i + 3] : i \in Named(Lengths)}
        n == IF lengths = {} THEN 0 ELSE Min({i \in 0 .. Len(w) : ToString(i) \in lengths} \cup {Len(w)})
        last == Min({end + 3 + n, Len(w)})
    IN  [whole |-> last = end + 3 + n, code |-> SubSeq(w, 3, 5), body |-> SubSeq(w, end + 4, last),
         rest |-> SubSeq(w, last + 1, Len(w))]

AnswersRead ==
    LET read[k \in Nat] == IF k = 0 THEN [code |-> <<>>, body |-> <<>>, rest |-> sent]
                           ELSE ReadAnswer(read[k - 1].rest)
    IN  [k \in DOMAIN outputs |-> read[k]]

(* What a script says: lines, the first empty one before the body.          *)
Said(out) ==
    LET gaps == {i \in 2 .. Len(out) : out[i] = "LF" /\ out[i - 1] = "LF"}
        Line(i) == SubSeq(out, i, Min({j \in i .. Len(out) : out[j] = "LF"}) - 1)
        heads == {i \in 1 .. Min(gaps) - 1 : i = 1 \/ out[i - 1] = "LF"}
        statuses == {i \in heads : out[i] = "Status" /\ Value(Line(i)) # <<>>}
    IN  [lines |-> {Line(i) : i \in heads},
         code |-> IF statuses = {} THEN <<"2", "0", "0">> ELSE SubSeq(Value(Line(Max(statuses))), 1, 3),
         body |-> SubSeq(out, Min(gaps) + 1, Len(out))]

Complete(out) == \E i \in 2 .. Len(out) : out[i] = "LF" /\ out[i - 1] = "LF"

(* A length a script announces itself is its own to keep.                   *)
Honest(out) ==
    IF ~Complete(out) THEN ToSet(out) \cap Lengths = {}
    ELSE \A l \in Said(out).lines :
            l # <<>> /\ l[1] \in Lengths => Value(l) = <<ToString(Len(Said(out).body))>>

(* A script may be refused when it breaks off, for its status, and for a    *)
(* line that is no header (a body that comes first, a CR).                  *)
Refusable(out) ==
    \/ ~Complete(out)
    \/ \E l \in Said(out).lines : Len(l) < 2 \/ l[1] = "Status" \/ l[2] # ":" \/ "CR" \in ToSet(l)

(* Answers that follow each other on a connection are read as the scripts   *)
(* wrote them: each with its status and exactly its body, however many      *)
(* headers came before and whatever lines the body is made of; nothing of   *)
(* an answer is left to be taken for the next one.  A script that breaks    *)
(* off before its body is answered 200 or 500.                              *)
ScriptsAreReadAsWritten ==
    (\A k \in DOMAIN outputs : Honest(outputs[k])) =>
        \A k \in DOMAIN outputs :
            LET answer == AnswersRead[k]
            IN  /\ answer.whole /\ (k = Len(outputs) => answer.rest = <<>>)
                /\ \/ answer.code = <<"5", "0", "0">> /\ answer.body = <<"page">> /\ Refusable(outputs[k])
                   \/ IF Complete(outputs[k])
                      THEN answer.code = Said(outputs[k]).code /\ answer.body = Said(outputs[k]).body
                      ELSE IsSuffix(answer.body, outputs[k])

=============================================================================
