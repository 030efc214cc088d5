------------------------------ MODULE RqTarget ------------------------------
(***************************************************************************)
(* Request targets: how RqTarget takes a raw target apart, refuses or      *)
(* normalises it, and what a client meets when DirectoryProcessor sends it *)
(* to the same target with a slash.  A target is a word of symbols: one    *)
(* for each character the code looks for, one for a run of letters or      *)
(* digits nobody looks into ("http", "80"), and one for each byte that can *)
(* only be written as an escape.                                           *)
(***************************************************************************)
EXTENDS SequencesExt, Integers

CONSTANTS
    Starts,         \* how targets begin
    Pieces,         \* [Starts -> what they go on with]
    MaxPieces,      \* bound: the pieces of a target
    LengthLimit     \* RQ_TARGET_LEN_LIMIT

ASSUME TargetAssumption ==
    /\ MaxPieces \in [Starts -> Nat] /\ LengthLimit \in Nat
    /\ DOMAIN Pieces = Starts
    /\ Starts \subseteq Seq(STRING) /\ \A s \in Starts : Pieces[s] \subseteq Seq(STRING)

VARIABLES
    start,          \* how the target begins
    count,          \* the pieces after that
    word            \* the target in the request line

tgVars == <<start, count, word>>

-----------------------------------------------------------------------------
(* Characters.                                                              *)
HexUpper == {"0", "2", "3", "4", "5", "7", "A", "E", "F"}
Hex == HexUpper \cup {"a", "e", "f"}
Letters == {"z", "Z", "http", "cgi-bin"}
Unreserved == Hex \cup Letters \cup {"80", "."}
Upper(c) == CASE c = "a" -> "A" [] c = "e" -> "E" [] c = "f" -> "F"
              [] c = "z" -> "Z" [] OTHER -> c
Lower(c) == CASE c \in {"A", "E", "F", "Z"} -> (CHOOSE l \in Hex \cup Letters : l # c /\ Upper(l) = c)
              [] OTHER -> c

(* The character an escape stands for; a byte nobody tells apart is named   *)
(* by its digits.                                                           *)
OctetOf(h, l) ==
    LET e == <<Upper(h), Upper(l)>> IN
    CASE e = <<"2", "F">> -> "/"
      [] e = <<"2", "E">> -> "."
      [] e = <<"2", "5">> -> "%"
      [] e = <<"2", "0">> -> " "
      [] e = <<"3", "A">> -> ":"
      [] e = <<"3", "F">> -> "?"
      [] e = <<"4", "0">> -> "@"
      [] e = <<"0", "0">> -> "NUL"
      [] e = <<"7", "A">> -> "z"
      [] e = <<"5", "A">> -> "Z"
      [] OTHER -> e[1] \o e[2]

At(w, i) == IF i \in 1 .. Len(w) THEN w[i] ELSE ""

(* find_first_of from a position: the place after the end when none is.     *)
FindFirstOf(w, from, S) ==
    Min({i \in from .. Len(w) : w[i] \in S} \cup {Len(w) + 1})

IsEncodedOctet(w, i) == At(w, i) = "%" /\ At(w, i + 1) \in Hex /\ At(w, i + 2) \in Hex

(* Slip: every escape is decoded, those of separators too.                  *)
PercentDecodeAll(w, keep) ==
    LET Char(i) ==
          IF At(w, i - 1) = "%" \/ At(w, i - 2) = "%" THEN <<>>
          ELSE IF w[i] = "%" THEN <<OctetOf(w[i + 1], w[i + 2])>> ELSE <<w[i]>>
    IN  FlattenSeq([i \in 1 .. Len(w) |-> Char(i)])

(* PercentDecode of a word whose escapes are all well-formed, and its       *)
(* inverse.  strchr also finds the terminating NUL in the set.              *)
PercentDecode(w, keep) ==
    LET Char(i) ==
          LET c == OctetOf(w[i + 1], w[i + 2]) IN
          CASE At(w, i - 1) = "%" \/ At(w, i - 2) = "%" -> <<>>
            [] "%" \notin {At(w, i - 1), At(w, i - 2), w[i]} -> <<w[i]>>
            [] OTHER -> IF c \in keep \cup {"NUL"} THEN SubSeq(w, i, i + 2) ELSE <<c>>
    IN  FlattenSeq([i \in 1 .. Len(w) |-> Char(i)])

PercentEncode(w, keep) ==
    LET Escape(c) == LET e == CHOOSE p \in HexUpper \X HexUpper : OctetOf(p[1], p[2]) = c
                     IN  <<"%", e[1], e[2]>>
    IN  FlattenSeq([i \in 1 .. Len(w) |->
                      IF w[i] \in Unreserved \cup keep THEN <<w[i]>> ELSE Escape(w[i])])

-----------------------------------------------------------------------------
(* The parts of a target, each a set of at most one word, cut one after the *)
(* other from what is left of it.                                           *)
Low(w) == [i \in DOMAIN w |-> Lower(w[i])]

Cut(t, part, from, to, next) ==
    [t EXCEPT ![part] = {SubSeq(t.left, from, to)}, !.left = SubSeq(@, next, Len(@))]

(* "://" and "@" are looked for in all of it.                               *)
SchemeMarks(w) == {i \in DOMAIN w : At(w, i) = ":" /\ At(w, i + 1) = "/" /\ At(w, i + 2) = "/"}

ParseScheme(t) ==
    LET end == Min(SchemeMarks(t.left))
    IN  IF SchemeMarks(t.left) = {} THEN t
        ELSE [Cut(t, "scheme", 1, end - 1, end + 3) EXCEPT !.scheme = {Low(x) : x \in @}]

ParseUserInfo(t) ==
    LET end == FindFirstOf(t.left, 1, {"@"})
    IN  IF t.scheme = {} \/ end > Len(t.left) THEN t ELSE Cut(t, "user", 1, end - 1, end + 1)

ParseHost(t) ==
    LET end == FindFirstOf(t.left, 1, {":", "/"})
    IN  IF t.scheme = {} \/ t.left = <<>> THEN t
        ELSE [Cut(t, "host", 1, end - 1, end) EXCEPT !.host = {Low(x) : x \in @}]

ParsePort(t) ==
    LET end == FindFirstOf(t.left, 2, {"/", "?", "#"})
    IN  IF t.host = {} \/ At(t.left, 1) # ":" THEN t ELSE Cut(t, "port", 2, end - 1, end)

ParsePath(t) ==
    LET end == FindFirstOf(t.left, 1, {"?", "#"})
    IN  IF At(t.left, 1) # "/" THEN t ELSE Cut(t, "path", 1, end - 1, end)

ParseQuery(t) ==
    LET end == FindFirstOf(t.left, 2, {"#"})
    IN  IF At(t.left, 1) # "?" THEN t ELSE Cut(t, "query", 2, end - 1, end)

ParseFragment(t) ==
    LET end == Len(t.left) + 1
    IN  IF At(t.left, 1) # "#" THEN t ELSE Cut(t, "fragment", 2, end - 1, end)

Parts(w) ==
    ParseFragment(ParseQuery(ParsePath(ParsePort(ParseHost(ParseUserInfo(ParseScheme(
        [left |-> w, scheme |-> {}, user |-> {}, host |-> {}, port |-> {},
         path |-> {}, query |-> {}, fragment |-> {}])))))))

(* Validate_.                                                               *)
Allowed(w, chars) == \A i \in 1 .. Len(w) : w[i] \in chars \/ IsEncodedOctet(w, i)
ValidatePath(w) == At(w, 2) # "/" /\ Allowed(w, Unreserved \cup {"=", "&", ":", "@", "/"})
ValidateQuery(w) == Allowed(w, Unreserved \cup {"=", "&", ":", "@", "/", "?"})
ValidateHost(w) == w # <<>> /\ Allowed(w, Unreserved)

(* A number below 2^16, the only digits of hosts being those of 80.         *)
ValidatePort(w) == Len(w) \in 1 .. 2 /\ \A i \in 1 .. Len(w) : w[i] = "80"

(* Slip: user information is let pass.                                      *)
ValidateAnyUser(t) ==
    /\ t.scheme \subseteq {<<"http">>} /\ t.fragment = {} /\ t.path # {}
    /\ \A h \in t.host : ValidateHost(h)
    /\ \A p \in t.port : ValidatePort(p)
    /\ \A p \in t.path : ValidatePath(p)
    /\ \A q \in t.query : ValidateQuery(q)

Validate(t) ==
    /\ t.scheme \subseteq {<<"http">>}
    /\ t.user = {} /\ t.fragment = {} /\ t.path # {}
    /\ \A h \in t.host : ValidateHost(h)
    /\ \A p \in t.port : ValidatePort(p)
    /\ \A p \in t.path : ValidatePath(p)
    /\ \A q \in t.query : ValidateQuery(q)

-----------------------------------------------------------------------------
(* Normalize_ of what Validate_ let pass.                                   *)
ConvertEncodedHexToUpper(w) ==
    [i \in 1 .. Len(w) |->
        IF \/ At(w, i - 1) = "%" /\ i < Len(w)
           \/ At(w, i - 2) = "%"
        THEN Upper(w[i]) ELSE w[i]]

CollapseSlashes(w) ==
    FlattenSeq([i \in 1 .. Len(w) |->
        IF w[i] = "/" /\ i > 1 /\ At(w, i + 1) = "/" THEN <<>> ELSE <<w[i]>>])

RemoveLastSegment(out) ==
    LET slashes == {i \in 1 .. Len(out) : out[i] = "/"}
    IN  IF slashes = {} THEN out ELSE SubSeq(out, 1, Max(slashes) - 1)

(* One turn of the loop of RemoveDotSegments_.  The input begins with a     *)
(* slash, which leaves four of its branches out of reach.                   *)
DotStep(s) ==
    LET in == s.in
        rest(n) == <<"/">> \o SubSeq(in, n, Len(in))
        move == FindFirstOf(in, 2, {"/"})
        step ==
          CASE in = <<"/", ".", ".">> \/ IsPrefix(<<"/", ".", ".", "/">>, in) ->
               [in |-> rest(5), out |-> RemoveLastSegment(s.out), level |-> s.level - 1]
          [] in = <<"/", ".">> \/ IsPrefix(<<"/", ".", "/">>, in) -> [s EXCEPT !.in = rest(4)]
          [] OTHER -> [in |-> SubSeq(in, move, Len(in)),
                       out |-> s.out \o SubSeq(in, 1, move - 1), level |-> s.level + 1]
    IN  IF in = <<>> \/ s.level < 0 THEN s ELSE step

RemoveDotSegments(w) ==
    LET after[n \in 0 .. Len(w) + 1] ==
          IF n = 0 THEN [in |-> w, out |-> <<>>, level |-> 0] ELSE DotStep(after[n - 1])
    IN  after[Len(w) + 1]

Normal(t) ==
    LET path == RemoveDotSegments(CollapseSlashes(ConvertEncodedHexToUpper(
                    PercentDecode(CHOOSE p \in t.path : TRUE, {"/"}))))
    IN  [good |-> path.level >= 0,
         scheme |-> t.scheme,
         host |-> {ConvertEncodedHexToUpper(PercentDecode(h, {})) : h \in t.host},
         port |-> t.port \ {<<"80">>},
         path |-> path.out,
         query |-> {ConvertEncodedHexToUpper(PercentDecode(q, {"&", "="})) : q \in t.query}]

(* The target a request is read with, refused with 414 or 400 unless good.  *)
Target(w) ==
    LET Valid(t) == IF Validate(t) THEN Normal(t) ELSE [good |-> FALSE, path |-> <<>>]
    IN  IF Len(w) > LengthLimit THEN [good |-> FALSE, path |-> <<>>] ELSE Valid(Parts(w))

TargetCode(w) ==
    CASE Target(w).good -> 200
      [] Len(w) > LengthLimit -> 414
      [] Len(w) <= LengthLimit /\ ~Target(w).good -> 400

-----------------------------------------------------------------------------
AddTrailingSlashToPath(t) ==
    IF Last(t.path) = "/" THEN t ELSE [t EXCEPT !.path = @ \o <<"/">>]

(* Slip: an escaped separator is written as it stands in the path.          *)
ToStrRaw(t) ==
    LET One(S, before, after) == IF S = {} THEN <<>> ELSE before \o (CHOOSE x \in S : TRUE) \o after
    IN  One(t.scheme, <<>>, <<":", "/", "/">>) \o One(t.host, <<>>, <<>>)
        \o One(t.port, <<":">>, <<>>) \o t.path \o One(t.query, <<"?">>, <<>>)

ToStr(t) ==
    LET One(S, before, after) == IF S = {} THEN <<>> ELSE before \o (CHOOSE x \in S : TRUE) \o after
    IN  One(t.scheme, <<>>, <<":", "/", "/">>) \o One(t.host, <<>>, <<>>)
        \o One(t.port, <<":">>, <<>>) \o PercentEncode(t.path, {"/"})
        \o One({PercentEncode(q, {"&", "="}) : q \in t.query}, <<"?">>, <<>>)

-----------------------------------------------------------------------------
(* A client's targets: one is begun, grows, and may be redirected.          *)
TgInit == \E s \in Starts : start = s /\ count = 0 /\ word = s

NewTarget == \E s \in Starts : start' = s /\ count' = 0 /\ word' = s

Grow ==
    /\ count < MaxPieces[start]
    /\ \E p \in Pieces[start] : word' = word \o p
    /\ count' = count + 1 /\ UNCHANGED start

(* DirectoryProcessor: a directory named without its slash.                 *)
Redirect ==
    /\ TargetCode(word) = 200 /\ Last(Target(word).path) # "/"
    /\ word' = ToStr(AddTrailingSlashToPath(Target(word)))
    /\ count' = MaxPieces[start] /\ UNCHANGED start

TgNext == NewTarget \/ Grow \/ Redirect
TgSpec == TgInit /\ [][TgNext]_tgVars

-----------------------------------------------------------------------------
(* Properties.                                                              *)

(* What a path means: its segments, decoded one by one, lead up and down a  *)
(* tree; refused is what leaves the tree.                                   *)
Folded(w) == [i \in DOMAIN w |-> Upper(w[i])]

SegmentAt(w, i) == PercentDecode(SubSeq(w, i + 1, FindFirstOf(w, i + 1, {"/"}) - 1), {"/"})
Dots == {<<>>, <<".">>, <<".", ".">>}

Walk(place, s) ==
    CASE place.lost \/ s \in {<<>>, <<".">>} -> place
      [] ~place.lost /\ s = <<".", ".">> ->
            IF place.names = <<>> THEN [place EXCEPT !.lost = TRUE]
            ELSE [place EXCEPT !.names = Front(@)]
      [] ~place.lost /\ s \notin Dots -> [place EXCEPT !.names = Append(@, s)]

Resolution(w) ==
    LET place[i \in 0 .. Len(w)] ==
          IF i = 0 THEN [lost |-> FALSE, names |-> <<>>]
          ELSE IF w[i] = "/" THEN Walk(place[i - 1], SegmentAt(w, i)) ELSE place[i - 1]
    IN  place[Len(w)]

Joined(names) == FlattenSeq([k \in DOMAIN names |-> <<"/">> \o names[k]])

Resolved(w) ==
    LET last == Max({i \in DOMAIN w : w[i] = "/"})
    IN  Joined(Resolution(w).names) \o (IF SegmentAt(w, last) \in Dots THEN <<"/">> ELSE <<>>)

(* Escapes of two digits, nothing else that has no place in a target, no    *)
(* fragment, one slash at the beginning.                                    *)
WellFormed(w) ==
    /\ Len(w) <= LengthLimit /\ At(w, 2) # "/"
    /\ \A i \in 1 .. Len(w) :
          \/ w[i] \in Unreserved \cup {"=", "&", ":", "@", "/", "?"}
          \/ w[i] = "%" /\ {At(w, i + 1), At(w, i + 2)} \subseteq Hex

(* A target without "://" is refused exactly when it is malformed or its    *)
(* dots climb out of the root, and the path it is served as is where its    *)
(* segments lead: no spelling of a dot or a slash, escaped or doubled,      *)
(* reaches another place (letters after a percent may change their case).   *)
PathsAreResolved ==
    LET end == FindFirstOf(word, 1, {"?", "#"})
        path == SubSeq(word, 1, end - 1)
    IN  At(word, 1) = "/" /\ SchemeMarks(word) = {} =>
            /\ TargetCode(word) = 200 <=> WellFormed(word) /\ ~Resolution(path).lost
            /\ TargetCode(word) = 200 => Folded(Target(word).path) = Folded(Resolved(path))

FromPath(w) == SubSeq(w, FindFirstOf(w, 5, {"/"}), Len(w))

(* A target in absolute form that is served is served as what follows its   *)
(* host and port would be, unless that holds another "://".                 *)
AbsoluteFormAgrees ==
    \A rest \in {FromPath(word)} :
        LET t == Target(word)
            u == Target(rest)
        IN  TargetCode(word) = 200 /\ t.scheme # {} /\ SchemeMarks(rest) = {} =>
                /\ TargetCode(rest) = 200
                /\ u.path = t.path /\ u.query = t.query

(* A client that follows the redirect of a directory asks for this same     *)
(* directory, and is not redirected again.  Escapes in a host are excepted: *)
(* ToStr writes a host as it was decoded, and sends the client of           *)
(* "http://%40/z" to "http://@/z/", which is refused.                       *)
PlainHost(w) == \A h \in Parts(w).host : ~Contains(h, "%")
RedirectsLeadOn ==
    [][Redirect /\ PlainHost(word) /\ Len(word') <= LengthLimit =>
        LET t == Target(word)
            u == Target(word')
        IN  /\ TargetCode(word') = 200
            /\ Folded(u.path) = Folded(t.path \o <<"/">>)
            /\ {Folded(q) : q \in u.query} = {Folded(q) : q \in t.query}]_tgVars

=============================================================================
