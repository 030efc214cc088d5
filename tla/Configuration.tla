--------------------------- MODULE Configuration ---------------------------
(***************************************************************************)
(* The configuration file: ParsedConfig, which reads it line by line into  *)
(* nested blocks, and the builders, which refuse it or make of it what     *)
(* servers and locations work with.  A line is a record; the value of a    *)
(* setting is the sequence of its elements (SplitLine), a path or a name   *)
(* is a sequence of symbols.                                               *)
(***************************************************************************)
EXTENDS SequencesExt, Integers

CONSTANTS
    Palettes,       \* the lines files are made of, by the depth they stand at
    MaxLines,       \* bound: the lines of a file
    IntWidth,       \* bits of an int
    Shift,          \* [KB, MB, GB -> bits]
    DefaultSize     \* kDefaultClientMaxBodySize

ASSUME ConfigAssumption ==
    /\ MaxLines \in Nat /\ IntWidth \in Nat \ {0} /\ DefaultSize \in Nat
    /\ Shift \in [{"KB", "MB", "GB"} -> Nat]

VARIABLES
    palette,        \* the lines this file is made of
    file,           \* those read
    open,           \* the blocks being read, the file first
    state,          \* "reading", "refused" or "built"
    config          \* what was built

cfVars == <<palette, file, open, state, config>>

-----------------------------------------------------------------------------
(* Parsing.                                                                 *)
Block(level, descr) == [level |-> level, descr |-> descr, settings |-> <<>>, nested |-> <<>>]

FindSetting(f, key) ==
    LET Has(s) == s.key = key
        found == SelectSeq(f.settings, Has)
    IN  [i \in DOMAIN found |-> found[i].val]

InsertSetting(f, key, val) == [f EXCEPT !.settings = Append(@, [key |-> key, val |-> val])]

(* Slip: nested blocks pile up the other way round.                         *)
NestReversed(s) ==
    LET outer == s[Len(s) - 1]
    IN  Append(SubSeq(s, 1, Len(s) - 2), [outer EXCEPT !.nested = <<Last(s)>> \o @])

(* The end of a block: its parent has it among its own, in order.           *)
Nest(s) ==
    LET outer == s[Len(s) - 1]
    IN  Append(SubSeq(s, 1, Len(s) - 2), [outer EXCEPT !.nested = Append(@, Last(s))])

-----------------------------------------------------------------------------
(* Values.                                                                  *)
IntFits(n) == n \in -(2 ^ (IntWidth - 1)) .. 2 ^ (IntWidth - 1) - 1
Levels == {"debug", "info", "warning", "error", "fatal"}
Rooted(p) == p # <<>> /\ p[1] = "/"
AtMostOne(vals) == Len(vals) <= 1
Each(vals, P(_)) == \A i \in DOMAIN vals : P(vals[i])

LogOk(vals) ==
    AtMostOne(vals) /\ Each(vals, LAMBDA v : Len(v) = 1 \/ (Len(v) = 2 /\ v[2] \in Levels))

(* The first of the values repeated as often as there are values: what the  *)
(* loops over vals make of vals[0].                                         *)
FirstRepeated(vals) == FlattenSeq([i \in DOMAIN vals |-> vals[1]])

(* unsigned int, whatever the sign of what was read, shifted by the unit.   *)
Bytes(v) == (v[1] * (IF Len(v) = 2 THEN 2 ^ Shift[v[2]] ELSE 1)) % 2 ^ IntWidth

(* Slip: what the outer block set stands.                                   *)
OuterFirst(vals, inherited) == IF vals = <<>> \/ inherited # {} THEN inherited ELSE {vals[1]}

(* The settings a block hands to the blocks in it: sets of at most one      *)
(* value, and the index files.                                              *)
Own(vals, inherited) == IF vals = <<>> THEN inherited ELSE {vals[1]}

NoSettings == [alias |-> {}, files |-> <<>>, listing |-> {}, size |-> {}]

Inherit(f, inherited) ==
    LET index == FindSetting(f, "index") IN
    [alias |-> Own(FindSetting(f, "alias"), inherited.alias),
     files |-> IF index = <<>> THEN inherited.files ELSE FirstRepeated(index),
     listing |-> Own(FindSetting(f, "autoindex"), inherited.listing),
     size |-> Own(FindSetting(f, "client_max_body_size"), inherited.size)]

InheritedOk(f) ==
    /\ \A key \in {"alias", "autoindex", "client_max_body_size"} : AtMostOne(FindSetting(f, key))
    /\ Each(FindSetting(f, "alias"), LAMBDA v : v # <<>> /\ Rooted(v[1]))
    /\ Each(FindSetting(f, "index"), LAMBDA v : v # <<>>)
    /\ Each(FindSetting(f, "autoindex"), LAMBDA v : v \in {<<"on">>, <<"off">>})
    /\ Each(FindSetting(f, "client_max_body_size"),
            LAMBDA v : Len(v) \in 1 .. 2 /\ IntFits(v[1]) /\ (Len(v) = 2 => v[2] \in DOMAIN Shift))

Inheritable == {"alias", "index", "autoindex", "client_max_body_size"}
KeysIn(f, keys) == Each(f.settings, LAMBDA s : s.key \in keys)

-----------------------------------------------------------------------------
(* LocationConfigBuilder.                                                   *)
RouteOk(d) == Len(d) \in 1 .. 2 /\ Rooted(Last(d)) /\ (Len(d) = 2 => d[1] = <<"=">>)

RedirectOk(v) == Len(v) = 2 /\ v[1] \in 100 .. 599

LocationOk(f) ==
    /\ KeysIn(f, Inheritable \cup {"limit_except", "return", "cgi_extension", "upload_store"})
    /\ InheritedOk(f) /\ RouteOk(f.descr) /\ f.nested = <<>>
    /\ AtMostOne(FindSetting(f, "return")) /\ Each(FindSetting(f, "return"), RedirectOk)
    /\ Each(FindSetting(f, "limit_except"), LAMBDA v : v # <<>>)
    /\ Each(FirstRepeated(FindSetting(f, "limit_except")), LAMBDA w : w \in {"GET", "POST", "DELETE"})
    /\ Each(FindSetting(f, "cgi_extension"), LAMBDA v : v # <<>>)
    /\ Each(FirstRepeated(FindSetting(f, "cgi_extension")), LAMBDA e : Len(e) > 1 /\ e[1] = ".")
    /\ AtMostOne(FindSetting(f, "upload_store"))
    /\ Each(FindSetting(f, "upload_store"), LAMBDA v : v # <<>> /\ Rooted(v[1]))

(* The first "/cgi-bin/" of the route ends it.                              *)
IsCgiLocation(route) ==
    LET at == {i \in DOMAIN route : IsPrefix(<<"/", "cgi-bin", "/">>, SubSeq(route, i, Len(route)))}
    IN  at # {} /\ Min(at) = Len(route) - 2

BuildLocation(f, inherited) ==
    LET own == Inherit(f, inherited)
        Values(key, default) == LET vals == FindSetting(f, key)
                                IN  IF vals = <<>> THEN default ELSE FirstRepeated(vals)
        One(S, default) == IF S = {} THEN default ELSE CHOOSE v \in S : TRUE
    IN  [route |-> Last(f.descr), exact |-> Len(f.descr) = 2,
         cgi |-> IsCgiLocation(Last(f.descr)),
         methods |-> ToSet(Values("limit_except", <<"GET">>)),
         redirect |-> ToSet(FindSetting(f, "return")),
         extensions |-> ToSet(Values("cgi_extension", <<<<".", "py">>, <<".", "php">>>>)),
         alias |-> One(own.alias, <<<<"/", "docs">>>>)[1],
         files |-> IF own.files = <<>> THEN <<<<"index.html">>>> ELSE own.files,
         listing |-> One(own.listing, <<"off">>) = <<"on">>,
         size |-> Bytes(One(own.size, <<DefaultSize>>))]

-----------------------------------------------------------------------------
(* ServerConfigBuilder.  A wildcard is the first or the last label of a     *)
(* name; the labels are of letters, digits and dashes.                      *)
Labels(name) ==
    LET dots == SetToSortSeq({i \in DOMAIN name : name[i] = "."} \cup {0, Len(name) + 1}, <)
    IN  [k \in 1 .. Len(dots) - 1 |-> SubSeq(name, dots[k] + 1, dots[k + 1] - 1)]

ServerNameOk(name) ==
    LET labels == Labels(name)
        Plain(l) == l # <<>> /\ l[1] # "-" /\ Last(l) # "-" /\ ~Contains(l, "*")
    IN  /\ ~(name[1] = "*" /\ Last(name) = "*")
        /\ \A k \in DOMAIN labels :
              Plain(labels[k]) \/ (k \in {1, Len(labels)} /\ labels[k] = <<"*">>)

(* An address, a port or both.                                              *)
ListenOk(v) == Len(v) = 1 /\ ("port" \in DOMAIN v[1] => v[1].port \in 0 .. 65535)

ServerOk(f) ==
    /\ KeysIn(f, Inheritable \cup {"listen", "server_name", "access_log", "error_log"})
    /\ LogOk(FindSetting(f, "access_log")) /\ AtMostOne(FindSetting(f, "error_log"))
    /\ FindSetting(f, "listen") # <<>>
    /\ Each(FindSetting(f, "listen"), ListenOk)
    /\ Each(FindSetting(f, "server_name"), LAMBDA v : Each(v, ServerNameOk))
    /\ InheritedOk(f)
    /\ Each(f.nested, LAMBDA n : n.level = "location" /\ n.descr # <<>> /\ LocationOk(n))

Listener(v) == [addr |-> IF "addr" \in DOMAIN v THEN v.addr ELSE "any",
                port |-> IF "port" \in DOMAIN v THEN v.port ELSE 8080]

BuildServer(f, inherited) ==
    LET own == Inherit(f, inherited) IN
    [listen |-> [i \in DOMAIN FindSetting(f, "listen") |-> Listener(FindSetting(f, "listen")[i][1])],
     names |-> FlattenSeq(FindSetting(f, "server_name")),
     locations |-> [i \in DOMAIN f.nested |-> BuildLocation(f.nested[i], own)]]

-----------------------------------------------------------------------------
(* HttpConfigBuilder and ConfigBuilder.                                     *)
HttpOk(f) ==
    /\ KeysIn(f, Inheritable \cup {"keepalive_timeout", "error_page"})
    /\ AtMostOne(FindSetting(f, "keepalive_timeout"))
    /\ Each(FindSetting(f, "keepalive_timeout"), LAMBDA v : Len(v) = 1 /\ v[1] \in 0 .. 2 ^ IntWidth - 1)
    /\ Each(FindSetting(f, "error_page"),
            LAMBDA v : Len(v) > 1 /\ \A i \in 1 .. Len(v) - 1 : v[i] \in 400 .. 599)
    /\ InheritedOk(f) /\ f.nested # <<>>
    /\ Each(f.nested, LAMBDA n : n.level = "server" /\ n.descr = <<>> /\ ServerOk(n))

(* Later pages replace earlier ones.                                        *)
ErrorPages(vals) ==
    LET Pages(v) == [c \in {v[i] : i \in 1 .. Len(v) - 1} |-> Last(v)]
        Over(pages, v) == Pages(v) @@ pages
    IN  FoldLeft(Over, <<>>, vals)

BuildHttp(f) ==
    LET own == Inherit(f, NoSettings)
        Build(n) == BuildServer(n, own)
        timeout == FindSetting(f, "keepalive_timeout")
    IN  [keepalive |-> ToSet(timeout), pages |-> ErrorPages(FindSetting(f, "error_page")),
         servers |-> [i \in DOMAIN f.nested |-> Build(f.nested[i])]]

ConfigOk(f) ==
    /\ KeysIn(f, {"use", "error_log"})
    /\ AtMostOne(FindSetting(f, "use"))
    /\ Each(FindSetting(f, "use"), LAMBDA v : v \in {<<"epoll">>, <<"poll">>, <<"select">>})
    /\ LogOk(FindSetting(f, "error_log"))
    /\ Len(f.nested) = 1 /\ f.nested[1].level = "http" /\ f.nested[1].descr = <<>>
    /\ HttpOk(f.nested[1])

-----------------------------------------------------------------------------
(* ParsedConfig, a line at a time: settings, blocks and their ends.         *)
CfInit ==
    /\ palette \in Palettes /\ file = <<>>
    /\ open = <<Block("", <<>>)>> /\ state = "reading" /\ config = {}

Refuse == state' = "refused" /\ UNCHANGED <<open, config>>

Setting(l) ==
    /\ l.kind = ";"
    /\ IF l.key = "" THEN Refuse
       ELSE /\ open' = Append(Front(open), InsertSetting(Last(open), l.key, l.val))
            /\ UNCHANGED <<state, config>>

OpenBlock(l) ==
    /\ l.kind = "{"
    /\ IF l.key = "" THEN Refuse
       ELSE open' = Append(open, Block(l.key, l.val)) /\ UNCHANGED <<state, config>>

CloseBlock(l) ==
    /\ l.kind = "}"
    /\ IF Len(open) = 1 \/ l.key # "" THEN Refuse
       ELSE open' = Nest(open) /\ UNCHANGED <<state, config>>

Comment(l) == l.kind = "#" /\ UNCHANGED <<open, state, config>>

OtherLine(l) == l.kind \notin {";", "{", "}", "#"} /\ Refuse

ReadLine ==
    /\ state = "reading" /\ Len(file) < MaxLines
    /\ \E l \in palette[Len(open) - 1] :
        /\ file' = Append(file, l)
        /\ Setting(l) \/ OpenBlock(l) \/ CloseBlock(l) \/ Comment(l) \/ OtherLine(l)
    /\ UNCHANGED palette

EndOfFile ==
    /\ state = "reading" /\ UNCHANGED <<palette, file, open>>
    /\ IF Len(open) = 1 /\ ConfigOk(open[1])
       THEN state' = "built" /\ config' = {BuildHttp(open[1].nested[1])}
       ELSE state' = "refused" /\ UNCHANGED config

(* Another start of the program.                                            *)
Restart ==
    /\ state # "reading" /\ file' = <<>> /\ open' = <<Block("", <<>>)>>
    /\ state' = "reading" /\ config' = {} /\ UNCHANGED palette

CfNext == ReadLine \/ EndOfFile \/ Restart

CfSpec == CfInit /\ [][CfNext]_cfVars

-----------------------------------------------------------------------------
(* Properties, about the lines of the file.                                 *)

(* How many blocks are open after n lines, and the block a line stands in   *)
(* (0 is the file).                                                         *)
Count(n, kind) == Cardinality({i \in 1 .. n : file[i].kind = kind})
Depth(n) == Count(n, "{") - Count(n, "}")
Encloses(m, n) == file[m].kind = "{" /\ m < n /\ \A k \in m .. n - 1 : Depth(k) >= Depth(m)
BlockOf(n) == Max({0} \cup {m \in 1 .. n - 1 : Encloses(m, n)})

(* The values of a key at a line: those of the innermost block around it,   *)
(* or of its own, that sets it.                                             *)
SetIn(m, key) == {n \in DOMAIN file : file[n].kind = ";" /\ file[n].key = key /\ BlockOf(n) = m}
Innermost(m, key) ==
    LET setters == {b \in {m} \cup {e \in 1 .. m - 1 : Encloses(e, m)} : SetIn(b, key) # {}}
    IN  IF setters = {} THEN {} ELSE SetIn(Max(setters), key)

LocationLines ==
    FlattenSeq([n \in DOMAIN file |->
        IF file[n].kind = "{" /\ file[n].key = "location" THEN <<n>> ELSE <<>>])

Locations(c) == FlattenSeq([i \in DOMAIN c.servers |-> c.servers[i].locations])

(* A file that is accepted closes what it opens, and its locations are the  *)
(* ones it names, in its order: ChooseServer and ChooseLocation let the     *)
(* first win.                                                               *)
FileIsReadInOrder ==
    \A c \in config :
        /\ \A n \in DOMAIN file : Depth(n) >= 0
        /\ Depth(Len(file)) = 0
        /\ Len(Locations(c)) = Len(LocationLines)
        /\ \A k \in DOMAIN LocationLines :
              Locations(c)[k].route = Last(file[LocationLines[k]].val)

(* "Child contexts inherit settings from their parent context": what a      *)
(* location works with is what the innermost block around it says, or the   *)
(* default, and nothing of a neighbour; a body limit that fits an unsigned  *)
(* int is the one written.                                                  *)
SettingsAreInnermost ==
    \A c \in config : \A k \in DOMAIN LocationLines :
        LET l == Locations(c)[k]
            Is(key, val, P(_), default) ==
                LET at == Innermost(LocationLines[k], key)
                IN  IF at = {} THEN val = default ELSE P(file[Min(at)].val)
        IN  /\ Is("alias", l.alias, LAMBDA v : l.alias = v[1], <<"/", "docs">>)
            /\ Is("index", l.files, LAMBDA v : IsPrefix(v, l.files), <<<<"index.html">>>>)
            /\ Is("autoindex", l.listing, LAMBDA v : l.listing <=> v = <<"on">>, FALSE)
            /\ Is("client_max_body_size", l.size,
                  LAMBDA v : LET bytes == v[1] * (IF Len(v) = 2 THEN 2 ^ Shift[v[2]] ELSE 1)
                             IN  bytes \in 0 .. 2 ^ IntWidth - 1 => l.size = bytes, DefaultSize)

=============================================================================
