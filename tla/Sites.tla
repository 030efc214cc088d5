------------------------------- MODULE Sites -------------------------------
(***************************************************************************)
(* Where a request goes: the virtual server, its location and the path in  *)
(* the file system that ClientSession keeps in its RequestDestination, and *)
(* what the response processors make of them.  One client asks one request *)
(* after the other on a connection, and follows what it is sent.           *)
(*                                                                         *)
(* Hosts, targets and paths are words of symbols; targets are as RqTarget  *)
(* leaves them and locations as LocationConfigBuilder does.                *)
(***************************************************************************)
EXTENDS SequencesExt, Integers

CONSTANTS
    Symbols,        \* that names and paths are made of
    Clusters,       \* configurations: [servers, pages]
    Asked(_),       \* <<method, host, path>>: what clients ask of a configuration
    Files,          \* of the file system, at first
    Directories

Words == Seq(Symbols)
Methods == {"GET", "POST", "DELETE"}

(* A location runs scripts when the first "/cgi-bin/" of its route ends it. *)
CgiMarks(w) == {i \in DOMAIN w : IsPrefix(<<"/", "cgi-bin", "/">>, SubSeq(w, i, Len(w)))}
IsCgiLocation(route) == CgiMarks(route) # {} /\ Min(CgiMarks(route)) = Len(route) - 2

(* What the builders of the configuration let pass of a location, of the    *)
(* names of a server (a wildcard is one end of it, beside a dot and a       *)
(* label), and of a server; an alias that leads to the root of the file     *)
(* system is left out.                                                      *)
LocationConfigs ==
    {l \in [route : Words \ {<<>>}, exact : BOOLEAN, cgi : BOOLEAN, methods : SUBSET Methods,
            redirect : SUBSET (Int \X Words), extensions : SUBSET {e \in Words : Len(e) > 1 /\ e[1] = "."},
            alias : {a \in Words : Len(a) > 1 /\ a[1] = "/" /\ a[2] # "/"}, files : Seq(Words),
            listing : BOOLEAN, size : Int] :
        l.cgi <=> IsCgiLocation(l.route)}
ServerNames ==
    {n \in Words \ {<<>>} : /\ n[1] = "*" => Last(n) # "*"
                            /\ Last(n) = "*" => Len(n) > 2}
ServerConfigs == [listen : Seq(STRING), names : Seq(ServerNames), locations : Seq(LocationConfigs)]

ASSUME SitesAssumption ==
    /\ {"/", "cgi-bin"} \subseteq Symbols
    /\ \A c \in Clusters :
          /\ c.servers \in Seq(ServerConfigs)
          /\ \A code \in DOMAIN c.pages : c.pages[code] \in Words
          /\ Asked(c) \subseteq Methods \X Words \X Words
    /\ Files \subseteq Words /\ Directories \subseteq Words

VARIABLES
    cluster,        \* the configuration
    listener,       \* the address the client is connected to
    stage,          \* "none" (no connection), "idle", "read" or "answered"
    dest,           \* ClientSession::rq_destination_
    rq,             \* the request
    answer,         \* the last answer, and where it came from
    disk            \* the file system

vars == <<cluster, listener, stage, dest, rq, answer, disk>>

-----------------------------------------------------------------------------
(* ServerCluster: a listening socket for each address, with its servers.    *)
Addresses == UNION {ToSet(cluster.servers[i].listen) : i \in DOMAIN cluster.servers}
ServersAt(address) ==
    LET Here(i) == [k \in DOMAIN cluster.servers[i].listen |->
                    IF cluster.servers[i].listen[k] = address THEN <<i>> ELSE <<>>]
    IN  FlattenSeq([i \in DOMAIN cluster.servers |-> FlattenSeq(Here(i))])

(* MatchType.                                                               *)
NO_MATCH == 0
SUFFIX_MATCH == 1
PREFIX_MATCH == 2
EXACT_MATCH == 3

(* An exact match ends the search; a wildcard replaces the one before it.   *)
MatchHostName(host, names) ==
    LET Better(best, name) ==
          IF best.type = EXACT_MATCH THEN best ELSE
          CASE host = name -> [type |-> EXACT_MATCH, name |-> name]
            [] host # name /\ name[1] = "*" /\ Len(host) >= Len(name) /\ IsSuffix(Tail(name), host) ->
                 [type |-> PREFIX_MATCH, name |-> name]
            [] host # name /\ name[1] # "*" /\ Last(name) = "*" /\ Len(host) >= Len(name) /\ Len(name) > 2
                 /\ IsPrefix(Front(name), host) -> [type |-> SUFFIX_MATCH, name |-> name]
            [] OTHER -> best
    IN  FoldLeft(Better, [type |-> NO_MATCH, name |-> <<>>], names)

(* Slip: of equal matches the last one wins.                                *)
ChooseServerLast(address, host) ==
    LET Better(best, i) ==
          LET match == MatchHostName(host, cluster.servers[i].names)
          IN  IF \/ Len(match.name) >= Len(best.name) /\ match.type = best.type
                 \/ match.type > best.type
              THEN [type |-> match.type, name |-> match.name, server |-> i] ELSE best
    IN  FoldLeft(Better, [type |-> NO_MATCH, name |-> <<>>, server |-> ServersAt(address)[1]],
                 ServersAt(address)).server

ChooseServer(address, host) ==
    LET Better(best, i) ==
          LET match == MatchHostName(host, cluster.servers[i].names)
          IN  IF \/ Len(match.name) > Len(best.name) /\ match.type = best.type
                 \/ match.type > best.type
              THEN [type |-> match.type, name |-> match.name, server |-> i] ELSE best
    IN  FoldLeft(Better, [type |-> NO_MATCH, name |-> <<>>, server |-> ServersAt(address)[1]],
                 ServersAt(address)).server

-----------------------------------------------------------------------------
(* Locations of a server, by their place; 0 is none.                        *)
Locations(server) == cluster.servers[server].locations

MatchUriPath(path, l) ==
    CASE path = l.route -> [route |-> l.route, exact |-> l.exact]
      [] ~l.exact /\ IsPrefix(l.route, path) -> [route |-> l.route, exact |-> FALSE]
      [] OTHER -> [route |-> <<>>, exact |-> FALSE]

ChooseLocation(server, path) ==
    LET Better(best, i) ==
          LET match == MatchUriPath(path, Locations(server)[i])
          IN  IF \/ Len(match.route) > Len(best.route) /\ match.exact = best.exact
                 \/ match.exact /\ ~best.exact
              THEN [route |-> match.route, exact |-> match.exact, loc |-> i] ELSE best
    IN  FoldLeft(Better, [route |-> <<>>, exact |-> FALSE, loc |-> 0],
                 [i \in DOMAIN Locations(server) |-> i]).loc

IsStatic(l) == l.redirect = {} /\ ~l.cgi

Bare(w) == IF w # <<>> /\ Last(w) = "/" THEN Front(w) ELSE w

(* Slip: the slash between the two is taken for granted.                    *)
UpdatePathGlued(alias, route, path) ==
    LET rest == SubSeq(path, Len(route) + 1, Len(path))
    IN  IF rest \in {<<>>, <<"/">>} THEN Tail(alias)
        ELSE Bare(Tail(alias)) \o rest

UpdatePath(alias, route, path) ==
    LET rest == SubSeq(path, Len(route) + 1, Len(path))
    IN  IF rest \in {<<>>, <<"/">>} THEN Tail(alias)
        ELSE Bare(Tail(alias)) \o <<"/">> \o (IF rest[1] = "/" THEN Tail(rest) ELSE rest)

-----------------------------------------------------------------------------
(* The file system: slashes count once, and a directory may end in one.     *)
Canonical(w) ==
    FlattenSeq([i \in DOMAIN w |-> IF w[i] = "/" /\ i > 1 /\ w[i - 1] = "/" THEN <<>> ELSE <<w[i]>>])

(* The file system names a file in one way, and RqTarget leaves no slash    *)
(* after another in what is asked.                                          *)
ASSUME PathsAssumption ==
    /\ \A w \in Files \cup Directories : w # <<>> /\ Last(w) # "/" /\ Canonical(w) = w
    /\ \A c \in Clusters : \A r \in Asked(c) : r[3] # <<>> /\ r[3][1] = "/" /\ Canonical(r[3]) = r[3]

IsDirectory(w) == Bare(Canonical(w)) \in disk.dirs
IsRegularFile(w) == Canonical(w) \in disk.files
DoesPathExist(w) == IsDirectory(w) \/ IsRegularFile(w)

Parent(w) ==
    LET slashes == {i \in DOMAIN w : w[i] = "/"}
    IN  IF slashes = {} THEN <<>> ELSE SubSeq(w, 1, Max(slashes) - 1)
Entries(dir) == {w \in disk.files \cup disk.dirs : Parent(w) = dir}

(* std::remove: a file, or a directory with nothing in it.                  *)
Removable(w) == IsRegularFile(w) \/ (IsDirectory(w) /\ Entries(Bare(Canonical(w))) = {})
Without(w) == [files |-> disk.files \ {Canonical(w)}, dirs |-> disk.dirs \ {Bare(Canonical(w))}]

-----------------------------------------------------------------------------
(* Answers.                                                                 *)
Kinds == {"none", "error", "return", "redirect", "list", "file", "created", "deleted", "script"}
Reply(kind, code, path) == [kind |-> kind, code |-> code, path |-> path]

(* ErrorProcessor: a page of the configuration, or one it generates.        *)
ErrorReply(code) ==
    Reply("error", code, IF code \in DOMAIN cluster.pages /\ IsRegularFile(cluster.pages[code])
                         THEN cluster.pages[code] ELSE <<>>)

(* RedirectProcessor, for what a location returns.                          *)
RedirectReply(code, uri) ==
    CASE code < 300 -> ErrorReply(500)
      [] code >= 400 -> ErrorReply(code)
      [] OTHER -> Reply("return", code, uri)

(* Slip: a directory is listed under any name.                              *)
ListedUnderAnyName(path) == FALSE
NeedsSlash(path) == Last(path) # "/"

DirectoryReply(target, path) ==
    IF NeedsSlash(path)
    THEN Reply("redirect", 301, IF Last(target) = "/" THEN target ELSE target \o <<"/">>)
    ELSE Reply("list", 200, path)

GetReply(l, target, path) ==
    LET found == {i \in DOMAIN l.files : IsRegularFile(path \o l.files[i])} IN
    CASE IsDirectory(path) /\ found # {} -> Reply("file", 200, path \o l.files[Min(found)])
      [] IsDirectory(path) /\ found = {} /\ l.listing -> DirectoryReply(target, path)
      [] IsDirectory(path) /\ found = {} /\ ~l.listing -> ErrorReply(403)
      [] IsRegularFile(path) -> Reply("file", 200, path)
      [] OTHER -> ErrorReply(404)

DeleteReply(path) == IF Removable(path) THEN Reply("deleted", 204, path) ELSE ErrorReply(404)

PostReply(path) == IF DoesPathExist(path) THEN Reply("created", 201, path) ELSE ErrorReply(500)

(* GetScriptLocDetails: a set of at most one script.                        *)
ScriptLocDetails(target) ==
    LET marks == CgiMarks(target)
        start == Min(marks) + 3
        end == Min({i \in start .. Len(target) : target[i] = "/"} \cup {Len(target) + 1})
        name == SubSeq(target, start, end - 1)
    IN  IF marks = {} \/ ~(\E i \in DOMAIN name : name[i] = ".") THEN {}
        ELSE {[location |-> SubSeq(target, 1, start - 1), name |-> name,
               extra |-> SubSeq(target, end, Len(target))]}

(* Slip: an extension may stand anywhere in the name.                       *)
ExtensionAnywhere(name, extensions) ==
    \E e \in extensions : \E i \in DOMAIN name : IsPrefix(e, SubSeq(name, i, Len(name)))

(* CheckFileExtension; its look at the sixth character from the end finds   *)
(* no slash in a name.  In a shorter name it looks before the beginning, at *)
(* the upper bytes of the string's length in the build: zeros.              *)
IsValidExtension(name, extensions) ==
    LET dot == Max({i \in DOMAIN name : name[i] = "."})
    IN  \E e \in extensions : Len(name) > Len(e) /\ SubSeq(name, dot, Len(name)) = e

(* GetInterpreterByExt; a child without an interpreter ends with no output. *)
HasInterpreter(name) == Last(name) \in {"py", "php", "pl", "sh"}

CgiReply(l, target) ==
    LET script == CHOOSE s \in ScriptLocDetails(target) : TRUE
        location == UpdatePath(l.alias, l.route, script.location)
        file == location \o <<"/">> \o script.extra \o <<"/">> \o script.name
    IN  CASE ScriptLocDetails(target) = {} -> ErrorReply(400)
          [] ScriptLocDetails(target) # {} /\ ~IsValidExtension(script.name, l.extensions) -> ErrorReply(501)
          [] OTHER -> IF IsRegularFile(file) /\ HasInterpreter(script.name)
                      THEN Reply("script", 200, Canonical(file)) ELSE ErrorReply(500)

(* Server::ProcessRequest and GetResponseProcessor.                         *)
ProcessRequest ==
    LET l == Locations(dest.server)[dest.loc]
        return == CHOOSE r \in l.redirect : TRUE
    IN  CASE rq.status # 200 -> ErrorReply(rq.status)
          [] rq.status = 200 /\ l.redirect # {} -> RedirectReply(return[1], return[2])
          [] rq.status = 200 /\ l.redirect = {} /\ l.cgi -> CgiReply(l, rq.path)
          [] OTHER -> CASE rq.method = "GET" -> GetReply(l, rq.path, dest.path)
                        [] rq.method = "POST" -> PostReply(dest.path)
                        [] rq.method = "DELETE" -> DeleteReply(dest.path)

-----------------------------------------------------------------------------
NoRequest == [method |-> "GET", host |-> <<>>, path |-> <<>>, status |-> 200]
NoAnswer == [kind |-> "none", code |-> 0, path |-> <<>>, loc |-> 0]

Init ==
    /\ cluster \in Clusters /\ listener = "none" /\ stage = "none"
    /\ dest = [server |-> 0, loc |-> 0, path |-> <<>>]
    /\ rq = NoRequest
    /\ answer = NoAnswer
    /\ disk = [files |-> Files, dirs |-> Directories]

(* ClientSession, with the first server of its listener.                    *)
Connect ==
    /\ stage = "none"
    /\ \E a \in Addresses : listener' = a /\ dest' = [server |-> ServersAt(a)[1], loc |-> 0, path |-> <<>>]
    /\ stage' = "idle" /\ answer' = NoAnswer /\ UNCHANGED <<cluster, rq, disk>>

(* PrepareBody_: the file of an upload is made before its body arrives.     *)
UploadStatus(path) ==
    CASE DoesPathExist(path) -> 409
      [] ~DoesPathExist(path) /\ Last(path) # "/" /\ Parent(Canonical(path)) \in disk.dirs \cup {<<>>} -> 200
      [] OTHER -> 500

(* ChooseServerCb, when the headers of a request have been read.            *)
ReadHead(method, host, path) ==
    LET server == ChooseServer(listener, host)
        loc == ChooseLocation(server, path)
        l == Locations(server)[loc]
        place == UpdatePath(l.alias, l.route, path)
        uploads == method = "POST" /\ IsStatic(l)
        Go(status, d) == /\ rq' = [method |-> method, host |-> host, path |-> path, status |-> status]
                         /\ dest' = d
        missed == [dest EXCEPT !.server = server, !.loc = loc]
    IN  /\ stage = "idle" /\ stage' = "read" /\ answer' = NoAnswer
        /\ IF loc = 0 \/ (loc # 0 /\ method \notin l.methods) THEN Go(404, missed) /\ UNCHANGED disk
           ELSE /\ Go(IF uploads THEN UploadStatus(place) ELSE 200, [missed EXCEPT !.path = place])
                /\ disk' = IF uploads /\ UploadStatus(place) = 200
                           THEN [disk EXCEPT !.files = @ \cup {Canonical(place)}] ELSE disk
        /\ UNCHANGED <<cluster, listener>>

Request == \E r \in Asked(cluster) : ReadHead(r[1], r[2], r[3])

FollowRedirect == answer.kind = "redirect" /\ ReadHead("GET", rq.host, answer.path)

(* A listing links to its entries and to the directory above, from the      *)
(* target it was asked by.                                                  *)
Link(e) == Parent(rq.path) \o SubSeq(e, Len(Parent(e)) + 1, Len(e)) \o (IF e \in disk.dirs THEN <<"/">> ELSE <<>>)
LinkUp == Parent(Parent(rq.path)) \o <<"/">>

FollowLink ==
    /\ answer.kind = "list"
    /\ \/ \E e \in Entries(Bare(Canonical(answer.path))) : ReadHead("GET", rq.host, Link(e))
       \/ ReadHead("GET", rq.host, LinkUp)

(* A request that is refused before its headers are complete.               *)
Refused ==
    /\ stage = "idle" /\ stage' = "read" /\ rq' = [NoRequest EXCEPT !.status = 400] /\ answer' = NoAnswer
    /\ UNCHANGED <<cluster, listener, dest, disk>>

Process ==
    /\ stage = "read" /\ stage' = "answered"
    /\ LET reply == ProcessRequest
       IN  /\ answer' = [kind |-> reply.kind, code |-> reply.code, path |-> reply.path, loc |-> dest.loc]
           /\ disk' = IF reply.kind = "deleted" THEN Without(reply.path) ELSE disk
    /\ UNCHANGED <<cluster, listener, dest, rq>>

(* Slip: the location is forgotten, its path is kept.                       *)
ResponseSentKeepsPath ==
    /\ stage = "answered" /\ stage' = (IF answer.kind = "error" THEN "none" ELSE "idle")
    /\ dest' = [dest EXCEPT !.loc = 0]
    /\ IF answer.kind \in {"redirect", "list"} THEN UNCHANGED <<rq, answer>>
       ELSE rq' = NoRequest /\ answer' = NoAnswer
    /\ UNCHANGED <<cluster, listener, disk>>

(* ResponseSentCleanup; an error closes the connection.  The client keeps   *)
(* what it can follow.                                                      *)
ResponseSent ==
    /\ stage = "answered" /\ stage' = (IF answer.kind = "error" THEN "none" ELSE "idle")
    /\ dest' = [dest EXCEPT !.loc = 0, !.path = <<>>]
    /\ IF answer.kind \in {"redirect", "list"} THEN UNCHANGED <<rq, answer>>
       ELSE rq' = NoRequest /\ answer' = NoAnswer
    /\ UNCHANGED <<cluster, listener, disk>>

Leave ==
    /\ stage = "idle" /\ stage' = "none" /\ rq' = NoRequest /\ answer' = NoAnswer
    /\ UNCHANGED <<cluster, listener, dest, disk>>

Next == Connect \/ Request \/ FollowRedirect \/ FollowLink \/ Refused \/ Process \/ ResponseSent \/ Leave

Spec == Init /\ [][Next]_vars

-----------------------------------------------------------------------------
(* Properties.                                                              *)
At == Locations(dest.server)[dest.loc]
Below(dir, w) == IsStrictPrefix(dir \o <<"/">>, w)

(* Everything has its type; a session has a server from its beginning, and  *)
(* a path in the file system only together with a location: what one        *)
(* request leaves in RequestDestination is not found by the next.           *)
TypeOK ==
    /\ cluster \in Clusters
    /\ stage \in {"none", "idle", "read", "answered"}
    /\ dest \in [server : DOMAIN cluster.servers \cup {0}, loc : Nat, path : Words]
    /\ stage # "none" => listener \in Addresses /\ dest.server # 0
    /\ stage = "read" /\ rq.status = 200 => dest.loc # 0
    /\ dest.loc = 0 => dest.path = <<>>
    /\ stage = "idle" => dest.loc = 0
    /\ dest.loc # 0 => dest.server # 0 /\ dest.loc \in DOMAIN Locations(dest.server)
    /\ rq \in [method : Methods, host : Words, path : Words, status : Nat]
    /\ answer \in [kind : Kinds, code : Nat, path : Words, loc : Nat]
    /\ disk \in [files : SUBSET Words, dirs : SUBSET Words]

(* What a name in the configuration is worth to a host: itself, one that    *)
(* stands for what comes before, one that stands for what follows.          *)
Worth(name, host) ==
    CASE name = host -> EXACT_MATCH
      [] name # host /\ name[1] = "*" /\ (\E k \in DOMAIN host : SubSeq(host, 1, k) \o Tail(name) = host) -> PREFIX_MATCH
      [] name # host /\ Last(name) = "*" /\ (\E k \in DOMAIN host : Front(name) \o SubSeq(host, k, Len(host)) = host) -> SUFFIX_MATCH
      [] OTHER -> NO_MATCH

(* A request whose headers are read is at the server of its address with    *)
(* the best name for its host (the longer of two alike, the first of two    *)
(* equal, the first of the address when there is none), and there at the    *)
(* location that names its path, or else at the one with the longest route  *)
(* it begins with: ChooseServer and ChooseLocation search by folding over   *)
(* what they have seen, and a server with two fitting wildcards is left out *)
(* since MatchHostName keeps the later of them, not the better.             *)
RequestsGoToTheirSite ==
    stage = "read" /\ rq.status # 400 =>
        LET at == ServersAt(listener)
            Names(i) == {n \in ToSet(cluster.servers[i].names) : Worth(n, rq.host) # NO_MATCH}
            AtLeast(n, m) == \/ Worth(n, rq.host) > Worth(m, rq.host)
                             \/ Worth(n, rq.host) = Worth(m, rq.host) /\ Len(n) >= Len(m)
            best == {k \in DOMAIN at : \E n \in Names(at[k]) : \A i \in ToSet(at) : \A m \in Names(i) : AtLeast(n, m)}
            locations == Locations(dest.server)
            same == {i \in DOMAIN locations : locations[i].exact /\ locations[i].route = rq.path}
            begin == {i \in DOMAIN locations : ~locations[i].exact /\ IsPrefix(locations[i].route, rq.path)}
            longest == {i \in begin : \A k \in begin : Len(locations[i].route) >= Len(locations[k].route)}
        IN  /\ (\A i \in ToSet(at) : \A n, m \in Names(i) \ {rq.host} : n = m) =>
                  dest.server = at[IF best = {} THEN 1 ELSE Min(best)]
            /\ dest.loc = CASE same # {} -> Min(same)
                             [] same = {} /\ longest # {} -> Min(longest)
                             [] OTHER -> 0
            /\ dest.loc = 0 => rq.status = 404

(* What is served, run, made or removed lies below the directory of the     *)
(* location that was asked, whatever the routes, the slashes of the alias   *)
(* and the index names; left out is the index of an alias that does not end *)
(* in a slash, whose name the code appends to the last name of the alias.   *)
ServedIsInside ==
    stage = "answered" /\ answer.kind \in {"file", "list", "script", "created", "deleted"} =>
        LET dir == Bare(Canonical(Tail(At.alias)))
        IN  \/ Below(dir, Canonical(answer.path))
            \/ Bare(Canonical(answer.path)) = dir /\ answer.kind # "script"
            \/ dest.path = Tail(At.alias) /\ Last(At.alias) # "/"

(* What is asked by following the last answer leads to what that showed.    *)
FollowedLeadsOn ==
    stage = "idle" /\ stage' = "read" /\ dest'.loc = answer.loc /\ rq'.host = rq.host
    /\ rq'.method = "GET" /\ rq'.status = 200 =>
        LET l == Locations(dest'.server)[dest'.loc]
            asked == UpdatePath(l.alias, l.route, rq.path)
            plain == Last(l.alias) = "/" /\ (Last(l.route) = "/" \/ rq.path # l.route)
            Goes(dir) == Bare(Canonical(dest'.path)) = dir
        IN  plain =>
            /\ answer.kind = "redirect" /\ rq'.path = answer.path =>
                  Goes(Canonical(asked)) /\ GetReply(l, rq'.path, dest'.path).kind # "redirect"
            /\ answer.kind = "list" =>
                  /\ \A e \in Entries(Bare(Canonical(asked))) : rq'.path = Link(e) => Goes(e)
                  /\ rq'.path = LinkUp /\ rq.path # <<"/">> => Goes(Parent(Bare(Canonical(asked))))

(* A client that follows what it is sent gets on: the redirect of a         *)
(* directory leads to the same directory, under a name that is not          *)
(* redirected again, and a link of a listing leads to the entry it shows    *)
(* (or to the directory above), as long as it stays in the location.  Left  *)
(* out are the alias without a slash and the listing of a route without one *)
(* asked by its bare name, which the code redirects to themselves or links  *)
(* one level too high.                                                      *)
LinksLeadOn == [][FollowedLeadsOn]_vars

(* What a script name should lead to; an extension with a second dot in it  *)
(* is the extension of no file.                                             *)
IsTheScript(name) ==
    LET file == Canonical(Bare(Tail(At.alias)) \o <<"/">> \o name)
        allowed == \E e \in At.extensions : IsStrictSuffix(e, name) /\ ~Contains(Tail(e), ".")
    IN  /\ answer.kind = "script" <=> allowed /\ HasInterpreter(name) /\ file \in disk.files
        /\ answer.kind = "script" => answer.path = file

AskedForScript == stage = "answered" /\ rq.status = 200 /\ dest.loc # 0 /\ At.cgi /\ At.redirect = {}

(* A script asked by its name alone is run when, and only when, it is there *)
(* and the location allows its extension: the file of that name in the      *)
(* directory of the location (CGIProcessor puts the path together from four *)
(* parts after taking the target apart).                                    *)
PlainScriptsAreRun ==
    AskedForScript /\ ~Contains(SubSeq(rq.path, Len(At.route) + 1, Len(rq.path)), "/") =>
        IsTheScript(SubSeq(rq.path, Len(At.route) + 1, Len(rq.path)))

(* docs/cgi_documentation.md:11-19: the script name follows /cgi-bin/ and   *)
(* "may optionally include an additional path", which is its PATH_INFO.     *)
ScriptsAreThoseNamed ==
    AskedForScript =>
        LET rest == SubSeq(rq.path, Len(At.route) + 1, Len(rq.path))
            end == Min({i \in DOMAIN rest : rest[i] = "/"} \cup {Len(rest) + 1})
        IN  IsTheScript(SubSeq(rest, 1, end - 1))

=============================================================================
