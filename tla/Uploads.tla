------------------------------ MODULE Uploads ------------------------------
(***************************************************************************)
(* Several sessions and the file system: uploads (RequestBuilder's body    *)
(* stream, Request's BodyStorage), downloads (SendFilePackage, the write   *)
(* callback of ClientSession) and deletions (FileProcessor).  A path names *)
(* a file; a session that has a file open keeps it when the name is gone.  *)
(***************************************************************************)
EXTENDS Integers

CONSTANTS
    Sessions,       \* connections of clients
    Paths,          \* the names in the upload location
    None,           \* no file, no path
    BodyLimit,      \* client_max_body_size
    ChunkSize,      \* SOCK_SEND_FILE_BUF_SZ
    MaxRequests     \* bound: the requests that are sent in all

ASSUME LimitsAssumption ==
    /\ BodyLimit \in Nat /\ ChunkSize \in Nat \ {0} /\ MaxRequests \in Nat

Files == 1 .. MaxRequests
ASSUME NoneAssumption == None \notin Files /\ None \notin Paths

VARIABLES
    dir,            \* the file each path names
    data,           \* how much of a file has reached the disk
    whole,          \* its upload was completed
    requests,       \* the requests sent so far
    state,          \* what a session does
    path,           \* rq_.body.path
    complete,       \* rq_.body.transfer_complete
    out,            \* the file body_stream writes to
    pending,        \* what body_stream has buffered
    remaining,      \* what is left of the body to arrive
    code,           \* the response: its code,
    announced,      \*   its Content-Length,
    file,           \*   the file file_pack_ reads,
    pos,            \*   how much of it has been read,
    eof,            \*   its end was met,
    chunk,          \*   what is left of the chunk to send,
    sent,           \*   how much of the body has been sent
    acked,          \* the file a client was told it has stored at a path
    spoiled         \* paths a session and its unfinished file lost each other at

fsVars == <<dir, data, whole>>
bodyVars == <<path, complete, out, pending, remaining>>
rsVars == <<code, announced, file, pos, eof, chunk, sent>>
clientVars == <<acked, spoiled>>
vars == <<fsVars, requests, state, bodyVars, rsVars, clientVars>>

Init ==
    /\ dir = [p \in Paths |-> None]
    /\ data = [f \in Files |-> 0] /\ whole = [f \in Files |-> FALSE]
    /\ requests = 0
    /\ state = [s \in Sessions |-> "reading"]
    /\ path = [s \in Sessions |-> None]
    /\ complete = [s \in Sessions |-> FALSE]
    /\ out = [s \in Sessions |-> None]
    /\ pending = [s \in Sessions |-> 0] /\ remaining = [s \in Sessions |-> 0]
    /\ code = [s \in Sessions |-> 0] /\ announced = [s \in Sessions |-> 0]
    /\ file = [s \in Sessions |-> None]
    /\ pos = [s \in Sessions |-> 0] /\ eof = [s \in Sessions |-> FALSE]
    /\ chunk = [s \in Sessions |-> 0] /\ sent = [s \in Sessions |-> 0]
    /\ acked = [p \in Paths |-> None]
    /\ spoiled = {}

Exists(p) == dir[p] # None
IsError(c) == c >= 400

(* PrepareResponse: a response with the file f of that length, or none.     *)
Respond(s, c, f, length) ==
    /\ state' = [state EXCEPT ![s] = "sending"]
    /\ code' = [code EXCEPT ![s] = c]
    /\ file' = [file EXCEPT ![s] = f]
    /\ announced' = [announced EXCEPT ![s] = length]
    /\ pos' = [pos EXCEPT ![s] = 0] /\ eof' = [eof EXCEPT ![s] = FALSE]
    /\ chunk' = [chunk EXCEPT ![s] = 0] /\ sent' = [sent EXCEPT ![s] = 0]
Answer(s, c) == Respond(s, c, None, 0)

NewRequest(s) ==
    /\ state[s] = "reading"
    /\ requests < MaxRequests
    /\ requests' = requests + 1

-----------------------------------------------------------------------------
(* Uploads.                                                                 *)

(* Slip: a file that is there already is not looked for.                    *)
NoConflict(p) == FALSE
Conflict(p) == Exists(p)

(* body_stream.open: a new file, or the one that is there, emptied.         *)
OpenStream(s, p) ==
    LET f == IF Exists(p) THEN dir[p] ELSE requests'
    IN /\ dir' = [dir EXCEPT ![p] = f]
       /\ data' = [data EXCEPT ![f] = 0]
       /\ whole' = [whole EXCEPT ![f] = FALSE]
       /\ out' = [out EXCEPT ![s] = f]

(* Slip: a body that is one byte too long is taken.                         *)
ExceedsByMore(n) == n > BodyLimit + 1
Exceeds(n) == n > BodyLimit

(* PrepareBody_, for a body of n bytes.                                     *)
PostBegins(s, p, n) ==
    /\ NewRequest(s)
    /\ \/ /\ Conflict(p)
          /\ Answer(s, 409)
          /\ UNCHANGED <<fsVars, bodyVars>>
       \/ /\ ~Conflict(p)
          /\ Answer(s, 500)
          /\ UNCHANGED <<fsVars, bodyVars>>
       \/ /\ ~Conflict(p)
          /\ OpenStream(s, p)
          /\ path' = [path EXCEPT ![s] = p]
          /\ remaining' = [remaining EXCEPT ![s] = n]
          /\ UNCHANGED <<complete, pending>>
          /\ \/ Exceeds(n) /\ Answer(s, 413)
             \/ /\ ~Exceeds(n)
                /\ state' = [state EXCEPT ![s] = "uploading"]
                /\ UNCHANGED rsVars
    /\ UNCHANGED clientVars

(* Some of the body arrives; the stream passes some of what it has on.      *)
BodyArrives(s) ==
    /\ state[s] = "uploading"
    /\ \E k \in 1 .. remaining[s] - 1 : \E flushed \in 0 .. pending[s] + k :
        /\ remaining' = [remaining EXCEPT ![s] = @ - k]
        /\ pending' = [pending EXCEPT ![s] = @ + k - flushed]
        /\ data' = [data EXCEPT ![out[s]] = @ + flushed]
    /\ UNCHANGED <<dir, whole, requests, state, path, complete, out, rsVars, clientVars>>

(* The last of it arrives: the stream is closed, and ProcessPost_ of        *)
(* FileProcessor looks whether the path names a file.                       *)
BodyEnds(s) ==
    /\ state[s] = "uploading"
    /\ data' = [data EXCEPT ![out[s]] = @ + pending[s] + remaining[s]]
    /\ whole' = [whole EXCEPT ![out[s]] = TRUE]
    /\ pending' = [pending EXCEPT ![s] = 0]
    /\ remaining' = [remaining EXCEPT ![s] = 0]
    /\ complete' = [complete EXCEPT ![s] = TRUE]
    /\ out' = [out EXCEPT ![s] = None]
    /\ \/ /\ Exists(path[s])
          /\ Answer(s, 201)
          /\ acked' = [acked EXCEPT ![path[s]] = out[s]]
       \/ /\ ~Exists(path[s])
          /\ Answer(s, 500)
          /\ UNCHANGED acked
    /\ UNCHANGED <<dir, requests, path, spoiled>>

(* A chunk of the body is malformed or exceeds the limit.                   *)
BodyIsBad(s) ==
    /\ state[s] = "uploading"
    /\ \E c \in {400, 413} : Answer(s, c)
    /\ UNCHANGED <<fsVars, requests, bodyVars, clientVars>>

-----------------------------------------------------------------------------
(* FileProcessor::ProcessDelete_.                                           *)
Delete(s, p) ==
    /\ NewRequest(s)
    /\ \/ /\ Exists(p)
          /\ dir' = [dir EXCEPT ![p] = None]
          /\ acked' = [acked EXCEPT ![p] = None]
          /\ spoiled' = IF whole[dir[p]] THEN spoiled ELSE spoiled \cup {p}
          /\ Answer(s, 204)
       \/ /\ ~Exists(p)
          /\ Answer(s, 404)
          /\ UNCHANGED <<dir, clientVars>>
    /\ UNCHANGED <<data, whole, bodyVars>>

(* FileProcessor::ProcessGet_, for a file.                                  *)
Get(s, p) ==
    /\ NewRequest(s)
    /\ \/ Exists(p) /\ Respond(s, 200, dir[p], data[dir[p]])
       \/ ~Exists(p) /\ Answer(s, 404)
    /\ UNCHANGED <<fsVars, bodyVars, clientVars>>

-----------------------------------------------------------------------------
(* The write callback: OnReadyToSendToClientCb::Call, SendFilePackage.      *)

Least(a, b) == IF a < b THEN a ELSE b
Unread(s) == data[file[s]] - pos[s]
(* PrepareNextChunk reads when the last chunk was sent and it has not met   *)
(* the end of the file: that is met when the buffer cannot be filled.       *)
Reads(s) == chunk[s] = 0 /\ ~eof[s]
ReadSize(s) == IF Reads(s) THEN Least(ChunkSize, Unread(s)) ELSE 0
(* Slip: a read that finds nothing is not the end of the file.              *)
MeetsEndWithData(s) == Reads(s) /\ ReadSize(s) \in 1 .. ChunkSize - 1
MeetsEnd(s) == Reads(s) /\ ReadSize(s) < ChunkSize
(* Slip: the buffer is not cut to what was read.                            *)
UncutChunk(s) == IF Reads(s) /\ Unread(s) > 0 THEN ChunkSize ELSE 0
NextChunk(s) == ReadSize(s)

(* One call sends what is left of the response's head and one piece of a    *)
(* chunk of its file.                                                       *)
SendFile(s) ==
    LET ready == chunk[s] + NextChunk(s)
    IN /\ pos' = [pos EXCEPT ![s] = @ + ReadSize(s)]
       /\ eof' = [eof EXCEPT ![s] = @ \/ MeetsEnd(s)]
       /\ \E k \in (IF ready = 0 THEN {0} ELSE 1 .. ready) :
            /\ chunk' = [chunk EXCEPT ![s] = ready - k]
            /\ sent' = [sent EXCEPT ![s] = @ + k]

(* BodyStorage's destructor.  Slip: it keeps what is incomplete.            *)
KeepIncomplete(s) == dir
(* Slip: it removes what is complete as well.                               *)
RemoveBody(s) == IF path[s] # None THEN [dir EXCEPT ![path[s]] = None] ELSE dir
RemoveIncomplete(s) ==
    IF path[s] # None /\ ~complete[s] THEN [dir EXCEPT ![path[s]] = None] ELSE dir

(* RequestBuilder::Reset: the path of the body is forgotten.                *)
ResetBody(s) ==
    /\ path' = [path EXCEPT ![s] = None]
    /\ complete' = [complete EXCEPT ![s] = FALSE]
    /\ remaining' = [remaining EXCEPT ![s] = 0]

(* The stream goes with the session, and writes what it still has.          *)
CloseStream(s) ==
    /\ data' = IF out[s] = None THEN data
               ELSE [data EXCEPT ![out[s]] = @ + pending[s]]
    /\ out' = [out EXCEPT ![s] = None]
    /\ pending' = [pending EXCEPT ![s] = 0]

(* ResponseSentCleanup; an error response has Connection: Close, and the    *)
(* session is destroyed after it.                                           *)
Finish(s) ==
    /\ ResetBody(s)
    /\ state' = [state EXCEPT ![s] = "reading"]
    /\ IF IsError(code[s]) THEN CloseStream(s) ELSE UNCHANGED <<data, out, pending>>
    /\ spoiled' = IF path[s] # None /\ ~complete[s] THEN spoiled \cup {path[s]} ELSE spoiled

Send(s) ==
    /\ state[s] = "sending"
    /\ UNCHANGED <<code, announced, file>>
    /\ \/ /\ file[s] = None
          /\ Finish(s)
          /\ UNCHANGED <<pos, eof, chunk, sent>>
       \/ /\ file[s] # None
          /\ SendFile(s)
          /\ \/ ~(eof'[s] /\ chunk'[s] = 0) /\ UNCHANGED <<state, bodyVars, data, spoiled>>
             \/ eof'[s] /\ chunk'[s] = 0 /\ Finish(s)
    /\ UNCHANGED <<dir, whole, requests, acked>>

(* The client leaves, its idle time is over or a send fails: the session is *)
(* destroyed.  The client may connect again.                                *)
Destroyed(s) ==
    /\ state[s] # "reading"
    /\ state' = [state EXCEPT ![s] = "reading"]
    /\ dir' = RemoveIncomplete(s)
    /\ ResetBody(s)
    /\ CloseStream(s)
    /\ UNCHANGED <<whole, requests, rsVars, clientVars>>

Next ==
    \E s \in Sessions :
        \/ \E p \in Paths : \/ \E n \in 1 .. BodyLimit + 1 : PostBegins(s, p, n)
                            \/ Get(s, p) \/ Delete(s, p)
        \/ BodyArrives(s) \/ BodyEnds(s) \/ BodyIsBad(s)
        \/ Send(s) \/ Destroyed(s)
Spec == Init /\ [][Next]_vars
(* A socket that can be written takes what it is given, in the end.         *)
FairSpec == Spec /\ \A s \in Sessions : WF_vars(Send(s))

-----------------------------------------------------------------------------
DiskTypeOK ==
    /\ dir \in [Paths -> Files \cup {None}]
    /\ data \in [Files -> 0 .. BodyLimit] /\ whole \in [Files -> BOOLEAN]
    /\ requests \in 0 .. MaxRequests
BodyTypeOK ==
    /\ state \in [Sessions -> {"reading", "uploading", "sending"}]
    /\ path \in [Sessions -> Paths \cup {None}]
    /\ complete \in [Sessions -> BOOLEAN]
    /\ out \in [Sessions -> Files \cup {None}]
    /\ pending \in [Sessions -> Nat] /\ remaining \in [Sessions -> Nat]
ResponseTypeOK ==
    /\ code \in [Sessions -> Nat] /\ announced \in [Sessions -> Nat]
    /\ file \in [Sessions -> Files \cup {None}]
    /\ pos \in [Sessions -> Nat] /\ eof \in [Sessions -> BOOLEAN]
    /\ chunk \in [Sessions -> 0 .. ChunkSize] /\ sent \in [Sessions -> Nat]
ClientTypeOK ==
    acked \in [Paths -> Files \cup {None}] /\ spoiled \in SUBSET Paths

TypeOK == DiskTypeOK /\ BodyTypeOK /\ ResponseTypeOK /\ ClientTypeOK

(* Two bodies never end up in one file: while a file is written, nobody     *)
(* else can open its path for an upload, whatever became of the path.       *)
OneWriterPerFile ==
    \A s, t \in Sessions : s # t /\ out[s] # None => out[s] # out[t]

(* What a path shows unfinished is still being uploaded: an upload whose    *)
(* client leaves is undone, whoever else came and went meanwhile.  (Unless  *)
(* the upload was refused in the middle, or a DELETE took its file: then    *)
(* the name and the session have lost each other.)                          *)
UnfinishedFilesAreInUpload ==
    \A p \in Paths \ spoiled :
        Exists(p) /\ ~whole[dir[p]] =>
            \E s \in Sessions : path[s] = p /\ out[s] = dir[p] /\ ~complete[s]

(* What a client was told it has stored stays, whole, until a DELETE of it  *)
(* succeeds.  (Unless somebody deleted an unfinished upload at that path:   *)
(* its session still removes the path, whatever it names by then.)          *)
StoredFilesStay ==
    \A p \in Paths \ spoiled :
        acked[p] # None => dir[p] = acked[p] /\ whole[acked[p]]

(* Whatever DELETEs came before, what was answered 201 stays until the next *)
(* DELETE of its path.                                                      *)
CreatedFilesStay == \A p \in Paths : acked[p] # None => dir[p] = acked[p]

(* A download ends with as many bytes as its Content-Length announced,      *)
(* in whatever pieces the socket takes them, and if the file loses its name *)
(* meanwhile; unless an upload has added to the file since (a file only     *)
(* grows, so it is the same if it has its length of then).                  *)
SentAsAnnounced(s) ==
    state[s] = "sending" /\ state'[s] = "reading" /\ eof'[s] /\ chunk'[s] = 0 =>
        sent'[s] = announced[s]
UnchangedFilesAreSentAsAnnounced ==
    [][\A s \in Sessions :
         file[s] # None /\ data[file[s]] = announced[s] => SentAsAnnounced(s)]_vars

(* A download ends: with the last byte, or with the session.                *)
DownloadsEnd == \A s \in Sessions : state[s] = "sending" ~> state[s] # "sending"
=============================================================================
