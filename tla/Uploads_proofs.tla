--------------------------- MODULE Uploads_proofs ---------------------------
(***************************************************************************)
(* What uploads promise, for every number of sessions, paths and requests. *)
(* IInv adds to the properties what each session's state says of its body: *)
(* when it has a stream, when a path, and that the path still names the    *)
(* stream's file unless a DELETE came between them.                        *)
(***************************************************************************)
EXTENDS Uploads, TLAPS

(* Whatever is named, written or read was once uploaded.                    *)
FilesKnown ==
    /\ \A p \in Paths : dir[p] # None => dir[p] <= requests
    /\ \A s \in Sessions : out[s] # None => out[s] <= requests
    /\ \A s \in Sessions : file[s] # None => file[s] <= requests

ReadersInside == \A s \in Sessions : file[s] # None => pos[s] <= data[file[s]]

BodiesInLimit ==
    \A s \in Sessions :
        /\ out[s] = None => pending[s] = 0
        /\ out[s] # None => data[out[s]] + pending[s] <= BodyLimit
        /\ state[s] = "uploading" =>
              data[out[s]] + pending[s] + remaining[s] <= BodyLimit

Phases ==
    \A s \in Sessions :
        /\ state[s] = "reading" => path[s] = None /\ ~complete[s]
        /\ state[s] = "uploading" => out[s] # None
        /\ out[s] # None => path[s] # None /\ ~complete[s] /\ ~whole[out[s]]
        /\ path[s] # None /\ ~complete[s] => out[s] # None
        /\ state[s] = "sending" /\ out[s] # None => IsError(code[s])

PathsLead ==
    \A s \in Sessions :
        out[s] # None /\ path[s] \notin spoiled => dir[path[s]] = out[s]

IInv ==
    /\ TypeOK /\ FilesKnown
    /\ ReadersInside /\ BodiesInLimit /\ Phases /\ PathsLead
    /\ OneWriterPerFile /\ UnfinishedFilesAreInUpload /\ StoredFilesStay

USE LimitsAssumption, NoneAssumption DEF Files

LEMMA InitIInv == Init => IInv
BY DEF Init, IInv, TypeOK, DiskTypeOK, BodyTypeOK, ResponseTypeOK, ClientTypeOK, FilesKnown,
       ReadersInside, BodiesInLimit, Phases, PathsLead, OneWriterPerFile,
       UnfinishedFilesAreInUpload, StoredFilesStay, Exists

-----------------------------------------------------------------------------
(* A response: the session sends it from its start, the others go on.       *)
LEMMA Responding ==
    ASSUME BodyTypeOK, ResponseTypeOK, NEW s \in Sessions, NEW c \in Nat,
           NEW f \in Files \cup {None}, NEW l \in Nat, Respond(s, c, f, l)
    PROVE  /\ ResponseTypeOK'
           /\ state' \in [Sessions -> {"reading", "uploading", "sending"}]
           /\ state'[s] = "sending" /\ code'[s] = c /\ file'[s] = f /\ pos'[s] = 0
           /\ \A t \in Sessions : t # s =>
                 /\ state'[t] = state[t] /\ code'[t] = code[t]
                 /\ file'[t] = file[t] /\ pos'[t] = pos[t]
BY DEF BodyTypeOK, ResponseTypeOK, Respond

(* Files only grow, except the new file of a request.                       *)
Grows == \A f \in Files : f <= requests => data'[f] >= data[f]

LEMMA ReadersStay ==
    ASSUME DiskTypeOK, DiskTypeOK', FilesKnown, ReadersInside, Grows,
           ResponseTypeOK, ResponseTypeOK',
           \A t \in Sessions : pos'[t] = 0 \/ (file'[t] = file[t] /\ pos'[t] = pos[t])
    PROVE  ReadersInside'
<1> SUFFICES ASSUME NEW t \in Sessions, file'[t] # None
             PROVE  pos'[t] <= data'[file'[t]]
  BY DEF ReadersInside
<1>1. file'[t] \in Files /\ data'[file'[t]] \in Nat
  BY SMTT(60) DEF DiskTypeOK, ResponseTypeOK
<1>2. CASE pos'[t] = 0
  BY <1>1, <1>2
<1>3. CASE file'[t] = file[t] /\ pos'[t] = pos[t]
  <2>1. pos[t] <= data[file[t]] /\ file[t] <= requests
    BY <1>3 DEF ReadersInside, FilesKnown
  <2>2. data[file[t]] \in Nat /\ pos[t] \in Nat
    BY SMTT(60), <1>1, <1>3 DEF DiskTypeOK, ResponseTypeOK
  <2> QED
    BY <1>1, <1>3, <2>1, <2>2 DEF Grows
<1> QED
  BY <1>2, <1>3

(* A request that is only answered.                                         *)
LEMMA AnswerKeeps ==
    ASSUME IInv, NEW s \in Sessions, NEW c \in Nat, NEW f \in Files \cup {None},
           NEW l \in Nat, Respond(s, c, f, l),
           state[s] = "reading" \/ IsError(c),
           requests' \in requests .. MaxRequests, f # None => f <= requests',
           UNCHANGED <<fsVars, bodyVars, clientVars>>
    PROVE  IInv'
<1> USE DEF fsVars, bodyVars, clientVars
<1>1. /\ DiskTypeOK /\ BodyTypeOK /\ ResponseTypeOK /\ ClientTypeOK
      /\ FilesKnown /\ Phases
  BY DEF IInv, TypeOK
<1>2. /\ ResponseTypeOK'
      /\ state' \in [Sessions -> {"reading", "uploading", "sending"}]
      /\ state'[s] = "sending" /\ code'[s] = c /\ file'[s] = f /\ pos'[s] = 0
      /\ \A t \in Sessions : t # s =>
            /\ state'[t] = state[t] /\ code'[t] = code[t]
            /\ file'[t] = file[t] /\ pos'[t] = pos[t]
  BY <1>1, Responding
<1>3. TypeOK'
  <2>1. DiskTypeOK'
    BY <1>1 DEF DiskTypeOK
  <2>2. BodyTypeOK'
    BY <1>1, <1>2 DEF BodyTypeOK
  <2> QED
    BY <1>1, <1>2, <2>1, <2>2 DEF TypeOK, ClientTypeOK
<1>4. FilesKnown'
  <2>1. \A p \in Paths : dir[p] \in Files \cup {None}
    BY <1>1 DEF DiskTypeOK
  <2>2. \A t \in Sessions : out[t] \in Files \cup {None} /\ file[t] \in Files \cup {None}
    BY <1>1 DEF BodyTypeOK, ResponseTypeOK
  <2>3. requests \in Nat /\ requests' \in Nat /\ requests <= requests'
    BY <1>1 DEF DiskTypeOK
  <2> QED
    BY <1>1, <1>2, <2>1, <2>2, <2>3 DEF FilesKnown
<1>5. ReadersInside'
  <2>1. Grows
    BY <1>1 DEF Grows, DiskTypeOK
  <2> QED
    BY <1>1, <1>2, <1>3, <2>1, ReadersStay DEF IInv, TypeOK
<1>6. BodiesInLimit'
  BY <1>2 DEF IInv, BodiesInLimit
<1>7. Phases'
  BY <1>1, <1>2 DEF Phases
<1>8. PathsLead' /\ OneWriterPerFile' /\ UnfinishedFilesAreInUpload' /\ StoredFilesStay'
  BY DEF IInv, PathsLead, OneWriterPerFile, UnfinishedFilesAreInUpload, StoredFilesStay, Exists
<1> QED
  BY <1>3, <1>4, <1>5, <1>6, <1>7, <1>8 DEF IInv

(* A body gets its file: a new one, since nobody has it at its path.        *)
LEMMA OpeningKeeps ==
    ASSUME IInv, NEW s \in Sessions, NEW p \in Paths, NEW n \in Nat,
           NewRequest(s), ~Exists(p), OpenStream(s, p),
           path' = [path EXCEPT ![s] = p], remaining' = [remaining EXCEPT ![s] = n],
           UNCHANGED <<complete, pending, clientVars>>,
           \/ Answer(s, 413)
           \/ /\ n <= BodyLimit
              /\ state' = [state EXCEPT ![s] = "uploading"]
              /\ UNCHANGED rsVars
    PROVE  IInv'
<1> DEFINE f == requests + 1
<1>1. /\ DiskTypeOK /\ BodyTypeOK /\ ResponseTypeOK /\ ClientTypeOK
      /\ FilesKnown /\ Phases
  BY DEF IInv, TypeOK
<1>2. /\ f \in Files /\ requests' = f /\ requests \in Nat /\ None \notin Files
      /\ state[s] = "reading" /\ path[s] = None /\ out[s] = None /\ ~complete[s]
      /\ pending[s] = 0
  BY <1>1 DEF NewRequest, DiskTypeOK, BodyTypeOK, Phases, IInv, BodiesInLimit
<1>3. /\ dir' = [dir EXCEPT ![p] = f] /\ data' = [data EXCEPT ![f] = 0]
      /\ whole' = [whole EXCEPT ![f] = FALSE] /\ out' = [out EXCEPT ![s] = f]
  BY <1>2 DEF OpenStream, Exists
<1>4. /\ ResponseTypeOK'
      /\ state' \in [Sessions -> {"reading", "uploading", "sending"}]
      /\ \A t \in Sessions : pos'[t] = 0 \/ (file'[t] = file[t] /\ pos'[t] = pos[t])
      /\ \A t \in Sessions : t # s => state'[t] = state[t] /\ code'[t] = code[t]
      /\ \A t \in Sessions : file'[t] # None => file'[t] = file[t]
      /\ \/ state'[s] = "sending" /\ code'[s] = 413
         \/ state'[s] = "uploading" /\ n <= BodyLimit
  <2>1. CASE Answer(s, 413)
    BY SMTT(60), <1>1, <2>1, Responding DEF Answer
  <2>2. CASE ~Answer(s, 413)
    BY <1>1, <2>2 DEF rsVars, BodyTypeOK, ResponseTypeOK
  <2> QED
    BY <2>1, <2>2
<1>5. /\ \A t \in Sessions : out[t] # f /\ file[t] # f
      /\ \A q \in Paths : dir[q] # f
  BY <1>1, <1>2 DEF FilesKnown
<1>6. DiskTypeOK' /\ BodyTypeOK'
  <2>1. DiskTypeOK'
    BY <1>1, <1>2, <1>3 DEF DiskTypeOK
  <2>2. BodyTypeOK'
    BY <1>1, <1>2, <1>3, <1>4 DEF BodyTypeOK
  <2> QED
    BY <2>1, <2>2
<1>7. FilesKnown'
  <2>1. \A q \in Paths : dir'[q] # None => dir'[q] <= f
    BY <1>1, <1>2, <1>3 DEF FilesKnown, DiskTypeOK
  <2>2. \A t \in Sessions : out'[t] # None => out'[t] <= f
    BY <1>1, <1>2, <1>3 DEF FilesKnown, BodyTypeOK
  <2>3. \A t \in Sessions : file'[t] # None => file'[t] <= f
    BY <1>1, <1>2, <1>4 DEF FilesKnown, ResponseTypeOK
  <2> QED
    BY <1>2, <2>1, <2>2, <2>3 DEF FilesKnown
<1>8. ReadersInside'
  <2>1. Grows
    BY <1>1, <1>2, <1>3 DEF Grows, DiskTypeOK
  <2> QED
    BY <1>1, <1>4, <1>6, <2>1, ReadersStay DEF IInv
<1>9. BodiesInLimit'
  <2> SUFFICES ASSUME NEW t \in Sessions
               PROVE  /\ out'[t] = None => pending'[t] = 0
                      /\ out'[t] # None => data'[out'[t]] + pending'[t] <= BodyLimit
                      /\ state'[t] = "uploading" =>
                            data'[out'[t]] + pending'[t] + remaining'[t] <= BodyLimit
    BY DEF BodiesInLimit
  <2>1. CASE t = s
    <3>1. out'[t] = f /\ data'[f] = 0 /\ pending'[t] = 0 /\ remaining'[t] = n
      BY <1>1, <1>2, <1>3, <2>1 DEF DiskTypeOK, BodyTypeOK
    <3> QED
      BY <1>2, <1>4, <2>1, <3>1
  <2>2. CASE t # s
    <3>1. /\ out'[t] = out[t] /\ pending'[t] = pending[t] /\ remaining'[t] = remaining[t]
          /\ state'[t] = state[t]
      BY <1>1, <1>3, <1>4, <2>2 DEF BodyTypeOK
    <3>2. out[t] # None => data'[out[t]] = data[out[t]]
      BY <1>1, <1>3, <1>5 DEF DiskTypeOK, BodyTypeOK
    <3>3. state[t] = "uploading" => out[t] # None
      BY <1>1 DEF Phases
    <3> QED
      BY <3>1, <3>2, <3>3 DEF IInv, BodiesInLimit
  <2> QED
    BY <2>1, <2>2
<1>10. Phases'
  <2> SUFFICES ASSUME NEW t \in Sessions
               PROVE  /\ state'[t] = "reading" => path'[t] = None /\ ~complete'[t]
                      /\ state'[t] = "uploading" => out'[t] # None
                      /\ out'[t] # None =>
                            path'[t] # None /\ ~complete'[t] /\ ~whole'[out'[t]]
                      /\ path'[t] # None /\ ~complete'[t] => out'[t] # None
                      /\ state'[t] = "sending" /\ out'[t] # None => IsError(code'[t])
    BY DEF Phases
  <2>1. CASE t = s
    <3>1. out'[t] = f /\ ~whole'[f] /\ path'[t] = p /\ ~complete'[t]
      BY <1>1, <1>2, <1>3, <2>1 DEF DiskTypeOK, BodyTypeOK
    <3> QED
      BY <1>2, <1>4, <2>1, <3>1 DEF IsError
  <2>2. CASE t # s
    <3>1. /\ out'[t] = out[t] /\ path'[t] = path[t] /\ complete'[t] = complete[t]
          /\ state'[t] = state[t] /\ code'[t] = code[t]
      BY <1>1, <1>3, <1>4, <2>2 DEF BodyTypeOK
    <3>2. out[t] # None => whole'[out[t]] = whole[out[t]]
      BY <1>1, <1>3, <1>5 DEF DiskTypeOK, BodyTypeOK
    <3> QED
      BY <1>1, <3>1, <3>2 DEF Phases
  <2> QED
    BY <2>1, <2>2
<1>11. PathsLead'
  <2> SUFFICES ASSUME NEW t \in Sessions, out'[t] # None, path'[t] \notin spoiled
               PROVE  dir'[path'[t]] = out'[t]
    BY DEF PathsLead, clientVars
  <2>1. CASE t = s
    BY <1>1, <1>3, <2>1 DEF DiskTypeOK, BodyTypeOK
  <2>2. CASE t # s
    <3>1. out'[t] = out[t] /\ path'[t] = path[t]
      BY <1>1, <1>3, <2>2 DEF BodyTypeOK
    <3>2. dir[path[t]] = out[t] /\ path[t] # p
      BY <3>1 DEF IInv, PathsLead, Exists
    <3> QED
      BY <1>1, <1>3, <3>1, <3>2 DEF DiskTypeOK, BodyTypeOK
  <2> QED
    BY <2>1, <2>2
<1>12. OneWriterPerFile'
  BY <1>1, <1>2, <1>3, <1>5 DEF IInv, OneWriterPerFile, BodyTypeOK
<1>13. UnfinishedFilesAreInUpload'
  <2> SUFFICES ASSUME NEW q \in Paths, q \notin spoiled, dir'[q] # None, ~whole'[dir'[q]]
               PROVE  \E t \in Sessions : path'[t] = q /\ out'[t] = dir'[q] /\ ~complete'[t]
    BY DEF UnfinishedFilesAreInUpload, Exists, clientVars
  <2>1. CASE q = p
    BY <1>1, <1>2, <1>3, <2>1 DEF DiskTypeOK, BodyTypeOK
  <2>2. CASE q # p
    <3>1. dir'[q] = dir[q] /\ dir[q] \in Files /\ whole'[dir[q]] = whole[dir[q]]
      BY <1>1, <1>2, <1>3, <1>5, <2>2 DEF DiskTypeOK
    <3>2. PICK t \in Sessions : path[t] = q /\ out[t] = dir[q] /\ ~complete[t]
      BY <3>1 DEF IInv, UnfinishedFilesAreInUpload, Exists
    <3>3. t # s
      BY <1>2, <3>1, <3>2
    <3> QED
      BY <1>1, <1>3, <3>1, <3>2, <3>3 DEF BodyTypeOK
  <2> QED
    BY <2>1, <2>2
<1>14. StoredFilesStay'
  <2> SUFFICES ASSUME NEW q \in Paths, q \notin spoiled, acked[q] # None
               PROVE  dir'[q] = acked[q] /\ whole'[acked[q]]
    BY DEF StoredFilesStay, clientVars
  <2>1. dir[q] = acked[q] /\ whole[acked[q]]
    BY DEF IInv, StoredFilesStay
  <2>2. q # p
    BY <2>1 DEF Exists
  <2> QED
    BY <1>1, <1>3, <1>5, <2>1, <2>2 DEF DiskTypeOK
<1> QED
  BY <1>1, <1>4, <1>6, <1>7, <1>8, <1>9, <1>10, <1>11, <1>12, <1>13, <1>14
     DEF IInv, TypeOK, ClientTypeOK, clientVars

LEMMA PostBeginsKeeps ==
    ASSUME IInv, NEW s \in Sessions, NEW p \in Paths, NEW n \in 1 .. BodyLimit + 1,
           PostBegins(s, p, n)
    PROVE  IInv'
<1>1. NewRequest(s) /\ state[s] = "reading" /\ requests' \in requests .. MaxRequests
  BY DEF NewRequest, IInv, TypeOK, DiskTypeOK, PostBegins
<1>2. CASE UNCHANGED <<fsVars, bodyVars>> /\ (Answer(s, 409) \/ Answer(s, 500))
  <2>1. UNCHANGED <<fsVars, bodyVars, clientVars>>
    BY <1>2 DEF PostBegins
  <2>2. PICK c \in {409, 500} : Respond(s, c, None, 0)
    BY <1>2 DEF Answer
  <2>3. c \in Nat
    OBVIOUS
  <2> QED
    BY <1>1, <2>1, <2>2, <2>3, AnswerKeeps
<1>3. CASE ~(UNCHANGED <<fsVars, bodyVars>> /\ (Answer(s, 409) \/ Answer(s, 500)))
  <2>1. /\ ~Exists(p) /\ OpenStream(s, p)
        /\ path' = [path EXCEPT ![s] = p] /\ remaining' = [remaining EXCEPT ![s] = n]
        /\ UNCHANGED <<complete, pending, clientVars>>
        /\ \/ Answer(s, 413)
           \/ /\ n <= BodyLimit
              /\ state' = [state EXCEPT ![s] = "uploading"]
              /\ UNCHANGED rsVars
    BY <1>3 DEF PostBegins, Conflict, Exceeds
  <2> QED
    BY <1>1, <2>1, OpeningKeeps, n \in Nat
<1> QED
  BY <1>2, <1>3

LEMMA BodyArrivesKeeps ==
    ASSUME IInv, NEW s \in Sessions, BodyArrives(s)
    PROVE  IInv'
<1>1. /\ DiskTypeOK /\ BodyTypeOK /\ ResponseTypeOK /\ ClientTypeOK
      /\ FilesKnown /\ Phases
  BY DEF IInv, TypeOK
<1>2. PICK k \in 1 .. remaining[s] - 1 : \E flushed \in 0 .. pending[s] + k :
        /\ remaining' = [remaining EXCEPT ![s] = @ - k]
        /\ pending' = [pending EXCEPT ![s] = @ + k - flushed]
        /\ data' = [data EXCEPT ![out[s]] = @ + flushed]
  BY DEF BodyArrives
<1>3. PICK flushed \in 0 .. pending[s] + k :
        /\ remaining' = [remaining EXCEPT ![s] = @ - k]
        /\ pending' = [pending EXCEPT ![s] = @ + k - flushed]
        /\ data' = [data EXCEPT ![out[s]] = @ + flushed]
  BY <1>2
<1>4. /\ UNCHANGED <<dir, whole, requests, state, path, complete, out, rsVars, clientVars>>
      /\ state[s] = "uploading"
  BY DEF BodyArrives
<1>5. /\ out[s] \in Files /\ out[s] # None
      /\ data[out[s]] \in Nat /\ pending[s] \in Nat /\ remaining[s] \in Nat
      /\ data[out[s]] + pending[s] + remaining[s] <= BodyLimit
      /\ k \in Nat /\ flushed \in Nat
  BY <1>1, <1>4 DEF DiskTypeOK, BodyTypeOK, Phases, IInv, BodiesInLimit
<1>6. /\ data[out[s]] + flushed \in 0 .. BodyLimit
      /\ pending[s] + k - flushed \in Nat /\ remaining[s] - k \in Nat
  BY <1>5
<1>7. DiskTypeOK'
  BY <1>1, <1>3, <1>4, <1>6 DEF DiskTypeOK
<1>8. BodyTypeOK'
  BY <1>1, <1>3, <1>4, <1>6 DEF BodyTypeOK
<1>9. ReadersInside'
  <2>1. Grows
    BY SMTT(60), <1>1, <1>3, <1>5, <1>6 DEF Grows, DiskTypeOK
  <2>2. ResponseTypeOK' /\ file' = file /\ pos' = pos
    BY <1>1, <1>4 DEF ResponseTypeOK, rsVars
  <2> QED
    BY <1>1, <1>7, <2>1, <2>2, ReadersStay DEF IInv
<1>10. BodiesInLimit'
  <2> SUFFICES ASSUME NEW t \in Sessions
               PROVE  /\ out[t] = None => pending'[t] = 0
                      /\ out[t] # None => data'[out[t]] + pending'[t] <= BodyLimit
                      /\ state[t] = "uploading" =>
                            data'[out[t]] + pending'[t] + remaining'[t] <= BodyLimit
    BY <1>4 DEF BodiesInLimit
  <2>1. CASE t = s
    <3>1. /\ data'[out[t]] = data[out[s]] + flushed
          /\ pending'[t] = pending[s] + k - flushed /\ remaining'[t] = remaining[s] - k
      BY <1>1, <1>3, <1>5, <2>1 DEF DiskTypeOK, BodyTypeOK
    <3> QED
      BY <1>5, <1>6, <2>1, <3>1
  <2>2. CASE t # s
    <3>1. pending'[t] = pending[t] /\ remaining'[t] = remaining[t]
      BY <1>1, <1>3, <2>2 DEF BodyTypeOK
    <3>2. out[t] # None => data'[out[t]] = data[out[t]]
      BY <1>1, <1>3, <1>5, <2>2 DEF DiskTypeOK, BodyTypeOK, IInv, OneWriterPerFile
    <3>3. state[t] = "uploading" => out[t] # None
      BY <1>1 DEF Phases
    <3> QED
      BY <3>1, <3>2, <3>3 DEF IInv, BodiesInLimit
  <2> QED
    BY <2>1, <2>2
<1> QED
  BY <1>1, <1>4, <1>7, <1>8, <1>9, <1>10
     DEF IInv, TypeOK, ResponseTypeOK, ClientTypeOK, FilesKnown, Phases, PathsLead,
         OneWriterPerFile, UnfinishedFilesAreInUpload, StoredFilesStay, Exists,
         rsVars, clientVars

LEMMA BodyEndsKeeps ==
    ASSUME IInv, NEW s \in Sessions, BodyEnds(s)
    PROVE  IInv'
<1> DEFINE f == out[s]
           p == path[s]
<1>1. /\ DiskTypeOK /\ BodyTypeOK /\ ResponseTypeOK /\ ClientTypeOK
      /\ FilesKnown /\ Phases
  BY DEF IInv, TypeOK
<1>2. /\ f \in Files /\ f # None /\ p \in Paths /\ p # None /\ ~whole[f]
      /\ data[f] \in Nat /\ pending[s] \in Nat /\ remaining[s] \in Nat
      /\ data[f] + pending[s] + remaining[s] <= BodyLimit
  BY <1>1 DEF BodyEnds, DiskTypeOK, BodyTypeOK, Phases, IInv, BodiesInLimit
<1>3. /\ data' = [data EXCEPT ![f] = @ + pending[s] + remaining[s]]
      /\ whole' = [whole EXCEPT ![f] = TRUE]
      /\ pending' = [pending EXCEPT ![s] = 0] /\ remaining' = [remaining EXCEPT ![s] = 0]
      /\ complete' = [complete EXCEPT ![s] = TRUE] /\ out' = [out EXCEPT ![s] = None]
      /\ UNCHANGED <<dir, requests, path, spoiled>>
  BY DEF BodyEnds
<1>4. PICK c \in Nat : /\ Respond(s, c, None, 0)
                       /\ \/ dir[p] # None /\ acked' = [acked EXCEPT ![p] = f]
                          \/ UNCHANGED acked
  BY DEF BodyEnds, Answer, Exists
<1>5. /\ ResponseTypeOK'
      /\ state' \in [Sessions -> {"reading", "uploading", "sending"}]
      /\ state'[s] = "sending" /\ file'[s] = None /\ pos'[s] = 0
      /\ \A t \in Sessions : t # s =>
            /\ state'[t] = state[t] /\ code'[t] = code[t]
            /\ file'[t] = file[t] /\ pos'[t] = pos[t]
  <2>1. Respond(s, c, None, 0) /\ c \in Nat /\ 0 \in Nat /\ None \in Files \cup {None}
    BY <1>4
  <2> QED
    BY ZenonT(60), <1>1, <2>1, Responding
<1>6. /\ out'[s] = None /\ pending'[s] = 0 /\ complete'[s] /\ path' = path
      /\ \A t \in Sessions : t # s =>
            /\ out'[t] = out[t] /\ pending'[t] = pending[t]
            /\ remaining'[t] = remaining[t] /\ complete'[t] = complete[t]
  BY <1>1, <1>3 DEF BodyTypeOK
<1>7. /\ data[f] + pending[s] + remaining[s] \in 0 .. BodyLimit
      /\ whole'[f]
      /\ \A g \in Files : g # f => data'[g] = data[g] /\ whole'[g] = whole[g]
  BY <1>1, <1>2, <1>3 DEF DiskTypeOK
<1>8. \A t \in Sessions : t # s => out[t] # f
  BY <1>2 DEF IInv, OneWriterPerFile
<1>9. DiskTypeOK'
  BY <1>1, <1>3, <1>7 DEF DiskTypeOK
<1>10. BodyTypeOK'
  BY <1>1, <1>3, <1>5 DEF BodyTypeOK
<1>11. ClientTypeOK'
  BY <1>1, <1>2, <1>3, <1>4 DEF ClientTypeOK
<1>12. FilesKnown'
  BY <1>1, <1>3, <1>5, <1>6 DEF FilesKnown
<1>13. ReadersInside'
  <2>1. Grows
    BY SMTT(60), <1>1, <1>2, <1>3, <1>7 DEF Grows, DiskTypeOK
  <2>2. \A t \in Sessions : pos'[t] = 0 \/ (file'[t] = file[t] /\ pos'[t] = pos[t])
    BY <1>5
  <2> QED
    BY <1>1, <1>5, <1>9, <2>1, <2>2, ReadersStay DEF IInv
<1>14. BodiesInLimit'
  <2> SUFFICES ASSUME NEW t \in Sessions, t # s
               PROVE  /\ out[t] = None => pending[t] = 0
                      /\ out[t] # None => data'[out[t]] + pending[t] <= BodyLimit
                      /\ state[t] = "uploading" =>
                            data'[out[t]] + pending[t] + remaining[t] <= BodyLimit
    BY <1>5, <1>6 DEF BodiesInLimit
  <2>1. out[t] # None => data'[out[t]] = data[out[t]]
    BY <1>1, <1>7, <1>8 DEF BodyTypeOK
  <2>2. state[t] = "uploading" => out[t] # None
    BY <1>1 DEF Phases
  <2> QED
    BY <2>1, <2>2 DEF IInv, BodiesInLimit
<1>15. Phases'
  <2>1. \A t \in Sessions : t # s /\ out[t] # None => whole'[out[t]] = whole[out[t]]
    BY <1>1, <1>7, <1>8 DEF BodyTypeOK
  <2> QED
    BY <1>1, <1>2, <1>5, <1>6, <2>1 DEF Phases
<1>16. PathsLead' /\ OneWriterPerFile'
  BY <1>3, <1>6 DEF IInv, PathsLead, OneWriterPerFile
<1>17. UnfinishedFilesAreInUpload'
  <2> SUFFICES ASSUME NEW q \in Paths, q \notin spoiled, dir[q] # None, ~whole'[dir[q]]
               PROVE  \E t \in Sessions : path[t] = q /\ out'[t] = dir[q] /\ ~complete'[t]
    BY <1>3 DEF UnfinishedFilesAreInUpload, Exists
  <2>1. dir[q] # f /\ ~whole[dir[q]]
    BY <1>1, <1>7 DEF DiskTypeOK
  <2>2. PICK t \in Sessions : path[t] = q /\ out[t] = dir[q] /\ ~complete[t]
    BY <2>1 DEF IInv, UnfinishedFilesAreInUpload, Exists
  <2> QED
    BY <1>6, <2>1, <2>2
<1>18. StoredFilesStay'
  <2> SUFFICES ASSUME NEW q \in Paths, q \notin spoiled, acked'[q] # None
               PROVE  dir[q] = acked'[q] /\ whole'[acked'[q]]
    BY <1>3 DEF StoredFilesStay
  <2>1. CASE acked'[q] = acked[q]
    <3>1. dir[q] = acked[q] /\ whole[acked[q]] /\ acked[q] \in Files
      BY <1>1, <2>1 DEF IInv, StoredFilesStay, ClientTypeOK
    <3> QED
      BY <1>2, <1>7, <2>1, <3>1
  <2>2. CASE acked'[q] # acked[q]
    <3>1. q = p /\ acked'[q] = f
      BY <1>1, <1>2, <1>4, <2>2 DEF ClientTypeOK
    <3> QED
      BY <1>2, <1>7, <3>1 DEF IInv, PathsLead
  <2> QED
    BY <2>1, <2>2
<1> QED
  BY <1>5, <1>9, <1>10, <1>11, <1>12, <1>13, <1>14, <1>15, <1>16, <1>17, <1>18 DEF IInv, TypeOK

LEMMA BodyIsBadKeeps ==
    ASSUME IInv, NEW s \in Sessions, BodyIsBad(s)
    PROVE  IInv'
<1>1. PICK c \in {400, 413} : Respond(s, c, None, 0)
  BY DEF BodyIsBad, Answer
<1>2. c \in Nat /\ IsError(c) /\ requests' \in requests .. MaxRequests
  BY DEF IsError, IInv, TypeOK, DiskTypeOK, BodyIsBad
<1>3. UNCHANGED <<fsVars, bodyVars, clientVars>>
  BY DEF BodyIsBad
<1> QED
  BY <1>1, <1>2, <1>3, AnswerKeeps

LEMMA GetKeeps ==
    ASSUME IInv, NEW s \in Sessions, NEW p \in Paths, Get(s, p)
    PROVE  IInv'
<1>1. /\ state[s] = "reading" /\ requests' \in requests .. MaxRequests
      /\ UNCHANGED <<fsVars, bodyVars, clientVars>>
  BY DEF Get, NewRequest, IInv, TypeOK, DiskTypeOK
<1>2. CASE Exists(p) /\ Respond(s, 200, dir[p], data[dir[p]])
  <2>1. /\ dir[p] \in Files \cup {None} /\ data[dir[p]] \in Nat
        /\ dir[p] # None => dir[p] <= requests'
    BY <1>1, <1>2 DEF IInv, TypeOK, DiskTypeOK, FilesKnown, Exists
  <2> QED
    BY ZenonT(60), <1>1, <1>2, <2>1, AnswerKeeps
<1>3. CASE Respond(s, 404, None, 0)
  <2>1. 404 \in Nat /\ 0 \in Nat /\ None \in Files \cup {None}
    OBVIOUS
  <2> QED
    BY <1>1, <1>3, <2>1, AnswerKeeps
<1> QED
  BY <1>2, <1>3 DEF Get, Answer

LEMMA DeleteKeeps ==
    ASSUME IInv, NEW s \in Sessions, NEW p \in Paths, Delete(s, p)
    PROVE  IInv'
<1>1. /\ DiskTypeOK /\ BodyTypeOK /\ ResponseTypeOK /\ ClientTypeOK
      /\ FilesKnown /\ Phases
      /\ state[s] = "reading" /\ requests' \in requests .. MaxRequests
      /\ UNCHANGED <<data, whole, bodyVars>>
  BY DEF IInv, TypeOK, Delete, NewRequest, DiskTypeOK
<1>2. CASE Respond(s, 404, None, 0) /\ UNCHANGED <<dir, clientVars>>
  <2>1. 404 \in Nat /\ 0 \in Nat /\ None \in Files \cup {None}
    OBVIOUS
  <2>2. UNCHANGED <<fsVars, bodyVars, clientVars>>
    BY <1>1, <1>2 DEF fsVars
  <2> QED
    BY <1>1, <1>2, <2>1, <2>2, AnswerKeeps
<1>3. CASE /\ Exists(p) /\ Respond(s, 204, None, 0)
           /\ dir' = [dir EXCEPT ![p] = None] /\ acked' = [acked EXCEPT ![p] = None]
           /\ spoiled' = IF whole[dir[p]] THEN spoiled ELSE spoiled \cup {p}
  <2>1. /\ ResponseTypeOK'
        /\ state' \in [Sessions -> {"reading", "uploading", "sending"}]
        /\ state'[s] = "sending" /\ file'[s] = None /\ pos'[s] = 0
        /\ \A t \in Sessions : t # s =>
              /\ state'[t] = state[t] /\ code'[t] = code[t]
              /\ file'[t] = file[t] /\ pos'[t] = pos[t]
    <3>1. Respond(s, 204, None, 0) /\ 204 \in Nat /\ 0 \in Nat /\ None \in Files \cup {None}
      BY <1>3
    <3> QED
      BY ZenonT(60), <1>1, <3>1, Responding
  <2>2. DiskTypeOK' /\ ClientTypeOK'
    BY <1>1, <1>3 DEF DiskTypeOK, ClientTypeOK
  <2>3. BodyTypeOK'
    BY <1>1, <2>1 DEF BodyTypeOK, bodyVars
  <2>4. /\ dir'[p] = None /\ acked'[p] = None
        /\ \A q \in Paths : q # p => /\ dir'[q] = dir[q] /\ acked'[q] = acked[q]
                                     /\ q \in spoiled' <=> q \in spoiled
    BY <1>1, <1>3 DEF DiskTypeOK, ClientTypeOK
  <2>5. FilesKnown'
    <3>1. requests \in Nat /\ requests' \in Nat /\ requests <= requests'
      BY <1>1 DEF DiskTypeOK
    <3>2. \A q \in Paths : dir[q] \in Files \cup {None}
      BY <1>1 DEF DiskTypeOK
    <3>3. \A t \in Sessions : out[t] \in Files \cup {None} /\ file[t] \in Files \cup {None}
      BY <1>1 DEF BodyTypeOK, ResponseTypeOK
    <3> QED
      BY <1>1, <2>1, <2>4, <3>1, <3>2, <3>3 DEF FilesKnown, bodyVars
  <2>6. ReadersInside'
    <3>1. Grows
      BY <1>1 DEF Grows, DiskTypeOK
    <3> QED
      BY <1>1, <2>1, <2>2, <3>1, ReadersStay DEF IInv
  <2>7. BodiesInLimit'
    BY <1>1, <2>1 DEF IInv, BodiesInLimit, bodyVars
  <2>8. Phases'
    BY <1>1, <2>1 DEF Phases, bodyVars
  <2>9. PathsLead'
    <3> SUFFICES ASSUME NEW t \in Sessions, out[t] # None, path[t] \notin spoiled'
                 PROVE  dir'[path[t]] = out[t]
      BY <1>1 DEF PathsLead, bodyVars
    <3>1. /\ path[t] \in Paths /\ ~whole[out[t]]
          /\ path[t] \notin spoiled /\ dir[path[t]] = out[t]
      BY <1>1, <1>3 DEF BodyTypeOK, Phases, IInv, PathsLead
    <3>2. path[t] # p
      BY <1>3, <3>1
    <3> QED
      BY <2>4, <3>1, <3>2
  <2>10. OneWriterPerFile'
    BY <1>1 DEF IInv, OneWriterPerFile, bodyVars
  <2>11. UnfinishedFilesAreInUpload'
    BY <1>1, <2>4 DEF IInv, UnfinishedFilesAreInUpload, Exists, bodyVars
  <2>12. StoredFilesStay'
    BY <1>1, <2>4 DEF IInv, StoredFilesStay
  <2> QED
    BY <2>1, <2>2, <2>3, <2>5, <2>6, <2>7, <2>8, <2>9, <2>10, <2>11, <2>12 DEF IInv, TypeOK
<1> QED
  BY <1>2, <1>3 DEF Delete, Answer

-----------------------------------------------------------------------------
(* The end of a body: the stream is closed with what it holds, the path is  *)
(* forgotten.                                                               *)
LEMMA Closing ==
    ASSUME DiskTypeOK, BodyTypeOK, BodiesInLimit, OneWriterPerFile, Phases,
           NEW s \in Sessions, ResetBody(s), CloseStream(s)
    PROVE  /\ data' \in [Files -> 0 .. BodyLimit]
           /\ \A f \in Files : data'[f] >= data[f]
           /\ path'[s] = None /\ ~complete'[s] /\ out'[s] = None /\ pending'[s] = 0
           /\ \A t \in Sessions : t # s =>
                 /\ path'[t] = path[t] /\ complete'[t] = complete[t]
                 /\ out'[t] = out[t] /\ pending'[t] = pending[t]
                 /\ remaining'[t] = remaining[t]
                 /\ out[t] # None => data'[out[t]] = data[out[t]]
           /\ path' \in [Sessions -> Paths \cup {None}]
           /\ complete' \in [Sessions -> BOOLEAN]
           /\ out' \in [Sessions -> Files \cup {None}]
           /\ pending' \in [Sessions -> Nat] /\ remaining' \in [Sessions -> Nat]
<1>1. /\ path'[s] = None /\ ~complete'[s]
      /\ path' \in [Sessions -> Paths \cup {None}]
      /\ complete' \in [Sessions -> BOOLEAN] /\ remaining' \in [Sessions -> Nat]
      /\ \A t \in Sessions : t # s =>
            /\ path'[t] = path[t] /\ complete'[t] = complete[t]
            /\ remaining'[t] = remaining[t]
  BY DEF BodyTypeOK, ResetBody
<1>2. /\ out'[s] = None /\ pending'[s] = 0
      /\ out' \in [Sessions -> Files \cup {None}] /\ pending' \in [Sessions -> Nat]
      /\ \A t \in Sessions : t # s => out'[t] = out[t] /\ pending'[t] = pending[t]
  BY DEF BodyTypeOK, CloseStream
<1>3. /\ data' \in [Files -> 0 .. BodyLimit]
      /\ \A f \in Files : data'[f] >= data[f]
      /\ \A t \in Sessions : t # s /\ out[t] # None => data'[out[t]] = data[out[t]]
  <2>1. CASE out[s] = None
    BY <2>1 DEF DiskTypeOK, CloseStream
  <2>2. CASE out[s] # None
    <3>1. /\ out[s] \in Files /\ data[out[s]] \in Nat /\ pending[s] \in Nat
          /\ data[out[s]] + pending[s] <= BodyLimit
      BY <2>2 DEF DiskTypeOK, BodyTypeOK, BodiesInLimit
    <3>2. data' = [data EXCEPT ![out[s]] = @ + pending[s]]
      BY <2>2 DEF CloseStream
    <3>3. \A t \in Sessions : t # s /\ out[t] # None => out[t] \in Files /\ out[t] # out[s]
      BY DEF BodyTypeOK, OneWriterPerFile
    <3> QED
      BY <3>1, <3>2, <3>3 DEF DiskTypeOK
  <2> QED
    BY <2>1, <2>2
<1> QED
  BY <1>1, <1>2, <1>3

LEMMA DestroyedKeeps ==
    ASSUME IInv, NEW s \in Sessions, Destroyed(s)
    PROVE  IInv'
<1>1. /\ DiskTypeOK /\ BodyTypeOK /\ ResponseTypeOK /\ ClientTypeOK
      /\ FilesKnown /\ Phases /\ BodiesInLimit /\ OneWriterPerFile
  BY DEF IInv, TypeOK
<1>2. /\ state' = [state EXCEPT ![s] = "reading"] /\ dir' = RemoveIncomplete(s)
      /\ ResetBody(s) /\ CloseStream(s)
      /\ UNCHANGED <<whole, requests, rsVars, clientVars>>
  BY DEF Destroyed
<1>3. /\ data' \in [Files -> 0 .. BodyLimit]
      /\ \A f \in Files : data'[f] >= data[f]
      /\ path'[s] = None /\ ~complete'[s] /\ out'[s] = None /\ pending'[s] = 0
      /\ \A t \in Sessions : t # s =>
            /\ path'[t] = path[t] /\ complete'[t] = complete[t]
            /\ out'[t] = out[t] /\ pending'[t] = pending[t]
            /\ remaining'[t] = remaining[t]
            /\ out[t] # None => data'[out[t]] = data[out[t]]
      /\ path' \in [Sessions -> Paths \cup {None}]
      /\ complete' \in [Sessions -> BOOLEAN]
      /\ out' \in [Sessions -> Files \cup {None}]
      /\ pending' \in [Sessions -> Nat] /\ remaining' \in [Sessions -> Nat]
  BY <1>1, <1>2, Closing
<1>4. /\ state' \in [Sessions -> {"reading", "uploading", "sending"}]
      /\ state'[s] = "reading"
      /\ \A t \in Sessions : t # s => state'[t] = state[t]
  BY <1>1, <1>2 DEF BodyTypeOK
<1>5. /\ dir' \in [Paths -> Files \cup {None}]
      /\ \A q \in Paths : \/ dir'[q] = dir[q]
                          \/ dir'[q] = None /\ q = path[s] /\ ~complete[s]
      /\ path[s] \in Paths /\ ~complete[s] => dir'[path[s]] = None
  BY <1>1, <1>2 DEF RemoveIncomplete, DiskTypeOK
<1>6. TypeOK'
  <2>1. DiskTypeOK'
    BY <1>1, <1>2, <1>3, <1>5 DEF DiskTypeOK
  <2>2. BodyTypeOK'
    BY <1>3, <1>4 DEF BodyTypeOK
  <2> QED
    BY <1>1, <1>2, <2>1, <2>2 DEF TypeOK, ResponseTypeOK, ClientTypeOK, rsVars, clientVars
<1>7. FilesKnown'
  BY <1>1, <1>2, <1>3, <1>5 DEF FilesKnown, rsVars
<1>8. ReadersInside'
  <2>1. Grows
    BY <1>3 DEF Grows
  <2>2. \A t \in Sessions : file'[t] = file[t] /\ pos'[t] = pos[t]
    BY <1>2 DEF rsVars
  <2> QED
    BY <1>1, <1>6, <2>1, <2>2, ReadersStay DEF IInv, TypeOK
<1>9. BodiesInLimit'
  <2> SUFFICES ASSUME NEW t \in Sessions, t # s
               PROVE  /\ out[t] = None => pending[t] = 0
                      /\ out[t] # None => data'[out[t]] + pending[t] <= BodyLimit
                      /\ state[t] = "uploading" =>
                            data'[out[t]] + pending[t] + remaining[t] <= BodyLimit
    BY <1>3, <1>4 DEF BodiesInLimit
  <2>1. out[t] # None => data'[out[t]] = data[out[t]]
    BY <1>3
  <2>2. state[t] = "uploading" => out[t] # None
    BY <1>1 DEF Phases
  <2> QED
    BY <1>1, <2>1, <2>2 DEF BodiesInLimit
<1>10. Phases'
  <2> SUFFICES ASSUME NEW t \in Sessions
               PROVE  /\ state'[t] = "reading" => path'[t] = None /\ ~complete'[t]
                      /\ state'[t] = "uploading" => out'[t] # None
                      /\ out'[t] # None => path'[t] # None /\ ~complete'[t] /\ ~whole'[out'[t]]
                      /\ path'[t] # None /\ ~complete'[t] => out'[t] # None
                      /\ state'[t] = "sending" /\ out'[t] # None => IsError(code'[t])
    BY DEF Phases, IsError
  <2>1. CASE t = s
    BY <1>3, <1>4, <2>1
  <2>2. CASE t # s
    <3>1. /\ state'[t] = state[t] /\ path'[t] = path[t] /\ complete'[t] = complete[t]
          /\ out'[t] = out[t] /\ whole' = whole /\ code' = code
      BY <1>2, <1>3, <1>4, <2>2 DEF rsVars
    <3> QED
      BY <1>1, <3>1 DEF Phases
  <2> QED
    BY <2>1, <2>2
<1>11. PathsLead'
  <2> SUFFICES ASSUME NEW t \in Sessions, out'[t] # None, path'[t] \notin spoiled
               PROVE  dir'[path'[t]] = out'[t]
    BY <1>2 DEF PathsLead, clientVars
  <2>1. /\ t # s /\ path'[t] = path[t] /\ out'[t] = out[t]
        /\ path[t] \in Paths /\ dir[path[t]] = out[t]
    BY SMTT(60), <1>1, <1>3 DEF IInv, PathsLead, Phases, BodyTypeOK
  <2>2. ~(path[t] = path[s] /\ ~complete[s])
    BY <1>1, <1>3, <2>1 DEF IInv, PathsLead, Phases, OneWriterPerFile
  <2> QED
    BY <1>5, <2>1, <2>2
<1>12. OneWriterPerFile'
  <2> SUFFICES ASSUME NEW t \in Sessions, NEW u \in Sessions, t # u, out'[t] # None
               PROVE  out'[t] # out'[u]
    BY DEF OneWriterPerFile
  <2>1. t # s /\ out'[t] = out[t]
    BY <1>3
  <2>2. CASE u = s
    BY <1>3, <2>2
  <2>3. CASE u # s
    <3>1. out'[u] = out[u]
      BY <1>3, <2>3
    <3>2. out[t] # None => out[t] # out[u]
      BY <1>1 DEF OneWriterPerFile
    <3> QED
      BY <2>1, <3>1, <3>2
  <2> QED
    BY <2>2, <2>3
<1>13. UnfinishedFilesAreInUpload'
  <2> SUFFICES ASSUME NEW q \in Paths, q \notin spoiled, dir'[q] # None, ~whole[dir'[q]]
               PROVE  \E t \in Sessions : path'[t] = q /\ out'[t] = dir'[q] /\ ~complete'[t]
    BY <1>2 DEF UnfinishedFilesAreInUpload, Exists, clientVars
  <2>1. dir'[q] = dir[q]
    BY <1>5
  <2>2. PICK t \in Sessions : path[t] = q /\ out[t] = dir[q] /\ ~complete[t]
    BY <2>1 DEF IInv, UnfinishedFilesAreInUpload, Exists
  <2>3. t # s
    BY <1>5, <2>2
  <2> QED
    BY <1>3, <2>1, <2>2, <2>3
<1>14. StoredFilesStay'
  <2> SUFFICES ASSUME NEW q \in Paths, q \notin spoiled, acked[q] # None
               PROVE  dir'[q] = acked[q] /\ whole[acked[q]]
    BY <1>2 DEF StoredFilesStay, clientVars
  <2>1. dir[q] = acked[q] /\ whole[acked[q]]
    BY DEF IInv, StoredFilesStay
  <2>2. ~(q = path[s] /\ ~complete[s])
    BY <1>1, <2>1 DEF IInv, PathsLead, Phases
  <2> QED
    BY <1>5, <2>1, <2>2
<1> QED
  BY <1>6, <1>7, <1>8, <1>9, <1>10, <1>11, <1>12, <1>13, <1>14 DEF IInv

(* A response is over.                                                      *)
LEMMA FinishKeeps ==
    ASSUME IInv, NEW s \in Sessions, state[s] = "sending", Finish(s),
           ResponseTypeOK', ReadersInside',
           UNCHANGED <<dir, whole, requests, code, file, acked>>
    PROVE  IInv'
<1>1. /\ DiskTypeOK /\ BodyTypeOK /\ ResponseTypeOK /\ ClientTypeOK
      /\ FilesKnown /\ Phases /\ BodiesInLimit /\ OneWriterPerFile
  BY DEF IInv, TypeOK
<1>2. /\ state' = [state EXCEPT ![s] = "reading"]
      /\ ResetBody(s) /\ CloseStream(s)
      /\ spoiled' = IF path[s] # None /\ ~complete[s] THEN spoiled \cup {path[s]} ELSE spoiled
  <2>1. CASE IsError(code[s])
    BY <2>1 DEF Finish
  <2>2. CASE ~IsError(code[s])
    <3>1. out[s] = None /\ pending[s] = 0
      BY <1>1, <2>2 DEF Phases, BodiesInLimit
    <3>2. out' = out /\ pending' = pending /\ data' = data
      BY <2>2 DEF Finish
    <3>3. CloseStream(s)
      BY <1>1, <3>1, <3>2 DEF CloseStream, BodyTypeOK
    <3> QED
      BY <3>3 DEF Finish
  <2> QED
    BY <2>1, <2>2
<1>3. /\ data' \in [Files -> 0 .. BodyLimit]
      /\ path'[s] = None /\ ~complete'[s] /\ out'[s] = None /\ pending'[s] = 0
      /\ \A t \in Sessions : t # s =>
            /\ path'[t] = path[t] /\ complete'[t] = complete[t]
            /\ out'[t] = out[t] /\ pending'[t] = pending[t]
            /\ remaining'[t] = remaining[t]
            /\ out[t] # None => data'[out[t]] = data[out[t]]
      /\ path' \in [Sessions -> Paths \cup {None}]
      /\ complete' \in [Sessions -> BOOLEAN]
      /\ out' \in [Sessions -> Files \cup {None}]
      /\ pending' \in [Sessions -> Nat] /\ remaining' \in [Sessions -> Nat]
  BY <1>1, <1>2, Closing
<1>4. /\ state' \in [Sessions -> {"reading", "uploading", "sending"}]
      /\ state'[s] = "reading"
      /\ \A t \in Sessions : t # s => state'[t] = state[t]
  BY <1>1, <1>2 DEF BodyTypeOK
<1>5. TypeOK'
  <2>1. DiskTypeOK'
    BY <1>1, <1>3 DEF DiskTypeOK
  <2>2. BodyTypeOK'
    BY <1>3, <1>4 DEF BodyTypeOK
  <2>3. ClientTypeOK'
    BY <1>1, <1>2 DEF ClientTypeOK, BodyTypeOK
  <2> QED
    BY <2>1, <2>2, <2>3 DEF TypeOK
<1>6. FilesKnown'
  BY <1>1, <1>3 DEF FilesKnown
<1>7. BodiesInLimit'
  <2> SUFFICES ASSUME NEW t \in Sessions, t # s
               PROVE  /\ out[t] = None => pending[t] = 0
                      /\ out[t] # None => data'[out[t]] + pending[t] <= BodyLimit
                      /\ state[t] = "uploading" =>
                            data'[out[t]] + pending[t] + remaining[t] <= BodyLimit
    BY <1>3, <1>4 DEF BodiesInLimit
  <2>1. out[t] # None => data'[out[t]] = data[out[t]]
    BY <1>3
  <2>2. state[t] = "uploading" => out[t] # None
    BY <1>1 DEF Phases
  <2> QED
    BY <1>1, <2>1, <2>2 DEF BodiesInLimit
<1>8. Phases'
  <2> SUFFICES ASSUME NEW t \in Sessions
               PROVE  /\ state'[t] = "reading" => path'[t] = None /\ ~complete'[t]
                      /\ state'[t] = "uploading" => out'[t] # None
                      /\ out'[t] # None => path'[t] # None /\ ~complete'[t] /\ ~whole'[out'[t]]
                      /\ path'[t] # None /\ ~complete'[t] => out'[t] # None
                      /\ state'[t] = "sending" /\ out'[t] # None => IsError(code'[t])
    BY DEF Phases, IsError
  <2>1. CASE t = s
    BY <1>3, <1>4, <2>1
  <2>2. CASE t # s
    <3>1. /\ state'[t] = state[t] /\ path'[t] = path[t] /\ complete'[t] = complete[t]
          /\ out'[t] = out[t] /\ whole' = whole /\ code' = code
      BY <1>3, <1>4, <2>2
    <3> QED
      BY <1>1, <3>1 DEF Phases
  <2> QED
    BY <2>1, <2>2
<1>9. spoiled \subseteq spoiled' /\ (path[s] # None /\ ~complete[s] => path[s] \in spoiled')
  BY <1>2
<1>10. PathsLead' /\ OneWriterPerFile' /\ StoredFilesStay'
  <2>1. PathsLead'
    <3> SUFFICES ASSUME NEW t \in Sessions, out'[t] # None, path'[t] \notin spoiled'
                 PROVE  dir[path'[t]] = out'[t]
      BY DEF PathsLead
    <3>1. t # s /\ path'[t] = path[t] /\ out'[t] = out[t]
      BY <1>3
    <3> QED
      BY <1>9, <3>1 DEF IInv, PathsLead
  <2>2. OneWriterPerFile'
    <3> SUFFICES ASSUME NEW t \in Sessions, NEW u \in Sessions, t # u, out'[t] # None
                 PROVE  out'[t] # out'[u]
      BY DEF OneWriterPerFile
    <3>1. t # s /\ out'[t] = out[t]
      BY <1>3
    <3>2. CASE u = s
      BY <1>3, <3>2
    <3>3. CASE u # s
      <4>1. out'[u] = out[u]
        BY <1>3, <3>3
      <4>2. out[t] # None => out[t] # out[u]
        BY <1>1 DEF OneWriterPerFile
      <4> QED
        BY <3>1, <4>1, <4>2
    <3> QED
      BY <3>2, <3>3
  <2>3. StoredFilesStay'
    BY <1>9 DEF IInv, StoredFilesStay
  <2> QED
    BY <2>1, <2>2, <2>3
<1>11. UnfinishedFilesAreInUpload'
  <2> SUFFICES ASSUME NEW q \in Paths, q \notin spoiled', dir[q] # None, ~whole[dir[q]]
               PROVE  \E t \in Sessions : path'[t] = q /\ out'[t] = dir[q] /\ ~complete'[t]
    BY DEF UnfinishedFilesAreInUpload, Exists
  <2>1. PICK t \in Sessions : path[t] = q /\ out[t] = dir[q] /\ ~complete[t]
    BY <1>9 DEF IInv, UnfinishedFilesAreInUpload, Exists
  <2>2. t # s
    BY <1>9, <2>1
  <2> QED
    BY <1>3, <2>1, <2>2
<1> QED
  BY <1>5, <1>6, <1>7, <1>8, <1>10, <1>11 DEF IInv

LEMMA SendKeeps ==
    ASSUME IInv, NEW s \in Sessions, Send(s)
    PROVE  IInv'
<1>1. /\ DiskTypeOK /\ BodyTypeOK /\ ResponseTypeOK /\ ClientTypeOK
      /\ FilesKnown /\ ReadersInside
  BY DEF IInv, TypeOK
<1>2. /\ state[s] = "sending"
      /\ UNCHANGED <<dir, whole, requests, code, announced, file, acked>>
  BY DEF Send
<1>3. CASE file[s] = None
  <2>1. Finish(s) /\ UNCHANGED <<pos, eof, chunk, sent>>
    BY <1>3 DEF Send
  <2>2. ResponseTypeOK'
    BY <1>1, <1>2, <2>1 DEF ResponseTypeOK
  <2>3. CASE data' = data
    <3>1. ReadersInside'
      BY <1>1, <1>2, <2>1, <2>3 DEF ReadersInside
    <3> QED
      BY <1>2, <2>1, <2>2, <3>1, FinishKeeps
  <2>4. CASE data' # data
    <3>1. ResetBody(s) /\ CloseStream(s)
      BY <2>1, <2>4 DEF Finish
    <3>2. \A f \in Files : data'[f] >= data[f] /\ data'[f] \in Nat
      BY <1>1, <3>1, Closing DEF IInv
    <3>3. ReadersInside'
      BY SMTT(60), <1>1, <1>2, <2>1, <3>2 DEF ReadersInside, ResponseTypeOK, DiskTypeOK
    <3> QED
      BY <1>2, <2>1, <2>2, <3>3, FinishKeeps
  <2> QED
    BY <2>3, <2>4
<1>4. CASE file[s] # None
  <2> DEFINE r == ReadSize(s)
             ready == chunk[s] + r
  <2>1. SendFile(s) /\ (Finish(s) \/ UNCHANGED <<state, bodyVars, data, spoiled>>)
    BY <1>4 DEF Send
  <2>2. /\ file[s] \in Files /\ pos[s] \in Nat /\ data[file[s]] \in Nat
        /\ pos[s] <= data[file[s]] /\ chunk[s] \in 0 .. ChunkSize
    BY <1>1, <1>4 DEF DiskTypeOK, ResponseTypeOK, ReadersInside
  <2>3. r \in Nat /\ pos[s] + r <= data[file[s]] /\ ready \in 0 .. ChunkSize
    BY <2>2 DEF ReadSize, Reads, Unread, Least
  <2>4. /\ pos' = [pos EXCEPT ![s] = @ + r] /\ eof' = [eof EXCEPT ![s] = @ \/ MeetsEnd(s)]
        /\ \E k \in 0 .. ready : /\ chunk' = [chunk EXCEPT ![s] = ready - k]
                                 /\ sent' = [sent EXCEPT ![s] = @ + k]
    <3>1. /\ pos' = [pos EXCEPT ![s] = @ + r] /\ eof' = [eof EXCEPT ![s] = @ \/ MeetsEnd(s)]
          /\ \E k \in (IF ready = 0 THEN {0} ELSE 1 .. ready) :
                /\ chunk' = [chunk EXCEPT ![s] = ready - k]
                /\ sent' = [sent EXCEPT ![s] = @ + k]
      BY <2>1 DEF SendFile, NextChunk
    <3>2. (IF ready = 0 THEN {0} ELSE 1 .. ready) \subseteq 0 .. ready
      BY <2>3
    <3> QED
      BY <3>1, <3>2
  <2>5. ResponseTypeOK'
    <3>1. pos' \in [Sessions -> Nat] /\ eof' \in [Sessions -> BOOLEAN]
      BY <1>1, <2>3, <2>4 DEF ResponseTypeOK, MeetsEnd, Reads
    <3>2. chunk' \in [Sessions -> 0 .. ChunkSize] /\ sent' \in [Sessions -> Nat]
      BY <1>1, <2>3, <2>4 DEF ResponseTypeOK
    <3> QED
      BY <1>1, <1>2, <3>1, <3>2 DEF ResponseTypeOK
  <2>6. ReadersInside'
    <3>1. \A f \in Files : data'[f] >= data[f] /\ data'[f] \in Nat
      <4>1. CASE data' = data
        BY <1>1, <4>1 DEF DiskTypeOK
      <4>2. CASE data' # data
        <5>1. ResetBody(s) /\ CloseStream(s)
          BY <2>1, <4>2 DEF Finish
        <5> QED
          BY <1>1, <5>1, Closing DEF IInv
      <4> QED
        BY <4>1, <4>2
    <3>2. pos'[s] = pos[s] + r /\ \A t \in Sessions : t # s => pos'[t] = pos[t]
      BY <1>1, <2>4 DEF ResponseTypeOK
    <3>3. \A t \in Sessions : file[t] # None =>
             file[t] \in Files /\ pos[t] \in Nat /\ data[file[t]] \in Nat
      BY <1>1 DEF ResponseTypeOK, DiskTypeOK
    <3>4. \A t \in Sessions : file[t] # None => pos'[t] <= data[file[t]] /\ pos'[t] \in Nat
      BY <1>1, <2>2, <2>3, <3>2, <3>3 DEF ReadersInside
    <3> QED
      BY <1>2, <3>1, <3>3, <3>4 DEF ReadersInside
  <2>7. CASE Finish(s)
    BY <1>2, <2>5, <2>6, <2>7, FinishKeeps
  <2>8. CASE UNCHANGED <<state, bodyVars, data, spoiled>>
    BY <1>1, <1>2, <2>5, <2>6, <2>8
       DEF IInv, TypeOK, DiskTypeOK, BodyTypeOK, ClientTypeOK, FilesKnown, BodiesInLimit,
           Phases, PathsLead, OneWriterPerFile, UnfinishedFilesAreInUpload,
           StoredFilesStay, Exists, bodyVars
  <2> QED
    BY <2>1, <2>7, <2>8
<1> QED
  BY <1>3, <1>4

-----------------------------------------------------------------------------
(* Every reachable state has the invariant.                                 *)
THEOREM Inductive == Spec => []IInv
<1>1. ASSUME IInv, [Next]_vars
      PROVE  IInv'
  <2>1. ASSUME NEW s \in Sessions, NEW p \in Paths, NEW n \in 1 .. BodyLimit + 1,
               PostBegins(s, p, n)
        PROVE  IInv'
    BY <1>1, <2>1, PostBeginsKeeps
  <2>2. ASSUME NEW s \in Sessions, NEW p \in Paths, Get(s, p)
        PROVE  IInv'
    BY <1>1, <2>2, GetKeeps
  <2>3. ASSUME NEW s \in Sessions, NEW p \in Paths, Delete(s, p)
        PROVE  IInv'
    BY <1>1, <2>3, DeleteKeeps
  <2>4. ASSUME NEW s \in Sessions, BodyArrives(s)
        PROVE  IInv'
    BY <1>1, <2>4, BodyArrivesKeeps
  <2>5. ASSUME NEW s \in Sessions, BodyEnds(s)
        PROVE  IInv'
    BY <1>1, <2>5, BodyEndsKeeps
  <2>6. ASSUME NEW s \in Sessions, BodyIsBad(s)
        PROVE  IInv'
    BY <1>1, <2>6, BodyIsBadKeeps
  <2>7. ASSUME NEW s \in Sessions, Send(s)
        PROVE  IInv'
    BY <1>1, <2>7, SendKeeps
  <2>8. ASSUME NEW s \in Sessions, Destroyed(s)
        PROVE  IInv'
    BY <1>1, <2>8, DestroyedKeeps
  <2>9. CASE UNCHANGED vars
    BY SMTT(60), <1>1, <2>9
       DEF vars, fsVars, bodyVars, rsVars, clientVars, IInv, TypeOK, DiskTypeOK, BodyTypeOK,
           ResponseTypeOK, ClientTypeOK, FilesKnown, ReadersInside, BodiesInLimit, Phases,
           PathsLead, OneWriterPerFile, UnfinishedFilesAreInUpload, StoredFilesStay, Exists
  <2> QED
    BY <1>1, <2>1, <2>2, <2>3, <2>4, <2>5, <2>6, <2>7, <2>8, <2>9 DEF Next
<1> QED
  BY <1>1, InitIInv, PTL DEF Spec

(* No file grows over the limit, no chunk over its buffer.                  *)
THEOREM TypeCorrect == Spec => []TypeOK
<1>1. IInv => TypeOK
  BY DEF IInv
<1> QED
  BY <1>1, Inductive, PTL

(* Two bodies are never written into one file.                              *)
THEOREM WritersApart == Spec => []OneWriterPerFile
<1>1. IInv => OneWriterPerFile
  BY DEF IInv
<1> QED
  BY <1>1, Inductive, PTL

(* An abandoned upload leaves no file behind.                               *)
THEOREM NothingIsLeftBehind == Spec => []UnfinishedFilesAreInUpload
<1>1. IInv => UnfinishedFilesAreInUpload
  BY DEF IInv
<1> QED
  BY <1>1, Inductive, PTL

(* What was answered 201 is there, whole, until it is deleted, unless a     *)
(* DELETE or a refusal separated an upload from its path.                   *)
THEOREM StoredFilesAreKept == Spec => []StoredFilesStay
<1>1. IInv => StoredFilesStay
  BY DEF IInv
<1> QED
  BY <1>1, Inductive, PTL

-----------------------------------------------------------------------------
(* Downloads.  What was sent, and what is left of the chunk, is what was    *)
(* read; the file has at least what was announced, and its end was not met  *)
(* before that.                                                             *)
Exact(s) ==
    file[s] # None =>
        /\ sent[s] + chunk[s] = pos[s]
        /\ announced[s] <= data[file[s]]
        /\ eof[s] => announced[s] <= pos[s]
DownloadsExact == \A s \in Sessions : Exact(s)

(* A session that is not sending goes on where it was, or begins.           *)
Continues(t) ==
    /\ file'[t] = file[t] /\ pos'[t] = pos[t] /\ eof'[t] = eof[t]
    /\ chunk'[t] = chunk[t] /\ sent'[t] = sent[t] /\ announced'[t] = announced[t]
Begins(t) ==
    /\ pos'[t] = 0 /\ chunk'[t] = 0 /\ sent'[t] = 0 /\ ~eof'[t]
    /\ file'[t] # None => announced'[t] <= data'[file'[t]]

LEMMA Beginning ==
    ASSUME ResponseTypeOK, NEW s \in Sessions, NEW c, NEW f \in Files \cup {None},
           NEW l \in Nat, Respond(s, c, f, l), f # None => l <= data'[f]
    PROVE  \A t \in Sessions : Continues(t) \/ Begins(t)
BY DEF ResponseTypeOK, Respond, Continues, Begins

LEMMA Staying ==
    ASSUME UNCHANGED rsVars
    PROVE  \A t \in Sessions : Continues(t) \/ Begins(t)
BY DEF rsVars, Continues

(* What the steps other than Send do to downloads.                          *)
LEMMA OthersLetRead ==
    ASSUME IInv, IInv', DownloadsExact, Grows,
           \A t \in Sessions : Continues(t) \/ Begins(t)
    PROVE  DownloadsExact'
<1> SUFFICES ASSUME NEW t \in Sessions, file'[t] # None
             PROVE  /\ sent'[t] + chunk'[t] = pos'[t]
                    /\ announced'[t] <= data'[file'[t]]
                    /\ eof'[t] => announced'[t] <= pos'[t]
  BY DEF DownloadsExact, Exact
<1>1. CASE Begins(t)
  BY <1>1 DEF Begins
<1>2. CASE Continues(t)
  <2>1. /\ file[t] \in Files /\ file[t] <= requests /\ announced[t] \in Nat
        /\ data[file[t]] \in Nat /\ data'[file[t]] \in Nat
    BY <1>2 DEF Continues, IInv, TypeOK, DiskTypeOK, ResponseTypeOK, FilesKnown
  <2>2. data'[file[t]] >= data[file[t]]
    BY <2>1 DEF Grows
  <2> QED
    BY <1>2, <2>1, <2>2 DEF Continues, DownloadsExact, Exact
<1> QED
  BY <1>1, <1>2

(* A step of the write callback.                                            *)
LEMMA SendReads ==
    ASSUME IInv, DownloadsExact, NEW s \in Sessions, Send(s)
    PROVE  /\ Grows
           /\ Exact(s)'
           /\ file[s] # None => pos'[s] <= data[file[s]]
           /\ \A t \in Sessions : t # s => Continues(t) /\ state'[t] = state[t]
<1>1. DiskTypeOK /\ BodyTypeOK /\ ResponseTypeOK /\ FilesKnown /\ ReadersInside
  BY DEF IInv, TypeOK
<1>2. UNCHANGED <<file, announced>>
  BY DEF Send
<1>3. \A f \in Files : data'[f] >= data[f] /\ data'[f] \in Nat
  <2>1. CASE data' = data
    BY <1>1, <2>1 DEF DiskTypeOK
  <2>2. CASE data' # data
    <3>1. ResetBody(s) /\ CloseStream(s)
      BY <2>2 DEF Send, Finish
    <3> QED
      BY <1>1, <3>1, Closing DEF IInv
  <2> QED
    BY <2>1, <2>2
<1>4. \A t \in Sessions : t # s => state'[t] = state[t]
  BY <1>1 DEF Send, Finish, BodyTypeOK
<1>5. CASE file[s] = None
  BY <1>2, <1>3, <1>4, <1>5 DEF Send, Grows, Continues, Exact
<1>6. CASE file[s] # None
  <2> DEFINE r == ReadSize(s)
             ready == chunk[s] + r
  <2>1. /\ file[s] \in Files /\ pos[s] \in Nat /\ data[file[s]] \in Nat
        /\ pos[s] <= data[file[s]] /\ chunk[s] \in 0 .. ChunkSize
        /\ sent[s] \in Nat /\ announced[s] \in Nat
        /\ sent[s] + chunk[s] = pos[s] /\ announced[s] <= data[file[s]]
        /\ eof[s] => announced[s] <= pos[s]
    BY <1>1, <1>6 DEF DiskTypeOK, ResponseTypeOK, ReadersInside, DownloadsExact, Exact
  <2>2. /\ r \in Nat /\ pos[s] + r <= data[file[s]]
        /\ MeetsEnd(s) => pos[s] + r = data[file[s]]
    BY <2>1 DEF ReadSize, Reads, Unread, Least, MeetsEnd
  <2>3. /\ pos' = [pos EXCEPT ![s] = @ + r] /\ eof' = [eof EXCEPT ![s] = @ \/ MeetsEnd(s)]
        /\ \E k \in (IF ready = 0 THEN {0} ELSE 1 .. ready) :
              /\ chunk' = [chunk EXCEPT ![s] = ready - k]
              /\ sent' = [sent EXCEPT ![s] = @ + k]
    BY <1>6 DEF Send, SendFile, NextChunk
  <2>4. /\ pos'[s] = pos[s] + r /\ (eof'[s] => eof[s] \/ MeetsEnd(s))
        /\ sent'[s] + chunk'[s] = sent[s] + ready
    <3>1. PICK k \in (IF ready = 0 THEN {0} ELSE 1 .. ready) :
              /\ chunk' = [chunk EXCEPT ![s] = ready - k]
              /\ sent' = [sent EXCEPT ![s] = @ + k]
      BY <2>3
    <3>2. k \in Nat /\ ready \in Nat
      BY <2>1, <2>2
    <3>3. chunk'[s] = ready - k /\ sent'[s] = sent[s] + k
      BY <1>1, <3>1 DEF ResponseTypeOK
    <3>4. pos'[s] = pos[s] + r /\ (eof'[s] => eof[s] \/ MeetsEnd(s))
      BY <1>1, <2>3 DEF ResponseTypeOK
    <3> QED
      BY <2>1, <3>2, <3>3, <3>4
  <2>5. Exact(s)'
    <3>1. sent'[s] + chunk'[s] = pos'[s]
      BY <2>1, <2>2, <2>4
    <3>2. announced[s] <= data'[file[s]]
      <4>1. data'[file[s]] >= data[file[s]] /\ data'[file[s]] \in Nat
        BY <1>3, <2>1
      <4> QED
        BY <2>1, <4>1
    <3>3. ASSUME eof'[s]
          PROVE  announced[s] <= pos'[s]
      <4>1. CASE eof[s]
        BY <2>1, <2>2, <2>4, <4>1
      <4>2. CASE MeetsEnd(s)
        BY <2>1, <2>2, <2>4, <4>2
      <4> QED
        BY <2>4, <3>3, <4>1, <4>2
    <3> QED
      BY <1>2, <3>1, <3>2, <3>3 DEF Exact
  <2>6. pos'[s] <= data[file[s]]
    BY <2>2, <2>4
  <2>7. \A t \in Sessions : t # s => Continues(t)
    BY <1>1, <1>2, <2>3 DEF Continues, ResponseTypeOK
  <2> QED
    BY <1>3, <1>4, <2>5, <2>6, <2>7 DEF Grows
<1> QED
  BY <1>5, <1>6

LEMMA ReadsStayExact ==
    ASSUME IInv, IInv', DownloadsExact, Next
    PROVE  DownloadsExact'
<1> USE DEF IInv, TypeOK
<1>1. CASE \E s \in Sessions : Send(s)
  <2>1. PICK s \in Sessions : Send(s)
    BY <1>1
  <2>2. /\ Grows /\ Exact(s)'
        /\ \A t \in Sessions : t # s => Continues(t)
    BY <2>1, SendReads
  <2> SUFFICES ASSUME NEW t \in Sessions, t # s, file'[t] # None
               PROVE  /\ sent'[t] + chunk'[t] = pos'[t]
                      /\ announced'[t] <= data'[file'[t]]
                      /\ eof'[t] => announced'[t] <= pos'[t]
    BY <2>2 DEF DownloadsExact, Exact
  <2>3. /\ file[t] \in Files /\ file[t] <= requests /\ announced[t] \in Nat
        /\ data[file[t]] \in Nat /\ data'[file[t]] \in Nat
    BY SMTT(60), <2>2 DEF Continues, DiskTypeOK, ResponseTypeOK, FilesKnown
  <2>4. data'[file[t]] >= data[file[t]]
    BY <2>2, <2>3 DEF Grows
  <2> QED
    BY <2>2, <2>3, <2>4 DEF Continues, DownloadsExact, Exact
<1>2. ASSUME NEW s \in Sessions, NEW p \in Paths, NEW n \in 1 .. BodyLimit + 1,
             PostBegins(s, p, n)
      PROVE  DownloadsExact'
  <2>1. Grows
    <3>1. CASE data' = data
      BY <3>1 DEF Grows, DiskTypeOK
    <3>2. CASE data' # data
      <4>1. OpenStream(s, p) /\ ~Exists(p) /\ requests' = requests + 1
        BY <1>2, <3>2 DEF PostBegins, Conflict, NewRequest, fsVars
      <4> QED
        BY <4>1 DEF OpenStream, Grows, DiskTypeOK
    <3> QED
      BY <3>1, <3>2
  <2>2. \A t \in Sessions : Continues(t) \/ Begins(t)
    <3>1. CASE UNCHANGED rsVars
      BY <3>1, Staying
    <3>2. CASE ~UNCHANGED rsVars
      <4>1. \E c \in Nat : Respond(s, c, None, 0)
        BY <1>2, <3>2 DEF PostBegins, Answer
      <4>2. 0 \in Nat /\ None \in Files \cup {None}
        OBVIOUS
      <4> QED
        BY <4>1, <4>2, Beginning
    <3> QED
      BY <3>1, <3>2
  <2> QED
    BY <2>1, <2>2, OthersLetRead
<1>3. ASSUME NEW s \in Sessions, NEW p \in Paths, Get(s, p) \/ Delete(s, p)
      PROVE  DownloadsExact'
  <2>1. data' = data
    BY <1>3 DEF Get, Delete, fsVars
  <2>2. Grows
    BY <2>1 DEF Grows, DiskTypeOK
  <2>3. PICK c \in Nat, f \in Files \cup {None}, l \in Nat :
            Respond(s, c, f, l) /\ (f # None => l <= data[f])
    <3>1. CASE Exists(p) /\ Respond(s, 200, dir[p], data[dir[p]])
      <4>1. dir[p] \in Files /\ data[dir[p]] \in Nat /\ 200 \in Nat
        BY <3>1 DEF DiskTypeOK, Exists
      <4>2. dir[p] # None => data[dir[p]] <= data[dir[p]]
        BY <4>1
      <4> QED
        BY <3>1, <4>1, <4>2
    <3>2. CASE Respond(s, 404, None, 0) \/ Respond(s, 204, None, 0)
      <4>1. 404 \in Nat /\ 204 \in Nat /\ 0 \in Nat /\ None \in Files \cup {None}
        OBVIOUS
      <4> QED
        BY <3>2, <4>1
    <3> QED
      BY <1>3, <3>1, <3>2 DEF Get, Delete, Answer
  <2>4. \A t \in Sessions : Continues(t) \/ Begins(t)
    BY <2>1, <2>3, Beginning
  <2> QED
    BY <2>2, <2>4, OthersLetRead
<1>4. ASSUME NEW s \in Sessions, BodyArrives(s) \/ Destroyed(s)
      PROVE  DownloadsExact'
  <2>1. Grows
    <3>1. CASE Destroyed(s)
      BY <3>1, Closing DEF Destroyed, Grows
    <3>2. CASE BodyArrives(s)
      <4>1. out[s] \in Files
        BY <3>2 DEF BodyArrives, Phases, BodyTypeOK
      <4>2. \E flushed \in Nat : data' = [data EXCEPT ![out[s]] = @ + flushed]
        <5>1. PICK k \in 1 .. remaining[s] - 1 : \E flushed \in 0 .. pending[s] + k :
                 data' = [data EXCEPT ![out[s]] = @ + flushed]
          BY <3>2 DEF BodyArrives
        <5>2. pending[s] + k \in Nat
          BY DEF BodyTypeOK
        <5>3. PICK flushed \in 0 .. pending[s] + k : data' = [data EXCEPT ![out[s]] = @ + flushed]
          BY <5>1
        <5>4. flushed \in Nat
          BY <5>2
        <5> QED
          BY <5>3, <5>4
      <4> QED
        BY <4>1, <4>2 DEF Grows, DiskTypeOK
    <3> QED
      BY <1>4, <3>1, <3>2
  <2>2. UNCHANGED rsVars
    BY <1>4 DEF BodyArrives, Destroyed
  <2> QED
    BY <2>1, <2>2, Staying, OthersLetRead
<1>5. ASSUME NEW s \in Sessions, BodyEnds(s) \/ BodyIsBad(s)
      PROVE  DownloadsExact'
  <2>1. Grows
    <3>1. CASE BodyIsBad(s)
      BY <3>1 DEF BodyIsBad, fsVars, Grows, DiskTypeOK
    <3>2. CASE BodyEnds(s)
      <4>1. out[s] \in Files /\ pending[s] \in Nat /\ remaining[s] \in Nat
        BY <3>2 DEF BodyEnds, Phases, BodyTypeOK
      <4>2. data' = [data EXCEPT ![out[s]] = @ + pending[s] + remaining[s]]
        BY <3>2 DEF BodyEnds
      <4>3. \A g \in Files : data[g] \in Nat
        BY DEF DiskTypeOK
      <4>4. \A g \in Files :
               data'[g] = data[g] \/ data'[g] = data[g] + pending[s] + remaining[s]
        BY <4>2 DEF DiskTypeOK
      <4> QED
        BY <4>1, <4>3, <4>4 DEF Grows
    <3> QED
      BY <1>5, <3>1, <3>2
  <2>2. PICK c \in Nat : Respond(s, c, None, 0)
    BY <1>5 DEF BodyEnds, BodyIsBad, Answer
  <2>3. 0 \in Nat /\ None \in Files \cup {None}
    OBVIOUS
  <2> QED
    BY <2>1, <2>2, <2>3, Beginning, OthersLetRead
<1> QED
  BY <1>1, <1>2, <1>3, <1>4, <1>5 DEF Next

(* A step that ends a response has sent what was announced.                 *)
LEMMA EndsExact ==
    ASSUME IInv, IInv', DownloadsExact, DownloadsExact', Next, NEW s \in Sessions,
           file[s] # None, data[file[s]] = announced[s]
    PROVE  SentAsAnnounced(s)
<1> SUFFICES ASSUME state[s] = "sending", state'[s] = "reading", eof'[s], chunk'[s] = 0
             PROVE  sent'[s] = announced[s]
  BY DEF SentAsAnnounced
<1>1. Send(s) \/ Destroyed(s)
  <2>1. \A t \in Sessions : Send(t) => t = s
    BY SendReads
  <2>2. \A t \in Sessions : Destroyed(t) => t = s
    BY DEF Destroyed, IInv, TypeOK, BodyTypeOK
  <2>3. \A t \in Sessions : ~BodyArrives(t)
    BY DEF BodyArrives
  <2>4. \A t \in Sessions : \A c, f, l : ~Respond(t, c, f, l)
    BY DEF Respond, IInv, TypeOK, BodyTypeOK
  <2>5. \A t \in Sessions : ~BodyEnds(t) /\ ~BodyIsBad(t)
    BY <2>4 DEF BodyEnds, BodyIsBad, Answer
  <2>6. \A t \in Sessions, p \in Paths : ~Get(t, p) /\ ~Delete(t, p)
    BY <2>4 DEF Get, Delete, Answer
  <2>7. \A t \in Sessions, p \in Paths, n \in 1 .. BodyLimit + 1 : ~PostBegins(t, p, n)
    BY <2>4 DEF PostBegins, Answer, IInv, TypeOK, BodyTypeOK
  <2> QED
    BY <2>1, <2>2, <2>3, <2>5, <2>6, <2>7 DEF Next
<1>2. file'[s] = file[s] /\ announced'[s] = announced[s]
  BY <1>1 DEF Send, Destroyed, rsVars
<1>3. pos'[s] <= data[file[s]]
  <2>1. CASE Send(s)
    BY <2>1, SendReads
  <2>2. CASE Destroyed(s)
    BY <2>2 DEF Destroyed, rsVars, IInv, ReadersInside
  <2> QED
    BY <1>1, <2>1, <2>2
<1>4. /\ sent'[s] + chunk'[s] = pos'[s] /\ announced[s] <= pos'[s]
  BY <1>2 DEF DownloadsExact, Exact
<1>5. sent'[s] \in Nat /\ pos'[s] \in Nat /\ announced[s] \in Nat
  BY DEF IInv, TypeOK, ResponseTypeOK
<1> QED
  BY <1>3, <1>4, <1>5

(* Every download that no upload disturbs has the length it announced.      *)
THEOREM DownloadsAreWhole == Spec => UnchangedFilesAreSentAsAnnounced
<1>1. Init => DownloadsExact
  BY DEF Init, DownloadsExact, Exact
<1>2. IInv /\ IInv' /\ DownloadsExact /\ [Next]_vars => DownloadsExact'
  <2>1. ASSUME DownloadsExact, UNCHANGED vars
        PROVE  DownloadsExact'
    BY <2>1 DEF DownloadsExact, Exact, vars, fsVars, rsVars
  <2> QED
    BY <2>1, ReadsStayExact
<1>3. IInv /\ IInv' /\ DownloadsExact /\ DownloadsExact' /\ [Next]_vars =>
        [\A s \in Sessions :
            file[s] # None /\ data[file[s]] = announced[s] => SentAsAnnounced(s)]_vars
  BY EndsExact
<1>4. Spec => []DownloadsExact
  BY <1>1, <1>2, Inductive, PTL DEF Spec
<1> QED
  BY <1>3, <1>4, Inductive, PTL DEF Spec, UnchangedFilesAreSentAsAnnounced
=============================================================================
