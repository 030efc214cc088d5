-------------------------- MODULE Descriptors_proofs --------------------------
(***************************************************************************)
(* Proofs about descriptors, which the server closes in one round and the  *)
(* system hands out again before their callbacks are deleted in the next:  *)
(* no deletion hits what it was not meant for, the kernel watches exactly  *)
(* what it should, nobody waits for an event that cannot come, and without *)
(* faults no session is closed for an event that was not meant for it.     *)
(* With what is known of them the cluster is shown to implement            *)
(* HttpService.  All rests on the invariants of ServerCluster_proofs.      *)
(***************************************************************************)
EXTENDS ServerCluster_proofs

-----------------------------------------------------------------------------
(* The inductive invariant.                                                 *)

(* An open descriptor has one use.                                          *)
DistinctInv ==
    /\ \A c, d \in Clients : sfd[c] = sfd[d] /\ sfd[c] # NoFd => c = d
    /\ \A p, q \in Pids : psock[p] = psock[q] /\ psock[p] # NoFd => p = q
    /\ \A c \in Clients : sfd[c] # ListenFd
    /\ \A p \in Pids : psock[p] # ListenFd

(* No deletion waits for a reader that is needed, or for the writer of a    *)
(* busy session.                                                            *)
DeletionInv ==
    /\ \A c \in Clients : Alive(c) =>
          /\ <<sfd[c], "r">> \notin toDel
          /\ busy[c] => <<sfd[c], "w">> \notin toDel
    /\ \A p \in Pids : desc[p] /\ "read" \notin cst[p] => <<psock[p], "r">> \notin toDel

(* While descriptors may be handed out, free ones have nothing attached.    *)
Unused(f) ==
    /\ rd[f] = None /\ wr[f] = None
    /\ <<f, "r">> \notin toDel /\ <<f, "w">> \notin toDel

FreeInv == phase \in {"poll", "dispatch"} => \A f \in FreeFds : Unused(f)

(* A batch that still holds the write event of a session has left the       *)
(* socket of its processor alone; one that holds its read event has not yet *)
(* deleted its writer.                                                      *)
BatchInv ==
    phase = "dispatch" =>
        \A c \in Clients : Alive(c) =>
            /\ <<sfd[c], "w">> \in ready /\ proc[c] # None => Unused(psock[proc[c]])
            /\ <<sfd[c], "r">> \in ready => <<sfd[c], "w">> \notin toDel

(* A session that is not given up has its reader, and epoll waits for the   *)
(* writer if there is one.                                                  *)
WatchInv ==
    \A c \in Clients : Alive(c) /\ ~closed[c] =>
        /\ rd[sfd[c]] = c
        /\ MxType = "epoll" /\ wr[sfd[c]] = None => "r" \in ep[sfd[c]]
        /\ MxType = "epoll" /\ wr[sfd[c]] # None => "w" \in ep[sfd[c]]

(* A busy session has an answer or a script that can still wake it.         *)
Wakes(p) == p \in Pids /\ desc[p] /\ ~({"read", "exited"} \subseteq cst[p]) /\ Armed(p)

ServedInv ==
    \A c \in Clients :
        Alive(c) /\ busy[c] /\ ~closed[c] => Answering(c) \/ Wakes(proc[c])

(* Who has no session is not busy.                                          *)
GoneInv == \A c \in Clients : busy[c] => Alive(c)

(* A processor that has answered has let its child go.                      *)
DoneInv == \A p \in Pids : "done" \in cst[p] => ~desc[p]

DescriptorsInv ==
    /\ DistinctInv /\ DeletionInv /\ FreeInv /\ BatchInv
    /\ WatchInv /\ ServedInv /\ GoneInv /\ DoneInv

-----------------------------------------------------------------------------
USE FdsAssumption, MxTypeAssumption, ReferentsAssumption, CgiTimeoutAssumption,
    ClusterAssumption
USE DEF emVars, osVars, cpmVars, netVars, sessVars, cgiVars, worldVars

LEMMA InitDescriptors == Init => DescriptorsInv
<1>. SUFFICES ASSUME Init PROVE DescriptorsInv
  OBVIOUS
<1>1. /\ phase = "flush" /\ toDel = {}
      /\ \A c \in Clients : sfd[c] = NoFd
      /\ \A p \in Pids : psock[p] = NoFd
  BY DEF Init
<1>2. DistinctInv /\ DeletionInv
  BY <1>1 DEF DistinctInv, DeletionInv
<1>3. FreeInv /\ BatchInv /\ WatchInv /\ ServedInv
  BY <1>1 DEF FreeInv, BatchInv, WatchInv, ServedInv, Alive
<1>4. GoneInv /\ DoneInv
  BY DEF Init, GoneInv, DoneInv
<1>. QED
  BY <1>2, <1>3, <1>4 DEF DescriptorsInv

(* Steps that open, close and register nothing: sessions may be given up,   *)
(* the batch may shrink, children may die and be erased once they were      *)
(* noticed.                                                                 *)
LEMMA NothingOpened ==
  ASSUME DescriptorsInv,
         UNCHANGED <<rd, wr, ep, toDel, sfd, busy, proc, desc, cst, psock>>,
         \A c \in Clients : Alive(c) /\ closed[c] => closed'[c],
         \A p \in Pids : p \in kids /\ child[p] \notin Reaped =>
                           p \in kids' /\ child'[p] \notin Reaped,
         ready' \subseteq ready,
         phase' = phase \/ phase' \notin {"poll", "dispatch"}
  PROVE  DescriptorsInv'
<1>1. \A c \in Clients : (Alive(c)' <=> Alive(c)) /\ (Answering(c)' <=> Answering(c))
  BY DEF Alive, Answering
<1>2. FreeFds' = FreeFds /\ \A f : Unused(f)' <=> Unused(f)
  BY DEF FreeFds, OpenFds, Unused
<1>3. DistinctInv' /\ DeletionInv'
  BY <1>1 DEF DescriptorsInv, DistinctInv, DeletionInv
<1>4. FreeInv' /\ BatchInv'
  BY <1>1, <1>2 DEF DescriptorsInv, FreeInv, BatchInv
<1>5. WatchInv'
  BY <1>1 DEF DescriptorsInv, WatchInv
<1>6. ServedInv' /\ GoneInv' /\ DoneInv'
  BY <1>1 DEF DescriptorsInv, ServedInv, Wakes, Armed, GoneInv, DoneInv
<1>. QED
  BY <1>3, <1>4, <1>5, <1>6 DEF DescriptorsInv

(* The deletions take effect: what is left is what is needed.               *)
LEMMA FlushKeepsDescriptors ==
  ASSUME IInv, DescriptorsInv, Flush
  PROVE  DescriptorsInv'
<1>1. /\ phase' = "poll" /\ toDel' = {}
      /\ UNCHANGED <<ready, child, kids, sfd, busy, closed, proc, desc, cst, psock>>
      /\ rd' = [f \in Fds |-> IF <<f, "r">> \in toDel THEN None ELSE rd[f]]
      /\ wr' = [f \in Fds |-> IF <<f, "w">> \in toDel THEN None ELSE wr[f]]
      /\ ep' = [f \in Fds |-> IF ep[f] # {} /\ \E t \in Types : Deleted(f, t)
                              THEN Remaining(f) ELSE ep[f]]
  BY DEF Flush, FlushDeletions
<1>2. FreeFds' = FreeFds /\ \A c \in Clients : Alive(c)' <=> Alive(c)
  BY <1>1 DEF FreeFds, OpenFds, Alive
<1>3. DistinctInv' /\ DeletionInv' /\ BatchInv' /\ GoneInv' /\ DoneInv'
  BY <1>1, <1>2 DEF DescriptorsInv, DistinctInv, DeletionInv, BatchInv, GoneInv, DoneInv
<1>4. FreeInv'
  <2>. SUFFICES ASSUME NEW f \in FreeFds PROVE rd'[f] = None /\ wr'[f] = None
    BY <1>1, <1>2 DEF FreeInv, Unused
  <2>1. f \in Fds /\ f \notin OpenFds
    BY DEF FreeFds
  <2>2. ~ReaderLive(f)
    BY <2>1 DEF ReaderLive, OpenFds
  <2>3. wr[f] \in Clients => ~WriterLive(f)
    BY <2>1 DEF WriterLive, OpenFds
  <2>. QED
    BY <1>1, <2>1, <2>2, <2>3 DEF IInv, RdInv, WrInv
<1>5. WatchInv'
  <2>. SUFFICES ASSUME NEW c \in Clients, Alive(c), ~closed[c]
                PROVE  /\ rd'[sfd[c]] = c
                       /\ MxType = "epoll" /\ wr'[sfd[c]] = None => "r" \in ep'[sfd[c]]
                       /\ MxType = "epoll" /\ wr'[sfd[c]] # None => "w" \in ep'[sfd[c]]
    BY <1>1, <1>2 DEF WatchInv
  <2>1. sfd[c] \in Fds /\ <<sfd[c], "r">> \notin toDel
    BY DEF IInv, TypeOK, Alive, DescriptorsInv, DeletionInv
  <2>2. /\ rd[sfd[c]] = c
        /\ MxType = "epoll" /\ wr[sfd[c]] = None => "r" \in ep[sfd[c]]
        /\ MxType = "epoll" /\ wr[sfd[c]] # None => "w" \in ep[sfd[c]]
    BY DEF DescriptorsInv, WatchInv
  <2>3. rd'[sfd[c]] = c
    BY <1>1, <2>1, <2>2
  <2>4. rd[sfd[c]] # None
    BY <2>2
  <2>5. CASE <<sfd[c], "w">> \in toDel /\ wr[sfd[c]] # None
    <3>1. wr'[sfd[c]] = None
      BY <1>1, <2>1, <2>5
    <3>2. MxType = "epoll" => ep'[sfd[c]] = Remaining(sfd[c])
      BY <1>1, <2>1, <2>2, <2>5 DEF Deleted, Table, Types
    <3>3. "r" \in Remaining(sfd[c])
      BY <2>1, <2>4 DEF Remaining, Table, Types
    <3>. QED
      BY <2>3, <3>1, <3>2, <3>3
  <2>6. CASE ~(<<sfd[c], "w">> \in toDel /\ wr[sfd[c]] # None)
    <3>1. wr'[sfd[c]] = wr[sfd[c]]
      BY <1>1, <2>1, <2>6
    <3>2. ep'[sfd[c]] = ep[sfd[c]]
      BY <1>1, <2>1, <2>6 DEF Deleted, Table, Types
    <3>. QED
      BY <2>2, <2>3, <3>1, <3>2
  <2>. QED
    BY <2>5, <2>6
<1>6. ServedInv'
  <2>. SUFFICES ASSUME NEW c \in Clients, Alive(c), busy[c], ~closed[c]
                PROVE  Answering(c)' \/ Wakes(proc[c])'
    BY <1>1, <1>2 DEF ServedInv
  <2>1. CASE Answering(c)
    BY <1>1, <2>1 DEF Answering, Alive, IInv, TypeOK
  <2>2. CASE Wakes(proc[c])
    <3>1. psock[proc[c]] \in Fds
      BY <2>2 DEF Wakes, IInv, ProcInv, TypeOK
    <3>. QED
      BY <1>1, <2>2, <3>1 DEF Wakes, Armed
  <2>. QED
    BY <2>1, <2>2 DEF DescriptorsInv, ServedInv
<1>. QED
  BY <1>3, <1>4, <1>5, <1>6 DEF DescriptorsInv

LEMMA PollKeepsDescriptors ==
  ASSUME IInv, DescriptorsInv, Poll
  PROVE  DescriptorsInv'
<1>1. /\ phase = "poll" /\ phase' = "dispatch" /\ toDel = {}
      /\ UNCHANGED <<rd, wr, ep, toDel, child, kids, sfd, busy, closed, proc, desc, cst, psock>>
  BY DEF Poll, IInv, PollInv
<1>2. FreeFds' = FreeFds /\ \A c \in Clients : Alive(c)' <=> Alive(c)
  BY <1>1 DEF FreeFds, OpenFds, Alive
<1>3. DistinctInv' /\ DeletionInv' /\ WatchInv' /\ ServedInv' /\ GoneInv'
  BY <1>1, <1>2 DEF DescriptorsInv, DistinctInv, DeletionInv, WatchInv, ServedInv, Wakes,
     Armed, Answering, GoneInv
<1>6. DoneInv'
  BY <1>1 DEF DescriptorsInv, DoneInv
<1>4. FreeInv'
  BY <1>1, <1>2 DEF DescriptorsInv, FreeInv, Unused
<1>5. BatchInv'
  <2>. SUFFICES ASSUME NEW c \in Clients, Alive(c), <<sfd[c], "w">> \in ready', proc[c] # None
                PROVE  rd[psock[proc[c]]] = None /\ wr[psock[proc[c]]] = None
    BY <1>1, <1>2 DEF BatchInv, Unused
  <2>. DEFINE f == sfd[c]
             p == proc[c]
             g == psock[p]
  <2>1. f \in Fds /\ p \in Pids /\ g \in Fds
    BY DEF IInv, TypeOK, ProcInv, Alive
  <2>2. wr[f] # None
    <3>1. ReadyInv'
      BY PollStep DEF IInv
    <3>. QED
      BY <1>1, <2>1, <3>1 DEF ReadyInv
  <2>3. wr[f] = c /\ ~desc[p]
    <3>1. wr[f] \in Clients /\ WriterLive(f)
      BY <1>1, <2>1, <2>2 DEF IInv, WrInv
    <3>2. wr[f] = c
      BY <3>1 DEF WriterLive, DescriptorsInv, DistinctInv, Alive
    <3>. QED
      BY <2>1, <3>1, <3>2 DEF WriterLive
  <2>4. \A d \in Clients : sfd[d] # g
    BY <2>1 DEF IInv, FdsInv
  <2>5. ~ReaderLive(g)
    BY <2>1, <2>3, <2>4 DEF ReaderLive, DescriptorsInv, DistinctInv
  <2>6. wr[g] \in Clients => ~WriterLive(g)
    BY <2>4 DEF WriterLive
  <2>. QED
    BY <1>1, <2>1, <2>5, <2>6 DEF IInv, RdInv, WrInv
<1>. QED
  BY <1>3, <1>4, <1>5, <1>6 DEF DescriptorsInv

-----------------------------------------------------------------------------
(* Descriptors are opened for connections and for scripts.                  *)

LEMMA AcceptKeepsDescriptors ==
  ASSUME IInv, DescriptorsInv, AcceptCb
  PROVE  DescriptorsInv'
<1>1. /\ phase = "dispatch" /\ ready' \subseteq ready
      /\ UNCHANGED <<phase, wr, toDel, child, kids, busy, proc, desc, cst, psock>>
  BY DEF AcceptCb, Dispatch
<1>2. CASE FreeFds = {} /\ UNCHANGED <<conn, sfd, rd, ep, closed>>
  BY <1>1, <1>2, NothingOpened
<1>3. ASSUME NEW c \in Clients, NEW f \in FreeFds, conn[c] = "waiting",
             sfd' = [sfd EXCEPT ![c] = f],
             \/ RegisterRead(f, c) /\ UNCHANGED closed
             \/ /\ closed' = [closed EXCEPT ![c] = TRUE]
                /\ UNCHANGED <<rd, ep>>
      PROVE  DescriptorsInv'
  <2>1. /\ f \in Fds /\ f # NoFd /\ f # ListenFd /\ Unused(f)
        /\ \A d \in Clients : sfd[d] # f
        /\ \A p \in Pids : psock[p] # f
    BY <1>1, <1>3 DEF FreeFds, OpenFds, DescriptorsInv, FreeInv
  <2>2. sfd[c] = NoFd /\ proc[c] = None
    BY <1>3 DEF IInv, ConnInv, ProcInv
  <2>3. ~busy[c]
    BY <2>2 DEF DescriptorsInv, GoneInv, Alive
  <2>4. sfd'[c] = f /\ \A d \in Clients : d # c => sfd'[d] = sfd[d]
    BY <1>3 DEF IInv, TypeOK
  <2>5. \A g \in Fds : g # f => rd'[g] = rd[g] /\ ep'[g] = ep[g]
    BY <1>3 DEF RegisterRead, Interest, IInv, TypeOK, EmTypeOK
  <2>6. DistinctInv'
    BY <1>1, <2>1, <2>4 DEF DescriptorsInv, DistinctInv
  <2>7. DeletionInv'
    BY <1>1, <2>1, <2>3, <2>4 DEF DescriptorsInv, DeletionInv, Alive, Unused
  <2>8. FreeInv'
    <3>. SUFFICES ASSUME NEW g \in FreeFds' PROVE Unused(g)'
      BY DEF FreeInv
    <3>1. g \in FreeFds /\ g # f /\ g \in Fds
      BY <1>1, <2>2, <2>4 DEF FreeFds, OpenFds
    <3>. QED
      BY <1>1, <2>5, <3>1 DEF DescriptorsInv, FreeInv, Unused
  <2>9. BatchInv'
    <3>. SUFFICES ASSUME NEW d \in Clients, Alive(d)'
                  PROVE  /\ <<sfd'[d], "w">> \in ready /\ proc[d] # None => Unused(psock[proc[d]])'
                         /\ <<sfd'[d], "r">> \in ready => <<sfd'[d], "w">> \notin toDel
      BY <1>1 DEF BatchInv
    <3>1. CASE d = c
      BY <2>1, <2>2, <2>4, <3>1 DEF Unused
    <3>2. CASE d # c
      <4>1. Alive(d) /\ sfd'[d] = sfd[d]
        BY <2>4, <3>2 DEF Alive
      <4>2. proc[d] # None => psock[proc[d]] \in Fds /\ psock[proc[d]] # f
        BY <2>1 DEF IInv, ProcInv, TypeOK
      <4>. QED
        BY <1>1, <2>5, <4>1, <4>2 DEF DescriptorsInv, BatchInv, Unused
    <3>. QED
      BY <3>1, <3>2
  <2>10. WatchInv'
    <3>. SUFFICES ASSUME NEW d \in Clients, Alive(d)', ~closed'[d]
                  PROVE  /\ rd'[sfd'[d]] = d
                         /\ MxType = "epoll" /\ wr[sfd'[d]] = None => "r" \in ep'[sfd'[d]]
                         /\ MxType = "epoll" /\ wr[sfd'[d]] # None => "w" \in ep'[sfd'[d]]
      BY <1>1 DEF WatchInv
    <3>1. CASE d = c
      <4>1. RegisterRead(f, c)
        <5>1. closed' # [closed EXCEPT ![c] = TRUE]
          BY <3>1, Zenon DEF IInv, TypeOK
        <5>. QED
          BY <1>3, <5>1
      <4>2. rd'[f] = c /\ (MxType = "epoll" => ep'[f] = {"r"})
        BY <2>1, <4>1 DEF RegisterRead, Interest, IInv, TypeOK, EmTypeOK
      <4>. QED
        BY <2>1, <2>4, <3>1, <4>2 DEF Unused
    <3>2. CASE d # c
      <4>1. Alive(d) /\ sfd'[d] = sfd[d] /\ sfd[d] \in Fds /\ sfd[d] # f
        BY <2>1, <2>4, <3>2 DEF Alive, IInv, TypeOK
      <4>2. ~closed[d]
        BY <1>3, <3>2, Zenon DEF IInv, TypeOK
      <4>. QED
        BY <2>5, <4>1, <4>2 DEF DescriptorsInv, WatchInv
    <3>. QED
      BY <3>1, <3>2
  <2>11. ServedInv'
    <3>. SUFFICES ASSUME NEW d \in Clients, Alive(d)', busy[d], ~closed'[d]
                  PROVE  Answering(d)' \/ Wakes(proc[d])'
      BY <1>1 DEF ServedInv
    <3>1. d # c
      BY <2>3
    <3>2. Alive(d) /\ sfd'[d] = sfd[d]
      BY <2>4, <3>1 DEF Alive
    <3>3. ~closed[d]
      BY <1>3, <3>1, Zenon DEF IInv, TypeOK
    <3>4. Answering(d) => Answering(d)'
      BY <1>1, <3>2 DEF Answering, Alive
    <3>5. Wakes(proc[d]) => Wakes(proc[d])'
      <4>1. proc[d] \in Pids => psock[proc[d]] \in Fds /\ psock[proc[d]] # f
        BY <2>1 DEF IInv, ProcInv, TypeOK
      <4>. QED
        BY <1>1, <2>5, <4>1 DEF Wakes, Armed
    <3>. QED
      BY <3>2, <3>3, <3>4, <3>5 DEF DescriptorsInv, ServedInv
  <2>12. GoneInv' /\ DoneInv'
    BY <1>1, <2>1, <2>4 DEF DescriptorsInv, GoneInv, DoneInv, Alive
  <2>. QED
    BY <2>6, <2>7, <2>8, <2>9, <2>10, <2>11, <2>12 DEF DescriptorsInv
<1>. QED
  BY <1>2, <1>3 DEF AcceptCb

-----------------------------------------------------------------------------
(* Answers and notifications.                                               *)

(* At most the writer of c is registered, and no session is taken back.     *)
WriterOnly(c) ==
    /\ \A g \in Fds : g # sfd[c] => wr'[g] = wr[g] /\ ep'[g] = ep[g]
    /\ \A d \in Clients : closed[d] => closed'[d]

LEMMA WriterWatched ==
  ASSUME TypeOK, NEW c \in Clients, sfd[c] \in Fds, NEW close \in BOOLEAN,
         PrepareResponse(c, close)
  PROVE  /\ WriterOnly(c)
         /\ \/ closed'[c]
            \/ wr'[sfd[c]] = c /\ (MxType = "epoll" => "w" \in ep'[sfd[c]])
<1>1. CASE RegisterWrite(sfd[c], c) /\ UNCHANGED closed
  BY <1>1 DEF TypeOK, EmTypeOK, RegisterWrite, Interest, WriterOnly
<1>2. CASE closed' = [closed EXCEPT ![c] = TRUE] /\ UNCHANGED <<wr, ep>>
  <2>1. closed'[c] /\ \A d \in Clients : closed[d] => closed'[d]
    BY <1>2, Zenon DEF TypeOK
  <2>. QED
    BY <1>2, <2>1 DEF WriterOnly
<1>. QED
  BY <1>1, <1>2 DEF PrepareResponse

(* A step in which a session, or the script of a session, moves on: it      *)
(* deletes at most the callbacks of the script's socket and registers at    *)
(* most the writer of the session.                                          *)
MovesOn(c) ==
    /\ phase' = phase /\ ready' \subseteq ready
    /\ UNCHANGED <<rd, sfd, psock, proc>>
    /\ WriterOnly(c)
    /\ \A d \in Clients : d # c => (busy'[d] <=> busy[d])
    /\ toDel \subseteq toDel'
    /\ \A g, t : <<g, t>> \in toDel' =>
                  <<g, t>> \in toDel \/ (proc[c] # None /\ g = psock[proc[c]])
    /\ \A q \in Pids : q # proc[c] =>
          /\ (desc'[q] <=> desc[q]) /\ cst'[q] = cst[q]
          /\ q \in kids /\ child[q] \notin Reaped => q \in kids' /\ child'[q] \notin Reaped

LEMMA MovingOnKeeps ==
  ASSUME IInv, DescriptorsInv, NEW c \in Clients, Alive(c), MovesOn(c),
         <<sfd[c], "w">> \notin toDel,
         phase = "dispatch" /\ proc[c] # None => <<sfd[c], "w">> \notin ready,
         proc[c] # None =>
             /\ desc'[proc[c]] /\ "read" \notin cst'[proc[c]] =>
                    <<psock[proc[c]], "r">> \notin toDel'
             /\ "done" \in cst'[proc[c]] => ~desc'[proc[c]],
         ~closed'[c] =>
             /\ MxType = "epoll" /\ wr'[sfd[c]] = None => "r" \in ep'[sfd[c]]
             /\ MxType = "epoll" /\ wr'[sfd[c]] # None => "w" \in ep'[sfd[c]]
             /\ busy'[c] => Answering(c)' \/ Wakes(proc[c])'
  PROVE  DescriptorsInv'
<1>. USE DEF MovesOn, WriterOnly
<1>1. /\ sfd[c] \in Fds /\ sfd[c] # NoFd
      /\ FreeFds' = FreeFds
      /\ \A d \in Clients : Alive(d)' <=> Alive(d)
  BY DEF Alive, FreeFds, OpenFds, IInv, TypeOK
<1>2. proc[c] # None =>
        /\ proc[c] \in Pids /\ psock[proc[c]] \in Fds
        /\ \A d \in Clients : sfd[d] # psock[proc[c]]
        /\ \A d \in Clients : d # c => proc[d] # proc[c]
        /\ \A q \in Pids : q # proc[c] => psock[q] # psock[proc[c]]
        /\ psock[proc[c]] \notin FreeFds
  BY DEF IInv, TypeOK, ProcInv, FdsInv, DescriptorsInv, DistinctInv, FreeFds, OpenFds
<1>3. DistinctInv'
  BY DEF DescriptorsInv, DistinctInv
<1>4. DeletionInv'
  BY <1>1, <1>2 DEF DescriptorsInv, DeletionInv
<1>5. \A f \in Fds : Unused(f) /\ f # sfd[c] /\ (proc[c] # None => f # psock[proc[c]]) => Unused(f)'
  BY DEF Unused
<1>6. FreeInv'
  BY <1>1, <1>2, <1>5 DEF DescriptorsInv, FreeInv, FreeFds, OpenFds
<1>7. BatchInv'
  <2>. SUFFICES ASSUME phase = "dispatch", NEW d \in Clients, Alive(d)
                PROVE  /\ <<sfd[d], "w">> \in ready' /\ proc[d] # None => Unused(psock[proc[d]])'
                       /\ <<sfd[d], "r">> \in ready' => <<sfd[d], "w">> \notin toDel'
    BY <1>1 DEF BatchInv
  <2>1. <<sfd[d], "r">> \in ready' => <<sfd[d], "w">> \notin toDel'
    BY <1>2 DEF DescriptorsInv, BatchInv
  <2>2. ASSUME <<sfd[d], "w">> \in ready', proc[d] # None
        PROVE  Unused(psock[proc[d]])'
    <3>1. d # c
      BY <2>2
    <3>2. Unused(psock[proc[d]])
      BY <2>2 DEF DescriptorsInv, BatchInv
    <3>3. /\ psock[proc[d]] \in Fds /\ psock[proc[d]] # sfd[c]
          /\ proc[c] # None => psock[proc[d]] # psock[proc[c]]
      BY <1>2, <2>2, <3>1 DEF IInv, TypeOK, ProcInv, FdsInv
    <3>. QED
      BY <1>5, <3>2, <3>3
  <2>. QED
    BY <2>1, <2>2
<1>8. GoneInv' /\ DoneInv'
  BY <1>1 DEF DescriptorsInv, GoneInv, DoneInv
<1>9. ASSUME NEW d \in Clients, d # c, Alive(d), ~closed'[d]
      PROVE  /\ rd'[sfd'[d]] = d
             /\ MxType = "epoll" /\ wr'[sfd'[d]] = None => "r" \in ep'[sfd'[d]]
             /\ MxType = "epoll" /\ wr'[sfd'[d]] # None => "w" \in ep'[sfd'[d]]
             /\ busy'[d] => Answering(d)' \/ Wakes(proc[d])'
  <2>1. ~closed[d] /\ sfd[d] \in Fds /\ sfd[d] # sfd[c]
    BY <1>1, <1>9 DEF DescriptorsInv, DistinctInv, Alive, IInv, TypeOK
  <2>2. /\ rd'[sfd'[d]] = d
        /\ MxType = "epoll" /\ wr'[sfd'[d]] = None => "r" \in ep'[sfd'[d]]
        /\ MxType = "epoll" /\ wr'[sfd'[d]] # None => "w" \in ep'[sfd'[d]]
    BY <1>9, <2>1 DEF DescriptorsInv, WatchInv
  <2>3. ASSUME Answering(d) PROVE Answering(d)'
    <3>1. wr'[sfd[d]] = d /\ <<sfd[d], "w">> \notin toDel'
      BY <1>2, <2>1, <2>3 DEF Answering
    <3>. QED
      BY <1>1, <1>9, <3>1 DEF Answering
  <2>4. ASSUME Wakes(proc[d])
        PROVE  Wakes(proc[d])'
    <3>1. /\ proc[d] \in Pids /\ proc[d] # proc[c] /\ psock[proc[d]] \in Fds
          /\ proc[c] # None => psock[proc[d]] # psock[proc[c]]
      BY <1>2, <1>9, <2>4 DEF Wakes, IInv, ProcInv, TypeOK
    <3>2. /\ desc'[proc[d]] <=> desc[proc[d]]
          /\ cst'[proc[d]] = cst[proc[d]]
          /\ proc[d] \in kids /\ child[proc[d]] \notin Reaped =>
                 proc[d] \in kids' /\ child'[proc[d]] \notin Reaped
      BY <3>1
    <3>3. <<psock[proc[d]], "r">> \in toDel' => <<psock[proc[d]], "r">> \in toDel
      BY <3>1
    <3>4. Armed(proc[d])'
      BY <2>4, <3>2, <3>3 DEF Wakes, Armed
    <3>. QED
      <4>1. proc'[d] = proc[d]
        OBVIOUS
      <4>2. desc'[proc[d]] /\ ~({"read", "exited"} \subseteq cst'[proc[d]])
        BY <2>4, <3>2 DEF Wakes
      <4>. QED
        BY <3>1, <3>4, <4>1, <4>2 DEF Wakes
  <2>5. busy'[d] => busy[d]
    BY <1>9
  <2>. QED
    BY <1>9, <2>1, <2>2, <2>3, <2>4, <2>5 DEF DescriptorsInv, ServedInv
<1>10. WatchInv' /\ ServedInv'
  <2>1. ~closed'[c] => ~closed[c] /\ rd'[sfd'[c]] = c
    BY DEF DescriptorsInv, WatchInv
  <2>2. WatchInv'
    <3>. SUFFICES ASSUME NEW d \in Clients, Alive(d), ~closed'[d]
                  PROVE  /\ rd'[sfd'[d]] = d
                         /\ MxType = "epoll" /\ wr'[sfd'[d]] = None => "r" \in ep'[sfd'[d]]
                         /\ MxType = "epoll" /\ wr'[sfd'[d]] # None => "w" \in ep'[sfd'[d]]
      BY <1>1 DEF WatchInv
    <3>1. CASE d = c
      BY <2>1, <3>1
    <3>2. CASE d # c
      BY <1>9, <3>2
    <3>. QED
      BY <3>1, <3>2
  <2>3. ServedInv'
    <3>. SUFFICES ASSUME NEW d \in Clients, Alive(d), busy'[d], ~closed'[d]
                  PROVE  Answering(d)' \/ Wakes(proc[d])'
      BY <1>1 DEF ServedInv
    <3>. QED
      BY <1>9
  <2>. QED
    BY <2>2, <2>3
<1>. QED
  BY <1>3, <1>4, <1>6, <1>7, <1>8, <1>10 DEF DescriptorsInv

(* A script that can still be heard belongs to a session that is not being  *)
(* answered.                                                                *)
LEMMA NotYetAnswered ==
  ASSUME IInv, DescriptorsInv, NEW c \in Clients, Alive(c),
         ~busy[c] \/ (proc[c] # None /\ desc[proc[c]])
  PROVE  /\ ~Answering(c)
         /\ phase = "dispatch" => <<sfd[c], "w">> \notin ready
<1>1. sfd[c] \in Fds
  BY DEF Alive, IInv, TypeOK
<1>2. ASSUME wr[sfd[c]] # None PROVE <<sfd[c], "w">> \in toDel
  <2>1. wr[sfd[c]] \in Clients /\ (<<sfd[c], "w">> \in toDel \/ WriterLive(sfd[c]))
    BY <1>1, <1>2 DEF IInv, WrInv
  <2>2. WriterLive(sfd[c]) => wr[sfd[c]] = c
    BY <2>1 DEF WriterLive, DescriptorsInv, DistinctInv, Alive
  <2>. QED
    BY <2>1, <2>2 DEF WriterLive
<1>. QED
  BY <1>1, <1>2 DEF Answering, IInv, ReadyInv
-----------------------------------------------------------------------------
(* Requests that are answered at once, and scripts that come to their end.  *)

(* Who is called to read is not waiting to delete its writer.               *)
LEMMA ReaderTurn ==
  ASSUME IInv, DescriptorsInv, phase = "dispatch", NEW c \in Clients,
         NEW f \in Fds, Dispatch(f, "r", c)
  PROVE  /\ Alive(c) /\ sfd[c] = f /\ sfd[c] \in Fds
         /\ <<sfd[c], "w">> \notin toDel
         /\ ready' \subseteq ready
<1>1. rd[f] = c /\ ReaderLive(f) /\ ready' = ready \ {<<f, "r">>}
  BY ReaderCalled DEF Callbacks
<1>2. sfd[c] = f /\ Alive(c)
  BY <1>1 DEF ReaderLive, Alive
<1>3. <<f, "r">> \in ready
  BY DEF Dispatch, Turn
<1>. QED
  BY <1>1, <1>2, <1>3 DEF DescriptorsInv, BatchInv

LEMMA AnsweredKeepsDescriptors ==
  ASSUME IInv, DescriptorsInv, NEW c \in Clients, NEW f \in Fds,
         phase = "dispatch", phase' = phase, Dispatch(f, "r", c), RecvAnswered(c)
  PROVE  DescriptorsInv'
<1>1. /\ Alive(c) /\ sfd[c] \in Fds /\ <<sfd[c], "w">> \notin toDel
      /\ ready' \subseteq ready
  BY ReaderTurn
<1>2. /\ ~busy[c] /\ busy' = [busy EXCEPT ![c] = TRUE]
      /\ UNCHANGED <<rd, toDel, child, kids, sfd, proc, desc, cst, psock>>
  BY DEF RecvAnswered, Received
<1>3. PICK close \in BOOLEAN : PrepareResponse(c, close)
  BY DEF RecvAnswered
<1>4. /\ WriterOnly(c)
      /\ \/ closed'[c]
         \/ wr'[sfd[c]] = c /\ (MxType = "epoll" => "w" \in ep'[sfd[c]])
  BY <1>1, <1>3, WriterWatched DEF IInv
<1>5. \A d \in Clients : d # c => (busy'[d] <=> busy[d])
  BY <1>2, Zenon DEF IInv, TypeOK
<1>6. MovesOn(c)
  BY <1>1, <1>2, <1>4, <1>5 DEF MovesOn
<1>7. proc[c] = None
  BY <1>2 DEF IInv, ProcInv
<1>8. ~closed'[c] => Answering(c)'
  BY <1>1, <1>2, <1>4 DEF Answering, Alive
<1>9. ~closed'[c] =>
          /\ MxType = "epoll" /\ wr'[sfd[c]] = None => "r" \in ep'[sfd[c]]
          /\ MxType = "epoll" /\ wr'[sfd[c]] # None => "w" \in ep'[sfd[c]]
  BY <1>4
<1>. QED
  BY <1>1, <1>6, <1>7, <1>8, <1>9, MovingOnKeeps

(* The processor has let its child go and answers.                          *)
LEMMA AnsweringKeeps ==
  ASSUME IInv, DescriptorsInv, NEW c \in Clients, Alive(c), MovesOn(c),
         proc[c] # None, phase = "dispatch" => <<sfd[c], "w">> \notin ready,
         ~desc'[proc[c]], NEW close \in BOOLEAN, PrepareResponse(c, close)
  PROVE  DescriptorsInv'
<1>0. busy[c]
  BY DEF IInv, ProcInv
<1>1. sfd[c] \in Fds /\ <<sfd[c], "w">> \notin toDel
  BY <1>0 DEF IInv, TypeOK, Alive, DescriptorsInv, DeletionInv
<1>2. \/ closed'[c]
      \/ wr'[sfd[c]] = c /\ (MxType = "epoll" => "w" \in ep'[sfd[c]])
  BY <1>1, WriterWatched DEF IInv
<1>3. sfd[c] # psock[proc[c]]
  BY DEF Alive, IInv, TypeOK, FdsInv
<1>4. ~closed'[c] => Answering(c)'
  BY <1>1, <1>2, <1>3 DEF MovesOn, Answering, Alive
<1>. QED
  BY <1>1, <1>2, <1>4, MovingOnKeeps

(* The processor still waits for the other notification.                    *)
LEMMA WaitingKeeps ==
  ASSUME IInv, DescriptorsInv, NEW c \in Clients, Alive(c), MovesOn(c),
         proc[c] # None, phase = "dispatch" => <<sfd[c], "w">> \notin ready,
         UNCHANGED <<wr, ep, closed>>, "done" \notin cst'[proc[c]],
         desc'[proc[c]] /\ "read" \notin cst'[proc[c]] =>
             <<psock[proc[c]], "r">> \notin toDel',
         Answering(c) \/ Wakes(proc[c]) => Answering(c)' \/ Wakes(proc[c])'
  PROVE  DescriptorsInv'
<1>1. sfd[c] \in Fds /\ <<sfd[c], "w">> \notin toDel /\ busy[c]
  BY DEF IInv, TypeOK, Alive, ProcInv, DescriptorsInv, DeletionInv
<1>2. ~closed'[c] =>
          /\ MxType = "epoll" /\ wr'[sfd[c]] = None => "r" \in ep'[sfd[c]]
          /\ MxType = "epoll" /\ wr'[sfd[c]] # None => "w" \in ep'[sfd[c]]
          /\ Answering(c)' \/ Wakes(proc[c])'
  BY <1>1 DEF DescriptorsInv, WatchInv, ServedInv
<1>. QED
  BY <1>1, <1>2, MovingOnKeeps

LEMMA CgiReadKeepsDescriptors ==
  ASSUME IInv, CgiInv, DescriptorsInv, NEW p \in Pids, CgiReadCb(p)
  PROVE  DescriptorsInv'
<1>1. /\ phase = "dispatch" /\ phase' = phase /\ desc[p] /\ ready' \subseteq ready
      /\ UNCHANGED <<rd, sfd, busy, proc, psock>>
  BY DEF CgiReadCb, Dispatch
<1>2. PICK c \in Clients : /\ proc[c] = p
                           /\ CgiRecvFails(p, c) \/ CgiReads(p) \/ CgiOutputEnds(p, c)
  BY DEF CgiReadCb
<1>3. proc[c] # None /\ Alive(c) /\ sfd[c] \in Fds
  BY <1>2 DEF IInv, ProcInv, TypeOK, Alive
<1>4. ~Answering(c) /\ <<sfd[c], "w">> \notin ready
  BY <1>1, <1>2, <1>3, NotYetAnswered
<1>5. "done" \notin cst[p]
  BY <1>1 DEF DescriptorsInv, DoneInv
<1>6. CASE CgiRecvFails(p, c)
  <2>1. /\ KillChildren({p}) /\ toDel' = toDel \cup Both({psock[p]})
        /\ PrepareResponse(c, TRUE) /\ FailCgi(p, c)
    BY <1>6 DEF CgiRecvFails, FailCgi
  <2>2. cst' = cst /\ ~desc'[p] /\ \A q \in Pids : q # p => (desc'[q] <=> desc[q])
    BY <2>1, CgiFailed DEF IInv
  <2>3. ASSUME NEW q \in Pids, q # p
        PROVE  q \in kids /\ child[q] \notin Reaped => q \in kids' /\ child'[q] \notin Reaped
    <3>1. (q \in kids' <=> q \in kids /\ q \notin {p}) /\ (child'[q] = child[q] \/ child'[q] = "killed")
      BY <2>1, KillingSpares DEF IInv
    <3>. QED
      BY <2>3, <3>1 DEF Reaped
  <2>4. WriterOnly(c)
    BY <1>3, <2>1, WriterWatched DEF IInv
  <2>5. toDel \subseteq toDel' /\ \A g, t : <<g, t>> \in toDel' => <<g, t>> \in toDel \/ g = psock[p]
    BY <2>1 DEF Both
  <2>6. MovesOn(c)
    BY <1>1, <1>2, <1>3, <2>2, <2>3, <2>4, <2>5 DEF MovesOn
  <2>. QED
    BY <1>1, <1>2, <1>3, <1>4, <2>1, <2>2, <2>6, AnsweringKeeps
<1>7. CASE CgiReads(p)
  BY <1>1, <1>7, NothingOpened DEF CgiReads
<1>8. CASE CgiOutputEnds(p, c)
  <2>1. /\ toDel' = toDel \cup Both({psock[p]}) /\ UNCHANGED <<child, kids>>
        /\ ProceedWithRsIfRdy(p, c, cst[p] \cup {"read"})
    BY <1>8 DEF CgiOutputEnds
  <2>2. /\ \A q \in Pids : q # p => cst'[q] = cst[q] /\ (desc'[q] <=> desc[q])
        /\ \/ /\ cst[p] \cup {"read"} = {"read", "exited"}
              /\ cst'[p] = {"done"} /\ ~desc'[p]
           \/ cst'[p] = cst[p] \cup {"read"} /\ (desc'[p] <=> desc[p])
    BY <2>1, CgiProceeded DEF IInv
  <2>3. toDel \subseteq toDel' /\ \A g, t : <<g, t>> \in toDel' => <<g, t>> \in toDel \/ g = psock[p]
    BY <2>1 DEF Both
  <2>4. CASE cst[p] \cup {"read"} = {"read", "exited"}
    <3>1. PICK close \in BOOLEAN : PrepareResponse(c, close)
      BY <2>1, <2>4 DEF ProceedWithRsIfRdy
    <3>2. ~desc'[p]
      <4>1. desc' = [desc EXCEPT ![p] = FALSE]
        BY <2>1, <2>4 DEF ProceedWithRsIfRdy
      <4>. QED
        BY <4>1, Zenon DEF IInv, TypeOK
    <3>3. WriterOnly(c)
      BY <1>3, <3>1, WriterWatched DEF IInv
    <3>4. MovesOn(c)
      BY <1>1, <1>2, <1>3, <2>1, <2>2, <2>3, <3>3 DEF MovesOn
    <3>. QED
      BY <1>1, <1>2, <1>3, <1>4, <3>1, <3>2, <3>4, AnsweringKeeps
  <2>5. CASE cst[p] \cup {"read"} # {"read", "exited"}
    <3>1. UNCHANGED <<desc, wr, ep, closed>> /\ cst'[p] = cst[p] \cup {"read"}
      BY <2>1, <2>2, <2>5 DEF ProceedWithRsIfRdy
    <3>2. MovesOn(c)
      BY <1>1, <1>2, <1>3, <2>1, <2>2, <2>3, <3>1 DEF MovesOn, WriterOnly
    <3>3. "done" \notin cst'[p] /\ ~({"read", "exited"} \subseteq cst'[p])
      BY <1>5, <2>5, <3>1 DEF IInv, TypeOK
    <3>4. Wakes(p) => Wakes(proc[c])'
      BY <1>1, <1>2, <2>1, <3>1, <3>3 DEF Wakes, Armed
    <3>. QED
      BY <1>1, <1>2, <1>3, <1>4, <3>1, <3>2, <3>3, <3>4, WaitingKeeps
  <2>. QED
    BY <2>4, <2>5
<1>. QED
  BY <1>2, <1>6, <1>7, <1>8

LEMMA WaitLoopKeepsDescriptors ==
  ASSUME IInv, CgiInv, DescriptorsInv, WaitLoop
  PROVE  DescriptorsInv'
<1>1. phase = "wait" /\ UNCHANGED <<phase, rd, ready, sfd, busy, proc, psock, kids>>
  BY DEF WaitLoop, WaitMisses, Reap
<1>2. CASE \E p \in Pids : WaitMisses(p) /\ UNCHANGED <<wr, ep, toDel, closed, desc, cst>>
  <2>1. UNCHANGED <<wr, ep, toDel, closed, desc, cst, child>>
    BY <1>2 DEF WaitMisses
  <2>. QED
    BY <1>1, <2>1, NothingOpened
<1>3. ASSUME NEW p \in Pids, NEW c \in Clients, Reap(p), proc[c] = p, ChildDoneCb(p, c)
      PROVE  DescriptorsInv'
  <2>1. proc[c] # None /\ Alive(c) /\ sfd[c] \in Fds
    BY <1>3 DEF IInv, ProcInv, TypeOK, Alive
  <2>2. \A q \in Pids : q # p => child'[q] = child[q]
    BY <1>3 DEF Reap, IInv, TypeOK, CpmTypeOK
  <2>3. CASE FailCgi(p, c)
    <3>1. PrepareResponse(c, TRUE) /\ toDel' = toDel \cup Both({psock[p]})
      BY <2>3 DEF FailCgi
    <3>2. cst' = cst /\ ~desc'[p] /\ \A q \in Pids : q # p => (desc'[q] <=> desc[q])
      BY <2>3, CgiFailed DEF IInv
    <3>3. toDel \subseteq toDel' /\ \A g, t : <<g, t>> \in toDel' => <<g, t>> \in toDel \/ g = psock[p]
      BY <3>1 DEF Both
    <3>4. WriterOnly(c)
      BY <2>1, <3>1, WriterWatched DEF IInv
    <3>5. MovesOn(c)
      BY <1>1, <1>3, <2>1, <2>2, <3>2, <3>3, <3>4 DEF MovesOn
    <3>. QED
      BY <1>1, <1>3, <2>1, <3>1, <3>2, <3>5, AnsweringKeeps
  <2>4. CASE /\ child[p] = "zombie0" /\ UNCHANGED toDel
             /\ ProceedWithRsIfRdy(p, c, cst[p] \cup {"exited"})
    <3>1. /\ \A q \in Pids : q # p => cst'[q] = cst[q] /\ (desc'[q] <=> desc[q])
          /\ \/ /\ cst[p] \cup {"exited"} = {"read", "exited"}
                /\ cst'[p] = {"done"} /\ ~desc'[p]
             \/ cst'[p] = cst[p] \cup {"exited"} /\ (desc'[p] <=> desc[p])
      BY <2>4, CgiProceeded DEF IInv
    <3>2. "done" \notin cst[p]
      BY <2>4 DEF CgiInv, ChildInv, ExitSeen
    <3>3. CASE cst[p] \cup {"exited"} = {"read", "exited"}
      <4>1. PICK close \in BOOLEAN : PrepareResponse(c, close)
        BY <2>4, <3>3 DEF ProceedWithRsIfRdy
      <4>2. ~desc'[p]
        <5>1. desc' = [desc EXCEPT ![p] = FALSE]
          BY <2>4, <3>3 DEF ProceedWithRsIfRdy
        <5>. QED
          BY <5>1, Zenon DEF IInv, TypeOK
      <4>3. WriterOnly(c)
        <5>1. TypeOK
          BY DEF IInv
        <5>. QED
          BY <2>1, <4>1, <5>1, WriterWatched
      <4>4. MovesOn(c)
        BY <1>1, <1>3, <2>1, <2>2, <2>4, <3>1, <4>3 DEF MovesOn
      <4>. QED
        BY <1>1, <1>3, <2>1, <4>1, <4>2, <4>4, AnsweringKeeps
    <3>4. CASE cst[p] \cup {"exited"} # {"read", "exited"}
      <4>1. UNCHANGED <<desc, wr, ep, closed>> /\ cst'[p] = cst[p] \cup {"exited"}
        BY <2>4, <3>1, <3>4 DEF ProceedWithRsIfRdy
      <4>2. MovesOn(c)
        BY <1>1, <1>3, <2>1, <2>2, <2>4, <3>1, <4>1 DEF MovesOn, WriterOnly
      <4>3. "done" \notin cst'[p] /\ ~({"read", "exited"} \subseteq cst'[p])
        BY <3>2, <3>4, <4>1 DEF IInv, TypeOK
      <4>4. desc'[p] /\ "read" \notin cst'[p] => <<psock[p], "r">> \notin toDel'
        BY <2>4, <4>1 DEF DescriptorsInv, DeletionInv
      <4>5. Answering(c) => Answering(c)'
        BY <1>1, <2>4, <4>1 DEF Answering, Alive
      <4>6. Wakes(p) => Wakes(proc[c])'
        BY <1>1, <1>3, <2>4, <4>1, <4>3 DEF Wakes, Armed
      <4>. QED
        BY <1>1, <1>3, <2>1, <4>1, <4>2, <4>3, <4>4, <4>5, <4>6, WaitingKeeps
    <3>. QED
      BY <3>3, <3>4
  <2>. QED
    BY <1>3, <2>3, <2>4 DEF ChildDoneCb
<1>. QED
  BY <1>2, <1>3 DEF WaitLoop

-----------------------------------------------------------------------------
(* A script is started on a free descriptor.                                *)

LEMMA StartsCgiKeepsDescriptors ==
  ASSUME IInv, DescriptorsInv, NEW c \in Clients, NEW k \in Fds,
         phase = "dispatch", phase' = phase, Dispatch(k, "r", c), RecvStartsCgi(c)
  PROVE  DescriptorsInv'
<1>1. /\ Alive(c) /\ sfd[c] \in Fds /\ <<sfd[c], "w">> \notin toDel
      /\ ready' \subseteq ready
  BY ReaderTurn
<1>2. /\ ~busy[c] /\ busy' = [busy EXCEPT ![c] = TRUE]
      /\ UNCHANGED <<toDel, sfd, cst>>
  BY DEF RecvStartsCgi, Received
<1>3. PICK p \in Pids, f \in FreeFds :
         /\ proc' = [proc EXCEPT ![c] = p]
         /\ psock' = [psock EXCEPT ![p] = f]
         /\ \/ /\ RunChild(p)
               /\ RegisterRead(f, p)
               /\ desc' = [desc EXCEPT ![p] = TRUE]
               /\ UNCHANGED <<wr, left, closeAfter, closed>>
            \/ /\ MayRefuse(f, "r")
               /\ RunAndKillChild(p)
               /\ PrepareResponse(c, TRUE)
               /\ UNCHANGED <<rd, desc>>
  BY DEF RecvStartsCgi
<1>4. child[p] = "none"
  BY <1>3 DEF RunChild, RunAndKillChild
<1>5. psock[p] = NoFd /\ cst[p] = {} /\ \A d \in Clients : proc[d] # p
  BY <1>4 DEF IInv, FreshInv
<1>6. proc[c] = None
  BY <1>2 DEF IInv, ProcInv
<1>7. /\ f \in Fds /\ f # NoFd /\ f # ListenFd /\ Unused(f)
      /\ \A d \in Clients : sfd[d] # f
      /\ \A q \in Pids : psock[q] # f
  BY <1>3 DEF FreeFds, OpenFds, DescriptorsInv, FreeInv
<1>8. /\ proc'[c] = p /\ \A d \in Clients : d # c => proc'[d] = proc[d]
      /\ psock'[p] = f /\ \A q \in Pids : q # p => psock'[q] = psock[q]
  BY <1>3 DEF IInv, TypeOK
<1>9. /\ \A g \in Fds : g # f => rd'[g] = rd[g]
      /\ \A g \in Fds : g # f /\ g # sfd[c] => ep'[g] = ep[g]
      /\ \A g \in Fds : g # sfd[c] => wr'[g] = wr[g]
      /\ \A d \in Clients : closed[d] => closed'[d]
      /\ \/ closed'[c]
         \/ wr'[sfd[c]] = c /\ (MxType = "epoll" => "w" \in ep'[sfd[c]])
         \/ wr' = wr /\ ep'[sfd[c]] = ep[sfd[c]] /\ closed' = closed
  <2>1. CASE RegisterRead(f, p) /\ UNCHANGED <<wr, closed>>
    <3>1. rd \in [Fds -> Callbacks \cup {None}] /\ ep \in [Fds -> SUBSET Types]
      BY DEF IInv, TypeOK, EmTypeOK
    <3>. QED
      BY <1>1, <1>7, <2>1, <3>1 DEF RegisterRead, Interest
  <2>2. CASE PrepareResponse(c, TRUE) /\ UNCHANGED rd
    <3>1. TypeOK /\ TRUE \in BOOLEAN
      BY DEF IInv
    <3>2. /\ WriterOnly(c)
          /\ \/ closed'[c]
             \/ wr'[sfd[c]] = c /\ (MxType = "epoll" => "w" \in ep'[sfd[c]])
      BY <1>1, <2>2, <3>1, WriterWatched
    <3>. QED
      BY <2>2, <3>2 DEF WriterOnly
  <2>. QED
    BY <1>3, <2>1, <2>2
<1>10. \A q \in Pids : q # p =>
          /\ desc'[q] <=> desc[q]
          /\ q \in kids => q \in kids'
          /\ child'[q] = child[q]
  <2>1. \A q \in Pids : q # p => (desc'[q] <=> desc[q])
    BY <1>3, Zenon DEF IInv, TypeOK
  <2>2. \A q \in Pids : q # p => (q \in kids => q \in kids') /\ child'[q] = child[q]
    BY <1>3 DEF RunChild, RunAndKillChild, IInv, TypeOK, CpmTypeOK
  <2>. QED
    BY <2>1, <2>2
<1>11. \A d \in Clients : d # c => (busy'[d] <=> busy[d])
  BY <1>2, Zenon DEF IInv, TypeOK
<1>12. \A d \in Clients : Alive(d)' <=> Alive(d)
  BY <1>2 DEF Alive
<1>13. \A d \in Clients : d # c /\ proc[d] # None =>
          /\ proc[d] \in Pids /\ proc[d] # p
          /\ psock[proc[d]] \in Fds /\ psock[proc[d]] # f /\ psock[proc[d]] # sfd[c]
  BY <1>5, <1>7 DEF IInv, TypeOK, ProcInv, FdsInv
<1>14. <<sfd[c], "w">> \notin ready
  BY <1>1, <1>2, NotYetAnswered
<1>15. DistinctInv'
  BY <1>2, <1>7, <1>8 DEF DescriptorsInv, DistinctInv
<1>16. DeletionInv'
  <2>1. ASSUME NEW d \in Clients, Alive(d)
        PROVE  <<sfd[d], "r">> \notin toDel /\ (busy'[d] => <<sfd[d], "w">> \notin toDel)
    BY <1>1, <1>11, <2>1 DEF DescriptorsInv, DeletionInv
  <2>2. ASSUME NEW q \in Pids, desc'[q], "read" \notin cst[q]
        PROVE  <<psock'[q], "r">> \notin toDel
    BY <1>7, <1>8, <1>10, <2>2 DEF DescriptorsInv, DeletionInv, Unused
  <2>. QED
    BY <1>2, <1>12, <2>1, <2>2 DEF DeletionInv
<1>17. FreeInv'
  <2>. SUFFICES ASSUME NEW g \in FreeFds' PROVE Unused(g)'
    BY DEF FreeInv
  <2>1. g \in FreeFds /\ g # f /\ g \in Fds /\ g # sfd[c]
    BY <1>2, <1>5, <1>8 DEF FreeFds, OpenFds
  <2>. QED
    BY <1>2, <1>9, <2>1 DEF DescriptorsInv, FreeInv, Unused
<1>18. BatchInv'
  <2>. SUFFICES ASSUME NEW d \in Clients, Alive(d)
                PROVE  /\ <<sfd[d], "w">> \in ready' /\ proc'[d] # None => Unused(psock[proc[d]])'
                       /\ <<sfd[d], "r">> \in ready' => <<sfd[d], "w">> \notin toDel
    BY <1>2, <1>12 DEF BatchInv
  <2>1. <<sfd[d], "r">> \in ready' => <<sfd[d], "w">> \notin toDel
    BY <1>1 DEF DescriptorsInv, BatchInv
  <2>2. ASSUME <<sfd[d], "w">> \in ready', proc'[d] # None
        PROVE  d # c /\ Unused(psock[proc[d]]) /\ psock'[proc'[d]] = psock[proc[d]]
    BY <1>1, <1>8, <1>13, <1>14, <2>2 DEF DescriptorsInv, BatchInv
  <2>3. ASSUME <<sfd[d], "w">> \in ready', proc'[d] # None
        PROVE  Unused(psock[proc[d]])'
    <3>1. d # c /\ Unused(psock[proc[d]]) /\ psock'[proc'[d]] = psock[proc[d]]
      BY <2>2, <2>3
    <3>2. proc'[d] = proc[d] /\ psock[proc[d]] \in Fds
          /\ psock[proc[d]] # f /\ psock[proc[d]] # sfd[c]
      BY <1>8, <1>13, <2>3, <3>1
    <3>. QED
      BY <1>2, <1>9, <3>1, <3>2 DEF Unused
  <2>. QED
    BY <2>1, <2>3
<1>19. WatchInv'
  <2>. SUFFICES ASSUME NEW d \in Clients, Alive(d), ~closed'[d]
                PROVE  /\ rd'[sfd[d]] = d
                       /\ MxType = "epoll" /\ wr'[sfd[d]] = None => "r" \in ep'[sfd[d]]
                       /\ MxType = "epoll" /\ wr'[sfd[d]] # None => "w" \in ep'[sfd[d]]
    BY <1>2, <1>12 DEF WatchInv
  <2>1. /\ ~closed[d] /\ sfd[d] \in Fds /\ sfd[d] # f
        /\ d # c => sfd[d] # sfd[c]
    BY <1>1, <1>7, <1>9 DEF DescriptorsInv, DistinctInv, IInv, TypeOK, Alive
  <2>2. /\ rd[sfd[d]] = d
        /\ MxType = "epoll" /\ wr[sfd[d]] = None => "r" \in ep[sfd[d]]
        /\ MxType = "epoll" /\ wr[sfd[d]] # None => "w" \in ep[sfd[d]]
    BY <2>1 DEF DescriptorsInv, WatchInv
  <2>3. CASE d = c
    BY <1>9, <2>1, <2>2, <2>3
  <2>4. CASE d # c
    BY <1>9, <2>1, <2>2, <2>4
  <2>. QED
    BY <2>3, <2>4
<1>20. ServedInv'
  <2>. SUFFICES ASSUME NEW d \in Clients, Alive(d), busy'[d], ~closed'[d]
                PROVE  Answering(d)' \/ Wakes(proc[d])'
    BY <1>12 DEF ServedInv
  <2>1. CASE d # c
    <3>1. Answering(d) \/ Wakes(proc[d])
      BY <1>9, <1>11, <2>1 DEF DescriptorsInv, ServedInv
    <3>2. Answering(d) => Answering(d)'
      <4>1. sfd[d] \in Fds /\ sfd[d] # sfd[c]
        BY <1>1, <2>1 DEF DescriptorsInv, DistinctInv, IInv, TypeOK, Alive
      <4>. QED
        BY <1>2, <1>9, <1>12, <4>1 DEF Answering
    <3>3. ASSUME Wakes(proc[d]) PROVE Wakes(proc[d])'
      <4>1. /\ proc[d] \in Pids /\ proc[d] # p /\ proc'[d] = proc[d]
            /\ psock[proc[d]] \in Fds /\ psock[proc[d]] # f
            /\ psock'[proc[d]] = psock[proc[d]]
        BY <1>8, <1>13, <2>1, <3>3 DEF Wakes
      <4>2. Armed(proc[d])'
        <5>1. "read" \notin cst[proc[d]] => /\ rd'[psock[proc[d]]] = proc[d]
                                            /\ <<psock[proc[d]], "r">> \notin toDel'
          BY <1>2, <1>9, <3>3, <4>1 DEF Wakes, Armed
        <5>2. "exited" \notin cst[proc[d]] => proc[d] \in kids' /\ child'[proc[d]] \notin Reaped
          BY <1>10, <3>3, <4>1 DEF Wakes, Armed
        <5>. QED
          BY <1>2, <4>1, <5>1, <5>2 DEF Armed
      <4>3. desc'[proc[d]] /\ ~({"read", "exited"} \subseteq cst'[proc[d]])
        BY <1>2, <1>10, <3>3, <4>1 DEF Wakes
      <4>. QED
        BY <4>1, <4>2, <4>3 DEF Wakes
    <3>. QED
      BY <3>1, <3>2, <3>3
  <2>2. CASE d = c /\ RunChild(p) /\ RegisterRead(f, p) /\ desc' = [desc EXCEPT ![p] = TRUE]
    <3>1. desc'[p]
      BY <2>2, Zenon DEF IInv, TypeOK
    <3>2. p \in kids' /\ child'[p] \notin Reaped /\ rd'[f] = p
      BY <1>7, <2>2 DEF RunChild, RegisterRead, Reaped, IInv, TypeOK, CpmTypeOK, EmTypeOK
    <3>3. Armed(p)'
      BY <1>2, <1>7, <1>8, <3>2 DEF Armed, Unused
    <3>. QED
      BY <1>2, <1>5, <1>8, <2>2, <3>1, <3>3 DEF Wakes
  <2>3. CASE d = c /\ PrepareResponse(c, TRUE)
    <3>1. wr'[sfd[c]] = c
      BY <1>1, <2>3, WriterWatched DEF IInv
    <3>. QED
      BY <1>1, <1>2, <1>12, <2>3, <3>1 DEF Answering
  <2>. QED
    BY <1>3, <2>1, <2>2, <2>3
<1>21. GoneInv' /\ DoneInv'
  BY <1>1, <1>2, <1>5, <1>10, <1>11, <1>12 DEF DescriptorsInv, GoneInv, DoneInv
<1>. QED
  BY <1>15, <1>16, <1>17, <1>18, <1>19, <1>20, <1>21 DEF DescriptorsInv

-----------------------------------------------------------------------------
(* Processors and sessions are destroyed and their descriptors closed.      *)

(* The response is complete: the processor goes with its socket, and the    *)
(* batch no longer holds the session's read event.                          *)
LEMMA SendsLastKeepsDescriptors ==
  ASSUME IInv, DescriptorsInv, NEW c \in Clients, NEW f \in Fds,
         phase = "dispatch", phase' = phase, Dispatch(f, "w", c),
         UNCHANGED <<rd, wr, sfd>>, SendsLast(c)
  PROVE  DescriptorsInv'
<1>. DEFINE P == ProcessorsOf({c})
<1>1. wr[f] = c /\ WriterLive(f) /\ ready' = ready \ {<<f, "w">>}
  BY WriterCalled
<1>2. sfd[c] = f /\ Alive(c) /\ (proc[c] # None => ~desc[proc[c]])
  BY <1>1 DEF WriterLive, Alive
<1>3. <<f, "w">> \in ready /\ <<f, "r">> \notin ready
  <2>1. <<f, "r">>[1] = f /\ <<f, "w">>[1] = f /\ <<f, "r">>[2] = "r" /\ <<f, "w">>[2] = "w"
    OBVIOUS
  <2>2. Precedes(<<f, "r">>, <<f, "w">>)
    <3>1. CASE MxType = "select"
      BY <2>1, <3>1 DEF Precedes
    <3>2. CASE MxType = "poll"
      BY <2>1, <3>2 DEF Precedes
    <3>3. CASE MxType = "epoll"
      BY <2>1, <3>3 DEF Precedes
    <3>. QED
      BY <3>1, <3>2, <3>3, MxTypeAssumption
  <2>3. <<f, "r">> # <<f, "w">>
    OBVIOUS
  <2>. QED
    BY <2>2, <2>3 DEF Dispatch, Turn
<1>4. P \in SUBSET Pids /\ \A p : p \in P <=> p = proc[c] /\ proc[c] # None
  BY DEF ProcessorsOf, IInv, TypeOK
<1>5. /\ DestroyProcessors(P) /\ toDel' = toDel \cup {<<f, "w">>}
      /\ ep' = Forget(SocketsOf(P))
      /\ busy' = [busy EXCEPT ![c] = FALSE] /\ proc' = [proc EXCEPT ![c] = None]
      /\ closed' = [closed EXCEPT ![c] = @ \/ closeAfter[c]]
  <2>1. {p \in P : desc[p]} = {}
    BY <1>2, <1>4
  <2>2. DescDeletions(P) = {}
    BY <2>1 DEF DescDeletions, SocketsOf, Both
  <2>. QED
    BY <1>2, <2>2 DEF SendsLast
<1>. HIDE DEF P
<1>6. UNCHANGED <<child, kids>>
  <2>1. {p \in P : desc[p]} = {}
    BY <1>2, <1>4
  <2>. QED
    BY <1>5, <2>1 DEF DestroyProcessors, KillChildren, Killed, IInv, TypeOK, CpmTypeOK
<1>7. /\ \A p \in Pids : p \in P => psock'[p] = NoFd /\ ~desc'[p] /\ cst'[p] = {}
      /\ \A p \in Pids : p \notin P =>
            psock'[p] = psock[p] /\ (desc'[p] <=> desc[p]) /\ cst'[p] = cst[p]
  <2>1. /\ \A p \in P : psock'[p] = NoFd /\ ~desc'[p] /\ cst'[p] = {}
        /\ \A p \in Pids \ P : psock'[p] = psock[p] /\ desc'[p] = desc[p] /\ cst'[p] = cst[p]
    BY <1>4, <1>5, ProcessorsDestroyed DEF IInv
  <2>. QED
    BY <2>1, Zenon
<1>8. /\ ~busy'[c] /\ \A d \in Clients : d # c => (busy'[d] <=> busy[d])
      /\ \A d \in Clients : closed[d] => closed'[d]
  BY <1>5, Zenon DEF IInv, TypeOK
<1>9. proc'[c] = None /\ \A d \in Clients : d # c => proc'[d] = proc[d] /\ proc[d] \notin P
  BY <1>4, <1>5 DEF IInv, TypeOK, ProcInv
<1>10. \A d \in Clients : /\ Alive(d)' <=> Alive(d)
                          /\ Alive(d) => sfd[d] \in Fds /\ sfd[d] \notin SocketsOf(P)
                          /\ Alive(d) /\ d # c => sfd[d] # f
  BY <1>2, <1>4 DEF Alive, IInv, TypeOK, FdsInv, SocketsOf, DescriptorsInv, DistinctInv
<1>11. \A g \in Fds : g \notin SocketsOf(P) => ep'[g] = ep[g]
  BY <1>5 DEF Forget
<1>12. DistinctInv'
  BY <1>7 DEF DescriptorsInv, DistinctInv
<1>13. DeletionInv'
  BY <1>5, <1>7, <1>8, <1>10 DEF DescriptorsInv, DeletionInv
<1>14. FreeInv'
  <2>. SUFFICES ASSUME NEW g \in FreeFds' PROVE Unused(g)'
    BY DEF FreeInv
  <2>1. g \in Fds /\ g # f
    BY <1>2 DEF FreeFds, OpenFds
  <2>2. g \in FreeFds \/ (proc[c] # None /\ g = psock[proc[c]])
    BY <1>4, <1>7 DEF FreeFds, OpenFds
  <2>3. Unused(g)
    BY <1>2, <1>3, <2>2 DEF DescriptorsInv, FreeInv, BatchInv
  <2>. QED
    BY <1>5, <2>1, <2>3 DEF Unused
<1>15. BatchInv'
  <2>. SUFFICES ASSUME NEW d \in Clients, Alive(d)
                PROVE  /\ <<sfd[d], "w">> \in ready' /\ proc'[d] # None => Unused(psock[proc[d]])'
                       /\ <<sfd[d], "r">> \in ready' => <<sfd[d], "w">> \notin toDel'
    BY <1>10 DEF BatchInv
  <2>1. CASE d = c
    BY <1>1, <1>2, <1>3, <1>9, <2>1
  <2>2. CASE d # c
    <3>1. <<sfd[d], "r">> \in ready' => <<sfd[d], "w">> \notin toDel'
      BY <1>1, <1>5, <1>10, <2>2 DEF DescriptorsInv, BatchInv
    <3>2. ASSUME <<sfd[d], "w">> \in ready', proc'[d] # None
          PROVE  Unused(psock[proc[d]])'
      <4>1. Unused(psock[proc[d]]) /\ proc[d] # None
        BY <1>1, <1>9, <2>2, <3>2 DEF DescriptorsInv, BatchInv
      <4>2. /\ proc[d] \in Pids /\ proc[d] \notin P /\ proc'[d] = proc[d]
            /\ psock'[proc[d]] = psock[proc[d]] /\ psock[proc[d]] # f
        BY <1>2, <1>7, <1>9, <2>2, <4>1 DEF IInv, TypeOK, ProcInv, FdsInv
      <4>. QED
        BY <1>5, <4>1, <4>2 DEF Unused
    <3>. QED
      BY <3>1, <3>2
  <2>. QED
    BY <2>1, <2>2
<1>16. WatchInv'
  BY <1>8, <1>10, <1>11 DEF DescriptorsInv, WatchInv
<1>17. ServedInv'
  <2>. SUFFICES ASSUME NEW d \in Clients, Alive(d), busy'[d], ~closed'[d]
                PROVE  Answering(d)' \/ Wakes(proc[d])'
    BY <1>10 DEF ServedInv
  <2>1. d # c /\ (Answering(d) \/ Wakes(proc[d]))
    BY <1>8 DEF DescriptorsInv, ServedInv
  <2>2. Answering(d) => Answering(d)'
    BY <1>5, <1>10, <2>1 DEF Answering
  <2>3. ASSUME Wakes(proc[d]) PROVE Wakes(proc[d])'
    <3>1. /\ proc[d] \in Pids /\ proc'[d] = proc[d]
          /\ psock'[proc[d]] = psock[proc[d]]
          /\ (desc'[proc[d]] <=> desc[proc[d]]) /\ cst'[proc[d]] = cst[proc[d]]
      BY <1>7, <1>9, <2>1, <2>3 DEF Wakes
    <3>2. Armed(proc[d])'
      BY <1>5, <1>6, <2>3, <3>1 DEF Wakes, Armed
    <3>3. desc'[proc[d]] /\ ~({"read", "exited"} \subseteq cst'[proc[d]])
      BY <2>3, <3>1 DEF Wakes
    <3>. QED
      BY <3>1, <3>2, <3>3 DEF Wakes
  <2>. QED
    BY <2>1, <2>2, <2>3
<1>18. GoneInv' /\ DoneInv'
  BY <1>7, <1>8, <1>10 DEF DescriptorsInv, GoneInv, DoneInv
<1>. QED
  BY <1>12, <1>13, <1>14, <1>15, <1>16, <1>17, <1>18 DEF DescriptorsInv

(* Sessions given up are destroyed with all they own.                       *)
LEMMA CheckClientsKeepsDescriptors ==
  ASSUME IInv, DescriptorsInv, CheckClients
  PROVE  DescriptorsInv'
<1>. DEFINE gone == {c \in Clients : Alive(c) /\ closed[c]}
            P == ProcessorsOf(gone)
            D == {p \in P : desc[p]}
<1>1. /\ phase' = "flush" /\ UNCHANGED <<rd, wr>>
      /\ DestroyProcessors(P)
      /\ toDel' = toDel \cup Both({sfd[c] : c \in gone}) \cup DescDeletions(P)
      /\ ep' = Forget({sfd[c] : c \in gone} \cup SocketsOf(P))
  BY DEF CheckClients
<1>2. \A c \in Clients : /\ c \in gone => sfd'[c] = NoFd /\ ~busy'[c]
                         /\ c \notin gone => /\ sfd'[c] = sfd[c] /\ proc'[c] = proc[c]
                                             /\ busy'[c] <=> busy[c]
  <2>1. \A c \in Clients : /\ c \in gone => sfd'[c] = NoFd
                           /\ c \notin gone => sfd'[c] = sfd[c] /\ proc'[c] = proc[c]
    BY DEF CheckClients
  <2>2. \A c \in Clients : busy'[c] <=> busy[c] /\ c \notin gone
    BY Zenon DEF CheckClients
  <2>. QED
    BY <2>1, <2>2
<1>3. P \in SUBSET Pids /\ \A p : p \in P <=> \E c \in gone : p = proc[c] /\ p # None
  BY DEF ProcessorsOf, IInv, TypeOK
<1>4. D \in SUBSET Pids /\ \A p : p \in D <=> p \in P /\ desc[p]
  BY <1>3
<1>5. /\ gone \in SUBSET Clients
      /\ \A c \in Clients : c \in gone <=> Alive(c) /\ closed[c]
  OBVIOUS
<1>6. \A g, t : <<g, t>> \in toDel' =>
          <<g, t>> \in toDel \/ (\E c \in gone : g = sfd[c]) \/ (\E p \in D : g = psock[p])
  BY <1>1 DEF Both, DescDeletions, SocketsOf
<1>7. KillChildren(D)
  BY <1>1 DEF DestroyProcessors
<1>. HIDE DEF gone, P, D
<1>8. \A c \in Clients, p \in Pids : Alive(c) => sfd[c] # psock[p]
  BY DEF IInv, FdsInv, Alive
<1>9. /\ \A p \in Pids : p \in P => psock'[p] = NoFd /\ ~desc'[p] /\ cst'[p] = {}
      /\ \A p \in Pids : p \notin P =>
            psock'[p] = psock[p] /\ (desc'[p] <=> desc[p]) /\ cst'[p] = cst[p]
  <2>1. /\ \A p \in P : psock'[p] = NoFd /\ ~desc'[p] /\ cst'[p] = {}
        /\ \A p \in Pids \ P : psock'[p] = psock[p] /\ desc'[p] = desc[p] /\ cst'[p] = cst[p]
    BY <1>1, <1>3, ProcessorsDestroyed DEF IInv
  <2>. QED
    BY <2>1, Zenon
<1>10. \A p \in Pids : p \notin P =>
          (p \in kids /\ child[p] \notin Reaped => p \in kids' /\ child'[p] \notin Reaped)
  <2>. SUFFICES ASSUME NEW p \in Pids, p \notin P, p \in kids, child[p] \notin Reaped
                PROVE  p \in kids' /\ child'[p] \notin Reaped
    OBVIOUS
  <2>1. (p \in kids' <=> p \in kids /\ p \notin D) /\ (child'[p] = child[p] \/ p \in D)
    BY <1>4, <1>7, KillingSpares DEF IInv
  <2>. QED
    BY <1>4, <2>1
<1>11. \A c \in Clients : Alive(c)' <=> Alive(c) /\ c \notin gone
  BY <1>2 DEF Alive
<1>12. ASSUME NEW c \in Clients, Alive(c), c \notin gone
       PROVE  /\ sfd[c] \in Fds /\ ep'[sfd[c]] = ep[sfd[c]]
              /\ \A t : <<sfd[c], t>> \in toDel' => <<sfd[c], t>> \in toDel
  <2>1. /\ sfd[c] \in Fds /\ \A d \in gone : sfd[c] # sfd[d]
        /\ \A p \in P : sfd[c] # psock[p]
    BY <1>3, <1>5, <1>8, <1>12 DEF Alive, IInv, TypeOK, DescriptorsInv, DistinctInv
  <2>2. \A p \in D : sfd[c] # psock[p]
    BY <1>4, <2>1
  <2>3. ep'[sfd[c]] = ep[sfd[c]]
    BY <1>1, <2>1 DEF Forget, SocketsOf
  <2>. QED
    BY <1>6, <2>1, <2>2, <2>3
<1>13. ASSUME NEW p \in Pids, p \notin P
       PROVE  \A t : <<psock[p], t>> \in toDel' => <<psock[p], t>> \in toDel
  <2>1. \A d \in gone : psock[p] # sfd[d]
    BY <1>5, <1>8
  <2>2. \A q \in D : psock[q] # NoFd /\ psock[p] # psock[q]
    <3>1. \A q \in D : q \in Pids /\ q # p /\ psock[q] # NoFd
      BY <1>3, <1>4, <1>5, <1>13 DEF IInv, ProcInv
    <3>. QED
      BY <3>1 DEF DescriptorsInv, DistinctInv
  <2>. QED
    BY <1>6, <2>1, <2>2
<1>14. \A c \in Clients : c \notin gone /\ proc[c] # None => proc[c] \in Pids /\ proc[c] \notin P
  BY <1>3, <1>5 DEF IInv, TypeOK, ProcInv
<1>15. DistinctInv'
  BY <1>2, <1>5, <1>9 DEF DescriptorsInv, DistinctInv
<1>16. DeletionInv'
  <2>1. ASSUME NEW c \in Clients, Alive(c)'
        PROVE  /\ <<sfd'[c], "r">> \notin toDel'
               /\ busy'[c] => <<sfd'[c], "w">> \notin toDel'
    BY <1>2, <1>11, <1>12, <2>1 DEF DescriptorsInv, DeletionInv
  <2>2. ASSUME NEW p \in Pids, desc'[p], "read" \notin cst'[p]
        PROVE  <<psock'[p], "r">> \notin toDel'
    BY <1>9, <1>13, <2>2 DEF DescriptorsInv, DeletionInv
  <2>. QED
    BY <2>1, <2>2 DEF DeletionInv
<1>17. FreeInv' /\ BatchInv'
  BY <1>1 DEF FreeInv, BatchInv
<1>18. WatchInv'
  <2>. SUFFICES ASSUME NEW c \in Clients, Alive(c), c \notin gone
                PROVE  /\ rd'[sfd[c]] = c
                       /\ MxType = "epoll" /\ wr'[sfd[c]] = None => "r" \in ep'[sfd[c]]
                       /\ MxType = "epoll" /\ wr'[sfd[c]] # None => "w" \in ep'[sfd[c]]
    BY <1>2, <1>11 DEF WatchInv
  <2>. QED
    BY <1>1, <1>5, <1>12 DEF DescriptorsInv, WatchInv
<1>19. ServedInv'
  <2>. SUFFICES ASSUME NEW c \in Clients, Alive(c), c \notin gone, busy'[c]
                PROVE  Answering(c)' \/ Wakes(proc[c])'
    BY <1>11 DEF ServedInv
  <2>1. Answering(c) \/ Wakes(proc[c])
    BY <1>2, <1>5 DEF DescriptorsInv, ServedInv
  <2>2. Answering(c) => Answering(c)'
    BY <1>1, <1>2, <1>11, <1>12 DEF Answering
  <2>3. ASSUME Wakes(proc[c]) PROVE Wakes(proc[c])'
    <3>1. /\ proc[c] \in Pids /\ proc[c] \notin P /\ proc'[c] = proc[c]
          /\ psock'[proc[c]] = psock[proc[c]]
          /\ (desc'[proc[c]] <=> desc[proc[c]]) /\ cst'[proc[c]] = cst[proc[c]]
      BY <1>2, <1>9, <1>14, <2>3 DEF Wakes
    <3>2. Armed(proc[c])'
      <4>1. <<psock[proc[c]], "r">> \in toDel' => <<psock[proc[c]], "r">> \in toDel
        BY <1>13, <3>1
      <4>. QED
        BY <1>1, <1>10, <2>3, <3>1, <4>1 DEF Wakes, Armed
    <3>3. desc'[proc[c]] /\ ~({"read", "exited"} \subseteq cst'[proc[c]])
      BY <2>3, <3>1 DEF Wakes
    <3>. QED
      BY <3>1, <3>2, <3>3 DEF Wakes
  <2>. QED
    BY <2>1, <2>2, <2>3
<1>20. GoneInv' /\ DoneInv'
  BY <1>2, <1>9, <1>11 DEF DescriptorsInv, GoneInv, DoneInv
<1>. QED
  BY <1>15, <1>16, <1>17, <1>18, <1>19, <1>20 DEF DescriptorsInv

-----------------------------------------------------------------------------
(* The remaining steps open and register nothing.                           *)

LEMMA LoopKeepsDescriptors ==
  ASSUME IInv, CgiInv, DescriptorsInv,
         Stop \/ EndDispatch \/ KillLoop \/ EndWait \/ BadAlloc
  PROVE  DescriptorsInv'
<1>1. UNCHANGED <<rd, wr, ep, toDel, sfd, busy, proc, desc, cst, psock>>
  BY DEF Stop, EndDispatch, KillLoop, EndWait, BadAlloc, KillOverdue, EraseReaped
<1>2. ready' \subseteq ready /\ phase' \notin {"poll", "dispatch"}
  BY DEF Stop, EndDispatch, KillLoop, EndWait, BadAlloc
<1>3. \A c \in Clients : Alive(c) /\ closed[c] => closed'[c]
  BY Zenon DEF Stop, EndDispatch, KillLoop, EndWait, BadAlloc
<1>4. ASSUME NEW p \in Pids, p \in kids, child[p] \notin Reaped
      PROVE  p \in kids' /\ child'[p] \notin Reaped
  <2>1. CASE Stop \/ EndDispatch \/ BadAlloc
    BY <1>4, <2>1 DEF Stop, EndDispatch, BadAlloc
  <2>2. CASE KillLoop
    BY <1>4, <2>2 DEF KillLoop, KillOverdue, Killed, Reaped
  <2>3. CASE EndWait
    BY <1>4, <2>3 DEF EndWait, EraseReaped, CgiInv, ChildInv, Noted
  <2>. QED
    BY <2>1, <2>2, <2>3
<1>. QED
  BY <1>1, <1>2, <1>3, <1>4, NothingOpened

LEMMA WorldKeepsDescriptors ==
  ASSUME IInv, DescriptorsInv, WorldStep \/ UNCHANGED vars
  PROVE  DescriptorsInv'
<1>1. /\ UNCHANGED <<rd, wr, ep, toDel, ready, sfd, busy, closed, proc, desc, cst, psock, phase>>
      /\ UNCHANGED kids
  BY DEF WorldStep, vars, Connect, ClientSends, ClientCloses, ProcessStep, Tick, SigInt,
     ChildWrites, OutputCloses, ChildExits, ChildDies, Dies
<1>2. ASSUME NEW p \in Pids, child[p] \notin Reaped
      PROVE  child'[p] \notin Reaped
  <2>1. CASE UNCHANGED child
    BY <1>2, <2>1
  <2>2. ASSUME NEW q \in Pids, NEW how \in Zombie, NEW leaves, Dies(q, how, leaves)
        PROVE  child'[p] \notin Reaped
    BY <1>2, <2>2 DEF Dies, Zombie, Reaped, IInv, TypeOK, CpmTypeOK
  <2>3. CASE \E q \in Pids : ProcessStep(q)
    <3>1. PICK q \in Pids : ChildWrites(q) \/ OutputCloses(q) \/ ChildExits(q) \/ ChildDies(q)
      BY <2>3 DEF ProcessStep
    <3>2. CASE ChildWrites(q) \/ OutputCloses(q)
      BY <2>1, <3>2 DEF ChildWrites, OutputCloses
    <3>3. CASE ChildExits(q) \/ ChildDies(q)
      BY <2>2, <3>3 DEF ChildExits, ChildDies, Zombie
    <3>. QED
      BY <3>1, <3>2, <3>3
  <2>. QED
    BY <2>1, <2>3 DEF WorldStep, vars, Connect, ClientSends, ClientCloses, Tick, SigInt
<1>. QED
  BY <1>1, <1>2, NothingOpened

LEMMA SendKeepsDescriptors ==
  ASSUME IInv, DescriptorsInv, NEW c \in Clients, SendCb(c)
  PROVE  DescriptorsInv'
<1>1. /\ phase = "dispatch" /\ UNCHANGED <<rd, wr, sfd, phase>>
  BY DEF SendCb
<1>2. PICK f \in Fds : Dispatch(f, "w", c)
  BY DEF SendCb
<1>3. CASE SendFails(c)
  <2>1. \A d \in Clients : Alive(d) /\ closed[d] => closed'[d]
    BY <1>3, Zenon DEF SendFails, IInv, TypeOK
  <2>. QED
    BY <1>1, <1>2, <1>3, <2>1, NothingOpened DEF SendFails, Dispatch
<1>4. CASE SendsPart(c)
  BY <1>1, <1>2, <1>4, NothingOpened DEF SendsPart, Dispatch
<1>. QED
  BY <1>1, <1>2, <1>3, <1>4, SendsLastKeepsDescriptors DEF SendCb

LEMMA RecvKeepsDescriptors ==
  ASSUME IInv, DescriptorsInv, NEW c \in Clients, RecvCb(c)
  PROVE  DescriptorsInv'
<1>1. phase = "dispatch" /\ phase' = phase
  BY DEF RecvCb
<1>2. PICK f \in Fds : Dispatch(f, "r", c)
  BY DEF RecvCb
<1>3. CASE RecvFails(c)
  <2>1. \A d \in Clients : Alive(d) /\ closed[d] => closed'[d]
    BY <1>3, Zenon DEF RecvFails, IInv, TypeOK
  <2>. QED
    BY <1>1, <1>2, <1>3, <2>1, NothingOpened DEF RecvFails, Dispatch
<1>4. CASE RecvIgnored(c) \/ RecvPartial(c)
  BY <1>1, <1>2, <1>4, NothingOpened DEF RecvIgnored, RecvPartial, Received, Dispatch
<1>. QED
  BY <1>1, <1>2, <1>3, <1>4, AnsweredKeepsDescriptors, StartsCgiKeepsDescriptors DEF RecvCb

LEMMA DescriptorsNext ==
  IInv /\ CgiInv /\ DescriptorsInv /\ [Next]_vars => DescriptorsInv'
<1>. SUFFICES ASSUME IInv, CgiInv, DescriptorsInv, [Next]_vars PROVE DescriptorsInv'
  OBVIOUS
<1>1. CASE LoopStep
  BY <1>1, FlushKeepsDescriptors, PollKeepsDescriptors, LoopKeepsDescriptors,
     WaitLoopKeepsDescriptors, CheckClientsKeepsDescriptors, AcceptKeepsDescriptors,
     RecvKeepsDescriptors, SendKeepsDescriptors, CgiReadKeepsDescriptors DEF LoopStep
<1>2. CASE WorldStep \/ UNCHANGED vars
  BY <1>2, WorldKeepsDescriptors
<1>. QED
  BY <1>1, <1>2 DEF Next

-----------------------------------------------------------------------------
(* The theorems.                                                            *)

(* The invariant holds in every reachable state, for any number of clients, *)
(* children and descriptors, any multiplexer and any of the faults.         *)
THEOREM DescriptorsInductive == Spec => []DescriptorsInv
<1>. QED
  BY InitDescriptors, DescriptorsNext, Inductive, CgiInductive, PTL DEF Spec

(* A deletion queued by EventManager::DeleteCallbacksByFd never hits the    *)
(* reader of a session that exists or of a script that is being read, even  *)
(* after the descriptor was closed and handed out again.                    *)
THEOREM NoStaleDeletionHolds == Spec => []NoStaleDeletion
<1>1. DescriptorsInv => NoStaleDeletion
  BY DEF DescriptorsInv, DeletionInv, NoStaleDeletion
<1>. QED
  BY <1>1, DescriptorsInductive, PTL

(* The multiplexer never asks the kernel about a descriptor the server has  *)
(* closed.                                                                  *)
THEOREM WatchedFdsAreOpenHolds == Spec => []WatchedFdsAreOpen
<1>1. IInv /\ DescriptorsInv => WatchedFdsAreOpen
  <2>. SUFFICES ASSUME IInv, DescriptorsInv, phase \in {"poll", "dispatch"},
                       NEW f \in Fds, NEW t \in Types, Watched(f, t), f \notin OpenFds
                PROVE  FALSE
    BY DEF WatchedFdsAreOpen
  <2>1. rd[f] = None /\ wr[f] = None
    BY DEF FreeFds, DescriptorsInv, FreeInv, Unused
  <2>. QED
    BY <2>1 DEF Watched, Table, Types, IInv, EpInv
<1>. QED
  BY <1>1, Inductive, DescriptorsInductive, PTL

(* When the loop goes to sleep, every session that is not given up is       *)
(* watched for what it waits for, however often RegisterCallback and the    *)
(* deletions of CheckOnce_ rewrote the interest epoll keeps.                *)
THEOREM SessionsAreWatchedHolds == Spec => []SessionsAreWatched
<1>1. IInv /\ DescriptorsInv => SessionsAreWatched
  <2>. SUFFICES ASSUME IInv, DescriptorsInv, phase = "poll", NEW c \in Clients,
                       Alive(c), ~closed[c]
                PROVE  Watched(sfd[c], IF Answering(c) THEN "w" ELSE "r")
    BY DEF SessionsAreWatched
  <2>1. /\ rd[sfd[c]] = c
        /\ MxType = "epoll" /\ wr[sfd[c]] = None => "r" \in ep[sfd[c]]
        /\ MxType = "epoll" /\ wr[sfd[c]] # None => "w" \in ep[sfd[c]]
    BY DEF DescriptorsInv, WatchInv
  <2>2. CASE Answering(c)
    BY <2>1, <2>2 DEF Answering, Watched, Table
  <2>3. CASE ~Answering(c)
    <3>1. toDel = {} /\ sfd[c] \in Fds
      BY DEF IInv, PollInv, TypeOK, Alive
    <3>2. wr[sfd[c]] = None
      <4>1. wr[sfd[c]] # None => wr[sfd[c]] \in Clients /\ WriterLive(sfd[c])
        BY <3>1 DEF IInv, WrInv
      <4>2. wr[sfd[c]] # None => wr[sfd[c]] = c
        BY <4>1 DEF WriterLive, DescriptorsInv, DistinctInv, Alive
      <4>. QED
        BY <2>3, <3>1, <4>2 DEF Answering
    <3>. QED
      BY <2>1, <2>3, <3>2 DEF Watched, Table
  <2>. QED
    BY <2>2, <2>3
<1>. QED
  BY <1>1, Inductive, DescriptorsInductive, PTL

(* A busy session that is not given up has an answer on its way or a script *)
(* whose outstanding notifications are all armed: nobody is forgotten.      *)
THEOREM EveryRequestIsServedHolds == Spec => []EveryRequestIsServed
<1>1. DescriptorsInv => EveryRequestIsServed
  BY DEF DescriptorsInv, ServedInv, Wakes, EveryRequestIsServed
<1>. QED
  BY <1>1, DescriptorsInductive, PTL

-----------------------------------------------------------------------------
(* Without faults no session is given up but because its client left, was   *)
(* idle too long, or was told that the connection closes.  The inductive    *)
(* invariant: what the batch and the wait loop have yet to come to is still *)
(* as it was when they were formed.                                         *)

(* Nothing else reads from a session whose read event is in the batch.      *)
BatchReadable ==
    phase = "dispatch" =>
        \A c \in Clients :
            Alive(c) /\ <<sfd[c], "r">> \in ready => ClientReadable(c)

(* Nothing else erases an entry the wait loop has not come to.              *)
TodoTracked == phase = "wait" => todo \subseteq kids /\ todo \cap reapedNow = {}

ClosingInv == BatchReadable /\ TodoTracked

-----------------------------------------------------------------------------
(* A step of the batch that neither opens a session nor receives.           *)
LEMMA BatchShrinks ==
  ASSUME IInv, ClosingInv, phase = "dispatch", phase' = phase,
         ready' \subseteq ready, UNCHANGED <<inbox, conn, sfd>>
  PROVE  ClosingInv'
BY DEF ClosingInv, BatchReadable, TodoTracked, ClientReadable, Alive

LEMMA PollFormsBatch ==
  ASSUME IInv, DescriptorsInv, Poll
  PROVE  ClosingInv'
<1>1. /\ phase' = "dispatch" /\ UNCHANGED <<inbox, conn, sfd>>
      /\ \A f \in Fds : <<f, "r">> \in ready' => Readable(f)
  BY DEF Poll
<1>2. ASSUME NEW c \in Clients, Alive(c), Readable(sfd[c]) PROVE ClientReadable(c)
  <2>1. sfd[c] # ListenFd /\ \A p \in Pids : psock[p] # sfd[c]
    BY <1>2 DEF Alive, DescriptorsInv, DistinctInv, IInv, FdsInv
  <2>2. PICK d \in Clients : sfd[d] = sfd[c] /\ ClientReadable(d)
    BY <1>2, <2>1 DEF Readable
  <2>. QED
    BY <1>2, <2>2 DEF Alive, DescriptorsInv, DistinctInv
<1>3. \A c \in Clients : Alive(c) => sfd[c] \in Fds
  BY DEF Alive, IInv, TypeOK
<1>. QED
  BY <1>1, <1>2, <1>3 DEF ClosingInv, BatchReadable, TodoTracked, ClientReadable, Alive

LEMMA AcceptKeepsBatch ==
  ASSUME IInv, DescriptorsInv, ClosingInv, AcceptCb
  PROVE  ClosingInv'
<1>1. phase = "dispatch" /\ phase' = phase /\ ready' \subseteq ready /\ inbox' = inbox
  BY DEF AcceptCb, Dispatch
<1>2. CASE UNCHANGED <<conn, sfd>>
  BY <1>1, <1>2, BatchShrinks
<1>3. CASE \E c \in Clients, f \in FreeFds :
             /\ conn[c] = "waiting" /\ conn' = [conn EXCEPT ![c] = "up"]
             /\ sfd' = [sfd EXCEPT ![c] = f]
  <2>1. PICK c \in Clients, f \in FreeFds :
             /\ conn[c] = "waiting" /\ conn' = [conn EXCEPT ![c] = "up"]
             /\ sfd' = [sfd EXCEPT ![c] = f]
    BY <1>3
  <2>2. f \in Fds /\ rd[f] = None
    BY <1>1 DEF DescriptorsInv, FreeInv, Unused, FreeFds
  <2>3. <<f, "r">> \notin ready'
    BY <1>1, <2>2 DEF IInv, ReadyInv
  <2>4. sfd'[c] = f /\ \A d \in Clients : d # c => sfd'[d] = sfd[d] /\ conn'[d] = conn[d]
    BY <2>1 DEF IInv, TypeOK
  <2>. QED
    BY <1>1, <2>3, <2>4 DEF ClosingInv, BatchReadable, TodoTracked, ClientReadable, Alive
<1>. QED
  BY <1>2, <1>3 DEF AcceptCb

LEMMA RecvKeepsBatch ==
  ASSUME IInv, DescriptorsInv, ClosingInv, NEW c \in Clients, RecvCb(c)
  PROVE  ClosingInv'
<1>1. phase = "dispatch" /\ phase' = phase
  BY DEF RecvCb
<1>2. PICK f \in Fds : Dispatch(f, "r", c)
  BY DEF RecvCb
<1>3. sfd[c] = f /\ ready' = ready \ {<<f, "r">>}
  BY <1>1, <1>2, ReaderTurn DEF Dispatch
<1>4. /\ UNCHANGED <<conn, sfd>>
      /\ \A d \in Clients : d # c => inbox'[d] = inbox[d]
  BY DEF RecvCb, RecvIgnored, RecvFails, RecvPartial, RecvAnswered, RecvStartsCgi,
     Received, IInv, TypeOK
<1>. QED
  BY <1>1, <1>3, <1>4 DEF ClosingInv, BatchReadable, TodoTracked, ClientReadable, Alive

LEMMA WaitLoopKeepsTodo ==
  ASSUME ClosingInv, WaitLoop
  PROVE  ClosingInv'
<1>1. phase = "wait" /\ phase' = phase
  BY DEF WaitLoop
<1>2. PICK p \in Pids : WaitMisses(p)
                        \/ (Reap(p) /\ \E c \in Clients : ChildDoneCb(p, c))
  BY DEF WaitLoop
<1>3. /\ kids' = kids /\ todo' = todo \ {p} /\ reapedNow' \subseteq reapedNow \cup {p}
  BY <1>2 DEF WaitMisses, Reap
<1>. QED
  BY <1>1, <1>3 DEF ClosingInv, BatchReadable, TodoTracked

LEMMA ClosingNext ==
  IInv /\ DescriptorsInv /\ ClosingInv /\ [Next]_vars => ClosingInv'
<1>. SUFFICES ASSUME IInv, DescriptorsInv, ClosingInv, [Next]_vars PROVE ClosingInv'
  OBVIOUS
<1>1. CASE Flush \/ Stop \/ EndDispatch \/ EndWait \/ CheckClients \/ BadAlloc
  <2>1. phase' \notin {"dispatch", "wait"}
    BY <1>1 DEF Flush, Stop, EndDispatch, EndWait, CheckClients, BadAlloc
  <2>. QED
    BY <2>1 DEF ClosingInv, BatchReadable, TodoTracked
<1>2. CASE KillLoop
  BY <1>2 DEF KillLoop, KillOverdue, ClosingInv, BatchReadable, TodoTracked
<1>3. ASSUME NEW c \in Clients, SendCb(c) PROVE ClosingInv'
  BY <1>3, BatchShrinks DEF SendCb, Dispatch
<1>4. ASSUME NEW p \in Pids, CgiReadCb(p) PROVE ClosingInv'
  BY <1>4, BatchShrinks DEF CgiReadCb, Dispatch
<1>5. CASE UNCHANGED <<phase, ready, sfd, kids, todo, reapedNow, conn, inbox>>
  BY <1>5 DEF ClosingInv, BatchReadable, TodoTracked, ClientReadable, Alive
<1>6. ASSUME NEW c \in Clients, Connect(c) PROVE ClosingInv'
  <2>1. ~Alive(c) /\ \A d \in Clients : d # c => conn'[d] = conn[d]
    BY <1>6 DEF Connect, Alive, IInv, TypeOK, ConnInv
  <2>. QED
    BY <1>6, <2>1 DEF Connect, ClosingInv, BatchReadable, TodoTracked, ClientReadable, Alive
<1>7. ASSUME NEW c \in Clients, ClientSends(c) PROVE ClosingInv'
  <2>1. inbox'[c] /\ \A d \in Clients : d # c => inbox'[d] = inbox[d]
    BY <1>7 DEF ClientSends, IInv, TypeOK
  <2>. QED
    BY <1>7, <2>1 DEF ClientSends, ClosingInv, BatchReadable, TodoTracked, ClientReadable,
       Alive
<1>8. ASSUME NEW c \in Clients, ClientCloses(c) PROVE ClosingInv'
  <2>1. conn'[c] = "gone" /\ \A d \in Clients : d # c => conn'[d] = conn[d]
    BY <1>8 DEF ClientCloses, IInv, TypeOK
  <2>. QED
    BY <1>8, <2>1 DEF ClientCloses, ClosingInv, BatchReadable, TodoTracked, ClientReadable,
       Alive
<1>9. CASE Tick \/ SigInt \/ UNCHANGED vars \/ \E p \in Pids : ProcessStep(p)
  <2>1. UNCHANGED <<phase, ready, sfd, kids, todo, reapedNow, conn, inbox>>
    BY <1>9 DEF Tick, SigInt, vars, ProcessStep, ChildWrites, OutputCloses, ChildExits,
       ChildDies, Dies
  <2>. QED
    BY <1>5, <2>1
<1>10. CASE LoopStep
  BY <1>1, <1>2, <1>3, <1>4, <1>10, PollFormsBatch, AcceptKeepsBatch, RecvKeepsBatch,
     WaitLoopKeepsTodo DEF LoopStep
<1>11. CASE WorldStep
  BY <1>6, <1>7, <1>8, <1>9, <1>11 DEF WorldStep
<1>. QED
  BY <1>9, <1>10, <1>11 DEF Next

-----------------------------------------------------------------------------
(* Who may give a session up.                                               *)

Justified(c) ==
    \/ conn[c] = "gone"
    \/ phase = "clients" /\ age[c] > KeepAlive
    \/ Answering(c) /\ closeAfter[c] /\ ~busy'[c]

Closes(c) == Alive(c) /\ ~closed[c] /\ closed'[c]

(* A write callback is refused only where one is registered.                *)
LEMMA ResponseIsAccepted ==
  ASSUME Faults = {}, NEW c \in Clients, wr[sfd[c]] = None,
         NEW close \in BOOLEAN, PrepareResponse(c, close)
  PROVE  closed' = closed
BY DEF PrepareResponse, MayRefuse, Table

LEMMA WriterSlotFree ==
  ASSUME IInv, DescriptorsInv, NEW c \in Clients, Alive(c),
         ~busy[c] \/ (proc[c] # None /\ desc[proc[c]]),
         <<sfd[c], "w">> \notin toDel
  PROVE  wr[sfd[c]] = None
<1>1. sfd[c] \in Fds
  BY DEF Alive, IInv, TypeOK
<1>2. SUFFICES ASSUME wr[sfd[c]] # None PROVE FALSE
  OBVIOUS
<1>3. wr[sfd[c]] \in Clients /\ WriterLive(sfd[c])
  BY <1>1, <1>2 DEF IInv, WrInv
<1>4. wr[sfd[c]] = c
  BY <1>3 DEF WriterLive, DescriptorsInv, DistinctInv, Alive
<1>. QED
  BY <1>3, <1>4 DEF WriterLive

LEMMA AcceptJustified ==
  ASSUME IInv, AcceptCb, NEW c \in Clients, Closes(c)
  PROVE  FALSE
<1>1. PICK d \in Clients : conn[d] = "waiting" /\ closed' = [closed EXCEPT ![d] = TRUE]
  BY DEF AcceptCb, Closes
<1>2. ~Alive(d)
  BY <1>1 DEF IInv, ConnInv, Alive
<1>. QED
  BY <1>1, <1>2 DEF Closes, IInv, TypeOK

LEMMA RecvJustified ==
  ASSUME Faults = {}, IInv, DescriptorsInv, ClosingInv,
         NEW c \in Clients, RecvCb(c), NEW d \in Clients, Closes(d)
  PROVE  Justified(d)
<1>1. phase = "dispatch"
  BY DEF RecvCb
<1>2. PICK f \in Fds : Dispatch(f, "r", c)
  BY DEF RecvCb
<1>3. /\ Alive(c) /\ sfd[c] = f /\ <<sfd[c], "w">> \notin toDel
      /\ <<sfd[c], "r">> \in ready
  BY <1>1, <1>2, ReaderTurn DEF Dispatch, Turn
<1>4. CASE RecvFails(c)
  <2>1. ClientReadable(c)
    BY <1>1, <1>3 DEF ClosingInv, BatchReadable
  <2>2. conn[c] = "gone" /\ closed' = [closed EXCEPT ![c] = TRUE]
    BY <1>4, <2>1 DEF RecvFails
  <2>3. d = c
    BY <2>2 DEF Closes, IInv, TypeOK
  <2>. QED
    BY <2>2, <2>3 DEF Justified
<1>5. ~busy[c] => wr[sfd[c]] = None
  BY <1>3, WriterSlotFree
<1>6. CASE RecvAnswered(c)
  <2>1. ~busy[c] /\ \E close \in BOOLEAN : PrepareResponse(c, close)
    BY <1>6 DEF RecvAnswered, Received
  <2>. QED
    BY <1>5, <2>1, ResponseIsAccepted DEF Closes
<1>7. CASE RecvStartsCgi(c)
  <2>1. PICK g \in FreeFds :
          /\ g \in FreeFds
          /\ closed' = closed \/ MayRefuse(g, "r")
    BY <1>7 DEF RecvStartsCgi
  <2>2. rd[g] = None
    BY <1>1 DEF DescriptorsInv, FreeInv, Unused
  <2>. QED
    BY <2>1, <2>2 DEF MayRefuse, Table, Closes
<1>. QED
  BY <1>4, <1>6, <1>7 DEF RecvCb, RecvIgnored, RecvPartial, Received, Closes

LEMMA SendJustified ==
  ASSUME Faults = {}, IInv, NEW c \in Clients, SendCb(c),
         NEW d \in Clients, Closes(d)
  PROVE  Justified(d)
<1>1. phase = "dispatch"
  BY DEF SendCb
<1>2. PICK f \in Fds : Dispatch(f, "w", c)
  BY DEF SendCb
<1>3. wr[f] = c /\ sfd[c] = f /\ <<f, "w">> \in ready
  BY <1>1, <1>2, WriterCalled DEF WriterLive, Dispatch, Turn
<1>4. CASE SendFails(c)
  <2>1. conn[c] = "gone" /\ closed' = [closed EXCEPT ![c] = TRUE]
    BY <1>4 DEF SendFails
  <2>2. d = c
    BY <2>1 DEF Closes, IInv, TypeOK
  <2>. QED
    BY <2>1, <2>2 DEF Justified
<1>5. CASE SendsLast(c)
  <2>1. /\ closed' = [closed EXCEPT ![c] = @ \/ closeAfter[c]]
        /\ busy' = [busy EXCEPT ![c] = FALSE]
    BY <1>5 DEF SendsLast
  <2>2. d = c /\ closeAfter[c]
    BY <2>1, Zenon DEF Closes, IInv, TypeOK
  <2>3. ~busy'[c]
    BY <2>1, Zenon DEF IInv, TypeOK
  <2>4. Answering(c)
    BY <1>1, <1>2, <1>3, <2>2 DEF Answering, Closes, IInv, ReadyInv
  <2>. QED
    BY <2>2, <2>3, <2>4 DEF Justified
<1>. QED
  BY <1>4, <1>5 DEF SendCb, SendsPart, Closes

LEMMA CgiReadJustified ==
  ASSUME Faults = {}, IInv, DescriptorsInv, NEW p \in Pids, CgiReadCb(p),
         NEW d \in Clients, Closes(d)
  PROVE  FALSE
<1>1. PICK c \in Clients : /\ proc[c] = p
                           /\ CgiRecvFails(p, c) \/ CgiReads(p) \/ CgiOutputEnds(p, c)
  BY DEF CgiReadCb
<1>2. desc[p]
  BY DEF CgiReadCb
<1>3. Alive(c) /\ busy[c] /\ proc[c] # None
  BY <1>1 DEF IInv, ProcInv, Alive
<1>4. wr[sfd[c]] = None
  BY <1>1, <1>2, <1>3, WriterSlotFree DEF DescriptorsInv, DeletionInv
<1>5. closed' = closed \/ \E close \in BOOLEAN : PrepareResponse(c, close)
  BY <1>1 DEF CgiRecvFails, FailCgi, CgiReads, CgiOutputEnds, ProceedWithRsIfRdy
<1>. QED
  BY <1>4, <1>5, ResponseIsAccepted DEF Closes

LEMMA WaitLoopJustified ==
  ASSUME Faults = {}, IInv, CgiInv, DescriptorsInv, ClosingInv, WaitLoop,
         NEW d \in Clients, Closes(d)
  PROVE  FALSE
<1>1. PICK p \in Pids, c \in Clients :
          Reap(p) /\ proc[c] = p /\ ChildDoneCb(p, c)
  BY DEF WaitLoop, Closes
<1>2. phase = "wait" /\ p \in todo
  BY <1>1 DEF WaitLoop, Reap
<1>3. p \in kids /\ p \notin reapedNow
  BY <1>2 DEF ClosingInv, TodoTracked
<1>4. desc[p]
  BY <1>3 DEF CgiInv, ChildInv, EntryLive
<1>5. Alive(c) /\ busy[c] /\ proc[c] # None
  BY <1>1 DEF IInv, ProcInv, Alive
<1>6. wr[sfd[c]] = None
  BY <1>1, <1>4, <1>5, WriterSlotFree DEF DescriptorsInv, DeletionInv
<1>7. closed' = closed \/ \E close \in BOOLEAN : PrepareResponse(c, close)
  BY <1>1 DEF ChildDoneCb, FailCgi, ProceedWithRsIfRdy
<1>. QED
  BY <1>6, <1>7, ResponseIsAccepted DEF Closes

LEMMA ClosingIsJustified ==
  Faults = {} /\ IInv /\ CgiInv /\ DescriptorsInv /\ ClosingInv /\ [Next]_vars =>
      \A c \in Clients : Closes(c) => Justified(c)
<1>. SUFFICES ASSUME Faults = {}, IInv, CgiInv, DescriptorsInv, ClosingInv, [Next]_vars,
                     NEW c \in Clients, Closes(c)
              PROVE  Justified(c)
  OBVIOUS
<1>1. CASE CheckClients
  BY <1>1 DEF CheckClients, Closes, Justified, Idle
<1>2. ~BadAlloc
  BY DEF BadAlloc
<1>3. CASE Flush \/ Stop \/ Poll \/ EndDispatch \/ KillLoop \/ EndWait
           \/ UNCHANGED vars
  BY <1>3 DEF Flush, Stop, Poll, EndDispatch, KillLoop, EndWait, vars, Closes
<1>4. CASE WorldStep
  BY <1>4 DEF WorldStep, Connect, ClientSends, ClientCloses, ProcessStep, Tick, SigInt,
     Closes
<1>5. CASE LoopStep
  BY <1>1, <1>2, <1>3, <1>5, AcceptJustified, RecvJustified, SendJustified,
     CgiReadJustified, WaitLoopJustified DEF LoopStep
<1>. QED
  BY <1>3, <1>4, <1>5 DEF Next

-----------------------------------------------------------------------------
(* The theorem.                                                             *)

(* When no call fails, a session is given up only because the client left,  *)
(* because it was idle beyond the keep-alive time, or because the response  *)
(* just completed asked for it: a registration is never refused, and a      *)
(* reported socket is never found empty.                                    *)
THEOREM CloseIsJustifiedHolds ==
  ASSUME Faults = {} PROVE Spec => CloseIsJustified
<1>1. Init => ClosingInv
  BY DEF Init, ClosingInv, BatchReadable, TodoTracked
<1>2. IInv /\ CgiInv /\ DescriptorsInv /\ ClosingInv /\ [Next]_vars =>
        [\A c \in Clients :
           Alive(c) /\ ~closed[c] /\ closed'[c] =>
             \/ conn[c] = "gone"
             \/ phase = "clients" /\ age[c] > KeepAlive
             \/ Answering(c) /\ closeAfter[c] /\ ~busy'[c]]_vars
  BY ClosingIsJustified DEF Closes, Justified
<1>. QED
  BY <1>1, <1>2, ClosingNext, Inductive, CgiInductive, DescriptorsInductive, PTL
     DEF Spec, CloseIsJustified

-----------------------------------------------------------------------------
(* The cluster implements HttpService: every step of the loop, of a script  *)
(* or of a client is a step of the service or changes nothing of it.        *)
USE FdsAssumption, MxTypeAssumption, ReferentsAssumption, CgiTimeoutAssumption,
    ClusterAssumption
USE DEF emVars, osVars, cpmVars, netVars, sessVars, cgiVars, worldVars

(* The service's variables, as the cluster implements them.                 *)
Stage == [c \in Clients |-> ServiceState(c)]
Rest == [c \in Clients |-> left[c]]

(* What a step may do to one session, as the service sees it.               *)
Same(c) == ServiceState(c)' = ServiceState(c) /\ left'[c] = left[c]
Opens(c) ==
    /\ ServiceState(c) = "none" /\ ServiceState(c)' = "ready"
    /\ left'[c] = left[c]
Takes(c) ==
    /\ ServiceState(c) = "ready" /\ ServiceState(c)' = "working"
    /\ left'[c] = left[c]
Begins(c) ==
    /\ ServiceState(c) \in {"ready", "working"} /\ ServiceState(c)' = "answering"
    /\ left'[c] \in 1 .. MaxUnits
Shrinks(c) ==
    /\ ServiceState(c) = "answering" /\ ServiceState(c)' = "answering"
    /\ left'[c] \in 1 .. MaxUnits /\ left'[c] < left[c]
Finishes(c) ==
    /\ ServiceState(c) = "answering" /\ ServiceState(c)' = "ready"
    /\ left'[c] = 0

Moves(c) ==
    Same(c) \/ Opens(c) \/ Takes(c) \/ Begins(c) \/ Shrinks(c) \/ Finishes(c)

LEMMA NobodyMoves ==
  ASSUME \A c \in Clients : Same(c)
  PROVE  [Service!ServiceNext]_<<Stage, Rest>>
BY DEF Same, Stage, Rest

LEMMA OneMoves ==
  ASSUME NEW c \in Clients, Moves(c), \A d \in Clients : d # c => Same(d)
  PROVE  [Service!ServiceNext]_<<Stage, Rest>>
<1>1. Stage' = [Stage EXCEPT ![c] = ServiceState(c)']
  BY DEF Stage, Same
<1>2. Rest' = [Rest EXCEPT ![c] = left'[c]]
  BY DEF Rest, Same
<1>3. left'[c] = left[c] => Rest' = Rest
  BY DEF Rest, Same
<1>4. ServiceState(c)' = ServiceState(c) => Stage' = Stage
  BY DEF Stage, Same
<1>5. Stage[c] = ServiceState(c) /\ Rest[c] = left[c]
  BY DEF Stage, Rest
<1>6. CASE Same(c)
  BY <1>6, NobodyMoves
<1>7. CASE Opens(c)
  <2>1. Service!Open(c)
    BY <1>1, <1>3, <1>5, <1>7 DEF Opens, Service!Open, Stage, Rest
  <2>. QED
    BY <2>1 DEF Service!ServiceNext
<1>8. CASE Takes(c)
  <2>1. Service!Take(c)
    BY <1>1, <1>3, <1>5, <1>8 DEF Takes, Service!Take, Stage, Rest
  <2>. QED
    BY <2>1 DEF Service!ServiceNext
<1>9. CASE Begins(c)
  <2>1. Service!Answer(c)
    BY <1>1, <1>2, <1>5, <1>9 DEF Begins, Service!Answer, Stage, Rest
  <2>. QED
    BY <2>1 DEF Service!ServiceNext
<1>10. CASE Shrinks(c)
  <2>1. Service!SendPart(c)
    BY <1>2, <1>4, <1>5, <1>10 DEF Shrinks, Service!SendPart, Stage, Rest
  <2>. QED
    BY <2>1 DEF Service!ServiceNext
<1>11. CASE Finishes(c)
  <2>1. Service!Finish(c)
    BY <1>1, <1>2, <1>5, <1>11 DEF Finishes, Service!Finish, Stage, Rest
  <2>. QED
    BY <2>1 DEF Service!ServiceNext
<1>. QED
  BY <1>6, <1>7, <1>8, <1>9, <1>10, <1>11 DEF Moves

(* What the service sees of a session.                                      *)
Unseen(c) ==
    /\ Alive(c)' <=> Alive(c)
    /\ conn'[c] = "ended" <=> conn[c] = "ended"
    /\ busy'[c] <=> busy[c]
    /\ Answering(c)' <=> Answering(c)
    /\ left'[c] = left[c]

LEMMA UnseenSame ==
  ASSUME NEW c \in Clients, Unseen(c)
  PROVE  Same(c)
BY DEF Unseen, Same, ServiceState

LEMMA UnseenStep ==
  ASSUME UNCHANGED <<sfd, busy, left, wr, toDel>>,
         \A c \in Clients : conn'[c] = "ended" <=> conn[c] = "ended"
  PROVE  [Service!ServiceNext]_<<Stage, Rest>>
<1>1. ASSUME NEW c \in Clients PROVE Unseen(c)
  BY DEF Unseen, Answering, Alive
<1>. QED
  BY <1>1, UnseenSame, NobodyMoves

-----------------------------------------------------------------------------
(* Requests are taken and answered.                                         *)

(* A response is registered for c, or nothing is.                           *)
WriterOf(c) ==
    \/ /\ wr[sfd[c]] = None /\ wr'[sfd[c]] = c
       /\ \A g \in Fds : g # sfd[c] => wr'[g] = wr[g]
       /\ left'[c] \in 1 .. MaxUnits
       /\ \A d \in Clients : d # c => left'[d] = left[d]
    \/ wr' = wr /\ left' = left

LEMMA WriterPrepared ==
  ASSUME TypeOK, NEW c \in Clients, sfd[c] \in Fds, NEW close, PrepareResponse(c, close)
  PROVE  WriterOf(c)
<1>1. CASE RegisterWrite(sfd[c], c) /\ \E n \in 1 .. MaxUnits : left' = [left EXCEPT ![c] = n]
  BY <1>1 DEF RegisterWrite, CanRegister, Table, WriterOf, TypeOK, EmTypeOK
<1>2. CASE UNCHANGED <<wr, left>>
  BY <1>2 DEF WriterOf
<1>. QED
  BY <1>1, <1>2 DEF PrepareResponse

LEMMA SessionMoves ==
  ASSUME IInv, DescriptorsInv, NEW c \in Clients, Alive(c), WriterOf(c),
         UNCHANGED <<sfd, conn>>, busy'[c],
         \A d \in Clients : d # c => (busy'[d] <=> busy[d]),
         \A d \in Clients : Alive(d) =>
             (<<sfd[d], "w">> \in toDel' <=> <<sfd[d], "w">> \in toDel),
         <<sfd[c], "w">> \notin toDel
  PROVE  [Service!ServiceNext]_<<Stage, Rest>>
<1>1. sfd[c] \in Fds /\ \A d \in Clients : Alive(d)' <=> Alive(d)
  BY DEF IInv, TypeOK, Alive
<1>2. ASSUME NEW d \in Clients, d # c PROVE Same(d)
  <2>1. Alive(d) => sfd[d] \in Fds /\ sfd[d] # sfd[c]
    BY <1>1, <1>2 DEF IInv, TypeOK, DescriptorsInv, DistinctInv, Alive
  <2>2. left'[d] = left[d] /\ (Alive(d) => wr'[sfd[d]] = wr[sfd[d]])
    BY <1>2, <2>1 DEF WriterOf
  <2>3. Answering(d)' <=> Answering(d)
    BY <1>1, <2>2 DEF Answering
  <2>4. Unseen(d)
    BY <1>1, <1>2, <2>2, <2>3 DEF Unseen
  <2>. QED
    BY <2>4, UnseenSame
<1>3. CASE wr[sfd[c]] = None /\ wr'[sfd[c]] = c /\ left'[c] \in 1 .. MaxUnits
  <2>1. ~Answering(c) /\ Answering(c)'
    BY <1>1, <1>3 DEF Answering
  <2>2. Begins(c)
    BY <1>1, <1>3, <2>1 DEF Begins, ServiceState
  <2>. QED
    BY <1>2, <2>2, OneMoves DEF Moves
<1>4. CASE wr' = wr /\ left' = left
  <2>1. Answering(c)' <=> Answering(c)
    BY <1>1, <1>4 DEF Answering
  <2>2. CASE busy[c]
    <3>1. Unseen(c)
      BY <1>1, <1>4, <2>1, <2>2 DEF Unseen
    <3>. QED
      BY <1>2, <3>1, UnseenSame, OneMoves DEF Moves
  <2>3. CASE ~busy[c]
    <3>1. ~Answering(c)
      BY <2>3, NotYetAnswered
    <3>2. Takes(c)
      BY <1>1, <1>4, <2>1, <2>3, <3>1 DEF Takes, ServiceState
    <3>. QED
      BY <1>2, <3>2, OneMoves DEF Moves
  <2>. QED
    BY <2>2, <2>3
<1>. QED
  BY <1>3, <1>4 DEF WriterOf

LEMMA RecvServes ==
  ASSUME IInv, DescriptorsInv, NEW c \in Clients, RecvCb(c)
  PROVE  [Service!ServiceNext]_<<Stage, Rest>>
<1>1. phase = "dispatch"
  BY DEF RecvCb
<1>2. PICK f \in Fds : Dispatch(f, "r", c)
  BY DEF RecvCb
<1>3. Alive(c) /\ sfd[c] \in Fds /\ <<sfd[c], "w">> \notin toDel
  BY <1>1, <1>2, ReaderTurn
<1>4. CASE RecvIgnored(c) \/ RecvFails(c) \/ RecvPartial(c)
  <2>1. UNCHANGED <<sfd, busy, left, wr, toDel, conn>>
    BY <1>4 DEF RecvIgnored, RecvFails, RecvPartial, Received
  <2>. QED
    BY <2>1, UnseenStep
<1>5. CASE RecvAnswered(c) \/ RecvStartsCgi(c)
  <2>1. busy' = [busy EXCEPT ![c] = TRUE] /\ UNCHANGED <<sfd, conn, toDel>>
    BY <1>5 DEF RecvAnswered, RecvStartsCgi, Received
  <2>2. busy'[c] /\ \A d \in Clients : d # c => (busy'[d] <=> busy[d])
    BY <2>1, Zenon DEF IInv, TypeOK
  <2>3. WriterOf(c)
    <3>1. CASE RecvAnswered(c)
      BY <1>3, <3>1, WriterPrepared DEF RecvAnswered, IInv
    <3>2. CASE RecvStartsCgi(c)
      <4>1. UNCHANGED <<wr, left>> \/ PrepareResponse(c, TRUE)
        BY <3>2 DEF RecvStartsCgi
      <4>. QED
        BY <1>3, <4>1, WriterPrepared DEF WriterOf, IInv
    <3>. QED
      BY <1>5, <3>1, <3>2
  <2>. QED
    BY <1>3, <2>1, <2>2, <2>3, SessionMoves
<1>. QED
  BY <1>4, <1>5 DEF RecvCb

(* The end of a script's life answers its session, or does not yet.         *)
LEMMA ScriptServes ==
  ASSUME IInv, DescriptorsInv, NEW p \in Pids, NEW c \in Clients, proc[c] = p,
         UNCHANGED <<sfd, busy, conn>>,
         toDel' = toDel \/ toDel' = toDel \cup Both({psock[p]}),
         \/ FailCgi(p, c)
         \/ \E s \in {"read", "exited"} : ProceedWithRsIfRdy(p, c, cst[p] \cup {s})
  PROVE  [Service!ServiceNext]_<<Stage, Rest>>
<1>1. Alive(c) /\ sfd[c] \in Fds /\ busy[c]
  BY DEF IInv, ProcInv, TypeOK, Alive
<1>2. <<sfd[c], "w">> \notin toDel
  BY <1>1 DEF DescriptorsInv, DeletionInv
<1>3. \A d \in Clients : Alive(d) => sfd[d] # psock[p]
  BY DEF IInv, FdsInv, Alive
<1>4. \A d \in Clients : Alive(d) =>
        (<<sfd[d], "w">> \in toDel' <=> <<sfd[d], "w">> \in toDel)
  BY <1>3 DEF Both
<1>5. UNCHANGED <<wr, left>> \/ \E close \in BOOLEAN : PrepareResponse(c, close)
  BY DEF FailCgi, ProceedWithRsIfRdy
<1>6. WriterOf(c)
  BY <1>1, <1>5, WriterPrepared DEF WriterOf, IInv
<1>7. busy'[c] /\ \A d \in Clients : busy'[d] <=> busy[d]
  BY <1>1
<1>. QED
  BY <1>1, <1>2, <1>4, <1>6, <1>7, SessionMoves

LEMMA CgiReadServes ==
  ASSUME IInv, DescriptorsInv, NEW p \in Pids, CgiReadCb(p)
  PROVE  [Service!ServiceNext]_<<Stage, Rest>>
<1>1. UNCHANGED <<sfd, busy, conn>>
  BY DEF CgiReadCb
<1>2. PICK c \in Clients : /\ proc[c] = p
                           /\ CgiRecvFails(p, c) \/ CgiReads(p) \/ CgiOutputEnds(p, c)
  BY DEF CgiReadCb
<1>3. CASE CgiRecvFails(p, c)
  BY <1>1, <1>2, <1>3, ScriptServes DEF CgiRecvFails, FailCgi
<1>4. CASE CgiReads(p)
  BY <1>1, <1>4, UnseenStep DEF CgiReads
<1>5. CASE CgiOutputEnds(p, c)
  BY <1>1, <1>2, <1>5, ScriptServes DEF CgiOutputEnds
<1>. QED
  BY <1>2, <1>3, <1>4, <1>5

LEMMA WaitServes ==
  ASSUME IInv, DescriptorsInv, WaitLoop
  PROVE  [Service!ServiceNext]_<<Stage, Rest>>
<1>1. UNCHANGED <<sfd, busy, conn>>
  BY DEF WaitLoop
<1>2. CASE UNCHANGED <<wr, toDel, left>>
  BY <1>1, <1>2, UnseenStep
<1>3. ASSUME NEW p \in Pids, NEW c \in Clients, proc[c] = p, ChildDoneCb(p, c)
      PROVE  [Service!ServiceNext]_<<Stage, Rest>>
  BY <1>1, <1>3, ScriptServes DEF ChildDoneCb, FailCgi
<1>. QED
  BY <1>2, <1>3 DEF WaitLoop

-----------------------------------------------------------------------------
(* Responses are sent, sessions come and go.                                *)

LEMMA SendServes ==
  ASSUME IInv, DescriptorsInv, NEW c \in Clients, SendCb(c)
  PROVE  [Service!ServiceNext]_<<Stage, Rest>>
<1>1. phase = "dispatch" /\ UNCHANGED <<wr, sfd, conn>>
  BY DEF SendCb
<1>2. PICK f \in Fds : Dispatch(f, "w", c)
  BY DEF SendCb
<1>3. wr[f] = c /\ WriterLive(f) /\ <<f, "w">> \in ready
  BY <1>1, <1>2, WriterCalled DEF Dispatch, Turn
<1>4. sfd[c] = f /\ Alive(c) /\ busy[c] /\ <<f, "w">> \notin toDel
  BY <1>1, <1>3 DEF WriterLive, Alive, IInv, ReadyInv
<1>5. ServiceState(c) = "answering"
  BY <1>3, <1>4 DEF ServiceState, Answering
<1>6. CASE SendFails(c)
  BY <1>1, <1>6, UnseenStep DEF SendFails
<1>7. CASE SendsPart(c)
  <2>1. UNCHANGED <<toDel, busy>>
    BY <1>7 DEF SendsPart
  <2>2. PICK n \in 1 .. MaxUnits : n < left[c] /\ left' = [left EXCEPT ![c] = n]
    BY <1>7 DEF SendsPart
  <2>3. left'[c] = n /\ \A d \in Clients : d # c => left'[d] = left[d]
    BY <2>2 DEF IInv, TypeOK
  <2>4. \A d \in Clients : ServiceState(d)' = ServiceState(d)
    BY <1>1, <2>1 DEF ServiceState, Answering, Alive
  <2>5. Shrinks(c) /\ \A d \in Clients : d # c => Same(d)
    BY <1>5, <2>2, <2>3, <2>4 DEF Shrinks, Same
  <2>. QED
    BY <2>5, OneMoves DEF Moves
<1>8. CASE SendsLast(c)
  <2>1. /\ left' = [left EXCEPT ![c] = 0]
        /\ busy' = [busy EXCEPT ![c] = FALSE]
        /\ toDel' = toDel \cup {<<sfd[c], "w">>} \cup DescDeletions(ProcessorsOf({c}))
    BY <1>8 DEF SendsLast
  <2>2. left'[c] = 0 /\ \A d \in Clients : d # c => left'[d] = left[d]
    BY <2>1 DEF IInv, TypeOK
  <2>3. ~busy'[c] /\ \A d \in Clients : d # c => (busy'[d] <=> busy[d])
    BY <2>1, Zenon DEF IInv, TypeOK
  <2>4. Finishes(c)
    BY <1>1, <1>4, <1>5, <2>2, <2>3 DEF Finishes, ServiceState, Alive
  <2>5. ASSUME NEW d \in Clients, d # c PROVE Same(d)
    <3>1. Alive(d) => /\ sfd[d] # sfd[c]
                      /\ <<sfd[d], "w">> \notin DescDeletions(ProcessorsOf({c}))
      <4>1. Alive(d) => sfd[d] # sfd[c] /\ \A p \in Pids : sfd[d] # psock[p]
        BY <1>4, <2>5 DEF IInv, FdsInv, DescriptorsInv, DistinctInv, Alive
      <4>2. ProcessorsOf({c}) \subseteq Pids
        BY DEF ProcessorsOf, IInv, TypeOK
      <4>. QED
        BY <4>1, <4>2 DEF DescDeletions, SocketsOf, Both
    <3>2. Answering(d)' <=> Answering(d)
      BY <1>1, <2>1, <3>1 DEF Answering, Alive
    <3>3. Unseen(d)
      BY <1>1, <2>2, <2>3, <2>5, <3>2 DEF Unseen, Alive
    <3>. QED
      BY <3>3, UnseenSame
  <2>. QED
    BY <2>4, <2>5, OneMoves DEF Moves
<1>. QED
  BY <1>6, <1>7, <1>8 DEF SendCb

LEMMA AcceptServes ==
  ASSUME IInv, DescriptorsInv, AcceptCb
  PROVE  [Service!ServiceNext]_<<Stage, Rest>>
<1>1. UNCHANGED <<wr, toDel, busy, left>>
  BY DEF AcceptCb
<1>2. CASE UNCHANGED <<conn, sfd>>
  BY <1>1, <1>2, UnseenStep
<1>3. ASSUME NEW c \in Clients, NEW f \in FreeFds, conn[c] = "waiting",
             conn' = [conn EXCEPT ![c] = "up"], sfd' = [sfd EXCEPT ![c] = f]
      PROVE  [Service!ServiceNext]_<<Stage, Rest>>
  <2>1. /\ sfd'[c] = f /\ f # NoFd /\ \A d \in Clients : d # c => sfd'[d] = sfd[d]
        /\ \A d \in Clients : d # c => conn'[d] = conn[d]
    BY <1>3 DEF FreeFds, IInv, TypeOK
  <2>2. ~Alive(c) /\ ~busy[c]
    BY <1>3 DEF IInv, ConnInv, Alive, DescriptorsInv, GoneInv
  <2>3. Opens(c)
    BY <1>1, <1>3, <2>1, <2>2 DEF Opens, ServiceState, Alive
  <2>4. ASSUME NEW d \in Clients, d # c PROVE Same(d)
    <3>1. Unseen(d)
      BY <1>1, <2>1, <2>4 DEF Unseen, Answering, Alive
    <3>. QED
      BY <3>1, UnseenSame
  <2>. QED
    BY <2>3, <2>4, OneMoves DEF Moves
<1>. QED
  BY <1>2, <1>3 DEF AcceptCb

LEMMA FlushServes ==
  ASSUME IInv, Flush
  PROVE  [Service!ServiceNext]_<<Stage, Rest>>
<1>1. /\ UNCHANGED <<sfd, conn, busy, left>> /\ toDel' = {}
      /\ wr' = [f \in Fds |-> IF <<f, "w">> \in toDel THEN None ELSE wr[f]]
  BY DEF Flush, FlushDeletions
<1>2. ASSUME NEW c \in Clients PROVE Same(c)
  <2>1. Alive(c) => sfd[c] \in Fds
    BY DEF Alive, IInv, TypeOK
  <2>2. Answering(c)' <=> Answering(c)
    BY <1>1, <2>1 DEF Answering, Alive
  <2>3. Unseen(c)
    BY <1>1, <2>2 DEF Unseen, Alive
  <2>. QED
    BY <2>3, UnseenSame
<1>. QED
  BY <1>2, NobodyMoves

LEMMA CheckClientsServes ==
  ASSUME IInv, DescriptorsInv, CheckClients
  PROVE  [Service!ServiceNext]_<<Stage, Rest>>
<1>. DEFINE gone == {c \in Clients : Alive(c) /\ closed[c]}
            P == ProcessorsOf(gone)
<1>1. /\ sfd' = [c \in Clients |-> IF c \in gone THEN NoFd ELSE sfd[c]]
      /\ conn' = [c \in Clients |-> IF c \in gone THEN "ended" ELSE conn[c]]
      /\ left' = [c \in Clients |-> IF c \in gone THEN 0 ELSE left[c]]
      /\ toDel' = toDel \cup Both({sfd[c] : c \in gone}) \cup DescDeletions(P)
      /\ UNCHANGED wr
  BY DEF CheckClients
<1>2. busy' = [c \in Clients |-> busy[c] /\ c \notin gone]
  BY DEF CheckClients
<1>3. gone \in SUBSET Clients /\ \A c \in gone : Alive(c)
  OBVIOUS
<1>4. P \subseteq Pids
  BY DEF ProcessorsOf, IInv, TypeOK
<1>. HIDE DEF gone, P
<1>5. ASSUME NEW c \in Clients, c \notin gone PROVE Same(c)
  <2>1. \A d \in gone : Alive(c) => sfd[c] # sfd[d]
    BY <1>3, <1>5 DEF DescriptorsInv, DistinctInv, Alive
  <2>2. \A p \in Pids : Alive(c) => sfd[c] # psock[p]
    BY DEF IInv, FdsInv, Alive
  <2>3. Alive(c) => (<<sfd[c], "w">> \in toDel' <=> <<sfd[c], "w">> \in toDel)
    BY <1>1, <1>4, <2>1, <2>2 DEF Both, DescDeletions, SocketsOf
  <2>4. sfd'[c] = sfd[c] /\ conn'[c] = conn[c] /\ left'[c] = left[c]
    BY <1>1, <1>5
  <2>5. busy'[c] <=> busy[c]
    BY <1>2, <1>5, Zenon
  <2>6. Answering(c)' <=> Answering(c)
    BY <1>1, <2>3, <2>4 DEF Answering, Alive
  <2>7. Unseen(c)
    BY <2>4, <2>5, <2>6 DEF Unseen, Alive
  <2>. QED
    BY <2>7, UnseenSame
<1>6. ASSUME NEW c \in gone
      PROVE  /\ ServiceState(c) \in {"ready", "working", "answering"}
             /\ ServiceState(c)' = "over" /\ left'[c] = 0
  BY <1>1, <1>3, <1>6 DEF ServiceState, Alive
<1>7. Stage' = [c \in Clients |-> IF c \in gone THEN "over" ELSE Stage[c]]
  BY <1>5, <1>6 DEF Stage, Same
<1>8. Rest' = [c \in Clients |-> IF c \in gone THEN 0 ELSE Rest[c]]
  BY <1>5, <1>6 DEF Rest, Same
<1>9. \A c \in gone : Stage[c] \in {"ready", "working", "answering"}
  BY <1>3, <1>6 DEF Stage
<1>10. PICK S \in SUBSET Clients : S = gone
  BY <1>3
<1>11. /\ Stage' = [c \in Clients |-> IF c \in S THEN "over" ELSE Stage[c]]
       /\ Rest' = [c \in Clients |-> IF c \in S THEN 0 ELSE Rest[c]]
       /\ \A c \in S : Stage[c] \in {"ready", "working", "answering"}
  BY <1>7, <1>8, <1>9, <1>10
<1>12. Service!Drop(S)
  BY <1>11 DEF Service!Drop, Stage, Rest
<1>13. Service!ServiceNext
  BY <1>12, Zenon DEF Service!ServiceNext
<1>. QED
  BY <1>13, Zenon

-----------------------------------------------------------------------------
(* The refinement.                                                          *)

LEMMA ServesInit == Init => Service!ServiceInit
<1>. SUFFICES ASSUME Init PROVE Service!ServiceInit
  OBVIOUS
<1>1. \A c \in Clients : ServiceState(c) = "none" /\ left[c] = 0
  BY DEF Init, ServiceState, Alive
<1>. QED
  BY <1>1 DEF Service!ServiceInit

LEMMA ServesNext ==
  IInv /\ DescriptorsInv /\ [Next]_vars => [Service!ServiceNext]_<<Stage, Rest>>
<1>. SUFFICES ASSUME IInv, DescriptorsInv, [Next]_vars
              PROVE  [Service!ServiceNext]_<<Stage, Rest>>
  OBVIOUS
<1>1. CASE \/ Stop \/ Poll \/ EndDispatch \/ KillLoop \/ EndWait \/ BadAlloc
           \/ Tick \/ SigInt \/ UNCHANGED vars
           \/ \E c \in Clients : ClientSends(c)
           \/ \E p \in Pids : ProcessStep(p)
  <2>1. UNCHANGED <<sfd, busy, left, wr, toDel, conn>>
    BY <1>1 DEF Stop, Poll, EndDispatch, KillLoop, EndWait, BadAlloc, Tick, SigInt, vars,
       ClientSends, ProcessStep
  <2>. QED
    BY <2>1, UnseenStep
<1>2. ASSUME NEW c \in Clients, Connect(c) \/ ClientCloses(c)
      PROVE  [Service!ServiceNext]_<<Stage, Rest>>
  <2>1. UNCHANGED <<sfd, busy, left, wr, toDel>>
    BY <1>2 DEF Connect, ClientCloses
  <2>2. \A d \in Clients : conn'[d] = "ended" <=> conn[d] = "ended"
    BY <1>2 DEF Connect, ClientCloses, IInv, TypeOK
  <2>. QED
    BY <2>1, <2>2, UnseenStep
<1>3. CASE LoopStep
  BY <1>1, <1>3, FlushServes, WaitServes, CheckClientsServes, AcceptServes, RecvServes,
     SendServes, CgiReadServes DEF LoopStep
<1>4. CASE WorldStep
  BY <1>1, <1>2, <1>4 DEF WorldStep
<1>. QED
  BY <1>1, <1>3, <1>4 DEF Next

(* Every request gets at most one response, begun only after the request,   *)
(* and a response once begun is sent to its end before the next request is  *)
(* taken, unless the session is given up.                                   *)
THEOREM ImplementsServiceHolds == Spec => ImplementsService
<1>1. IInv /\ DescriptorsInv /\ [Next]_vars =>
        [Service!ServiceNext]_<<[c \in Clients |-> ServiceState(c)],
                                [c \in Clients |-> left[c]]>>
  BY ServesNext DEF Stage, Rest
<1>. QED
  BY <1>1, ServesInit, Inductive, DescriptorsInductive, PTL
     DEF Spec, ImplementsService, Service!ServiceSpec
=============================================================================
