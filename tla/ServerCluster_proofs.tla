------------------------ MODULE ServerCluster_proofs ------------------------
(***************************************************************************)
(* Proofs about ServerCluster, for any number of clients, children and     *)
(* descriptors, every multiplexer and every combination of faults.         *)
(***************************************************************************)
EXTENDS ServerCluster, TLAPS

-----------------------------------------------------------------------------
(* The inductive invariant.                                                 *)

(* No descriptor serves a session and a CGI at once.                        *)
FdsInv == \A c \in Clients, p \in Pids : sfd[c] = psock[p] => sfd[c] = NoFd

(* A connection that was not accepted has no session.                       *)
ConnInv == \A c \in Clients : conn[c] \in {"idle", "waiting"} => sfd[c] = NoFd

(* A processor belongs to one busy session and has a socket.                *)
ProcInv ==
    \A c \in Clients : proc[c] # None =>
        /\ sfd[c] # NoFd /\ busy[c] /\ psock[proc[c]] # NoFd
        /\ \A d \in Clients : proc[d] = proc[c] => d = c

(* A process id that was never used names no processor.                     *)
FreshInv ==
    \A p \in Pids : child[p] = "none" =>
        /\ psock[p] = NoFd /\ ~desc[p] /\ cst[p] = {}
        /\ \A c \in Clients : proc[c] # p

(* A read callback that is not about to be deleted has its object.          *)
ReaderLive(f) ==
    \/ rd[f] = Listener /\ f = ListenFd
    \/ rd[f] \in Clients /\ sfd[rd[f]] = f
    \/ /\ rd[f] \in Pids /\ psock[rd[f]] = f /\ desc[rd[f]]
       /\ "read" \notin cst[rd[f]]

RdInv == \A f \in Fds : rd[f] # None => <<f, "r">> \in toDel \/ ReaderLive(f)

(* A write callback that is not about to be deleted belongs to a busy       *)
(* session whose processor, if any, has let its child go.                   *)
WriterLive(f) ==
    /\ sfd[wr[f]] = f /\ busy[wr[f]]
    /\ proc[wr[f]] # None => ~desc[proc[wr[f]]]

WrInv ==
    \A f \in Fds : wr[f] # None =>
        wr[f] \in Clients /\ (<<f, "w">> \in toDel \/ WriterLive(f))

(* epoll watches registered events only.                                    *)
EpInv == \A f \in Fds : /\ "r" \in ep[f] => rd[f] # None
                        /\ "w" \in ep[f] => wr[f] # None

(* Deletions take effect before the poll, and none queued during a batch    *)
(* concerns an event still in the batch.                                    *)
PollInv == phase = "poll" => toDel = {}
ReadyInv ==
    phase = "dispatch" =>
        \A f \in Fds : /\ <<f, "r">> \in ready =>
                            <<f, "r">> \notin toDel /\ rd[f] # None
                       /\ <<f, "w">> \in ready =>
                            <<f, "w">> \notin toDel /\ wr[f] # None

IInv ==
    /\ TypeOK /\ FdsInv /\ ConnInv /\ ProcInv /\ FreshInv
    /\ RdInv /\ WrInv /\ EpInv /\ PollInv /\ ReadyInv

-----------------------------------------------------------------------------
(* Every step preserves the invariant: one lemma per action, one step of    *)
(* its proof per conjunct.                                                  *)

USE FdsAssumption, MxTypeAssumption, ReferentsAssumption, CgiTimeoutAssumption,
    ClusterAssumption
USE DEF emVars, osVars, cpmVars, netVars, sessVars, cgiVars, worldVars, Types,
    Events, Callbacks

(* A table that is changed at one place keeps its type.                     *)
LEMMA Overridden ==
  ASSUME NEW S, NEW T, NEW f \in [S -> T], NEW x \in S, NEW v \in T
  PROVE  [f EXCEPT ![x] = v] \in [S -> T]
OBVIOUS

LEMMA InitInv == Init => IInv
<1>. SUFFICES ASSUME Init PROVE IInv
  OBVIOUS
<1>1. TypeOK
  BY DEF Init, TypeOK, EmTypeOK, CpmTypeOK, ChildStates, Conns, Phases
<1>2. FdsInv /\ ConnInv /\ ProcInv /\ FreshInv
  BY DEF Init, FdsInv, ConnInv, ProcInv, FreshInv
<1>3. RdInv /\ WrInv
  BY DEF Init, RdInv, ReaderLive, WrInv
<1>4. EpInv /\ PollInv /\ ReadyInv
  BY DEF Init, EpInv, PollInv, ReadyInv
<1>. QED
  BY <1>1, <1>2, <1>3, <1>4 DEF IInv

-----------------------------------------------------------------------------
(* What the operators of the components do to the tables.                   *)

(* Dispatching a read event calls a callback whose object exists.           *)
LEMMA ReaderCalled ==
  ASSUME IInv, phase = "dispatch", NEW f \in Fds, NEW cb \in Callbacks,
         Dispatch(f, "r", cb)
  PROVE  rd[f] = cb /\ ReaderLive(f) /\ ready' = ready \ {<<f, "r">>}
<1>1. rd[f] = cb /\ <<f, "r">> \in ready /\ ready' = ready \ {<<f, "r">>}
  BY DEF Dispatch, Turn, Table
<1>2. <<f, "r">> \notin toDel /\ rd[f] # None
  BY <1>1 DEF IInv, ReadyInv
<1>. QED
  BY <1>1, <1>2 DEF IInv, RdInv

(* The same for a write event.                                              *)
LEMMA WriterCalled ==
  ASSUME IInv, phase = "dispatch", NEW f \in Fds, NEW c \in Clients,
         Dispatch(f, "w", c)
  PROVE  wr[f] = c /\ WriterLive(f) /\ ready' = ready \ {<<f, "w">>}
<1>1. wr[f] = c /\ <<f, "w">> \in ready /\ ready' = ready \ {<<f, "w">>}
  BY DEF Dispatch, Turn, Table
<1>2. <<f, "w">> \notin toDel /\ wr[f] # None
  BY <1>1 DEF IInv, ReadyInv
<1>. QED
  BY <1>1, <1>2 DEF IInv, WrInv

(* A registration fills one empty slot.                                     *)
LEMMA ReadRegistered ==
  ASSUME TypeOK, EpInv, NEW f \in Fds, NEW cb \in Callbacks, RegisterRead(f, cb)
  PROVE  /\ rd' \in [Fds -> Callbacks \cup {None}]
         /\ ep' \in [Fds -> SUBSET Types]
         /\ rd'[f] = cb
         /\ \A g \in Fds : g # f => rd'[g] = rd[g]
         /\ \A g \in Fds : rd[g] # None => rd'[g] # None
         /\ \A g \in Fds : "r" \in ep'[g] => rd'[g] # None
         /\ \A g \in Fds : "w" \in ep'[g] => wr[g] # None
  BY DEF TypeOK, EmTypeOK, EpInv, RegisterRead, CanRegister, Interest, Table

LEMMA ResponsePrepared ==
  ASSUME TypeOK, EpInv, NEW c \in Clients, sfd[c] \in Fds,
         NEW close \in BOOLEAN, PrepareResponse(c, close)
  PROVE  /\ wr' \in [Fds -> Callbacks \cup {None}]
         /\ ep' \in [Fds -> SUBSET Types]
         /\ left' \in [Clients -> 0 .. MaxUnits]
         /\ closeAfter' \in [Clients -> BOOLEAN]
         /\ closed' \in [Clients -> BOOLEAN]
         /\ \A g \in Fds : wr'[g] = wr[g] \/ (g = sfd[c] /\ wr'[g] = c)
         /\ \A g \in Fds : wr[g] # None => wr'[g] # None
         /\ \A g \in Fds : "r" \in ep'[g] => rd[g] # None
         /\ \A g \in Fds : "w" \in ep'[g] => wr'[g] # None
<1>1. CASE RegisterWrite(sfd[c], c) /\ UNCHANGED closed
            /\ (\E n \in 1 .. MaxUnits : left' = [left EXCEPT ![c] = n])
            /\ closeAfter' = [closeAfter EXCEPT ![c] = close]
  BY <1>1 DEF TypeOK, EmTypeOK, EpInv, RegisterWrite, CanRegister, Interest, Table
<1>2. CASE closed' = [closed EXCEPT ![c] = TRUE]
            /\ UNCHANGED <<wr, ep, left, closeAfter>>
  BY <1>2 DEF TypeOK, EmTypeOK, EpInv
<1>. QED
  BY <1>1, <1>2 DEF PrepareResponse

(* The steps of the world, and of the loop outside the handlers.            *)

LEMMA ConnectStep ==
  ASSUME IInv, NEW c \in Clients, Connect(c)
  PROVE  IInv'
<1>1. TypeOK'
  BY DEF IInv, TypeOK, EmTypeOK, CpmTypeOK, ChildStates, Conns, Phases,
     Connect
<1>2. FdsInv'
  BY DEF IInv, FdsInv, Connect
<1>3. ConnInv'
  BY DEF IInv, ConnInv, Connect
<1>4. ProcInv'
  BY DEF IInv, ProcInv, Connect
<1>5. FreshInv'
  BY DEF IInv, FreshInv, Connect
<1>6. RdInv'
  BY DEF IInv, RdInv, ReaderLive, Connect
<1>7. WrInv'
  BY DEF IInv, WrInv, WriterLive, Connect
<1>8. EpInv'
  BY DEF IInv, EpInv, Connect
<1>9. PollInv'
  BY DEF IInv, PollInv, Connect
<1>10. ReadyInv'
  BY DEF IInv, ReadyInv, Connect
<1>. QED
  BY <1>1, <1>2, <1>3, <1>4, <1>5, <1>6, <1>7, <1>8, <1>9, <1>10 DEF IInv

LEMMA ClientSendsStep ==
  ASSUME IInv, NEW c \in Clients, ClientSends(c)
  PROVE  IInv'
<1>1. TypeOK'
  BY DEF IInv, TypeOK, EmTypeOK, CpmTypeOK, ChildStates, Conns, Phases,
     ClientSends
<1>2. FdsInv'
  BY DEF IInv, FdsInv, ClientSends
<1>3. ConnInv'
  BY DEF IInv, ConnInv, ClientSends
<1>4. ProcInv'
  BY DEF IInv, ProcInv, ClientSends
<1>5. FreshInv'
  BY DEF IInv, FreshInv, ClientSends
<1>6. RdInv'
  BY DEF IInv, RdInv, ReaderLive, ClientSends
<1>7. WrInv'
  BY DEF IInv, WrInv, WriterLive, ClientSends
<1>8. EpInv'
  BY DEF IInv, EpInv, ClientSends
<1>9. PollInv'
  BY DEF IInv, PollInv, ClientSends
<1>10. ReadyInv'
  BY DEF IInv, ReadyInv, ClientSends
<1>. QED
  BY <1>1, <1>2, <1>3, <1>4, <1>5, <1>6, <1>7, <1>8, <1>9, <1>10 DEF IInv

LEMMA ClientClosesStep ==
  ASSUME IInv, NEW c \in Clients, ClientCloses(c)
  PROVE  IInv'
<1>1. TypeOK'
  BY DEF IInv, TypeOK, EmTypeOK, CpmTypeOK, ChildStates, Conns, Phases,
     ClientCloses
<1>2. FdsInv'
  BY DEF IInv, FdsInv, ClientCloses
<1>3. ConnInv'
  BY DEF IInv, ConnInv, ClientCloses
<1>4. ProcInv'
  BY DEF IInv, ProcInv, ClientCloses
<1>5. FreshInv'
  BY DEF IInv, FreshInv, ClientCloses
<1>6. RdInv'
  BY DEF IInv, RdInv, ReaderLive, ClientCloses
<1>7. WrInv'
  BY DEF IInv, WrInv, WriterLive, ClientCloses
<1>8. EpInv'
  BY DEF IInv, EpInv, ClientCloses
<1>9. PollInv'
  BY DEF IInv, PollInv, ClientCloses
<1>10. ReadyInv'
  BY DEF IInv, ReadyInv, ClientCloses
<1>. QED
  BY <1>1, <1>2, <1>3, <1>4, <1>5, <1>6, <1>7, <1>8, <1>9, <1>10 DEF IInv

LEMMA TickStep ==
  ASSUME IInv, Tick
  PROVE  IInv'
<1>1. TypeOK'
  BY DEF IInv, TypeOK, EmTypeOK, CpmTypeOK, ChildStates, Conns, Phases,
     Tick, Alive
<1>2. FdsInv'
  BY DEF IInv, FdsInv, Tick, Alive
<1>3. ConnInv'
  BY DEF IInv, ConnInv, Tick, Alive
<1>4. ProcInv'
  BY DEF IInv, ProcInv, Tick, Alive
<1>5. FreshInv'
  BY DEF IInv, FreshInv, Tick, Alive
<1>6. RdInv'
  BY DEF IInv, RdInv, ReaderLive, Tick, Alive
<1>7. WrInv'
  BY DEF IInv, WrInv, WriterLive, Tick, Alive
<1>8. EpInv'
  BY DEF IInv, EpInv, Tick, Alive
<1>9. PollInv'
  BY DEF IInv, PollInv, Tick, Alive
<1>10. ReadyInv'
  BY DEF IInv, ReadyInv, Tick, Alive
<1>. QED
  BY <1>1, <1>2, <1>3, <1>4, <1>5, <1>6, <1>7, <1>8, <1>9, <1>10 DEF IInv

LEMMA SigIntStep ==
  ASSUME IInv, SigInt
  PROVE  IInv'
<1>1. TypeOK'
  BY DEF IInv, TypeOK, EmTypeOK, CpmTypeOK, ChildStates, Conns, Phases,
     SigInt
<1>2. FdsInv'
  BY DEF IInv, FdsInv, SigInt
<1>3. ConnInv'
  BY DEF IInv, ConnInv, SigInt
<1>4. ProcInv'
  BY DEF IInv, ProcInv, SigInt
<1>5. FreshInv'
  BY DEF IInv, FreshInv, SigInt
<1>6. RdInv'
  BY DEF IInv, RdInv, ReaderLive, SigInt
<1>7. WrInv'
  BY DEF IInv, WrInv, WriterLive, SigInt
<1>8. EpInv'
  BY DEF IInv, EpInv, SigInt
<1>9. PollInv'
  BY DEF IInv, PollInv, SigInt
<1>10. ReadyInv'
  BY DEF IInv, ReadyInv, SigInt
<1>. QED
  BY <1>1, <1>2, <1>3, <1>4, <1>5, <1>6, <1>7, <1>8, <1>9, <1>10 DEF IInv

LEMMA StopStep ==
  ASSUME IInv, Stop
  PROVE  IInv'
<1>1. TypeOK'
  BY DEF IInv, TypeOK, EmTypeOK, CpmTypeOK, ChildStates, Conns, Phases, Stop
<1>2. FdsInv'
  BY DEF IInv, FdsInv, Stop
<1>3. ConnInv'
  BY DEF IInv, ConnInv, Stop
<1>4. ProcInv'
  BY DEF IInv, ProcInv, Stop
<1>5. FreshInv'
  BY DEF IInv, FreshInv, Stop
<1>6. RdInv'
  BY DEF IInv, RdInv, ReaderLive, Stop
<1>7. WrInv'
  BY DEF IInv, WrInv, WriterLive, Stop
<1>8. EpInv'
  BY DEF IInv, EpInv, Stop
<1>9. PollInv'
  BY DEF IInv, PollInv, Stop
<1>10. ReadyInv'
  BY DEF IInv, ReadyInv, Stop
<1>. QED
  BY <1>1, <1>2, <1>3, <1>4, <1>5, <1>6, <1>7, <1>8, <1>9, <1>10 DEF IInv

LEMMA EndDispatchStep ==
  ASSUME IInv, EndDispatch
  PROVE  IInv'
<1>1. TypeOK'
  BY DEF IInv, TypeOK, EmTypeOK, CpmTypeOK, ChildStates, Conns, Phases,
     EndDispatch
<1>2. FdsInv'
  BY DEF IInv, FdsInv, EndDispatch
<1>3. ConnInv'
  BY DEF IInv, ConnInv, EndDispatch
<1>4. ProcInv'
  BY DEF IInv, ProcInv, EndDispatch
<1>5. FreshInv'
  BY DEF IInv, FreshInv, EndDispatch
<1>6. RdInv'
  BY DEF IInv, RdInv, ReaderLive, EndDispatch
<1>7. WrInv'
  BY DEF IInv, WrInv, WriterLive, EndDispatch
<1>8. EpInv'
  BY DEF IInv, EpInv, EndDispatch
<1>9. PollInv'
  BY DEF IInv, PollInv, EndDispatch
<1>10. ReadyInv'
  BY DEF IInv, ReadyInv, EndDispatch
<1>. QED
  BY <1>1, <1>2, <1>3, <1>4, <1>5, <1>6, <1>7, <1>8, <1>9, <1>10 DEF IInv

LEMMA KillLoopStep ==
  ASSUME IInv, KillLoop
  PROVE  IInv'
<1>1. TypeOK'
  BY DEF IInv, TypeOK, EmTypeOK, CpmTypeOK, ChildStates, Conns, Phases,
     KillLoop, KillOverdue, Killed
<1>2. FdsInv'
  BY DEF IInv, FdsInv, KillLoop, KillOverdue, Killed
<1>3. ConnInv'
  BY DEF IInv, ConnInv, KillLoop, KillOverdue, Killed
<1>4. ProcInv'
  BY DEF IInv, ProcInv, KillLoop, KillOverdue, Killed
<1>5. FreshInv'
  BY DEF IInv, FreshInv, KillLoop, KillOverdue, Killed
<1>6. RdInv'
  BY DEF IInv, RdInv, ReaderLive, KillLoop, KillOverdue, Killed
<1>7. WrInv'
  BY DEF IInv, WrInv, WriterLive, KillLoop, KillOverdue, Killed
<1>8. EpInv'
  BY DEF IInv, EpInv, KillLoop, KillOverdue, Killed
<1>9. PollInv'
  BY DEF IInv, PollInv, KillLoop, KillOverdue, Killed
<1>10. ReadyInv'
  BY DEF IInv, ReadyInv, KillLoop, KillOverdue, Killed
<1>. QED
  BY <1>1, <1>2, <1>3, <1>4, <1>5, <1>6, <1>7, <1>8, <1>9, <1>10 DEF IInv

LEMMA EndWaitStep ==
  ASSUME IInv, EndWait
  PROVE  IInv'
<1>1. TypeOK'
  BY DEF IInv, TypeOK, EmTypeOK, CpmTypeOK, ChildStates, Conns, Phases,
     EndWait, EraseReaped
<1>2. FdsInv'
  BY DEF IInv, FdsInv, EndWait, EraseReaped
<1>3. ConnInv'
  BY DEF IInv, ConnInv, EndWait, EraseReaped
<1>4. ProcInv'
  BY DEF IInv, ProcInv, EndWait, EraseReaped
<1>5. FreshInv'
  BY DEF IInv, FreshInv, EndWait, EraseReaped
<1>6. RdInv'
  BY DEF IInv, RdInv, ReaderLive, EndWait, EraseReaped
<1>7. WrInv'
  BY DEF IInv, WrInv, WriterLive, EndWait, EraseReaped
<1>8. EpInv'
  BY DEF IInv, EpInv, EndWait, EraseReaped
<1>9. PollInv'
  BY DEF IInv, PollInv, EndWait, EraseReaped
<1>10. ReadyInv'
  BY DEF IInv, ReadyInv, EndWait, EraseReaped
<1>. QED
  BY <1>1, <1>2, <1>3, <1>4, <1>5, <1>6, <1>7, <1>8, <1>9, <1>10 DEF IInv

LEMMA BadAllocStep ==
  ASSUME IInv, BadAlloc
  PROVE  IInv'
<1>1. TypeOK'
  BY DEF IInv, TypeOK, EmTypeOK, CpmTypeOK, ChildStates, Conns, Phases,
     BadAlloc, Alive
<1>2. FdsInv'
  BY DEF IInv, FdsInv, BadAlloc, Alive
<1>3. ConnInv'
  BY DEF IInv, ConnInv, BadAlloc, Alive
<1>4. ProcInv'
  BY DEF IInv, ProcInv, BadAlloc, Alive
<1>5. FreshInv'
  BY DEF IInv, FreshInv, BadAlloc, Alive
<1>6. RdInv'
  BY DEF IInv, RdInv, ReaderLive, BadAlloc, Alive
<1>7. WrInv'
  BY DEF IInv, WrInv, WriterLive, BadAlloc, Alive
<1>8. EpInv'
  BY DEF IInv, EpInv, BadAlloc, Alive
<1>9. PollInv'
  BY DEF IInv, PollInv, BadAlloc, Alive
<1>10. ReadyInv'
  BY DEF IInv, ReadyInv, BadAlloc, Alive
<1>. QED
  BY <1>1, <1>2, <1>3, <1>4, <1>5, <1>6, <1>7, <1>8, <1>9, <1>10 DEF IInv

LEMMA FlushStep ==
  ASSUME IInv, Flush
  PROVE  IInv'
<1>1. TypeOK'
  BY DEF IInv, TypeOK, EmTypeOK, CpmTypeOK, ChildStates, Conns, Phases,
     Flush, FlushDeletions, Deleted, Remaining, Table
<1>2. FdsInv'
  BY DEF IInv, FdsInv, Flush, FlushDeletions, Deleted, Remaining, Table
<1>3. ConnInv'
  BY DEF IInv, ConnInv, Flush, FlushDeletions, Deleted, Remaining, Table
<1>4. ProcInv'
  BY DEF IInv, ProcInv, Flush, FlushDeletions, Deleted, Remaining, Table
<1>5. FreshInv'
  BY DEF IInv, FreshInv, Flush, FlushDeletions, Deleted, Remaining, Table
<1>6. RdInv'
  BY DEF IInv, RdInv, ReaderLive, Flush, FlushDeletions, Deleted, Remaining,
     Table
<1>7. WrInv'
  BY DEF IInv, WrInv, WriterLive, Flush, FlushDeletions, Deleted, Remaining,
     Table
<1>8. EpInv'
  BY DEF IInv, EpInv, Flush, FlushDeletions, Deleted, Remaining, Table
<1>9. PollInv'
  BY DEF IInv, PollInv, Flush, FlushDeletions, Deleted, Remaining, Table
<1>10. ReadyInv'
  BY DEF IInv, ReadyInv, Flush, FlushDeletions, Deleted, Remaining, Table
<1>. QED
  BY <1>1, <1>2, <1>3, <1>4, <1>5, <1>6, <1>7, <1>8, <1>9, <1>10 DEF IInv

LEMMA PollStep ==
  ASSUME IInv, Poll
  PROVE  IInv'
<1>1. TypeOK'
  BY DEF IInv, TypeOK, EmTypeOK, CpmTypeOK, ChildStates, Conns, Phases,
     Poll, Watched, Table
<1>2. FdsInv'
  BY DEF IInv, FdsInv, Poll, Watched, Table
<1>3. ConnInv'
  BY DEF IInv, ConnInv, Poll, Watched, Table
<1>4. ProcInv'
  BY DEF IInv, ProcInv, Poll, Watched, Table
<1>5. FreshInv'
  BY DEF IInv, FreshInv, Poll, Watched, Table
<1>6. RdInv'
  BY DEF IInv, RdInv, ReaderLive, Poll, Watched, Table
<1>7. WrInv'
  BY DEF IInv, WrInv, WriterLive, Poll, Watched, Table
<1>8. EpInv'
  BY DEF IInv, EpInv, Poll, Watched, Table
<1>9. PollInv'
  BY DEF IInv, PollInv, Poll, Watched, Table
<1>10. ReadyInv'
  <2>. DEFINE R == {f \in Fds : Watched(f, "r") /\ Readable(f)}
  <2>1. PICK W \in SUBSET {f \in Fds : Watched(f, "w")} :
          ready' = (R \X {"r"}) \cup (W \X {"w"})
    BY DEF Poll
  <2>2. \A f \in Fds, t \in Types : Watched(f, t) => Table(t)[f] # None
    BY DEF IInv, EpInv, Watched, Table
  <2>3. toDel' = {} /\ UNCHANGED <<rd, wr>>
    BY DEF Poll, IInv, PollInv
  <2>. QED
    BY <2>1, <2>2, <2>3 DEF ReadyInv, Table
<1>. QED
  BY <1>1, <1>2, <1>3, <1>4, <1>5, <1>6, <1>7, <1>8, <1>9, <1>10 DEF IInv

LEMMA ProcessMoves ==
  ASSUME IInv, NEW p \in Pids, ProcessStep(p)
  PROVE  IInv'
<1>1. TypeOK'
  <2>1. CASE ChildWrites(p) \/ OutputCloses(p)
    BY <2>1 DEF IInv, TypeOK, EmTypeOK, CpmTypeOK, ProcessStep, ChildWrites, OutputCloses
  <2>2. CASE ChildExits(p) \/ ChildDies(p)
    <3>1. PICK how \in Zombie, leaves \in BOOLEAN : Dies(p, how, leaves)
      BY <2>2 DEF ChildExits, ChildDies, Zombie
    <3>2. child' \in [Pids -> ChildStates]
      BY <3>1 DEF IInv, TypeOK, CpmTypeOK, Dies, ChildStates
    <3>3. hold' \in [Pids -> BOOLEAN]
      BY <3>1, Zenon DEF IInv, TypeOK, CpmTypeOK, Dies
    <3>. QED
      BY <3>1, <3>2, <3>3 DEF IInv, TypeOK, EmTypeOK, CpmTypeOK, ProcessStep, Dies
  <2>. QED
    BY <2>1, <2>2 DEF ProcessStep
<1>2. FdsInv'
  BY DEF IInv, FdsInv, ProcessStep, ChildWrites, OutputCloses, ChildExits,
     ChildDies, Dies, Zombie
<1>3. ConnInv'
  BY DEF IInv, ConnInv, ProcessStep, ChildWrites, OutputCloses, ChildExits,
     ChildDies, Dies, Zombie
<1>4. ProcInv'
  BY DEF IInv, ProcInv, ProcessStep, ChildWrites, OutputCloses, ChildExits,
     ChildDies, Dies, Zombie
<1>5. FreshInv'
  BY DEF IInv, FreshInv, TypeOK, EmTypeOK, CpmTypeOK, ProcessStep,
     ChildWrites, OutputCloses, ChildExits, ChildDies, Dies, Zombie
<1>6. RdInv'
  BY DEF IInv, RdInv, ReaderLive, ProcessStep, ChildWrites, OutputCloses,
     ChildExits, ChildDies, Dies, Zombie
<1>7. WrInv'
  BY DEF IInv, WrInv, WriterLive, ProcessStep, ChildWrites, OutputCloses,
     ChildExits, ChildDies, Dies, Zombie
<1>8. EpInv'
  BY DEF IInv, EpInv, ProcessStep, ChildWrites, OutputCloses, ChildExits,
     ChildDies, Dies, Zombie
<1>9. PollInv'
  BY DEF IInv, PollInv, ProcessStep, ChildWrites, OutputCloses, ChildExits,
     ChildDies, Dies, Zombie
<1>10. ReadyInv'
  BY DEF IInv, ReadyInv, ProcessStep, ChildWrites, OutputCloses, ChildExits,
     ChildDies, Dies, Zombie
<1>. QED
  BY <1>1, <1>2, <1>3, <1>4, <1>5, <1>6, <1>7, <1>8, <1>9, <1>10 DEF IInv

(* The handlers.                                                            *)

LEMMA AcceptStep ==
  ASSUME IInv, AcceptCb
  PROVE  IInv'
<1>. USE DEF AcceptCb
<1>1. ready' = ready \ {<<ListenFd, "r">>}
  BY DEF Dispatch
<1>2. CASE FreeFds = {} /\ UNCHANGED <<conn, sfd, rd, ep, closed>>
  <2>21. TypeOK'
    BY <1>1, <1>2 DEF IInv, TypeOK, EmTypeOK, CpmTypeOK, ChildStates, Conns,
       Phases
  <2>22. FdsInv'
    BY <1>1, <1>2 DEF IInv, FdsInv
  <2>23. ConnInv'
    BY <1>1, <1>2 DEF IInv, ConnInv
  <2>24. ProcInv'
    BY <1>1, <1>2 DEF IInv, ProcInv
  <2>25. FreshInv'
    BY <1>1, <1>2 DEF IInv, FreshInv
  <2>26. RdInv'
    BY <1>1, <1>2 DEF IInv, RdInv, ReaderLive
  <2>27. WrInv'
    BY <1>1, <1>2 DEF IInv, WrInv, WriterLive
  <2>28. EpInv'
    BY <1>1, <1>2 DEF IInv, EpInv
  <2>29. PollInv'
    BY <1>1, <1>2 DEF IInv, PollInv
  <2>30. ReadyInv'
    BY <1>1, <1>2 DEF IInv, ReadyInv
  <2>. QED
    BY <2>21, <2>22, <2>23, <2>24, <2>25, <2>26, <2>27, <2>28, <2>29, <2>30
       DEF IInv
<1>3. ASSUME NEW c \in Clients, NEW f \in FreeFds, conn[c] = "waiting",
             conn' = [conn EXCEPT ![c] = "up"],
             sfd' = [sfd EXCEPT ![c] = f],
             \/ RegisterRead(f, c) /\ UNCHANGED closed
             \/ closed' = [closed EXCEPT ![c] = TRUE] /\ UNCHANGED <<rd, ep>>
      PROVE  IInv'
  <2>1. f \in Fds /\ f # ListenFd /\ f # NoFd
    BY DEF FreeFds, OpenFds
  <2>2. (\A d \in Clients : sfd[d] # f) /\ (\A p \in Pids : psock[p] # f)
    BY DEF FreeFds, OpenFds
  <2>3. sfd[c] = NoFd /\ proc[c] = None
    BY <1>3 DEF IInv, ConnInv, ProcInv
  <2>4. sfd'[c] = f /\ \A d \in Clients : d # c => sfd'[d] = sfd[d]
    BY <1>3 DEF IInv, TypeOK
  <2>5. /\ rd' \in [Fds -> Callbacks \cup {None}]
        /\ ep' \in [Fds -> SUBSET Types]
        /\ closed' \in [Clients -> BOOLEAN]
        /\ \A g \in Fds : rd'[g] = rd[g] \/ (g = f /\ rd'[g] = c)
        /\ \A g \in Fds : rd[g] # None => rd'[g] # None
        /\ \A g \in Fds : "r" \in ep'[g] => rd'[g] # None
        /\ \A g \in Fds : "w" \in ep'[g] => wr[g] # None
    <3>1. CASE RegisterRead(f, c) /\ UNCHANGED closed
      BY <3>1, <2>1, ReadRegistered DEF IInv, TypeOK
    <3>2. CASE closed' = [closed EXCEPT ![c] = TRUE] /\ UNCHANGED <<rd, ep>>
      BY <3>2 DEF IInv, TypeOK, EmTypeOK, EpInv
    <3>. QED
      BY <1>3, <3>1, <3>2
  <2>21. TypeOK'
    BY <1>1, <1>3, <2>1, <2>2, <2>3, <2>4, <2>5 DEF IInv, TypeOK, EmTypeOK,
       CpmTypeOK, ChildStates, Conns, Phases, Conns
  <2>22. FdsInv'
    BY <1>1, <1>3, <2>1, <2>2, <2>3, <2>4, <2>5 DEF IInv, FdsInv
  <2>23. ConnInv'
    BY <1>1, <1>3, <2>1, <2>2, <2>3, <2>4, <2>5 DEF IInv, ConnInv, TypeOK
  <2>24. ProcInv'
    BY <1>1, <1>3, <2>1, <2>2, <2>3, <2>4, <2>5 DEF IInv, ProcInv
  <2>25. FreshInv'
    BY <1>1, <1>3, <2>1, <2>2, <2>3, <2>4, <2>5 DEF IInv, FreshInv
  <2>26. RdInv'
    BY <1>1, <1>3, <2>1, <2>2, <2>3, <2>4, <2>5 DEF IInv, RdInv, ReaderLive
  <2>27. WrInv'
    <3>1. UNCHANGED <<wr, toDel, busy, proc, desc>>
      OBVIOUS
    <3>. SUFFICES ASSUME NEW g \in Fds, wr[g] # None
                  PROVE  wr[g] \in Clients /\ (<<g, "w">> \in toDel \/ WriterLive(g)')
      BY <3>1 DEF WrInv
    <3>2. wr[g] \in Clients /\ (<<g, "w">> \in toDel \/ WriterLive(g))
      BY DEF IInv, WrInv
    <3>3. WriterLive(g) => sfd'[wr[g]] = sfd[wr[g]]
      BY <2>3, <2>4, <3>2 DEF WriterLive
    <3>. QED
      BY <3>1, <3>2, <3>3 DEF WriterLive
  <2>28. EpInv'
    BY <1>1, <1>3, <2>1, <2>2, <2>3, <2>4, <2>5 DEF IInv, EpInv
  <2>29. PollInv'
    BY <1>1, <1>3, <2>1, <2>2, <2>3, <2>4, <2>5 DEF IInv, PollInv
  <2>30. ReadyInv'
    BY <1>1, <1>3, <2>1, <2>2, <2>3, <2>4, <2>5 DEF IInv, ReadyInv, TypeOK,
       EmTypeOK, CpmTypeOK
  <2>. QED
    BY <2>21, <2>22, <2>23, <2>24, <2>25, <2>26, <2>27, <2>28, <2>29, <2>30
       DEF IInv
<1>. QED
  BY <1>2, <1>3

(* A session that starts a CGI; every conjunct knows what the two outcomes  *)
(* have in common.                                                          *)
LEMMA StartsCgiStep ==
  ASSUME IInv, NEW c \in Clients, RecvStartsCgi(c), phase = "dispatch",
         UNCHANGED <<phase, run>>, sfd[c] \in Fds, sfd[c] # NoFd,
         ready' = ready \ {<<sfd[c], "r">>}
  PROVE  IInv'
<1>1. /\ ~busy[c] /\ busy' = [busy EXCEPT ![c] = TRUE]
      /\ inbox' = [inbox EXCEPT ![c] = FALSE] /\ age' = [age EXCEPT ![c] = 0]
      /\ UNCHANGED <<conn, sent, sfd, toDel, cst>>
  BY DEF RecvStartsCgi, Received
<1>2. PICK p \in Pids, f \in FreeFds :
        /\ proc' = [proc EXCEPT ![c] = p]
        /\ psock' = [psock EXCEPT ![p] = f]
        /\ \/ /\ RunChild(p)
              /\ RegisterRead(f, p)
              /\ desc' = [desc EXCEPT ![p] = TRUE]
              /\ UNCHANGED <<wr, left, closeAfter, closed>>
           \/ /\ RunAndKillChild(p)
              /\ PrepareResponse(c, TRUE)
              /\ UNCHANGED <<rd, desc>>
  BY DEF RecvStartsCgi
<1>3. f \in Fds /\ f # ListenFd /\ f # NoFd
  BY DEF FreeFds, OpenFds
<1>4. (\A d \in Clients : sfd[d] # f) /\ (\A q \in Pids : psock[q] # f)
  BY DEF FreeFds, OpenFds
<1>5. /\ child[p] = "none"
      /\ \E s \in {"run", "killed"} : child' = [child EXCEPT ![p] = s]
      /\ hold' = [hold EXCEPT ![p] = TRUE]
      /\ kids' \in SUBSET Pids
      /\ UNCHANGED <<data, kage, todo, reapedNow>>
  BY <1>2 DEF RunChild, RunAndKillChild, IInv, TypeOK, CpmTypeOK
<1>51. child' \in [Pids -> ChildStates] /\ hold' \in [Pids -> BOOLEAN]
  <2>1. child \in [Pids -> ChildStates] /\ hold \in [Pids -> BOOLEAN]
    BY DEF IInv, TypeOK, CpmTypeOK
  <2>2. PICK s \in {"run", "killed"} : child' = [child EXCEPT ![p] = s]
    BY <1>5
  <2>3. hold' = [hold EXCEPT ![p] = TRUE] /\ s \in ChildStates /\ TRUE \in BOOLEAN
    BY <1>5 DEF ChildStates
  <2>. QED
    BY <2>1, <2>2, <2>3, Overridden
<1>6. /\ psock[p] = NoFd /\ ~desc[p] /\ cst[p] = {}
      /\ \A d \in Clients : proc[d] # p
  BY <1>5 DEF IInv, FreshInv
<1>7. proc[c] = None
  BY <1>1 DEF IInv, ProcInv
<1>8. p # None /\ p \notin Clients /\ p \in Callbacks
  OBVIOUS
<1>9. /\ proc' = [proc EXCEPT ![c] = p] /\ psock' = [psock EXCEPT ![p] = f]
      /\ busy'[c] /\ proc'[c] = p /\ psock'[p] = f
      /\ \A d \in Clients : d # c => busy'[d] = busy[d] /\ proc'[d] = proc[d]
      /\ \A q \in Pids : q # p => psock'[q] = psock[q]
  BY <1>1, <1>2 DEF IInv, TypeOK
<1>10. CASE /\ RegisterRead(f, p)
            /\ desc' = [desc EXCEPT ![p] = TRUE]
            /\ UNCHANGED <<wr, left, closeAfter, closed>>
  <2>1. /\ rd' \in [Fds -> Callbacks \cup {None}]
        /\ ep' \in [Fds -> SUBSET Types]
        /\ rd'[f] = p
        /\ \A g \in Fds : g # f => rd'[g] = rd[g]
        /\ \A g \in Fds : rd[g] # None => rd'[g] # None
        /\ \A g \in Fds : "r" \in ep'[g] => rd'[g] # None
        /\ \A g \in Fds : "w" \in ep'[g] => wr[g] # None
    BY <1>3, <1>8, <1>10, ReadRegistered DEF IInv
  <2>3. desc' = [desc EXCEPT ![p] = TRUE] /\ UNCHANGED <<wr, left, closeAfter, closed>>
    BY <1>10
  <2>2. desc'[p] /\ \A q \in Pids : q # p => desc'[q] = desc[q]
    BY <1>10 DEF IInv, TypeOK
  <2>21. TypeOK'
    <3>1. EmTypeOK'
      BY <1>1, <2>1, <2>3 DEF IInv, TypeOK, EmTypeOK
    <3>2. child' \in [Pids -> ChildStates] /\ hold' \in [Pids -> BOOLEAN]
      BY <1>51
    <3>3. CpmTypeOK'
      BY <1>5, <3>2 DEF IInv, TypeOK, CpmTypeOK
    <3>4. busy' \in [Clients -> BOOLEAN] /\ inbox' \in [Clients -> BOOLEAN]
      BY <1>1, Zenon DEF IInv, TypeOK
    <3>5. desc' \in [Pids -> BOOLEAN]
      BY <2>2, <2>3, Zenon DEF IInv, TypeOK
    <3>6. /\ proc' \in [Clients -> Pids \cup {None}]
          /\ psock' \in [Pids -> Fds \cup {NoFd}]
          /\ age' \in [Clients -> 0 .. KeepAlive + 1]
      BY <1>1, <1>3, <1>9 DEF IInv, TypeOK
    <3>. QED
      BY <1>1, <2>3, <3>1, <3>3, <3>4, <3>5, <3>6 DEF IInv, TypeOK
  <2>22. FdsInv'
    BY <1>1, <1>3, <1>4, <1>5, <1>6, <1>7, <1>8, <1>9, <2>1, <2>2, <2>3 DEF IInv, FdsInv
  <2>23. ConnInv'
    BY <1>1, <1>3, <1>4, <1>5, <1>6, <1>7, <1>8, <1>9, <2>1, <2>2, <2>3 DEF IInv, ConnInv
  <2>24. ProcInv'
    BY <1>1, <1>3, <1>4, <1>5, <1>6, <1>7, <1>8, <1>9, <2>1, <2>2, <2>3 DEF IInv, ProcInv
  <2>25. FreshInv'
    BY <1>1, <1>3, <1>4, <1>5, <1>6, <1>7, <1>8, <1>9, <2>1, <2>2, <2>3 DEF IInv, FreshInv, CpmTypeOK, TypeOK
  <2>26. RdInv'
    BY <1>1, <1>3, <1>4, <1>5, <1>6, <1>7, <1>8, <1>9, <2>1, <2>2, <2>3 DEF IInv, RdInv, ReaderLive
  <2>27. WrInv'
    <3>. SUFFICES ASSUME NEW g \in Fds, wr[g] # None
                  PROVE  wr[g] \in Clients /\ (<<g, "w">> \in toDel \/ WriterLive(g)')
      BY <1>1, <2>3 DEF WrInv
    <3>1. wr[g] \in Clients /\ (<<g, "w">> \in toDel \/ WriterLive(g))
      BY DEF IInv, WrInv
    <3>2. WriterLive(g) => wr[g] # c
      BY <1>1, <3>1 DEF WriterLive
    <3>3. proc[wr[g]] \in Pids \cup {None}
      BY <3>1 DEF IInv, TypeOK
    <3>4. WriterLive(g) => WriterLive(g)'
      BY <1>1, <1>6, <1>9, <2>2, <2>3, <3>1, <3>2, <3>3 DEF WriterLive
    <3>. QED
      BY <3>1, <3>4
  <2>28. EpInv'
    BY <1>1, <1>3, <1>4, <1>5, <1>6, <1>7, <1>8, <1>9, <2>1, <2>2, <2>3 DEF IInv, EpInv
  <2>29. PollInv'
    BY <1>1, <1>3, <1>4, <1>5, <1>6, <1>7, <1>8, <1>9, <2>1, <2>2, <2>3 DEF IInv, PollInv
  <2>30. ReadyInv'
    BY <1>1, <1>3, <1>4, <1>5, <1>6, <1>7, <1>8, <1>9, <2>1, <2>2, <2>3 DEF IInv, ReadyInv
  <2>. QED
    BY <2>21, <2>22, <2>23, <2>24, <2>25, <2>26, <2>27, <2>28, <2>29, <2>30
       DEF IInv
<1>11. CASE /\ PrepareResponse(c, TRUE)
            /\ UNCHANGED <<rd, desc>>
  <2>1. /\ wr' \in [Fds -> Callbacks \cup {None}]
        /\ ep' \in [Fds -> SUBSET Types]
        /\ left' \in [Clients -> 0 .. MaxUnits]
        /\ closeAfter' \in [Clients -> BOOLEAN]
        /\ closed' \in [Clients -> BOOLEAN]
        /\ \A g \in Fds : wr'[g] = wr[g] \/ (g = sfd[c] /\ wr'[g] = c)
        /\ \A g \in Fds : wr[g] # None => wr'[g] # None
        /\ \A g \in Fds : "r" \in ep'[g] => rd[g] # None
        /\ \A g \in Fds : "w" \in ep'[g] => wr'[g] # None
    BY <1>11, ResponsePrepared DEF IInv
  <2>2. UNCHANGED <<rd, desc>>
    BY <1>11
  <2>21. TypeOK'
    <3>1. EmTypeOK'
      BY <1>1, <2>1, <2>2, <1>11 DEF IInv, TypeOK, EmTypeOK
    <3>2. child' \in [Pids -> ChildStates] /\ hold' \in [Pids -> BOOLEAN]
      BY <1>51
    <3>3. CpmTypeOK'
      BY <1>5, <3>2 DEF IInv, TypeOK, CpmTypeOK
    <3>4. busy' \in [Clients -> BOOLEAN] /\ inbox' \in [Clients -> BOOLEAN]
      BY <1>1, Zenon DEF IInv, TypeOK
    <3>5. desc' \in [Pids -> BOOLEAN]
      BY <2>2, <2>2, Zenon DEF IInv, TypeOK
    <3>6. /\ proc' \in [Clients -> Pids \cup {None}]
          /\ psock' \in [Pids -> Fds \cup {NoFd}]
          /\ age' \in [Clients -> 0 .. KeepAlive + 1]
      BY <1>1, <1>3, <1>9 DEF IInv, TypeOK
    <3>. QED
      BY <1>1, <2>1, <2>2, <3>1, <3>3, <3>4, <3>5, <3>6 DEF IInv, TypeOK
  <2>22. FdsInv'
    BY <1>1, <1>3, <1>4, <1>5, <1>6, <1>7, <1>8, <1>9, <2>1, <2>2 DEF
       IInv, FdsInv
  <2>23. ConnInv'
    BY <1>1, <1>3, <1>4, <1>5, <1>6, <1>7, <1>8, <1>9, <2>1, <2>2 DEF
       IInv, ConnInv
  <2>24. ProcInv'
    BY <1>1, <1>3, <1>4, <1>5, <1>6, <1>7, <1>8, <1>9, <2>1, <2>2 DEF
       IInv, ProcInv
  <2>25. FreshInv'
    BY <1>1, <1>3, <1>4, <1>5, <1>6, <1>7, <1>8, <1>9, <2>1, <2>2 DEF
       IInv, FreshInv, CpmTypeOK, TypeOK
  <2>26. RdInv'
    <3>. SUFFICES ASSUME NEW g \in Fds, rd[g] # None
                  PROVE  <<g, "r">> \in toDel \/ ReaderLive(g)'
      BY <1>1, <2>2 DEF RdInv
    <3>1. <<g, "r">> \in toDel \/ ReaderLive(g)
      BY DEF IInv, RdInv
    <3>2. rd[g] \in Pids /\ psock[rd[g]] = g => rd[g] # p
      BY <1>6
    <3>. QED
      BY <1>1, <1>9, <2>2, <3>1, <3>2 DEF ReaderLive
  <2>27. WrInv'
    BY <1>1, <1>3, <1>4, <1>5, <1>6, <1>7, <1>8, <1>9, <2>1, <2>2 DEF
       IInv, WrInv, WriterLive
  <2>28. EpInv'
    BY <1>1, <1>3, <1>4, <1>5, <1>6, <1>7, <1>8, <1>9, <2>1, <2>2 DEF
       IInv, EpInv
  <2>29. PollInv'
    BY <1>1, <1>3, <1>4, <1>5, <1>6, <1>7, <1>8, <1>9, <2>1, <2>2 DEF
       IInv, PollInv
  <2>30. ReadyInv'
    BY <1>1, <1>3, <1>4, <1>5, <1>6, <1>7, <1>8, <1>9, <2>1, <2>2 DEF
       IInv, ReadyInv
  <2>. QED
    BY <2>21, <2>22, <2>23, <2>24, <2>25, <2>26, <2>27, <2>28, <2>29, <2>30
       DEF IInv
<1>. QED
  BY <1>2, <1>10, <1>11

LEMMA RecvStep ==
  ASSUME IInv, NEW c \in Clients, RecvCb(c)
  PROVE  IInv'
<1>1. PICK f \in Fds : Dispatch(f, "r", c)
  BY DEF RecvCb
<1>2. phase = "dispatch" /\ UNCHANGED <<phase, run>>
  BY DEF RecvCb
<1>3. rd[f] = c /\ sfd[c] = f /\ ready' = ready \ {<<f, "r">>}
  <2>1. rd[f] = c /\ ReaderLive(f) /\ ready' = ready \ {<<f, "r">>}
    BY <1>1, <1>2, ReaderCalled
  <2>. QED
    BY <2>1 DEF ReaderLive
<1>4. sfd[c] \in Fds /\ sfd[c] # NoFd
  BY <1>3
<1>5. CASE RecvIgnored(c)
  <2>21. TypeOK'
    BY <1>2, <1>3, <1>5 DEF IInv, TypeOK, EmTypeOK, CpmTypeOK, ChildStates,
       Conns, Phases, RecvIgnored
  <2>22. FdsInv'
    BY <1>2, <1>3, <1>5 DEF IInv, FdsInv, RecvIgnored
  <2>23. ConnInv'
    BY <1>2, <1>3, <1>5 DEF IInv, ConnInv, RecvIgnored
  <2>24. ProcInv'
    BY <1>2, <1>3, <1>5 DEF IInv, ProcInv, RecvIgnored
  <2>25. FreshInv'
    BY <1>2, <1>3, <1>5 DEF IInv, FreshInv, RecvIgnored
  <2>26. RdInv'
    BY <1>2, <1>3, <1>5 DEF IInv, RdInv, ReaderLive, RecvIgnored
  <2>27. WrInv'
    BY <1>2, <1>3, <1>5 DEF IInv, WrInv, WriterLive, RecvIgnored
  <2>28. EpInv'
    BY <1>2, <1>3, <1>5 DEF IInv, EpInv, RecvIgnored
  <2>29. PollInv'
    BY <1>2, <1>3, <1>5 DEF IInv, PollInv, RecvIgnored
  <2>30. ReadyInv'
    BY <1>2, <1>3, <1>5 DEF IInv, ReadyInv, RecvIgnored
  <2>. QED
    BY <2>21, <2>22, <2>23, <2>24, <2>25, <2>26, <2>27, <2>28, <2>29, <2>30
       DEF IInv
<1>6. CASE RecvFails(c)
  <2>21. TypeOK'
    BY <1>2, <1>3, <1>6 DEF IInv, TypeOK, EmTypeOK, CpmTypeOK, ChildStates,
       Conns, Phases, RecvFails
  <2>22. FdsInv'
    BY <1>2, <1>3, <1>6 DEF IInv, FdsInv, RecvFails
  <2>23. ConnInv'
    BY <1>2, <1>3, <1>6 DEF IInv, ConnInv, RecvFails
  <2>24. ProcInv'
    BY <1>2, <1>3, <1>6 DEF IInv, ProcInv, RecvFails
  <2>25. FreshInv'
    BY <1>2, <1>3, <1>6 DEF IInv, FreshInv, RecvFails
  <2>26. RdInv'
    BY <1>2, <1>3, <1>6 DEF IInv, RdInv, ReaderLive, RecvFails
  <2>27. WrInv'
    BY <1>2, <1>3, <1>6 DEF IInv, WrInv, WriterLive, RecvFails
  <2>28. EpInv'
    BY <1>2, <1>3, <1>6 DEF IInv, EpInv, RecvFails
  <2>29. PollInv'
    BY <1>2, <1>3, <1>6 DEF IInv, PollInv, RecvFails
  <2>30. ReadyInv'
    BY <1>2, <1>3, <1>6 DEF IInv, ReadyInv, RecvFails
  <2>. QED
    BY <2>21, <2>22, <2>23, <2>24, <2>25, <2>26, <2>27, <2>28, <2>29, <2>30
       DEF IInv
<1>7. CASE RecvPartial(c)
  <2>21. TypeOK'
    BY <1>2, <1>3, <1>7 DEF IInv, TypeOK, EmTypeOK, CpmTypeOK, ChildStates,
       Conns, Phases, RecvPartial, Received
  <2>22. FdsInv'
    BY <1>2, <1>3, <1>7 DEF IInv, FdsInv, RecvPartial, Received
  <2>23. ConnInv'
    BY <1>2, <1>3, <1>7 DEF IInv, ConnInv, RecvPartial, Received
  <2>24. ProcInv'
    BY <1>2, <1>3, <1>7 DEF IInv, ProcInv, RecvPartial, Received
  <2>25. FreshInv'
    BY <1>2, <1>3, <1>7 DEF IInv, FreshInv, RecvPartial, Received
  <2>26. RdInv'
    BY <1>2, <1>3, <1>7 DEF IInv, RdInv, ReaderLive, RecvPartial, Received
  <2>27. WrInv'
    BY <1>2, <1>3, <1>7 DEF IInv, WrInv, WriterLive, RecvPartial, Received
  <2>28. EpInv'
    BY <1>2, <1>3, <1>7 DEF IInv, EpInv, RecvPartial, Received
  <2>29. PollInv'
    BY <1>2, <1>3, <1>7 DEF IInv, PollInv, RecvPartial, Received
  <2>30. ReadyInv'
    BY <1>2, <1>3, <1>7 DEF IInv, ReadyInv, RecvPartial, Received
  <2>. QED
    BY <2>21, <2>22, <2>23, <2>24, <2>25, <2>26, <2>27, <2>28, <2>29, <2>30
       DEF IInv
<1>8. CASE RecvAnswered(c)
  <2>1. PICK close \in BOOLEAN : PrepareResponse(c, close)
    BY <1>8 DEF RecvAnswered
  <2>2. /\ wr' \in [Fds -> Callbacks \cup {None}]
        /\ ep' \in [Fds -> SUBSET Types]
        /\ left' \in [Clients -> 0 .. MaxUnits]
        /\ closeAfter' \in [Clients -> BOOLEAN]
        /\ closed' \in [Clients -> BOOLEAN]
        /\ \A g \in Fds : wr'[g] = wr[g] \/ (g = sfd[c] /\ wr'[g] = c)
        /\ \A g \in Fds : wr[g] # None => wr'[g] # None
        /\ \A g \in Fds : "r" \in ep'[g] => rd[g] # None
        /\ \A g \in Fds : "w" \in ep'[g] => wr'[g] # None
    BY <1>4, <2>1, ResponsePrepared DEF IInv
  <2>3. /\ ~busy[c] /\ busy' = [busy EXCEPT ![c] = TRUE]
        /\ inbox' = [inbox EXCEPT ![c] = FALSE] /\ age' = [age EXCEPT ![c] = 0]
        /\ UNCHANGED <<conn, sent, sfd, rd, toDel, osVars, cpmVars, proc, cgiVars>>
    BY <1>8 DEF RecvAnswered, Received
  <2>4. proc[c] = None
    BY <2>3 DEF IInv, ProcInv
  <2>5. busy'[c] /\ \A d \in Clients : d # c => busy'[d] = busy[d]
    BY <2>3 DEF IInv, TypeOK
  <2>21. TypeOK'
    BY <1>2, <1>3, <1>4, <2>2, <2>3, <2>4, <2>5 DEF IInv, TypeOK, EmTypeOK,
       CpmTypeOK, ChildStates, Conns, Phases
  <2>22. FdsInv'
    BY <1>2, <1>3, <1>4, <2>2, <2>3, <2>4, <2>5 DEF IInv, FdsInv
  <2>23. ConnInv'
    BY <1>2, <1>3, <1>4, <2>2, <2>3, <2>4, <2>5 DEF IInv, ConnInv
  <2>24. ProcInv'
    BY <1>2, <1>3, <1>4, <2>2, <2>3, <2>4, <2>5 DEF IInv, ProcInv
  <2>25. FreshInv'
    BY <1>2, <1>3, <1>4, <2>2, <2>3, <2>4, <2>5 DEF IInv, FreshInv
  <2>26. RdInv'
    BY <1>2, <1>3, <1>4, <2>2, <2>3, <2>4, <2>5 DEF IInv, RdInv, ReaderLive
  <2>27. WrInv'
    <3>. SUFFICES ASSUME NEW g \in Fds, wr'[g] # None
                  PROVE  wr'[g] \in Clients /\ (<<g, "w">> \in toDel \/ WriterLive(g)')
      BY <2>3 DEF WrInv
    <3>1. CASE g = sfd[c] /\ wr'[g] = c
      BY <2>3, <2>4, <2>5, <3>1 DEF WriterLive
    <3>2. CASE wr'[g] = wr[g]
      <4>1. wr[g] \in Clients /\ (<<g, "w">> \in toDel \/ WriterLive(g))
        BY <3>2 DEF IInv, WrInv
      <4>2. busy[wr[g]] => busy'[wr[g]]
        BY <2>5, <4>1
      <4>. QED
        BY <2>3, <3>2, <4>1, <4>2 DEF WriterLive
    <3>. QED
      BY <2>2, <3>1, <3>2
  <2>28. EpInv'
    BY <1>2, <1>3, <1>4, <2>2, <2>3, <2>4, <2>5 DEF IInv, EpInv
  <2>29. PollInv'
    BY <1>2, <1>3, <1>4, <2>2, <2>3, <2>4, <2>5 DEF IInv, PollInv
  <2>30. ReadyInv'
    BY <1>2, <1>3, <1>4, <2>2, <2>3, <2>4, <2>5 DEF IInv, ReadyInv
  <2>. QED
    BY <2>21, <2>22, <2>23, <2>24, <2>25, <2>26, <2>27, <2>28, <2>29, <2>30
       DEF IInv
<1>9. CASE RecvStartsCgi(c)
  BY <1>2, <1>3, <1>4, <1>9, StartsCgiStep
<1>. QED
  BY <1>5, <1>6, <1>7, <1>8, <1>9 DEF RecvCb


-----------------------------------------------------------------------------
(* What a child's news does to its processor and to the session c it        *)
(* serves: the response gets a write callback only when the child is let    *)
(* go, and a read callback that still has output to hear of is kept or its  *)
(* deletion is queued.                                                      *)
Answers(p, c) ==
    /\ wr' \in [Fds -> Callbacks \cup {None}]
    /\ ep' \in [Fds -> SUBSET Types]
    /\ left' \in [Clients -> 0 .. MaxUnits]
    /\ closeAfter' \in [Clients -> BOOLEAN]
    /\ closed' \in [Clients -> BOOLEAN]
    /\ desc' \in [Pids -> BOOLEAN]
    /\ cst' \in [Pids -> SUBSET {"read", "exited", "done"}]
    /\ \A g \in Fds : \/ wr'[g] = wr[g]
                      \/ g = sfd[c] /\ wr'[g] = c /\ ~desc'[p]
    /\ \A g \in Fds : wr[g] # None => wr'[g] # None
    /\ \A g \in Fds : "r" \in ep'[g] => rd[g] # None
    /\ \A g \in Fds : "w" \in ep'[g] => wr'[g] # None
    /\ \A q \in Pids : q # p => desc'[q] = desc[q] /\ cst'[q] = cst[q]
    /\ desc'[p] => desc[p]
    /\ desc[p] /\ "read" \notin cst[p] =>
         \/ <<psock[p], "r">> \in toDel'
         \/ desc'[p] /\ "read" \notin cst'[p]

LEMMA FailureAnswers ==
  ASSUME IInv, NEW p \in Pids, NEW c \in Clients, sfd[c] \in Fds, FailCgi(p, c)
  PROVE  Answers(p, c)
<1>1. PrepareResponse(c, TRUE) /\ UNCHANGED cst
  BY DEF FailCgi
<1>2. desc' = [desc EXCEPT ![p] = FALSE]
  BY DEF FailCgi
<1>3. desc' \in [Pids -> BOOLEAN]
  BY <1>2, Zenon DEF IInv, TypeOK
<1>4. ~desc'[p] /\ \A q \in Pids : q # p => desc'[q] = desc[q]
  BY <1>2, Zenon DEF IInv, TypeOK
<1>5. <<psock[p], "r">> \in toDel'
  BY DEF FailCgi, Both
<1>6. /\ wr' \in [Fds -> Callbacks \cup {None}]
      /\ ep' \in [Fds -> SUBSET Types]
      /\ left' \in [Clients -> 0 .. MaxUnits]
      /\ closeAfter' \in [Clients -> BOOLEAN]
      /\ closed' \in [Clients -> BOOLEAN]
      /\ \A g \in Fds : wr'[g] = wr[g] \/ (g = sfd[c] /\ wr'[g] = c)
      /\ \A g \in Fds : wr[g] # None => wr'[g] # None
      /\ \A g \in Fds : "r" \in ep'[g] => rd[g] # None
      /\ \A g \in Fds : "w" \in ep'[g] => wr'[g] # None
  BY <1>1, ResponsePrepared DEF IInv
<1>. QED
  BY <1>1, <1>3, <1>4, <1>5, <1>6 DEF Answers, IInv, TypeOK

LEMMA ProgressAnswers ==
  ASSUME IInv, NEW p \in Pids, NEW c \in Clients, sfd[c] \in Fds,
         NEW s \in {"read", "exited"},
         ProceedWithRsIfRdy(p, c, cst[p] \cup {s}),
         s = "read" => <<psock[p], "r">> \in toDel'
  PROVE  Answers(p, c)
<1>1. CASE cst[p] \cup {s} = {"read", "exited"}
  <2>1. cst' = [cst EXCEPT ![p] = {"done"}] /\ desc' = [desc EXCEPT ![p] = FALSE]
    BY <1>1 DEF ProceedWithRsIfRdy
  <2>2. PICK close \in BOOLEAN : PrepareResponse(c, close)
    BY <1>1 DEF ProceedWithRsIfRdy
  <2>3. desc' \in [Pids -> BOOLEAN]
    BY <2>1, Zenon DEF IInv, TypeOK
  <2>4. ~desc'[p] /\ \A q \in Pids : q # p => desc'[q] = desc[q]
    BY <2>1, Zenon DEF IInv, TypeOK
  <2>5. /\ cst' \in [Pids -> SUBSET {"read", "exited", "done"}]
        /\ \A q \in Pids : q # p => cst'[q] = cst[q]
    BY <2>1 DEF IInv, TypeOK
  <2>6. "read" \notin cst[p] => <<psock[p], "r">> \in toDel'
    BY <1>1
  <2>7. /\ wr' \in [Fds -> Callbacks \cup {None}]
        /\ ep' \in [Fds -> SUBSET Types]
        /\ left' \in [Clients -> 0 .. MaxUnits]
        /\ closeAfter' \in [Clients -> BOOLEAN]
        /\ closed' \in [Clients -> BOOLEAN]
        /\ \A g \in Fds : wr'[g] = wr[g] \/ (g = sfd[c] /\ wr'[g] = c)
        /\ \A g \in Fds : wr[g] # None => wr'[g] # None
        /\ \A g \in Fds : "r" \in ep'[g] => rd[g] # None
        /\ \A g \in Fds : "w" \in ep'[g] => wr'[g] # None
    BY <2>2, ResponsePrepared DEF IInv
  <2>. QED
    BY <2>3, <2>4, <2>5, <2>6, <2>7 DEF Answers
<1>2. CASE cst[p] \cup {s} # {"read", "exited"}
  <2>1. /\ cst' = [cst EXCEPT ![p] = cst[p] \cup {s}]
        /\ UNCHANGED <<desc, wr, ep, left, closeAfter, closed>>
    BY <1>2 DEF ProceedWithRsIfRdy
  <2>2. /\ cst' \in [Pids -> SUBSET {"read", "exited", "done"}]
        /\ cst'[p] = cst[p] \cup {s}
        /\ \A q \in Pids : q # p => cst'[q] = cst[q]
    BY <2>1 DEF IInv, TypeOK
  <2>. QED
    BY <2>1, <2>2 DEF Answers, IInv, TypeOK, EmTypeOK, EpInv
<1>. QED
  BY <1>1, <1>2

(* The conjuncts such a step disturbs.                                      *)
LEMMA AnswersKept ==
  ASSUME IInv, NEW p \in Pids, NEW c \in Clients, proc[c] = p, Answers(p, c),
         toDel \subseteq toDel',
         UNCHANGED <<rd, conn, sfd, busy, proc, psock>>,
         \A q \in Pids : child'[q] = "none" => child[q] = "none"
  PROVE  FdsInv' /\ ConnInv' /\ ProcInv' /\ FreshInv' /\ RdInv' /\ WrInv' /\ EpInv'
<1>1. FdsInv' /\ ConnInv' /\ ProcInv'
  BY DEF IInv, FdsInv, ConnInv, ProcInv
<1>2. FreshInv'
  BY DEF IInv, FreshInv, Answers
<1>3. RdInv'
  <2>. SUFFICES ASSUME NEW g \in Fds, rd[g] # None, <<g, "r">> \notin toDel'
                PROVE  ReaderLive(g)'
    BY DEF RdInv
  <2>1. ReaderLive(g)
    BY DEF IInv, RdInv
  <2>2. rd[g] = p /\ psock[p] = g /\ desc[p] /\ "read" \notin cst[p] =>
          desc'[p] /\ "read" \notin cst'[p]
    BY DEF Answers
  <2>3. rd[g] \in Pids /\ rd[g] # p =>
          desc'[rd[g]] = desc[rd[g]] /\ cst'[rd[g]] = cst[rd[g]]
    BY DEF Answers
  <2>. QED
    BY <2>1, <2>2, <2>3 DEF ReaderLive
<1>4. WrInv'
  <2>. SUFFICES ASSUME NEW g \in Fds, wr'[g] # None
                PROVE  wr'[g] \in Clients /\ (<<g, "w">> \in toDel' \/ WriterLive(g)')
    BY DEF WrInv
  <2>1. CASE g = sfd[c] /\ wr'[g] = c /\ ~desc'[p]
    BY <2>1 DEF IInv, ProcInv, WriterLive
  <2>2. CASE wr'[g] = wr[g]
    <3>1. wr[g] \in Clients /\ (<<g, "w">> \in toDel \/ WriterLive(g))
      BY <2>2 DEF IInv, WrInv
    <3>2. proc[wr[g]] \in Pids \cup {None}
      BY <3>1 DEF IInv, TypeOK
    <3>3. proc[wr[g]] # None /\ ~desc[proc[wr[g]]] => ~desc'[proc[wr[g]]]
      BY <3>2 DEF Answers
    <3>. QED
      BY <2>2, <3>1, <3>3 DEF WriterLive
  <2>. QED
    BY <2>1, <2>2 DEF Answers
<1>5. EpInv'
  BY DEF EpInv, Answers
<1>. QED
  BY <1>1, <1>2, <1>3, <1>4, <1>5

LEMMA ChildrenKilled ==
  ASSUME TypeOK, NEW P \in SUBSET Pids, KillChildren(P)
  PROVE  /\ child' \in [Pids -> ChildStates]
         /\ kids' \subseteq Pids
         /\ kage' \in [Pids -> 0 .. CgiTimeout]
         /\ \A p \in Pids : child'[p] = "none" => child[p] = "none"
  BY DEF TypeOK, CpmTypeOK, KillChildren, Killed, ChildStates

LEMMA CgiReadStep ==
  ASSUME IInv, NEW p \in Pids, CgiReadCb(p)
  PROVE  IInv'
<1>1. PICK f \in Fds, c \in Clients :
        /\ Dispatch(f, "r", p) /\ proc[c] = p
        /\ CgiRecvFails(p, c) \/ CgiReads(p) \/ CgiOutputEnds(p, c)
  BY DEF CgiReadCb
<1>2. /\ phase = "dispatch"
      /\ UNCHANGED <<rd, hold, todo, reapedNow, netVars, sfd, busy, age, proc,
                     psock, phase, run>>
  BY DEF CgiReadCb
<1>3. /\ ready' = ready \ {<<f, "r">>}
      /\ psock[p] = f /\ desc[p] /\ "read" \notin cst[p]
  <2>1. rd[f] = p /\ ReaderLive(f) /\ ready' = ready \ {<<f, "r">>}
    BY <1>1, <1>2, ReaderCalled
  <2>. QED
    BY <2>1 DEF ReaderLive
<1>4. sfd[c] \in Fds /\ sfd[c] # f
  <2>1. sfd[c] # NoFd /\ sfd[c] \in Fds \cup {NoFd}
    BY <1>1 DEF IInv, ProcInv, TypeOK
  <2>. QED
    BY <1>3, <2>1 DEF IInv, FdsInv
<1>5. <<f, "w">> \notin ready
  <2>. SUFFICES ASSUME <<f, "w">> \in ready PROVE FALSE
    OBVIOUS
  <2>1. wr[f] # None /\ <<f, "w">> \notin toDel
    BY <1>2 DEF IInv, ReadyInv
  <2>2. wr[f] \in Clients /\ sfd[wr[f]] = f
    BY <2>1 DEF IInv, WrInv, WriterLive
  <2>. QED
    BY <1>3, <2>2 DEF IInv, FdsInv
<1>6. CASE CgiReads(p)
  <2>1. data' \in [Pids -> BOOLEAN]
    BY <1>6, Zenon DEF CgiReads, IInv, TypeOK, CpmTypeOK
  <2>2. TypeOK'
    BY <1>2, <1>3, <1>6, <2>1 DEF CgiReads, IInv, TypeOK, EmTypeOK, CpmTypeOK
  <2>3. FdsInv' /\ ConnInv' /\ ProcInv' /\ FreshInv'
    BY <1>2, <1>6 DEF CgiReads, IInv, FdsInv, ConnInv, ProcInv, FreshInv
  <2>4. RdInv' /\ WrInv' /\ EpInv'
    BY <1>2, <1>6 DEF CgiReads, IInv, RdInv, ReaderLive, WrInv, WriterLive, EpInv
  <2>5. PollInv' /\ ReadyInv'
    BY <1>2, <1>3, <1>6 DEF CgiReads, IInv, PollInv, ReadyInv
  <2>. QED
    BY <2>2, <2>3, <2>4, <2>5 DEF IInv
<1>7. ASSUME Answers(p, c), toDel' = toDel \cup {<<f, "r">>, <<f, "w">>},
             UNCHANGED data, child' \in [Pids -> ChildStates],
             kids' \subseteq Pids, kage' \in [Pids -> 0 .. CgiTimeout],
             \A q \in Pids : child'[q] = "none" => child[q] = "none"
      PROVE  IInv'
  <2>1. TypeOK'
    BY <1>2, <1>3, <1>7 DEF Answers, IInv, TypeOK, EmTypeOK, CpmTypeOK
  <2>2. FdsInv' /\ ConnInv' /\ ProcInv' /\ FreshInv' /\ RdInv' /\ WrInv' /\ EpInv'
    BY <1>1, <1>2, <1>7, AnswersKept
  <2>3. PollInv'
    BY <1>2 DEF PollInv
  <2>4. ReadyInv'
    BY <1>2, <1>3, <1>5, <1>7 DEF IInv, ReadyInv, Answers
  <2>. QED
    BY <2>1, <2>2, <2>3, <2>4 DEF IInv
<1>8. CASE CgiRecvFails(p, c)
  <2>1. KillChildren({p}) /\ FailCgi(p, c) /\ UNCHANGED data
    BY <1>8 DEF CgiRecvFails
  <2>2. toDel' = toDel \cup {<<f, "r">>, <<f, "w">>}
    BY <1>3, <2>1 DEF FailCgi, Both
  <2>. QED
    BY <1>4, <1>7, <2>1, <2>2, FailureAnswers, ChildrenKilled DEF IInv
<1>9. CASE CgiOutputEnds(p, c)
  <2>1. /\ ProceedWithRsIfRdy(p, c, cst[p] \cup {"read"})
        /\ UNCHANGED <<child, kids, kage, data>>
    BY <1>9 DEF CgiOutputEnds
  <2>2. toDel' = toDel \cup {<<f, "r">>, <<f, "w">>}
    BY <1>3, <1>9 DEF CgiOutputEnds, Both
  <2>3. Answers(p, c)
    BY <1>3, <1>4, <2>1, <2>2, ProgressAnswers
  <2>. QED
    BY <1>7, <2>1, <2>2, <2>3 DEF IInv, TypeOK, CpmTypeOK
<1>. QED
  BY <1>1, <1>6, <1>8, <1>9

LEMMA WaitStep ==
  ASSUME IInv, WaitLoop
  PROVE  IInv'
<1>1. /\ phase = "wait"
      /\ UNCHANGED <<rd, ready, netVars, sfd, busy, age, proc, psock, phase, run>>
  BY DEF WaitLoop
<1>2. ASSUME NEW p \in Pids, WaitMisses(p),
             UNCHANGED <<wr, ep, toDel, left, closeAfter, closed, desc, cst>>
      PROVE  IInv'
  <2>1. TypeOK'
    BY <1>1, <1>2 DEF WaitMisses, IInv, TypeOK, EmTypeOK, CpmTypeOK
  <2>2. FdsInv' /\ ConnInv' /\ ProcInv' /\ FreshInv'
    BY <1>1, <1>2 DEF WaitMisses, IInv, FdsInv, ConnInv, ProcInv, FreshInv
  <2>3. RdInv' /\ WrInv' /\ EpInv' /\ PollInv' /\ ReadyInv'
    BY <1>1, <1>2 DEF IInv, RdInv, ReaderLive, WrInv, WriterLive, EpInv, PollInv, ReadyInv
  <2>. QED
    BY <2>1, <2>2, <2>3 DEF IInv
<1>3. ASSUME NEW p \in Pids, NEW c \in Clients, Reap(p), proc[c] = p,
             ChildDoneCb(p, c)
      PROVE  IInv'
  <2>1. /\ child' \in [Pids -> ChildStates]
        /\ \A q \in Pids : child'[q] = "none" => child[q] = "none"
    BY <1>3 DEF Reap, ChildStates, Zombie, Reaped, IInv, TypeOK, CpmTypeOK
  <2>2. sfd[c] \in Fds
    BY <1>3 DEF IInv, ProcInv, TypeOK
  <2>3. Answers(p, c) /\ toDel \subseteq toDel' /\ toDel' \subseteq Events
    <3>1. CASE FailCgi(p, c)
      <4>1. psock[p] \in Fds
        BY <1>3 DEF IInv, ProcInv, TypeOK
      <4>2. toDel' = toDel \cup {<<psock[p], "r">>, <<psock[p], "w">>}
        BY <3>1 DEF FailCgi, Both
      <4>. QED
        BY <2>2, <3>1, <4>1, <4>2, FailureAnswers DEF IInv, TypeOK, EmTypeOK
    <3>2. CASE ProceedWithRsIfRdy(p, c, cst[p] \cup {"exited"}) /\ UNCHANGED toDel
      BY <2>2, <3>2, ProgressAnswers DEF IInv, TypeOK, EmTypeOK
    <3>. QED
      BY <1>3, <3>1, <3>2 DEF ChildDoneCb
  <2>4. TypeOK'
    BY <1>1, <1>3, <2>1, <2>3 DEF Reap, Answers, IInv, TypeOK, EmTypeOK, CpmTypeOK
  <2>5. FdsInv' /\ ConnInv' /\ ProcInv' /\ FreshInv' /\ RdInv' /\ WrInv' /\ EpInv'
    BY <1>1, <1>3, <2>1, <2>3, AnswersKept
  <2>6. PollInv' /\ ReadyInv'
    BY <1>1 DEF PollInv, ReadyInv
  <2>. QED
    BY <2>4, <2>5, <2>6 DEF IInv
<1>. QED
  BY <1>2, <1>3 DEF WaitLoop

-----------------------------------------------------------------------------
(* Destroying processors: they lose their sockets, the others are left      *)
(* alone.                                                                   *)
LEMMA ProcessorsDestroyed ==
  ASSUME TypeOK, NEW P \in SUBSET Pids, DestroyProcessors(P)
  PROVE  /\ CpmTypeOK'
         /\ desc' \in [Pids -> BOOLEAN]
         /\ cst' \in [Pids -> SUBSET {"read", "exited", "done"}]
         /\ psock' \in [Pids -> Fds \cup {NoFd}]
         /\ \A p \in Pids : child'[p] = "none" => child[p] = "none"
         /\ \A p \in P : psock'[p] = NoFd /\ ~desc'[p] /\ cst'[p] = {}
         /\ \A p \in Pids \ P : /\ psock'[p] = psock[p]
                                /\ desc'[p] = desc[p]
                                /\ cst'[p] = cst[p]
<1>1. /\ child' \in [Pids -> ChildStates] /\ kids' \subseteq Pids
      /\ kage' \in [Pids -> 0 .. CgiTimeout]
      /\ \A p \in Pids : child'[p] = "none" => child[p] = "none"
  BY ChildrenKilled DEF DestroyProcessors
<1>2. desc' \in [Pids -> BOOLEAN] /\ data' \in [Pids -> BOOLEAN]
  BY Zenon DEF DestroyProcessors
<1>3. /\ \A p \in P : ~desc'[p]
      /\ \A p \in Pids \ P : desc'[p] = desc[p]
  BY Zenon DEF DestroyProcessors, TypeOK
<1>4. /\ cst' \in [Pids -> SUBSET {"read", "exited", "done"}]
      /\ psock' \in [Pids -> Fds \cup {NoFd}]
      /\ \A p \in P : psock'[p] = NoFd /\ cst'[p] = {}
      /\ \A p \in Pids \ P : psock'[p] = psock[p] /\ cst'[p] = cst[p]
  BY DEF DestroyProcessors, TypeOK
<1>5. CpmTypeOK'
  BY <1>1, <1>2 DEF DestroyProcessors, TypeOK, CpmTypeOK
<1>. QED
  BY <1>1, <1>2, <1>3, <1>4, <1>5

LEMMA SendStep ==
  ASSUME IInv, NEW c \in Clients, SendCb(c)
  PROVE  IInv'
<1>1. PICK f \in Fds : Dispatch(f, "w", c)
  BY DEF SendCb
<1>2. /\ phase = "dispatch" /\ age' = [age EXCEPT ![c] = 0]
      /\ UNCHANGED <<rd, wr, netVars, sfd, closeAfter, phase, run>>
  BY DEF SendCb
<1>3. /\ ready' = ready \ {<<f, "w">>} /\ sfd[c] = f
      /\ proc[c] # None => ~desc[proc[c]]
  <2>1. wr[f] = c /\ WriterLive(f) /\ ready' = ready \ {<<f, "w">>}
    BY <1>1, <1>2, WriterCalled
  <2>. QED
    BY <2>1 DEF WriterLive
<1>4. age' \in [Clients -> 0 .. KeepAlive + 1]
  BY <1>2 DEF IInv, TypeOK
<1>5. ASSUME UNCHANGED <<toDel, ep, osVars, cpmVars, busy, proc, cgiVars>>,
             closed' \in [Clients -> BOOLEAN], left' \in [Clients -> 0 .. MaxUnits]
      PROVE  IInv'
  <2>1. TypeOK'
    BY <1>2, <1>3, <1>4, <1>5 DEF IInv, TypeOK, EmTypeOK, CpmTypeOK
  <2>2. FdsInv' /\ ConnInv' /\ ProcInv' /\ FreshInv'
    BY <1>2, <1>5 DEF IInv, FdsInv, ConnInv, ProcInv, FreshInv
  <2>3. RdInv' /\ WrInv' /\ EpInv'
    BY <1>2, <1>5 DEF IInv, RdInv, ReaderLive, WrInv, WriterLive, EpInv
  <2>4. PollInv' /\ ReadyInv'
    BY <1>2, <1>3, <1>5 DEF IInv, PollInv, ReadyInv
  <2>. QED
    BY <2>1, <2>2, <2>3, <2>4 DEF IInv
<1>6. CASE SendFails(c)
  <2>1. closed' \in [Clients -> BOOLEAN]
    BY <1>6, Zenon DEF SendFails, IInv, TypeOK
  <2>. QED
    BY <1>5, <1>6, <2>1 DEF SendFails, IInv, TypeOK
<1>7. CASE SendsPart(c)
  BY <1>5, <1>7 DEF SendsPart, IInv, TypeOK
<1>8. CASE SendsLast(c)
  <2>. DEFINE P == ProcessorsOf({c})
  <2>1. P \in SUBSET Pids /\ \A p \in Pids : p \in P <=> proc[c] = p
    BY DEF ProcessorsOf, IInv, TypeOK
  <2>2. DescDeletions(P) = {}
    <3>1. \A p \in P : ~desc[p]
      BY <1>3, <2>1
    <3>. QED
      BY <3>1 DEF DescDeletions, SocketsOf, Both
  <2>3. /\ left' = [left EXCEPT ![c] = 0]
        /\ busy' = [busy EXCEPT ![c] = FALSE]
        /\ proc' = [proc EXCEPT ![c] = None]
        /\ DestroyProcessors(P)
        /\ toDel' = toDel \cup {<<f, "w">>}
        /\ ep' = Forget(SocketsOf(P))
        /\ closed' = [closed EXCEPT ![c] = @ \/ closeAfter[c]]
    BY <1>3, <1>8, <2>2 DEF SendsLast
  <2>. HIDE DEF P
  <2>4. /\ CpmTypeOK'
        /\ desc' \in [Pids -> BOOLEAN]
        /\ cst' \in [Pids -> SUBSET {"read", "exited", "done"}]
        /\ psock' \in [Pids -> Fds \cup {NoFd}]
        /\ \A p \in Pids : child'[p] = "none" => child[p] = "none"
        /\ \A p \in P : psock'[p] = NoFd /\ ~desc'[p] /\ cst'[p] = {}
        /\ \A p \in Pids \ P : /\ psock'[p] = psock[p]
                               /\ desc'[p] = desc[p]
                               /\ cst'[p] = cst[p]
    BY <2>1, <2>3, ProcessorsDestroyed DEF IInv
  <2>5. ep' \in [Fds -> SUBSET Types] /\ \A g \in Fds : ep'[g] \subseteq ep[g]
    BY <2>3 DEF Forget, IInv, TypeOK, EmTypeOK
  <2>6. /\ closed' \in [Clients -> BOOLEAN] /\ busy' \in [Clients -> BOOLEAN]
        /\ \A d \in Clients : d # c => busy'[d] = busy[d]
    BY <2>3, Zenon DEF IInv, TypeOK
  <2>7. /\ proc' \in [Clients -> Pids \cup {None}]
        /\ proc'[c] = None
        /\ \A d \in Clients : d # c => proc'[d] = proc[d]
    BY <2>3 DEF IInv, TypeOK
  <2>8. TypeOK'
    BY <1>2, <1>3, <1>4, <2>3, <2>4, <2>5, <2>6, <2>7 DEF IInv, TypeOK, EmTypeOK
  <2>9. FdsInv' /\ ConnInv'
    BY <1>2, <2>4 DEF IInv, FdsInv, ConnInv
  <2>10. ProcInv'
    <3>. SUFFICES ASSUME NEW d \in Clients, proc'[d] # None
                  PROVE  /\ sfd'[d] # NoFd /\ busy'[d] /\ psock'[proc'[d]] # NoFd
                         /\ \A e \in Clients : proc'[e] = proc'[d] => e = d
      BY DEF ProcInv
    <3>1. d # c /\ proc'[d] = proc[d] /\ proc[d] \in Pids
      BY <2>7 DEF IInv, TypeOK
    <3>2. proc[d] \notin P
      BY <2>1, <3>1 DEF IInv, ProcInv
    <3>. QED
      BY <1>2, <2>4, <2>6, <2>7, <3>1, <3>2 DEF IInv, ProcInv
  <2>11. FreshInv'
    BY <2>4, <2>7 DEF IInv, FreshInv
  <2>12. RdInv'
    <3>. SUFFICES ASSUME NEW g \in Fds, rd[g] # None, <<g, "r">> \notin toDel'
                  PROVE  ReaderLive(g)'
      BY <1>2 DEF RdInv
    <3>1. ReaderLive(g)
      BY <2>3 DEF IInv, RdInv
    <3>2. rd[g] \in Pids /\ desc[rd[g]] => rd[g] \notin P
      BY <1>3, <2>1
    <3>. QED
      BY <1>2, <2>4, <3>1, <3>2 DEF ReaderLive
  <2>13. WrInv'
    <3>. SUFFICES ASSUME NEW g \in Fds, wr[g] # None
                  PROVE  wr[g] \in Clients /\ (<<g, "w">> \in toDel' \/ WriterLive(g)')
      BY <1>2 DEF WrInv
    <3>1. wr[g] \in Clients /\ (<<g, "w">> \in toDel' \/ WriterLive(g))
      BY <2>3 DEF IInv, WrInv
    <3>2. proc[wr[g]] \in Pids \cup {None}
      BY <3>1 DEF IInv, TypeOK
    <3>3. proc[wr[g]] # None /\ ~desc[proc[wr[g]]] => ~desc'[proc[wr[g]]]
      BY <2>4, <3>2
    <3>4. wr[g] = c /\ WriterLive(g) => <<g, "w">> \in toDel'
      BY <1>3, <2>3 DEF WriterLive
    <3>. QED
      BY <1>2, <2>6, <2>7, <3>1, <3>3, <3>4 DEF WriterLive
  <2>14. EpInv'
    BY <1>2, <2>5 DEF IInv, EpInv
  <2>15. PollInv' /\ ReadyInv'
    BY <1>2, <1>3, <2>3 DEF IInv, PollInv, ReadyInv
  <2>. QED
    BY <2>8, <2>9, <2>10, <2>11, <2>12, <2>13, <2>14, <2>15 DEF IInv
<1>. QED
  BY <1>6, <1>7, <1>8 DEF SendCb

LEMMA CheckClientsStep ==
  ASSUME IInv, CheckClients
  PROVE  IInv'
<1>. DEFINE gone == {c \in Clients : Alive(c) /\ closed[c]}
            P == ProcessorsOf(gone)
<1>1. /\ sfd' = [c \in Clients |-> IF c \in gone THEN NoFd ELSE sfd[c]]
      /\ conn' = [c \in Clients |-> IF c \in gone THEN "ended" ELSE conn[c]]
      /\ inbox' = [c \in Clients |-> inbox[c] /\ c \notin gone]
      /\ busy' = [c \in Clients |-> busy[c] /\ c \notin gone]
      /\ closed' = [c \in Clients |-> c \notin gone /\ Alive(c) /\ Idle(c)]
      /\ age' = [c \in Clients |-> IF c \in gone THEN 0 ELSE age[c]]
      /\ left' = [c \in Clients |-> IF c \in gone THEN 0 ELSE left[c]]
      /\ proc' = [c \in Clients |-> IF c \in gone THEN None ELSE proc[c]]
      /\ DestroyProcessors(P)
      /\ toDel' = toDel \cup Both({sfd[c] : c \in gone}) \cup DescDeletions(P)
      /\ ep' = Forget({sfd[c] : c \in gone} \cup SocketsOf(P))
      /\ phase' = "flush"
      /\ UNCHANGED <<rd, wr, ready, sent, closeAfter, run>>
  BY Zenon DEF CheckClients
<1>2. \A c \in gone : c \in Clients /\ sfd[c] \in Fds
  BY DEF Alive, IInv, TypeOK
<1>3. P \in SUBSET Pids /\ \A p \in Pids : p \in P <=> \E c \in gone : proc[c] = p
  BY DEF ProcessorsOf, IInv, TypeOK
<1>4. \A p \in P : psock[p] \in Fds
  BY <1>2, <1>3 DEF IInv, ProcInv, TypeOK
<1>. HIDE DEF P, gone
<1>5. /\ \A c \in gone : <<sfd[c], "r">> \in toDel' /\ <<sfd[c], "w">> \in toDel'
      /\ \A p \in P : desc[p] => <<psock[p], "r">> \in toDel'
      /\ toDel \subseteq toDel'
  BY <1>1, <1>3 DEF Both, DescDeletions, SocketsOf
<1>6. toDel' \subseteq Events
  BY <1>1, <1>2, <1>3, <1>4 DEF Both, DescDeletions, SocketsOf, IInv, TypeOK, EmTypeOK
<1>7. /\ CpmTypeOK'
      /\ desc' \in [Pids -> BOOLEAN]
      /\ cst' \in [Pids -> SUBSET {"read", "exited", "done"}]
      /\ psock' \in [Pids -> Fds \cup {NoFd}]
      /\ \A p \in Pids : child'[p] = "none" => child[p] = "none"
      /\ \A p \in P : psock'[p] = NoFd /\ ~desc'[p] /\ cst'[p] = {}
      /\ \A p \in Pids \ P : /\ psock'[p] = psock[p]
                             /\ desc'[p] = desc[p]
                             /\ cst'[p] = cst[p]
  BY <1>1, <1>3, ProcessorsDestroyed DEF IInv
<1>8. ep' \in [Fds -> SUBSET Types] /\ \A g \in Fds : ep'[g] \subseteq ep[g]
  BY <1>1 DEF Forget, IInv, TypeOK, EmTypeOK
<1>9. \A c \in Clients : c \in gone => sfd'[c] = NoFd /\ conn'[c] = "ended" /\ proc'[c] = None
  BY <1>1
<1>10. \A c \in Clients : c \notin gone =>
         sfd'[c] = sfd[c] /\ conn'[c] = conn[c] /\ proc'[c] = proc[c] /\ busy'[c] = busy[c]
  <2>1. \A c \in Clients : c \notin gone => busy'[c] = busy[c]
    BY <1>1, Zenon DEF IInv, TypeOK
  <2>. QED
    BY <1>1, <2>1
<1>11. TypeOK'
  <2>1. /\ sfd' \in [Clients -> Fds \cup {NoFd}]
        /\ conn' \in [Clients -> Conns]
        /\ age' \in [Clients -> 0 .. KeepAlive + 1]
        /\ left' \in [Clients -> 0 .. MaxUnits]
        /\ proc' \in [Clients -> Pids \cup {None}]
    BY <1>1 DEF IInv, TypeOK, Conns
  <2>2. /\ inbox' \in [Clients -> BOOLEAN]
        /\ busy' \in [Clients -> BOOLEAN]
        /\ closed' \in [Clients -> BOOLEAN]
    BY <1>1, Zenon
  <2>. QED
    BY <1>1, <1>6, <1>7, <1>8, <2>1, <2>2 DEF IInv, TypeOK, EmTypeOK, Phases
<1>12. FdsInv' /\ ConnInv'
  <2>1. FdsInv'
    BY <1>7, <1>9, <1>10 DEF IInv, FdsInv
  <2>2. ConnInv'
    BY <1>9, <1>10 DEF IInv, ConnInv
  <2>. QED
    BY <2>1, <2>2
<1>13. ProcInv'
  <2>. SUFFICES ASSUME NEW d \in Clients, proc'[d] # None
                PROVE  /\ sfd'[d] # NoFd /\ busy'[d] /\ psock'[proc'[d]] # NoFd
                       /\ \A e \in Clients : proc'[e] = proc'[d] => e = d
    BY DEF ProcInv
  <2>1. d \notin gone /\ proc'[d] = proc[d] /\ proc[d] \in Pids
    BY <1>9, <1>10 DEF IInv, TypeOK
  <2>2. proc[d] \notin P
    BY <1>2, <1>3, <2>1 DEF IInv, ProcInv
  <2>. QED
    BY <1>7, <1>9, <1>10, <2>1, <2>2 DEF IInv, ProcInv
<1>14. FreshInv'
  BY <1>7, <1>9, <1>10 DEF IInv, FreshInv
<1>15. RdInv'
  <2>. SUFFICES ASSUME NEW g \in Fds, rd[g] # None, <<g, "r">> \notin toDel'
                PROVE  ReaderLive(g)'
    BY <1>1 DEF RdInv
  <2>1. ReaderLive(g)
    BY <1>5 DEF IInv, RdInv
  <2>2. rd[g] \in Clients /\ sfd[rd[g]] = g => rd[g] \notin gone
    BY <1>5
  <2>3. rd[g] \in Pids /\ psock[rd[g]] = g /\ desc[rd[g]] => rd[g] \notin P
    BY <1>5
  <2>. QED
    BY <1>1, <1>7, <1>10, <2>1, <2>2, <2>3 DEF ReaderLive
<1>16. WrInv'
  <2>. SUFFICES ASSUME NEW g \in Fds, wr[g] # None
                PROVE  wr[g] \in Clients /\ (<<g, "w">> \in toDel' \/ WriterLive(g)')
    BY <1>1 DEF WrInv
  <2>1. wr[g] \in Clients /\ (<<g, "w">> \in toDel' \/ WriterLive(g))
    BY <1>5 DEF IInv, WrInv
  <2>2. proc[wr[g]] \in Pids \cup {None}
    BY <2>1 DEF IInv, TypeOK
  <2>3. proc[wr[g]] # None /\ ~desc[proc[wr[g]]] => ~desc'[proc[wr[g]]]
    BY <1>7, <2>2
  <2>4. wr[g] \in gone /\ WriterLive(g) => <<g, "w">> \in toDel'
    BY <1>5 DEF WriterLive
  <2>. QED
    BY <1>1, <1>10, <2>1, <2>3, <2>4 DEF WriterLive
<1>17. EpInv'
  BY <1>1, <1>8 DEF IInv, EpInv
<1>18. PollInv' /\ ReadyInv'
  BY <1>1 DEF PollInv, ReadyInv
<1>. QED
  BY <1>11, <1>12, <1>13, <1>14, <1>15, <1>16, <1>17, <1>18 DEF IInv

-----------------------------------------------------------------------------
(* The theorems.                                                            *)

LEMMA StutterStep == IInv /\ UNCHANGED vars => IInv'
<1>. SUFFICES ASSUME IInv, UNCHANGED vars PROVE IInv'
  OBVIOUS
<1>1. TypeOK'
  BY DEF vars, IInv, TypeOK, EmTypeOK, CpmTypeOK
<1>2. FdsInv' /\ ConnInv' /\ ProcInv' /\ FreshInv'
  BY DEF vars, IInv, FdsInv, ConnInv, ProcInv, FreshInv
<1>3. RdInv' /\ WrInv' /\ EpInv' /\ PollInv' /\ ReadyInv'
  BY DEF vars, IInv, RdInv, ReaderLive, WrInv, WriterLive, EpInv, PollInv, ReadyInv
<1>. QED
  BY <1>1, <1>2, <1>3 DEF IInv

LEMMA NextInv == IInv /\ [Next]_vars => IInv'
<1>. SUFFICES ASSUME IInv, [Next]_vars PROVE IInv'
  OBVIOUS
<1>1. CASE LoopStep
  BY <1>1, FlushStep, StopStep, PollStep, EndDispatchStep, KillLoopStep, WaitStep,
     EndWaitStep, CheckClientsStep, BadAllocStep, AcceptStep, RecvStep, SendStep,
     CgiReadStep DEF LoopStep
<1>2. CASE WorldStep
  BY <1>2, ConnectStep, ClientSendsStep, ClientClosesStep, ProcessMoves, TickStep,
     SigIntStep DEF WorldStep
<1>3. CASE UNCHANGED vars
  BY <1>3, StutterStep
<1>. QED
  BY <1>1, <1>2, <1>3 DEF Next

(* The inductive invariant holds of every reachable state of the server.    *)
THEOREM Inductive == Spec => []IInv
<1>. QED
  BY InitInv, NextInv, PTL DEF Spec

(* Every variable keeps its type: in particular the tables hold callbacks   *)
(* of known kinds only, and deletions queued twice or for closed sockets    *)
(* never name what is not a descriptor.                                     *)
THEOREM TypeCorrect == Spec => []TypeOK
<1>1. IInv => TypeOK
  BY DEF IInv
<1>. QED
  BY <1>1, Inductive, PTL

(* No handler is ever called on a session or a CGI processor that does not  *)
(* exist any more, although callbacks are removed only at the start of the  *)
(* next round and descriptors are handed out again in between.              *)
THEOREM NoDanglingCallbackHolds == Spec => []NoDanglingCallback
<1>1. IInv => NoDanglingCallback
  <2>. SUFFICES ASSUME IInv, phase = "dispatch", NEW e \in ready
                PROVE  Live(Table(e[2])[e[1]], e[1])
    BY DEF NoDanglingCallback
  <2>0. e \in Fds \X Types
    BY DEF IInv, TypeOK, EmTypeOK
  <2>. DEFINE f == e[1]
             t == e[2]
  <2>1. f \in Fds /\ t \in {"r", "w"} /\ e = <<f, t>>
    BY <2>0
  <2>. HIDE DEF f, t
  <2>2. CASE t = "r"
    <3>1. rd[f] # None /\ <<f, "r">> \notin toDel
      BY <2>1, <2>2 DEF IInv, ReadyInv
    <3>2. ReaderLive(f)
      BY <2>1, <3>1 DEF IInv, RdInv
    <3>3. Live(rd[f], f)
      BY <3>2 DEF ReaderLive, Live
    <3>. QED
      BY <2>1, <2>2, <3>3 DEF Table
  <2>3. CASE t = "w"
    <3>1. wr[f] # None /\ <<f, "w">> \notin toDel
      BY <2>1, <2>3 DEF IInv, ReadyInv
    <3>2. wr[f] \in Clients /\ WriterLive(f)
      BY <2>1, <3>1 DEF IInv, WrInv
    <3>3. Live(wr[f], f)
      BY <3>2 DEF WriterLive, Live
    <3>. QED
      BY <2>1, <2>3, <3>3 DEF Table
  <2>. QED
    BY <2>1, <2>2, <2>3
<1>. QED
  BY <1>1, Inductive, PTL

-----------------------------------------------------------------------------
(* The scripts the server runs: what ServerCluster, its CGI processors and  *)
(* the table of children know of them in every reachable state.             *)

(* The inductive invariant, a child at a time.                              *)

Owned(p) == \E c \in Clients : Alive(c) /\ proc[c] = p

(* A processor that has seen the end of the output, or has answered, has    *)
(* nothing left to read and nobody to wait for.                             *)
OutputOver(p) == cst[p] \cap {"read", "done"} # {} => ~hold[p] /\ ~data[p]
ExitSeen(p) == cst[p] \cap {"exited", "done"} # {} => child[p] = "reaped0"

(* What the wait loop has noted was reaped.                                 *)
Noted(p) == p \in reapedNow => child[p] \in Reaped

(* A running child can be found and will be killed.                         *)
Tracked(p) == child[p] = "run" => p \in kids /\ desc[p] /\ Owned(p)

(* Unless an allocation fails in the middle of a round, an entry of         *)
(* child_processes_ that is not noted as reaped is a child of the server's  *)
(* and its exit callback has its object.                                    *)
EntryLive(p) ==
    "alloc" \notin Faults /\ p \in kids /\ p \notin reapedNow =>
        child[p] \notin Reaped /\ desc[p] /\ Owned(p)

ChildInv(p) == OutputOver(p) /\ ExitSeen(p) /\ Noted(p) /\ Tracked(p) /\ EntryLive(p)

CgiInv ==
    /\ phase # "wait" => reapedNow = {}
    /\ \A p \in Pids : ChildInv(p)

-----------------------------------------------------------------------------
USE FdsAssumption, MxTypeAssumption, ReferentsAssumption, CgiTimeoutAssumption,
    ClusterAssumption
USE DEF emVars, osVars, cpmVars, netVars, sessVars, cgiVars, worldVars

LEMMA InitCgiInv == Init => CgiInv
<1>. SUFFICES ASSUME Init PROVE CgiInv
  OBVIOUS
<1>1. reapedNow = {}
  BY DEF Init
<1>2. ASSUME NEW p \in Pids PROVE ChildInv(p)
  <2>1. child[p] = "none" /\ cst[p] = {} /\ p \notin kids /\ p \notin reapedNow
    BY DEF Init
  <2>. QED
    BY <2>1 DEF ChildInv, OutputOver, ExitSeen, Noted, Tracked, EntryLive
<1>. QED
  BY <1>1, <1>2 DEF CgiInv

(* A step that changes nothing a child's part speaks of preserves it; an    *)
(* owner may be replaced by another.                                        *)
Untouched(p) ==
    /\ child'[p] = child[p] /\ cst'[p] = cst[p]
    /\ hold'[p] <=> hold[p]
    /\ data'[p] <=> data[p]
    /\ desc'[p] <=> desc[p]
    /\ p \in kids' <=> p \in kids
    /\ p \in reapedNow' <=> p \in reapedNow

LEMMA UntouchedKept ==
  ASSUME NEW p \in Pids, ChildInv(p), Untouched(p), Owned(p) => Owned(p)'
  PROVE  ChildInv(p)'
<1>1. OutputOver(p)' /\ ExitSeen(p)'
  BY Zenon DEF ChildInv, OutputOver, ExitSeen, Untouched
<1>2. Noted(p)' /\ Tracked(p)' /\ EntryLive(p)'
  BY Zenon DEF ChildInv, Noted, Tracked, EntryLive, Untouched
<1>. QED
  BY <1>1, <1>2 DEF ChildInv

(* Steps that leave the scripts alone.                                      *)
LEMMA ElsewhereStep ==
  ASSUME CgiInv, UNCHANGED <<osVars, kids, reapedNow, cgiVars, proc>>,
         \A c \in Clients : Alive(c) => Alive(c)',
         phase' = phase \/ phase # "wait"
  PROVE  CgiInv'
<1>1. ASSUME NEW p \in Pids PROVE ChildInv(p)'
  <2>1. Untouched(p)
    BY DEF Untouched
  <2>2. Owned(p) => Owned(p)'
    BY DEF Owned
  <2>. QED
    BY <2>1, <2>2, UntouchedKept DEF CgiInv
<1>. QED
  BY <1>1 DEF CgiInv

-----------------------------------------------------------------------------
(* What the processors do to a script's part.                               *)

LEMMA CgiFailed ==
  ASSUME TypeOK, NEW p \in Pids, NEW c \in Clients, FailCgi(p, c)
  PROVE  /\ cst' = cst /\ ~desc'[p]
         /\ \A q \in Pids : q # p => (desc'[q] <=> desc[q])
<1>1. cst' = cst /\ desc' = [desc EXCEPT ![p] = FALSE]
  BY DEF FailCgi
<1>. QED
  BY <1>1, Zenon DEF TypeOK

LEMMA CgiProceeded ==
  ASSUME TypeOK, NEW p \in Pids, NEW c \in Clients, NEW s \in {"read", "exited"},
         ProceedWithRsIfRdy(p, c, cst[p] \cup {s})
  PROVE  /\ \A q \in Pids : q # p => cst'[q] = cst[q] /\ (desc'[q] <=> desc[q])
         /\ \/ /\ cst[p] \cup {s} = {"read", "exited"}
               /\ cst'[p] = {"done"} /\ ~desc'[p]
            \/ cst'[p] = cst[p] \cup {s} /\ (desc'[p] <=> desc[p])
<1>1. CASE /\ cst[p] \cup {s} = {"read", "exited"}
           /\ cst' = [cst EXCEPT ![p] = {"done"}]
           /\ desc' = [desc EXCEPT ![p] = FALSE]
  <2>1. ~desc'[p] /\ \A q \in Pids : q # p => (desc'[q] <=> desc[q])
    BY <1>1, Zenon DEF TypeOK
  <2>2. cst'[p] = {"done"} /\ \A q \in Pids : q # p => cst'[q] = cst[q]
    BY <1>1 DEF TypeOK
  <2>. QED
    BY <1>1, <2>1, <2>2
<1>2. CASE cst' = [cst EXCEPT ![p] = cst[p] \cup {s}] /\ desc' = desc
  BY <1>2 DEF TypeOK
<1>. QED
  BY <1>1, <1>2 DEF ProceedWithRsIfRdy

(* Killing changes nothing but running children and their entries.          *)
LEMMA KillingSpares ==
  ASSUME TypeOK, NEW P \in SUBSET Pids, KillChildren(P), NEW p \in Pids
  PROVE  /\ p \in kids' <=> p \in kids /\ p \notin P
         /\ child'[p] = child[p] \/ (child[p] = "run" /\ p \in P /\ child'[p] = "killed")
         /\ child[p] = "run" /\ p \in P /\ p \in kids => child'[p] = "killed"
  BY DEF TypeOK, CpmTypeOK, KillChildren, Killed

-----------------------------------------------------------------------------
(* One lemma per action that concerns scripts.                              *)

LEMMA ChildMoves ==
  ASSUME IInv, CgiInv, NEW p \in Pids, ProcessStep(p)
  PROVE  CgiInv'
<1>1. UNCHANGED <<kids, reapedNow, sfd, proc, desc, cst, phase>>
  BY DEF ProcessStep, ChildWrites, OutputCloses, ChildExits, ChildDies, Dies
<1>2. \A q \in Pids : Owned(q) <=> Owned(q)'
  BY <1>1 DEF Owned, Alive
<1>3. ASSUME NEW q \in Pids, q # p PROVE ChildInv(q)'
  <2>1. child'[q] = child[q]
    BY <1>3 DEF ProcessStep, ChildWrites, OutputCloses, ChildExits, ChildDies, Dies,
       IInv, TypeOK, CpmTypeOK
  <2>2. (hold'[q] <=> hold[q]) /\ (data'[q] <=> data[q])
    <3>1. /\ \/ hold' = hold \/ \E b \in BOOLEAN : hold' = [hold EXCEPT ![p] = b]
          /\ data' = data \/ data' = [data EXCEPT ![p] = TRUE]
      BY Zenon DEF ProcessStep, ChildWrites, OutputCloses, ChildExits, ChildDies, Dies
    <3>2. hold \in [Pids -> BOOLEAN] /\ data \in [Pids -> BOOLEAN]
      BY DEF IInv, TypeOK, CpmTypeOK
    <3>. QED
      BY <1>3, <3>1, <3>2, Zenon
  <2>. QED
    BY <1>1, <1>2, <2>1, <2>2, UntouchedKept DEF Untouched, CgiInv
<1>4. ChildInv(p)'
  <2>. USE DEF CgiInv, ChildInv
  <2>1. CASE ChildWrites(p) \/ OutputCloses(p)
    <3>1. UNCHANGED child /\ hold[p]
      BY <2>1 DEF ChildWrites, OutputCloses
    <3>2. OutputOver(p)' /\ ExitSeen(p)'
      BY <1>1, <3>1 DEF OutputOver, ExitSeen
    <3>3. Noted(p)' /\ Tracked(p)' /\ EntryLive(p)'
      BY <1>1, <1>2, <3>1 DEF Noted, Tracked, EntryLive
    <3>. QED
      BY <3>2, <3>3
  <2>2. CASE ChildExits(p) \/ ChildDies(p)
    <3>1. PICK how \in Zombie, leaves \in BOOLEAN : Dies(p, how, leaves)
      BY <2>2 DEF ChildExits, ChildDies, Zombie
    <3>2. child[p] \in {"run", "killed"} /\ child'[p] \in Zombie
      BY <2>2, <3>1 DEF ChildExits, ChildDies, Dies, IInv, TypeOK, CpmTypeOK
    <3>3. hold'[p] => hold[p]
      BY <3>1, Zenon DEF Dies, IInv, TypeOK, CpmTypeOK
    <3>4. OutputOver(p)'
      BY <1>1, <3>1, <3>3, Zenon DEF OutputOver, Dies
    <3>5. ExitSeen(p)' /\ Noted(p)' /\ Tracked(p)' /\ EntryLive(p)'
      BY <1>1, <1>2, <3>2 DEF ExitSeen, Noted, Tracked, EntryLive, Zombie, Reaped
    <3>. QED
      BY <3>4, <3>5
  <2>. QED
    BY <2>1, <2>2 DEF ProcessStep
<1>. QED
  BY <1>1, <1>3, <1>4 DEF CgiInv

(* The table of children: overdue ones are killed, dead ones are noted and  *)
(* erased.                                                                  *)
LEMMA KillLoopKeeps ==
  ASSUME IInv, CgiInv, KillLoop
  PROVE  CgiInv'
<1>1. /\ reapedNow' = {}
      /\ UNCHANGED <<hold, data, kids, sfd, proc, desc, cst>>
  BY DEF KillLoop, KillOverdue
<1>2. reapedNow = {}
  BY DEF KillLoop, CgiInv
<1>3. ASSUME NEW p \in Pids PROVE ChildInv(p)'
  <2>1. Owned(p) <=> Owned(p)'
    BY <1>1 DEF Owned, Alive
  <2>2. child'[p] = child[p] \/ (child[p] = "run" /\ child'[p] = "killed")
    BY DEF KillLoop, KillOverdue, Killed
  <2>3. OutputOver(p)' /\ ExitSeen(p)'
    BY <1>1, <2>2 DEF CgiInv, ChildInv, OutputOver, ExitSeen
  <2>4. Noted(p)' /\ Tracked(p)' /\ EntryLive(p)'
    BY <1>1, <1>2, <2>1, <2>2 DEF CgiInv, ChildInv, Noted, Tracked, EntryLive, Reaped
  <2>. QED
    BY <2>3, <2>4 DEF ChildInv
<1>. QED
  BY <1>1, <1>3 DEF CgiInv

LEMMA EndWaitKeeps ==
  ASSUME IInv, CgiInv, EndWait
  PROVE  CgiInv'
<1>1. /\ kids' = kids \ reapedNow /\ reapedNow' = {}
      /\ UNCHANGED <<child, hold, data, sfd, proc, desc, cst>>
  BY DEF EndWait, EraseReaped
<1>2. ASSUME NEW p \in Pids PROVE ChildInv(p)'
  <2>1. Owned(p) <=> Owned(p)'
    BY <1>1 DEF Owned, Alive
  <2>2. OutputOver(p)' /\ ExitSeen(p)'
    BY <1>1 DEF CgiInv, ChildInv, OutputOver, ExitSeen
  <2>3. Noted(p)' /\ Tracked(p)' /\ EntryLive(p)'
    BY <1>1, <2>1 DEF CgiInv, ChildInv, Noted, Tracked, EntryLive, Reaped
  <2>. QED
    BY <2>2, <2>3 DEF ChildInv
<1>. QED
  BY <1>1, <1>2 DEF CgiInv

LEMMA WaitLoopKeeps ==
  ASSUME IInv, CgiInv, WaitLoop
  PROVE  CgiInv'
<1>0. phase' = "wait" /\ UNCHANGED <<hold, data, kids, sfd, proc>>
  BY DEF WaitLoop, WaitMisses, Reap
<1>1. \A q \in Pids : Owned(q) <=> Owned(q)'
  BY <1>0 DEF Owned, Alive
<1>2. ASSUME NEW p \in Pids, WaitMisses(p), UNCHANGED <<desc, cst>>
      PROVE  CgiInv'
  <2>1. UNCHANGED <<child, reapedNow>>
    BY <1>2 DEF WaitMisses
  <2>. QED
    BY <1>0, <1>1, <1>2, <2>1, UntouchedKept DEF Untouched, CgiInv
<1>3. ASSUME NEW p \in Pids, NEW c \in Clients, Reap(p), proc[c] = p, ChildDoneCb(p, c)
      PROVE  CgiInv'
  <2>1. /\ child[p] \in Zombie /\ p \in reapedNow'
        /\ child'[p] = IF child[p] = "zombie0" THEN "reaped0" ELSE "reapedN"
        /\ \A q \in Pids : q # p => child'[q] = child[q] /\ (q \in reapedNow' <=> q \in reapedNow)
    BY <1>3 DEF Reap, IInv, TypeOK, CpmTypeOK
  <2>2. /\ \A q \in Pids : q # p => cst'[q] = cst[q] /\ (desc'[q] <=> desc[q])
        /\ \/ cst'[p] = cst[p]
           \/ /\ child'[p] = "reaped0"
              /\ \/ cst'[p] = cst[p] \cup {"exited"}
                 \/ cst'[p] = {"done"} /\ cst[p] \cup {"exited"} = {"read", "exited"}
    <3>1. CASE FailCgi(p, c)
      BY <3>1, CgiFailed DEF IInv
    <3>2. CASE child[p] = "zombie0" /\ ProceedWithRsIfRdy(p, c, cst[p] \cup {"exited"})
      BY <2>1, <3>2, CgiProceeded DEF IInv
    <3>. QED
      BY <1>3, <3>1, <3>2 DEF ChildDoneCb
  <2>3. ASSUME NEW q \in Pids, q # p PROVE ChildInv(q)'
    BY <1>0, <1>1, <2>1, <2>2, <2>3, UntouchedKept DEF Untouched, CgiInv
  <2>4. ChildInv(p)'
    <3>1. OutputOver(p)'
      BY <1>0, <2>2 DEF CgiInv, ChildInv, OutputOver
    <3>2. ExitSeen(p)'
      BY <2>1, <2>2 DEF CgiInv, ChildInv, ExitSeen, Zombie
    <3>3. Noted(p)' /\ Tracked(p)' /\ EntryLive(p)'
      BY <2>1 DEF Noted, Tracked, EntryLive, Reaped
    <3>. QED
      BY <3>1, <3>2, <3>3 DEF ChildInv
  <2>. QED
    BY <1>0, <2>3, <2>4 DEF CgiInv
<1>. QED
  BY <1>2, <1>3 DEF WaitLoop

(* An allocation that fails in the wait loop forgets which children were    *)
(* reaped; without such failures nothing is asked.                          *)
LEMMA BadAllocKeeps ==
  ASSUME IInv, CgiInv, BadAlloc
  PROVE  CgiInv'
<1>1. /\ "alloc" \in Faults /\ reapedNow' = {}
      /\ UNCHANGED <<child, hold, data, kids, sfd, proc, desc, cst>>
  BY DEF BadAlloc
<1>2. ASSUME NEW p \in Pids PROVE ChildInv(p)'
  <2>1. Owned(p) <=> Owned(p)'
    BY <1>1 DEF Owned, Alive
  <2>2. OutputOver(p)' /\ ExitSeen(p)'
    BY <1>1 DEF CgiInv, ChildInv, OutputOver, ExitSeen
  <2>3. Noted(p)' /\ Tracked(p)' /\ EntryLive(p)'
    BY <1>1, <2>1 DEF CgiInv, ChildInv, Noted, Tracked, EntryLive
  <2>. QED
    BY <2>2, <2>3 DEF ChildInv
<1>. QED
  BY <1>1, <1>2 DEF CgiInv

LEMMA CgiReadKeeps ==
  ASSUME IInv, CgiInv, NEW p \in Pids, CgiReadCb(p)
  PROVE  CgiInv'
<1>0. /\ phase = "dispatch" /\ phase' = "dispatch" /\ desc[p]
      /\ UNCHANGED <<hold, reapedNow, sfd, proc>>
  BY DEF CgiReadCb
<1>1. reapedNow = {} /\ \A q \in Pids : Owned(q) <=> Owned(q)'
  BY <1>0 DEF CgiInv, Owned, Alive
<1>2. PICK c \in Clients : /\ proc[c] = p
                           /\ CgiRecvFails(p, c) \/ CgiReads(p) \/ CgiOutputEnds(p, c)
  BY DEF CgiReadCb
<1>3. CASE CgiRecvFails(p, c)
  <2>1. KillChildren({p}) /\ FailCgi(p, c) /\ UNCHANGED data
    BY <1>3 DEF CgiRecvFails
  <2>2. /\ cst' = cst /\ \A q \in Pids : q # p => (desc'[q] <=> desc[q])
    BY <2>1, CgiFailed DEF IInv
  <2>3. \A q \in Pids :
          /\ q \in kids' <=> q \in kids /\ q # p
          /\ child'[q] = child[q] \/ (child[q] = "run" /\ q = p /\ child'[q] = "killed")
          /\ child[q] = "run" /\ q = p /\ q \in kids => child'[q] = "killed"
    <3>. SUFFICES ASSUME NEW q \in Pids
                  PROVE  /\ q \in kids' <=> q \in kids /\ q # p
                         /\ child'[q] = child[q] \/ (child[q] = "run" /\ q = p /\ child'[q] = "killed")
                         /\ child[q] = "run" /\ q = p /\ q \in kids => child'[q] = "killed"
      OBVIOUS
    <3>. QED
      BY <2>1, KillingSpares DEF IInv
  <2>4. ASSUME NEW q \in Pids, q # p PROVE ChildInv(q)'
    BY <1>0, <1>1, <2>1, <2>2, <2>3, <2>4, UntouchedKept DEF Untouched, CgiInv
  <2>5. ChildInv(p)'
    <3>1. OutputOver(p)' /\ ExitSeen(p)'
      BY <1>0, <2>1, <2>2, <2>3 DEF CgiInv, ChildInv, OutputOver, ExitSeen
    <3>2. Noted(p)' /\ EntryLive(p)'
      BY <1>0, <1>1, <2>3 DEF Noted, EntryLive
    <3>3. Tracked(p)'
      BY <2>3 DEF CgiInv, ChildInv, Tracked
    <3>. QED
      BY <3>1, <3>2, <3>3 DEF ChildInv
  <2>. QED
    BY <1>0, <1>1, <2>4, <2>5 DEF CgiInv
<1>4. CASE CgiReads(p)
  <2>1. UNCHANGED <<child, kids, desc, cst>> /\ \A q \in Pids : data'[q] => data[q]
    BY <1>4, Zenon DEF CgiReads, IInv, TypeOK, CpmTypeOK
  <2>2. ASSUME NEW q \in Pids PROVE ChildInv(q)'
    <3>1. OutputOver(q)' /\ ExitSeen(q)'
      BY <1>0, <2>1, Zenon DEF CgiInv, ChildInv, OutputOver, ExitSeen
    <3>2. Noted(q)' /\ Tracked(q)' /\ EntryLive(q)'
      BY <1>0, <1>1, <2>1, Zenon DEF CgiInv, ChildInv, Noted, Tracked, EntryLive
    <3>. QED
      BY <3>1, <3>2 DEF ChildInv
  <2>. QED
    BY <1>0, <1>1, <2>2 DEF CgiInv
<1>5. CASE CgiOutputEnds(p, c)
  <2>1. ~data[p] /\ ~hold[p] /\ UNCHANGED <<child, kids, data>>
    BY <1>5 DEF CgiOutputEnds
  <2>2. /\ \A q \in Pids : q # p => cst'[q] = cst[q] /\ (desc'[q] <=> desc[q])
        /\ \/ /\ cst[p] \cup {"read"} = {"read", "exited"}
              /\ cst'[p] = {"done"} /\ ~desc'[p]
           \/ cst'[p] = cst[p] \cup {"read"} /\ (desc'[p] <=> desc[p])
    BY <1>5, CgiProceeded DEF IInv, CgiOutputEnds
  <2>3. ASSUME NEW q \in Pids, q # p PROVE ChildInv(q)'
    BY <1>0, <1>1, <2>1, <2>2, <2>3, UntouchedKept DEF Untouched, CgiInv
  <2>4. ChildInv(p)'
    <3>1. OutputOver(p)'
      BY <1>0, <2>1 DEF OutputOver
    <3>2. ExitSeen(p)'
      BY <2>1, <2>2 DEF CgiInv, ChildInv, ExitSeen
    <3>3. CASE cst[p] \cup {"read"} = {"read", "exited"}
      <4>1. child[p] = "reaped0"
        BY <3>3 DEF CgiInv, ChildInv, ExitSeen
      <4>. QED
        BY <1>0, <1>1, <2>1, <3>1, <3>2, <4>1
           DEF CgiInv, ChildInv, Noted, Tracked, EntryLive, Reaped
    <3>4. CASE desc'[p] <=> desc[p]
      BY <1>0, <1>1, <2>1, <3>1, <3>2, <3>4 DEF CgiInv, ChildInv, Noted, Tracked, EntryLive
    <3>. QED
      BY <2>2, <3>3, <3>4
  <2>. QED
    BY <1>0, <1>1, <2>3, <2>4 DEF CgiInv
<1>. QED
  BY <1>2, <1>3, <1>4, <1>5

(* A script is started for a session that had no processor, under a process *)
(* id nobody used.                                                          *)
LEMMA StartsCgiKeeps ==
  ASSUME IInv, CgiInv, NEW c \in Clients, RecvStartsCgi(c), sfd[c] # NoFd,
         phase' = phase
  PROVE  CgiInv'
<1>1. PICK p \in Pids, f \in FreeFds :
        /\ proc' = [proc EXCEPT ![c] = p]
        /\ psock' = [psock EXCEPT ![p] = f]
        /\ \/ /\ RunChild(p)
              /\ RegisterRead(f, p)
              /\ desc' = [desc EXCEPT ![p] = TRUE]
              /\ UNCHANGED <<wr, left, closeAfter, closed>>
           \/ /\ MayRefuse(f, "r")
              /\ RunAndKillChild(p)
              /\ PrepareResponse(c, TRUE)
              /\ UNCHANGED <<rd, desc>>
  BY DEF RecvStartsCgi
<1>2. UNCHANGED <<sfd, cst, data, reapedNow>> /\ child[p] = "none" /\ ~busy[c]
  BY <1>1 DEF RecvStartsCgi, Received, RunChild, RunAndKillChild
<1>3. /\ proc[c] = None /\ proc'[c] = p
      /\ \A d \in Clients : d # c => proc'[d] = proc[d]
  BY <1>1, <1>2 DEF IInv, ProcInv, TypeOK
<1>4. /\ \A q \in Pids : q # p => child'[q] = child[q] /\ (q \in kids' <=> q \in kids)
      /\ child'[p] \in {"run", "killed"}
  BY <1>1 DEF RunChild, RunAndKillChild, IInv, TypeOK, CpmTypeOK
<1>5. \A q \in Pids : q # p => (hold'[q] <=> hold[q]) /\ (desc'[q] <=> desc[q])
  <2>1. hold' = [hold EXCEPT ![p] = TRUE] /\ (desc' = [desc EXCEPT ![p] = TRUE] \/ desc' = desc)
    BY <1>1 DEF RunChild, RunAndKillChild
  <2>. QED
    BY <2>1, Zenon DEF IInv, TypeOK, CpmTypeOK
<1>6. ASSUME NEW q \in Pids, q # p PROVE ChildInv(q)'
  <2>1. Owned(q) => Owned(q)'
    <3>. SUFFICES ASSUME NEW d \in Clients, Alive(d), proc[d] = q
                  PROVE  Alive(d)' /\ proc'[d] = q
      BY DEF Owned
    <3>1. d # c
      BY <1>3
    <3>. QED
      BY <1>2, <1>3, <3>1 DEF Alive
  <2>. QED
    BY <1>2, <1>4, <1>5, <1>6, <2>1, UntouchedKept DEF Untouched, CgiInv
<1>7. ChildInv(p)'
  <2>1. cst'[p] = {} /\ p \notin reapedNow'
    BY <1>2 DEF IInv, FreshInv, CgiInv, ChildInv, Noted, Reaped
  <2>2. OutputOver(p)' /\ ExitSeen(p)' /\ Noted(p)'
    BY <2>1 DEF OutputOver, ExitSeen, Noted
  <2>3. Owned(p)'
    BY <1>2, <1>3 DEF Owned, Alive
  <2>4. CASE RunChild(p) /\ desc' = [desc EXCEPT ![p] = TRUE]
    <3>1. p \in kids' /\ desc'[p]
      BY <2>4, Zenon DEF RunChild, IInv, TypeOK
    <3>. QED
      BY <1>4, <2>2, <2>3, <3>1 DEF ChildInv, Tracked, EntryLive, Reaped
  <2>5. CASE RunAndKillChild(p) /\ desc' = desc
    <3>1. child'[p] = "killed" /\ kids' = kids
      BY <2>5 DEF RunAndKillChild, IInv, TypeOK, CpmTypeOK
    <3>2. ~desc[p]
      BY <1>2 DEF IInv, FreshInv
    <3>3. EntryLive(p)'
      BY <1>2, <3>1, <3>2 DEF CgiInv, ChildInv, EntryLive
    <3>. QED
      BY <2>2, <3>1, <3>3 DEF ChildInv, Tracked
  <2>. QED
    BY <1>1, <2>4, <2>5
<1>. QED
  BY <1>2, <1>6, <1>7 DEF CgiInv

(* Destroying sessions and processors: those that still have a description  *)
(* kill their children, the others have none to kill.                       *)
LEMMA DestructionKeeps ==
  ASSUME IInv, CgiInv, NEW S \in SUBSET Clients, DestroyProcessors(ProcessorsOf(S)),
         phase # "wait",
         \A c \in Clients \ S : proc'[c] = proc[c] /\ (Alive(c) => Alive(c)')
  PROVE  CgiInv'
<1>. DEFINE P == ProcessorsOf(S)
<1>0. P \in SUBSET Pids
  BY DEF ProcessorsOf, IInv, TypeOK
<1>1. /\ KillChildren({p \in P : desc[p]}) /\ UNCHANGED <<hold, reapedNow>>
      /\ reapedNow = {}
  BY DEF DestroyProcessors, CgiInv
<1>2. /\ \A p \in Pids : p \in P => ~desc'[p] /\ cst'[p] = {}
      /\ \A p \in Pids : p \notin P => (desc'[p] <=> desc[p]) /\ cst'[p] = cst[p]
  <2>1. /\ \A p \in P : ~desc'[p] /\ cst'[p] = {}
        /\ \A p \in Pids \ P : desc'[p] = desc[p] /\ cst'[p] = cst[p]
    BY <1>0, ProcessorsDestroyed DEF IInv
  <2>. QED
    BY <2>1, Zenon
<1>3. \A p \in Pids : (data'[p] => data[p]) /\ (p \notin P => (data'[p] <=> data[p]))
  BY Zenon DEF DestroyProcessors, IInv, TypeOK, CpmTypeOK
<1>4. ASSUME NEW p \in Pids
      PROVE  /\ p \in kids' <=> p \in kids /\ ~(p \in P /\ desc[p])
             /\ \/ child'[p] = child[p]
                \/ child[p] = "run" /\ p \in P /\ child'[p] = "killed"
             /\ child[p] = "run" /\ p \in P /\ desc[p] /\ p \in kids => child'[p] = "killed"
  <2>. DEFINE D == {q \in P : desc[q]}
  <2>1. D \in SUBSET Pids /\ KillChildren(D) /\ (p \in D <=> p \in P /\ desc[p])
    BY <1>0, <1>1
  <2>. HIDE DEF D, P
  <2>. QED
    BY <2>1, KillingSpares DEF IInv
<1>5. ASSUME NEW p \in Pids, p \notin P, Owned(p) PROVE Owned(p)'
  <2>1. PICK c \in Clients : Alive(c) /\ proc[c] = p
    BY <1>5 DEF Owned
  <2>2. c \notin S
    BY <1>5, <2>1, ReferentsAssumption DEF ProcessorsOf
  <2>. QED
    BY <2>1, <2>2 DEF Owned
<1>. HIDE DEF P
<1>6. ASSUME NEW p \in Pids, p \notin P PROVE ChildInv(p)'
  <2>1. child'[p] = child[p] /\ (p \in kids' <=> p \in kids)
    BY <1>4, <1>6
  <2>. QED
    BY <1>1, <1>2, <1>3, <1>5, <1>6, <2>1, UntouchedKept DEF Untouched, CgiInv
<1>7. ASSUME NEW p \in Pids, p \in P PROVE ChildInv(p)'
  <2>1. OutputOver(p)' /\ ExitSeen(p)' /\ Noted(p)'
    BY <1>1, <1>2, <1>7 DEF OutputOver, ExitSeen, Noted
  <2>2. Tracked(p)'
    BY <1>4, <1>7 DEF CgiInv, ChildInv, Tracked
  <2>3. EntryLive(p)'
    BY <1>1, <1>4, <1>7 DEF CgiInv, ChildInv, EntryLive
  <2>. QED
    BY <2>1, <2>2, <2>3 DEF ChildInv
<1>. QED
  BY <1>1, <1>6, <1>7 DEF CgiInv

LEMMA SendKeeps ==
  ASSUME IInv, CgiInv, NEW c \in Clients, SendCb(c)
  PROVE  CgiInv'
<1>1. phase = "dispatch" /\ UNCHANGED <<sfd, phase>>
  BY DEF SendCb
<1>2. \A d \in Clients : Alive(d) => Alive(d)'
  BY <1>1 DEF Alive
<1>3. CASE SendFails(c) \/ SendsPart(c)
  BY <1>1, <1>2, <1>3, ElsewhereStep DEF SendFails, SendsPart
<1>4. CASE SendsLast(c)
  <2>1. DestroyProcessors(ProcessorsOf({c})) /\ proc' = [proc EXCEPT ![c] = None]
    BY <1>4 DEF SendsLast
  <2>2. \A d \in Clients \ {c} : proc'[d] = proc[d]
    BY <2>1 DEF IInv, TypeOK
  <2>3. {c} \in SUBSET Clients
    OBVIOUS
  <2>. QED
    BY <1>1, <1>2, <2>1, <2>2, <2>3, DestructionKeeps
<1>. QED
  BY <1>3, <1>4 DEF SendCb

LEMMA CheckClientsKeeps ==
  ASSUME IInv, CgiInv, CheckClients
  PROVE  CgiInv'
<1>. DEFINE gone == {c \in Clients : Alive(c) /\ closed[c]}
<1>1. /\ DestroyProcessors(ProcessorsOf(gone)) /\ phase = "clients"
      /\ sfd' = [c \in Clients |-> IF c \in gone THEN NoFd ELSE sfd[c]]
      /\ proc' = [c \in Clients |-> IF c \in gone THEN None ELSE proc[c]]
  BY DEF CheckClients
<1>2. \A c \in Clients \ gone : proc'[c] = proc[c] /\ (Alive(c) => Alive(c)')
  BY <1>1 DEF Alive
<1>3. gone \in SUBSET Clients
  OBVIOUS
<1>. HIDE DEF gone
<1>. QED
  BY <1>1, <1>2, <1>3, DestructionKeeps

LEMMA RecvKeeps ==
  ASSUME IInv, CgiInv, NEW c \in Clients, RecvCb(c)
  PROVE  CgiInv'
<1>1. phase = "dispatch" /\ phase' = phase
  BY DEF RecvCb
<1>2. CASE RecvStartsCgi(c)
  <2>1. PICK f \in Fds : Dispatch(f, "r", c)
    BY DEF RecvCb
  <2>2. rd[f] = c /\ ReaderLive(f)
    BY <1>1, <2>1, ReaderCalled DEF Callbacks
  <2>3. sfd[c] # NoFd
    BY <2>2 DEF ReaderLive
  <2>. QED
    BY <1>1, <1>2, <2>3, StartsCgiKeeps
<1>3. CASE RecvIgnored(c) \/ RecvFails(c) \/ RecvPartial(c) \/ RecvAnswered(c)
  <2>1. UNCHANGED <<osVars, kids, reapedNow, cgiVars, proc, sfd>>
    BY <1>3 DEF RecvIgnored, RecvFails, RecvPartial, RecvAnswered, Received
  <2>2. \A d \in Clients : Alive(d) => Alive(d)'
    BY <2>1 DEF Alive
  <2>. QED
    BY <1>1, <2>1, <2>2, ElsewhereStep
<1>. QED
  BY <1>2, <1>3 DEF RecvCb

LEMMA AcceptKeeps ==
  ASSUME IInv, CgiInv, AcceptCb
  PROVE  CgiInv'
<1>1. UNCHANGED <<osVars, kids, reapedNow, cgiVars, proc, phase>>
  BY DEF AcceptCb
<1>2. \A c \in Clients : Alive(c) => Alive(c)'
  BY DEF AcceptCb, Alive, FreeFds, IInv, TypeOK
<1>. QED
  BY <1>1, <1>2, ElsewhereStep

-----------------------------------------------------------------------------
(* The theorems.                                                            *)

LEMMA CgiNext == IInv /\ CgiInv /\ [Next]_vars => CgiInv'
<1>. SUFFICES ASSUME IInv, CgiInv, [Next]_vars PROVE CgiInv'
  OBVIOUS
<1>1. CASE Flush \/ Stop \/ Poll \/ EndDispatch
  <2>1. /\ UNCHANGED <<osVars, kids, reapedNow, cgiVars, proc, sfd>>
        /\ phase # "wait"
    BY <1>1 DEF Flush, Stop, Poll, EndDispatch
  <2>2. \A c \in Clients : Alive(c) => Alive(c)'
    BY <2>1 DEF Alive
  <2>. QED
    BY <2>1, <2>2, ElsewhereStep
<1>2. CASE \/ UNCHANGED vars \/ Tick \/ SigInt
           \/ \E c \in Clients : Connect(c) \/ ClientSends(c) \/ ClientCloses(c)
  <2>1. UNCHANGED <<osVars, kids, reapedNow, cgiVars, proc, sfd, phase>>
    BY <1>2 DEF vars, Tick, SigInt, Connect, ClientSends, ClientCloses
  <2>2. \A c \in Clients : Alive(c) => Alive(c)'
    BY <2>1 DEF Alive
  <2>. QED
    BY <2>1, <2>2, ElsewhereStep
<1>3. CASE LoopStep
  BY <1>1, <1>3, KillLoopKeeps, WaitLoopKeeps, EndWaitKeeps, CheckClientsKeeps, BadAllocKeeps,
     AcceptKeeps, RecvKeeps, SendKeeps, CgiReadKeeps DEF LoopStep
<1>4. CASE WorldStep
  BY <1>2, <1>4, ChildMoves DEF WorldStep
<1>. QED
  BY <1>2, <1>3, <1>4 DEF Next

THEOREM CgiInductive == Spec => []CgiInv
<1>. QED
  BY InitCgiInv, CgiNext, Inductive, PTL DEF Spec

(* A script's output is answered with only when it is complete: the script  *)
(* has exited with 0, nobody can write any more and everything was read, in *)
(* whatever order the end of the output and the exit were noticed.          *)
THEOREM CgiAnswerIsCompleteHolds == Spec => []CgiAnswerIsComplete
<1>1. CgiInv => CgiAnswerIsComplete
  BY DEF CgiInv, ChildInv, OutputOver, ExitSeen, CgiAnswerIsComplete
<1>. QED
  BY <1>1, CgiInductive, PTL

(* No script runs without a deadline and a processor that will kill it,     *)
(* even when an allocation failed.                                          *)
THEOREM ChildrenAreTrackedHolds == Spec => []ChildrenAreTracked
<1>1. CgiInv => ChildrenAreTracked
  BY DEF CgiInv, ChildInv, Tracked, Owned, ChildrenAreTracked
<1>. QED
  BY <1>1, CgiInductive, PTL

(* Unless an allocation fails, the exit callback of every child in the      *)
(* table can still be called.                                               *)
THEOREM ChildCallbacksAreLiveHolds ==
  ASSUME "alloc" \notin Faults
  PROVE  Spec => []ChildCallbacksAreLive
<1>1. CgiInv /\ TypeOK => ChildCallbacksAreLive
  BY DEF CgiInv, ChildInv, EntryLive, Owned, ChildCallbacksAreLive, TypeOK, CpmTypeOK
<1>. QED
  BY <1>1, CgiInductive, TypeCorrect, PTL

(* Unless an allocation fails, no process id the table holds between two    *)
(* wait loops may have been given to another process.                       *)
THEOREM OnlyChildrenAreKilledHolds ==
  ASSUME "alloc" \notin Faults
  PROVE  Spec => []OnlyChildrenAreKilled
<1>1. CgiInv /\ TypeOK => OnlyChildrenAreKilled
  BY DEF CgiInv, ChildInv, EntryLive, OnlyChildrenAreKilled, TypeOK, CpmTypeOK
<1>. QED
  BY <1>1, CgiInductive, TypeCorrect, PTL

=============================================================================
