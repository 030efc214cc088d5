---------------------------- MODULE ServerCluster ----------------------------
(***************************************************************************)
(* The running server: ServerCluster::Run over the event manager and the   *)
(* child-process manager, with the ClientSession and CGIProcessor objects  *)
(* their callbacks serve.  Everything runs on one thread; clients, child   *)
(* processes, the clock and SIGINT act between any two of its steps.       *)
(*                                                                         *)
(* What a request asks for is decided by other components; here a complete *)
(* request is either answered at once or runs a CGI script.                *)
(***************************************************************************)
EXTENDS ChildProcessesManager

CONSTANTS
    NoFd,           \* not a descriptor
    ListenFd,       \* the listening socket
    KeepAlive,      \* keep_alive_timeout_s_, in units of the clock
    MaxSegs,        \* segments a client sends in all
    MaxUnits        \* units of data in a response

ASSUME ClusterAssumption ==
    /\ ListenFd \in Fds
    /\ NoFd \notin Fds
    /\ KeepAlive \in Nat
    /\ MaxSegs \in Nat
    /\ MaxUnits \in Nat \ {0}

VARIABLES
    conn,       \* each client's connection, as its own side sees it
    inbox,      \* the client has sent data the server has not received
    sent,       \* segments the client has sent
    sfd,        \* client_sock_, NoFd when the session does not exist
    busy,       \* session_state_ = CS_BUSY
    closed,     \* connection_closed_
    age,        \* time since last_activity_time_, up to KeepAlive + 1
    left,       \* units of the response not yet passed to send
    closeAfter, \* close_after_sending_rs_ of the pending response
    proc,       \* the CGIProcessor in response_processor_, or None
    desc,       \* child_process_description_ is set
    cst,        \* CGIProcessor::state_
    psock,      \* the processor's end of the socket pair, NoFd without processor
    phase,      \* where Run is
    run         \* run_

netVars == <<conn, inbox, sent>>
sessVars == <<sfd, busy, closed, age, left, closeAfter, proc>>
cgiVars == <<desc, cst, psock>>
vars == <<emVars, osVars, cpmVars, netVars, sessVars, cgiVars, phase, run>>

Phases == {"flush", "poll", "dispatch", "kill", "wait", "clients", "stopped"}
Conns == {"idle", "waiting", "up", "gone", "ended"}

TypeOK ==
    /\ EmTypeOK
    /\ CpmTypeOK
    /\ conn \in [Clients -> Conns]
    /\ inbox \in [Clients -> BOOLEAN]
    /\ sent \in [Clients -> 0 .. MaxSegs]
    /\ sfd \in [Clients -> Fds \cup {NoFd}]
    /\ busy \in [Clients -> BOOLEAN]
    /\ closed \in [Clients -> BOOLEAN]
    /\ age \in [Clients -> 0 .. KeepAlive + 1]
    /\ left \in [Clients -> 0 .. MaxUnits]
    /\ closeAfter \in [Clients -> BOOLEAN]
    /\ proc \in [Clients -> Pids \cup {None}]
    /\ desc \in [Pids -> BOOLEAN]
    /\ cst \in [Pids -> SUBSET {"read", "exited", "done"}]
    /\ psock \in [Pids -> Fds \cup {NoFd}]
    /\ phase \in Phases
    /\ run \in BOOLEAN

Init ==
    /\ rd = [f \in Fds |-> IF f = ListenFd THEN Listener ELSE None]
    /\ wr = [f \in Fds |-> None]
    /\ ep = [f \in Fds |-> IF f = ListenFd /\ MxType = "epoll" THEN {"r"} ELSE {}]
    /\ toDel = {} /\ ready = {}
    /\ child = [p \in Pids |-> "none"]
    /\ hold = [p \in Pids |-> FALSE]
    /\ data = [p \in Pids |-> FALSE]
    /\ kids = {} /\ todo = {} /\ reapedNow = {}
    /\ kage = [p \in Pids |-> 0]
    /\ conn = [c \in Clients |-> "idle"]
    /\ inbox = [c \in Clients |-> FALSE]
    /\ sent = [c \in Clients |-> 0]
    /\ sfd = [c \in Clients |-> NoFd]
    /\ busy = [c \in Clients |-> FALSE]
    /\ closed = [c \in Clients |-> FALSE]
    /\ age = [c \in Clients |-> 0]
    /\ left = [c \in Clients |-> 0]
    /\ closeAfter = [c \in Clients |-> FALSE]
    /\ proc = [c \in Clients |-> None]
    /\ desc = [p \in Pids |-> FALSE]
    /\ cst = [p \in Pids |-> {}]
    /\ psock = [p \in Pids |-> NoFd]
    /\ phase = "flush"
    /\ run = TRUE

-----------------------------------------------------------------------------
(* Descriptors.  The system hands out the lowest free one.                  *)

Alive(c) == sfd[c] # NoFd
OpenFds == {ListenFd} \cup {sfd[c] : c \in Clients} \cup {psock[p] : p \in Pids}
FreeFds == Fds \ OpenFds
Lowest(f) == f \in FreeFds /\ \A g \in FreeFds : f <= g

(* What a read on the descriptor would return without waiting.              *)
ClientReadable(c) == inbox[c] \/ conn[c] = "gone"
CgiReadable(p) == data[p] \/ ~hold[p]
Readable(f) ==
    \/ f = ListenFd /\ \E c \in Clients : conn[c] = "waiting"
    \/ \E c \in Clients : sfd[c] = f /\ ClientReadable(c)
    \/ \E p \in Pids : psock[p] = f /\ CgiReadable(p)

-----------------------------------------------------------------------------
(* ClientSession and CGIProcessor operations the handlers share.            *)

(* PrepareResponse: the write callback holds the response.                  *)
PrepareResponse(c, close) ==
    \/ /\ RegisterWrite(sfd[c], c)
       /\ \E n \in 1 .. MaxUnits : left' = [left EXCEPT ![c] = n]
       /\ closeAfter' = [closeAfter EXCEPT ![c] = close]
       /\ UNCHANGED closed
    \/ /\ MayRefuse(sfd[c], "w")
       /\ closed' = [closed EXCEPT ![c] = TRUE]
       /\ UNCHANGED <<wr, ep, left, closeAfter>>

(* Destructors of the processors of P; they also close their sockets, which *)
(* the caller forgets in ep.                                                *)
(* Slip: the destructor leaves the child running.                           *)
DestroyWithoutKill(P) ==
    /\ psock' = [p \in Pids |-> IF p \in P THEN NoFd ELSE psock[p]]
    /\ desc' = [p \in Pids |-> desc[p] /\ p \notin P]
    /\ cst' = [p \in Pids |-> IF p \in P THEN {} ELSE cst[p]]
    /\ data' = [p \in Pids |-> data[p] /\ p \notin P]
    /\ UNCHANGED <<child, kids, kage, hold, todo, reapedNow>>

DestroyProcessors(P) ==
    /\ psock' = [p \in Pids |-> IF p \in P THEN NoFd ELSE psock[p]]
    /\ desc' = [p \in Pids |-> desc[p] /\ p \notin P]
    /\ cst' = [p \in Pids |-> IF p \in P THEN {} ELSE cst[p]]
    /\ data' = [p \in Pids |-> data[p] /\ p \notin P]
    /\ KillChildren({p \in P : desc[p]})
    /\ UNCHANGED <<hold, todo, reapedNow>>

ProcessorsOf(S) == {proc[c] : c \in S} \ {None}
SocketsOf(P) == {psock[p] : p \in P}
(* Slips: the destructor of CGIProcessor deletes no callback; it deletes    *)
(* them whether or not child_process_description_ is set.                   *)
NoDescDeletions(P) == {}
AllDeletions(P) == Both(SocketsOf(P))
DescDeletions(P) == Both(SocketsOf({p \in P : desc[p]}))

(* Slip: the exit of the child is taken for the end of its output.          *)
ProceedOnExit(p, c, st) ==
    IF "exited" \in st
    THEN /\ cst' = [cst EXCEPT ![p] = {"done"}]
         /\ desc' = [desc EXCEPT ![p] = FALSE]
         /\ \E close \in BOOLEAN : PrepareResponse(c, close)
    ELSE /\ cst' = [cst EXCEPT ![p] = st]
         /\ UNCHANGED <<desc, wr, ep, left, closeAfter, closed>>

(* ProceedWithRsIfRdy, once state_ has become st.  The output may carry a   *)
(* Connection header; output that does not parse is answered with an error. *)
ProceedWithRsIfRdy(p, c, st) ==
    IF st = {"read", "exited"}
    THEN /\ cst' = [cst EXCEPT ![p] = {"done"}]
         /\ desc' = [desc EXCEPT ![p] = FALSE]
         /\ \E close \in BOOLEAN : PrepareResponse(c, close)
    ELSE /\ cst' = [cst EXCEPT ![p] = st]
         /\ UNCHANGED <<desc, wr, ep, left, closeAfter, closed>>

(* Slip: the failure is noted and nobody is told.                           *)
FailCgiSilently(p, c) ==
    /\ toDel' = toDel \cup Both({psock[p]})
    /\ desc' = [desc EXCEPT ![p] = FALSE]
    /\ UNCHANGED <<cst, wr, ep, left, closeAfter, closed>>

(* The CGI has failed: the processor lets its child go and answers 500.     *)
FailCgi(p, c) ==
    /\ toDel' = toDel \cup Both({psock[p]})
    /\ desc' = [desc EXCEPT ![p] = FALSE]
    /\ UNCHANGED cst
    /\ PrepareResponse(c, TRUE)

-----------------------------------------------------------------------------
(* Handlers.                                                                *)

(* MasterSocketCallback::Call, with the constructor of the session.         *)
AcceptCb ==
    /\ phase = "dispatch"
    /\ Dispatch(ListenFd, "r", Listener)
    /\ \/ \E c \in Clients, f \in FreeFds :
            /\ conn[c] = "waiting" /\ Lowest(f)
            /\ conn' = [conn EXCEPT ![c] = "up"]
            /\ sfd' = [sfd EXCEPT ![c] = f]
            /\ \/ RegisterRead(f, c) /\ UNCHANGED closed
               \/ /\ MayRefuse(f, "r")
                  /\ closed' = [closed EXCEPT ![c] = TRUE]
                  /\ UNCHANGED <<rd, ep>>
       \/ FreeFds = {} /\ UNCHANGED <<conn, sfd, rd, ep, closed>>
    /\ UNCHANGED <<wr, toDel, osVars, cpmVars, inbox, sent, busy, age, left,
                   closeAfter, proc, cgiVars, phase, run>>

(* OnReadyToRecvFromClientCb::Call and ProcessNewData.                      *)
RecvIgnored(c) ==
    /\ busy[c]
    /\ UNCHANGED <<rd, wr, ep, toDel, osVars, cpmVars, netVars, sessVars, cgiVars>>

RecvFails(c) ==
    /\ ~busy[c]
    /\ conn[c] = "gone" \/ ~ClientReadable(c) \/ "recv" \in Faults
    /\ closed' = [closed EXCEPT ![c] = TRUE]
    /\ UNCHANGED <<rd, wr, ep, toDel, osVars, cpmVars, netVars, sfd, busy, age,
                   left, closeAfter, proc, cgiVars>>

Received(c) ==
    /\ ~busy[c] /\ inbox[c]
    /\ inbox' = [inbox EXCEPT ![c] = FALSE]
    /\ age' = [age EXCEPT ![c] = 0]
    /\ UNCHANGED <<conn, sent, sfd>>

RecvPartial(c) ==
    /\ Received(c)
    /\ UNCHANGED <<rd, wr, ep, toDel, osVars, cpmVars, busy, closed, left,
                   closeAfter, proc, cgiVars>>

(* A static answer keeps the connection, an error answer closes it.         *)
RecvAnswered(c) ==
    /\ Received(c)
    /\ busy' = [busy EXCEPT ![c] = TRUE]
    /\ \E close \in BOOLEAN : PrepareResponse(c, close)
    /\ UNCHANGED <<rd, toDel, osVars, cpmVars, proc, cgiVars>>

(* CGIProcessor's constructor, when it gets as far as running the script.   *)
RecvStartsCgi(c) ==
    /\ Received(c)
    /\ busy' = [busy EXCEPT ![c] = TRUE]
    /\ \E p \in Pids, f \in FreeFds :
         /\ Lowest(f) /\ FreeFds # {f}
         /\ proc' = [proc EXCEPT ![c] = p]
         /\ psock' = [psock EXCEPT ![p] = f]
         /\ \/ /\ RunChild(p)
               /\ RegisterRead(f, p)
               /\ desc' = [desc EXCEPT ![p] = TRUE]
               /\ UNCHANGED <<wr, left, closeAfter, closed>>
            \/ /\ MayRefuse(f, "r")
               /\ RunAndKillChild(p)
               /\ PrepareResponse(c, TRUE)
               /\ UNCHANGED <<rd, desc>>
    /\ UNCHANGED <<toDel, cst>>

RecvCb(c) ==
    /\ phase = "dispatch"
    /\ \E f \in Fds : Dispatch(f, "r", c)
    /\ \/ RecvIgnored(c) \/ RecvFails(c) \/ RecvPartial(c)
       \/ RecvAnswered(c) \/ RecvStartsCgi(c)
    /\ UNCHANGED <<phase, run>>

(* OnReadyToSendToClientCb::Call and ResponseSentCleanup.                   *)
SendFails(c) ==
    /\ conn[c] = "gone" \/ "send" \in Faults
    /\ closed' = [closed EXCEPT ![c] = TRUE]
    /\ UNCHANGED <<toDel, ep, osVars, cpmVars, busy, left, proc, cgiVars>>

(* Slip: what was accepted is counted twice.                                *)
SendsTwice(c) ==
    /\ \E n \in 1 .. MaxUnits : n < left[c] /\ left' = [left EXCEPT ![c] = n - (@ - n)]
    /\ UNCHANGED <<toDel, ep, osVars, cpmVars, busy, closed, proc, cgiVars>>

SendsPart(c) ==
    /\ \E n \in 1 .. MaxUnits : n < left[c] /\ left' = [left EXCEPT ![c] = n]
    /\ UNCHANGED <<toDel, ep, osVars, cpmVars, busy, closed, proc, cgiVars>>

(* Slips: the write callback is kept; the session stays busy.               *)
SendsLastKeepsWriter(c) ==
    LET P == ProcessorsOf({c})
    IN  /\ left' = [left EXCEPT ![c] = 0]
        /\ busy' = [busy EXCEPT ![c] = FALSE]
        /\ proc' = [proc EXCEPT ![c] = None]
        /\ DestroyProcessors(P)
        /\ toDel' = toDel \cup DescDeletions(P)
        /\ ep' = Forget(SocketsOf(P))
        /\ closed' = [closed EXCEPT ![c] = @ \/ closeAfter[c]]

SendsLastStaysBusy(c) ==
    LET P == ProcessorsOf({c})
    IN  /\ left' = [left EXCEPT ![c] = 0]
        /\ UNCHANGED busy
        /\ proc' = [proc EXCEPT ![c] = None]
        /\ DestroyProcessors(P)
        /\ toDel' = toDel \cup {<<sfd[c], "w">>} \cup DescDeletions(P)
        /\ ep' = Forget(SocketsOf(P))
        /\ closed' = [closed EXCEPT ![c] = @ \/ closeAfter[c]]

SendsLast(c) ==
    LET P == ProcessorsOf({c})
    IN  /\ left' = [left EXCEPT ![c] = 0]
        /\ busy' = [busy EXCEPT ![c] = FALSE]
        /\ proc' = [proc EXCEPT ![c] = None]
        /\ DestroyProcessors(P)
        /\ toDel' = toDel \cup {<<sfd[c], "w">>} \cup DescDeletions(P)
        /\ ep' = Forget(SocketsOf(P))
        /\ closed' = [closed EXCEPT ![c] = @ \/ closeAfter[c]]

SendCb(c) ==
    /\ phase = "dispatch"
    /\ \E f \in Fds : Dispatch(f, "w", c)
    /\ age' = [age EXCEPT ![c] = 0]
    /\ SendFails(c) \/ SendsPart(c) \/ SendsLast(c)
    /\ UNCHANGED <<rd, wr, netVars, sfd, closeAfter, phase, run>>

(* ReadChildOutputCallback::Call.                                           *)
(* Slip: the child is left to the table of running children.                *)
CgiRecvFailsWithoutKill(p, c) ==
    /\ ~CgiReadable(p) \/ "recv" \in Faults
    /\ FailCgi(p, c)
    /\ UNCHANGED <<child, kids, kage, data>>

CgiRecvFails(p, c) ==
    /\ ~CgiReadable(p) \/ "recv" \in Faults
    /\ KillChildren({p})
    /\ FailCgi(p, c)
    /\ UNCHANGED data

CgiReads(p) ==
    /\ data[p]
    /\ data' = [data EXCEPT ![p] = FALSE]
    /\ UNCHANGED <<child, kids, kage, wr, ep, toDel, left, closeAfter, closed,
                   desc, cst>>

(* Slip: the read callback stays registered at the end of the output.       *)
CgiOutputEndsUnheard(p, c) ==
    /\ ~data[p] /\ ~hold[p]
    /\ UNCHANGED toDel
    /\ ProceedWithRsIfRdy(p, c, cst[p] \cup {"read"})
    /\ UNCHANGED <<child, kids, kage, data>>

CgiOutputEnds(p, c) ==
    /\ ~data[p] /\ ~hold[p]
    /\ toDel' = toDel \cup Both({psock[p]})
    /\ ProceedWithRsIfRdy(p, c, cst[p] \cup {"read"})
    /\ UNCHANGED <<child, kids, kage, data>>

CgiReadCb(p) ==
    /\ phase = "dispatch"
    /\ \E f \in Fds : Dispatch(f, "r", p)
    /\ desc[p]
    /\ \E c \in Clients :
         /\ proc[c] = p
         /\ CgiRecvFails(p, c) \/ CgiReads(p) \/ CgiOutputEnds(p, c)
    /\ UNCHANGED <<rd, hold, todo, reapedNow, netVars, sfd, busy, age, proc,
                   psock, phase, run>>

(* ChildProcessDoneCb::Call, for a child the wait loop has reaped.          *)
ChildDoneCb(p, c) ==
    \/ /\ child[p] = "zombieN"
       /\ FailCgi(p, c)
    \/ /\ child[p] = "zombie0"
       /\ ProceedWithRsIfRdy(p, c, cst[p] \cup {"exited"})
       /\ UNCHANGED toDel

-----------------------------------------------------------------------------
(* Run's loop.                                                              *)

(* run_ is tested, then EventManager::CheckOnce_ begins.                    *)
Flush ==
    /\ phase = "flush" /\ run
    /\ FlushDeletions
    /\ phase' = "poll"
    /\ UNCHANGED <<ready, osVars, cpmVars, netVars, sessVars, cgiVars, run>>

Stop ==
    /\ phase = "flush" /\ ~run
    /\ phase' = "stopped"
    /\ UNCHANGED <<emVars, osVars, cpmVars, netVars, sessVars, cgiVars, run>>

(* select, poll or epoll_wait returns: what is readable is reported, what   *)
(* is writable depends on how fast the clients take their data, and nothing *)
(* to report means a timeout or a signal.                                   *)
Poll ==
    /\ phase = "poll"
    /\ LET readable == {f \in Fds : Watched(f, "r") /\ Readable(f)}
           writable == {f \in Fds : Watched(f, "w")}
       IN  \E W \in SUBSET writable :
             ready' = (readable \X {"r"}) \cup (W \X {"w"})
    /\ phase' = "dispatch"
    /\ UNCHANGED <<rd, wr, ep, toDel, osVars, cpmVars, netVars, sessVars,
                   cgiVars, run>>

EndDispatch ==
    /\ phase = "dispatch" /\ ready = {}
    /\ phase' = "kill"
    /\ UNCHANGED <<emVars, osVars, cpmVars, netVars, sessVars, cgiVars, run>>

KillLoop ==
    /\ phase = "kill"
    /\ KillOverdue
    /\ phase' = "wait"
    /\ UNCHANGED <<emVars, netVars, sessVars, cgiVars, run>>

WaitLoop ==
    /\ phase = "wait"
    /\ \E p \in Pids :
         \/ /\ WaitMisses(p)
            /\ UNCHANGED <<wr, ep, toDel, left, closeAfter, closed, desc, cst>>
         \/ /\ Reap(p)
            /\ \E c \in Clients : proc[c] = p /\ ChildDoneCb(p, c)
    /\ UNCHANGED <<rd, ready, netVars, sfd, busy, age, proc, psock, phase, run>>

EndWait ==
    /\ phase = "wait"
    /\ EraseReaped
    /\ phase' = "clients"
    /\ UNCHANGED <<emVars, netVars, sessVars, cgiVars, run>>

(* Slips: a busy session never times out; only a busy one does.             *)
IdleUnlessBusy(c) == ~busy[c] /\ age[c] > KeepAlive
IdleIfBusy(c) == busy[c] /\ age[c] > KeepAlive
Idle(c) == age[c] > KeepAlive

(* CheckClients_: sessions already closed are destroyed with everything     *)
(* they own, idle ones are only marked for the next round.                  *)
CheckClients ==
    LET gone == {c \in Clients : Alive(c) /\ closed[c]}
        P == ProcessorsOf(gone)
    IN  /\ phase = "clients"
        /\ sfd' = [c \in Clients |-> IF c \in gone THEN NoFd ELSE sfd[c]]
        /\ conn' = [c \in Clients |-> IF c \in gone THEN "ended" ELSE conn[c]]
        /\ inbox' = [c \in Clients |-> inbox[c] /\ c \notin gone]
        /\ busy' = [c \in Clients |-> busy[c] /\ c \notin gone]
        /\ closed' = [c \in Clients |-> /\ c \notin gone
                                        /\ Alive(c) /\ Idle(c)]
        /\ age' = [c \in Clients |-> IF c \in gone THEN 0 ELSE age[c]]
        /\ left' = [c \in Clients |-> IF c \in gone THEN 0 ELSE left[c]]
        /\ proc' = [c \in Clients |-> IF c \in gone THEN None ELSE proc[c]]
        /\ DestroyProcessors(P)
        /\ toDel' = toDel \cup Both({sfd[c] : c \in gone}) \cup DescDeletions(P)
        /\ ep' = Forget({sfd[c] : c \in gone} \cup SocketsOf(P))
        /\ phase' = "flush"
        /\ UNCHANGED <<rd, wr, ready, sent, closeAfter, run>>

(* bad_alloc leaves the try block of Run: KillAllClients_.                  *)
BadAlloc ==
    /\ "alloc" \in Faults
    /\ phase \in {"poll", "dispatch", "wait"}
    /\ closed' = [c \in Clients |-> Alive(c)]
    /\ ready' = {} /\ todo' = {} /\ reapedNow' = {}
    /\ phase' = "clients"
    /\ UNCHANGED <<rd, wr, ep, toDel, osVars, kids, kage, netVars, sfd, busy,
                   age, left, closeAfter, proc, cgiVars, run>>

LoopStep ==
    \/ Flush \/ Stop \/ Poll \/ EndDispatch \/ KillLoop \/ WaitLoop \/ EndWait
    \/ CheckClients \/ BadAlloc
    \/ AcceptCb
    \/ \E c \in Clients : RecvCb(c) \/ SendCb(c)
    \/ \E p \in Pids : CgiReadCb(p)

-----------------------------------------------------------------------------
(* The world around the loop.                                               *)

worldVars == <<emVars, sessVars, cgiVars, phase, run>>

Connect(c) ==
    /\ conn[c] = "idle"
    /\ conn' = [conn EXCEPT ![c] = "waiting"]
    /\ UNCHANGED <<worldVars, osVars, cpmVars, inbox, sent>>

ClientSends(c) ==
    /\ conn[c] \in {"waiting", "up"} /\ sent[c] < MaxSegs
    /\ inbox' = [inbox EXCEPT ![c] = TRUE]
    /\ sent' = [sent EXCEPT ![c] = @ + 1]
    /\ UNCHANGED <<worldVars, osVars, cpmVars, conn>>

ClientCloses(c) ==
    /\ conn[c] = "up"
    /\ conn' = [conn EXCEPT ![c] = "gone"]
    /\ UNCHANGED <<worldVars, osVars, cpmVars, inbox, sent>>

ProcessStep(p) ==
    /\ ChildWrites(p) \/ OutputCloses(p) \/ ChildExits(p) \/ ChildDies(p)
    /\ UNCHANGED <<worldVars, netVars>>

Tick ==
    /\ age' = [c \in Clients |-> IF Alive(c) /\ age[c] <= KeepAlive
                                 THEN age[c] + 1 ELSE age[c]]
    /\ kage' = [p \in Pids |-> IF p \in kids /\ kage[p] < CgiTimeout
                               THEN kage[p] + 1 ELSE kage[p]]
    /\ UNCHANGED <<emVars, osVars, kids, todo, reapedNow, netVars, sfd, busy,
                   closed, left, closeAfter, proc, cgiVars, phase, run>>

(* StopHandler, from the SIGINT handler.                                    *)
SigInt ==
    /\ run
    /\ run' = FALSE
    /\ UNCHANGED <<emVars, osVars, cpmVars, netVars, sessVars, cgiVars, phase>>

WorldStep ==
    \/ \E c \in Clients : Connect(c) \/ ClientSends(c) \/ ClientCloses(c)
    \/ \E p \in Pids : ProcessStep(p)
    \/ Tick \/ SigInt

Next == LoopStep \/ WorldStep

Spec == Init /\ [][Next]_vars

(* One thread runs the loop and poll returns within ten seconds, so the     *)
(* loop goes on; time passes; SIGKILL takes effect.  Nothing is assumed of  *)
(* clients, of scripts, or of when a client can be written to.              *)
Fairness ==
    /\ WF_vars(LoopStep)
    /\ WF_vars(Tick)
    /\ \A p \in Pids : WF_vars(ChildDies(p) /\ UNCHANGED <<worldVars, netVars>>)

FairSpec == Spec /\ Fairness

-----------------------------------------------------------------------------
(* Properties.                                                              *)

(* The object a callback refers to exists.                                  *)
Live(cb, f) ==
    CASE cb \in Clients -> sfd[cb] = f
      [] cb \in Pids    -> psock[cb] = f /\ desc[cb]
      [] OTHER          -> cb = Listener /\ f = ListenFd

(* The write callback of c is registered and is not about to be deleted.    *)
Answering(c) ==
    Alive(c) /\ wr[sfd[c]] = c /\ <<sfd[c], "w">> \notin toDel

(* While a batch of events is dispatched, every event still in it has a     *)
(* callback, and the object that callback refers to has not been destroyed  *)
(* by an earlier event of the batch or of an earlier round (the comment in  *)
(* ClientSession.h calls the contrary undefined behaviour).                 *)
NoDanglingCallback ==
    phase = "dispatch" =>
        \A e \in ready : Live(Table(e[2])[e[1]], e[1])

(* A deletion waiting in fds_to_delete_ never hits what is still needed:    *)
(* the reader of an existing session or of a CGI whose output has not       *)
(* ended, even when the descriptor was closed and handed out again.         *)
NoStaleDeletion ==
    /\ \A c \in Clients : Alive(c) => <<sfd[c], "r">> \notin toDel
    /\ \A p \in Pids :
         desc[p] /\ "read" \notin cst[p] => <<psock[p], "r">> \notin toDel

(* Every notification a running CGI still waits for is armed: the end of    *)
(* its output by a read callback, its exit by an entry of child_processes_  *)
(* that waitpid has not used up.                                            *)
Armed(p) ==
    /\ "read" \notin cst[p] => /\ rd[psock[p]] = p
                               /\ <<psock[p], "r">> \notin toDel
    /\ "exited" \notin cst[p] => p \in kids /\ child[p] \notin Reaped

(* A session that is busy and not given up has somebody who will answer: a  *)
(* response on its way, or a CGI that still expects a notification and has  *)
(* all of those armed.  A busy session ignores its own socket, so nothing   *)
(* else could wake it.                                                      *)
EveryRequestIsServed ==
    \A c \in Clients :
        Alive(c) /\ busy[c] /\ ~closed[c] =>
            \/ Answering(c)
            \/ \E p \in Pids : /\ proc[c] = p /\ desc[p]
                               /\ ~({"read", "exited"} \subseteq cst[p])
                               /\ Armed(p)

(* When the server goes to sleep, the kernel watches each session that is   *)
(* not given up for the event it waits for: writability while an answer is  *)
(* pending, data otherwise.  epoll keeps one interest per descriptor, which *)
(* registering the writer overwrites and deleting it must restore.          *)
SessionsAreWatched ==
    phase = "poll" =>
        \A c \in Clients :
            Alive(c) /\ ~closed[c] =>
                Watched(sfd[c], IF Answering(c) THEN "w" ELSE "r")

(* The kernel is never asked about a descriptor the server has closed;      *)
(* select would fail as a whole and serve nobody.                           *)
WatchedFdsAreOpen ==
    phase \in {"poll", "dispatch"} =>
        \A f \in Fds, t \in Types : Watched(f, t) => f \in OpenFds

(* A CGI response is made only from complete output: the child has exited   *)
(* with status 0, nobody can write any more and everything was read.        *)
CgiAnswerIsComplete ==
    \A p \in Pids :
        "done" \in cst[p] => child[p] = "reaped0" /\ ~hold[p] /\ ~data[p]

(* A running child always has a deadline and a processor whose destructor   *)
(* will kill it, and that processor belongs to an existing session.         *)
ChildrenAreTracked ==
    \A p \in Pids : child[p] = "run" =>
        p \in kids /\ desc[p] /\ \E c \in Clients : Alive(c) /\ proc[c] = p

(* The exit callback of a child refers to its CGIProcessor: as long as it   *)
(* may be called, the processor exists, still holds the description the     *)
(* callback dereferences, and belongs to an existing session.               *)
ChildCallbacksAreLive ==
    \A p \in kids \ reapedNow :
        desc[p] /\ \E c \in Clients : Alive(c) /\ proc[c] = p

(* Outside the waitpid loop, child_processes_ holds no process id that the  *)
(* system may have given to somebody else, so SIGKILL only reaches children.*)
OnlyChildrenAreKilled ==
    phase # "wait" => \A p \in kids : child[p] \notin Reaped

(* A session is given up only because the client left, because it was idle  *)
(* beyond the keep-alive time, or because the response just completed asked *)
(* for it: without faults no registration is refused and no read finds the  *)
(* socket empty.                                                            *)
CloseIsJustified ==
    [][\A c \in Clients :
         Alive(c) /\ ~closed[c] /\ closed'[c] =>
            \/ conn[c] = "gone"
            \/ phase = "clients" /\ age[c] > KeepAlive
            \/ Answering(c) /\ closeAfter[c] /\ ~busy'[c]]_vars

(* A session that took a request gets rid of it: the response is sent or    *)
(* the session is destroyed, whatever the client and the script do.         *)
EveryRequestEnds ==
    \A c \in Clients : busy[c] ~> (~busy[c] \/ phase = "stopped")

(* No script outlives its deadline while the server runs.                   *)
EveryChildEnds ==
    \A p \in Pids : child[p] = "run" ~> (child[p] # "run" \/ ~run)

(* A waiting connection is accepted even when the descriptors ran out.      *)
EveryConnectionIsAccepted ==
    \A c \in Clients : conn[c] = "waiting" ~> (conn[c] # "waiting" \/ ~run)

(* After SIGINT the loop ends.                                              *)
InterruptStops == ~run ~> phase = "stopped"

-----------------------------------------------------------------------------
(* The service the cluster implements: a session is ready unless it is      *)
(* busy, and answering while its write callback stands.                     *)
ServiceState(c) ==
    IF ~Alive(c) THEN IF conn[c] = "ended" THEN "over" ELSE "none"
    ELSE IF ~busy[c] THEN "ready"
    ELSE IF Answering(c) THEN "answering" ELSE "working"

Service == INSTANCE HttpService WITH
    state <- [c \in Clients |-> ServiceState(c)],
    rest <- [c \in Clients |-> left[c]]

(* The cluster implements the service: one response per request, begun only *)
(* after the request, never replaced or restarted while it is being sent.   *)
ImplementsService == Service!ServiceSpec

=============================================================================
