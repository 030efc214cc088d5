---------------------------- MODULE EventManager ----------------------------
(***************************************************************************)
(* c_api::EventManager and its multiplexers (select, poll, epoll): the two *)
(* tables of callbacks keyed by file descriptor, the delayed deletion of   *)
(* callbacks, what the kernel is asked to watch, and the order in which a  *)
(* batch of ready events is dispatched.                                    *)
(*                                                                         *)
(* A callback is an object that holds a reference to the session or CGI    *)
(* processor it serves.  The tables below store that referent: the client  *)
(* of a ClientSession, the child of a CGIProcessor, or the listener.       *)
(*                                                                         *)
(* The operators that have primes are the effects of EventManager's        *)
(* operations; the handlers of module ServerCluster conjoin them.          *)
(***************************************************************************)
EXTENDS Naturals, FiniteSets

CONSTANTS
    Clients,    \* clients; each connects once, so a client names its session
    Pids,       \* child processes; each names the CGIProcessor that runs it
    Listener,   \* the ServerCluster, referent of the listening socket's callback
    None,       \* no callback
    Fds,        \* the file descriptors the process may open
    MxType,     \* which multiplexer the configuration selects
    Faults      \* kinds of system calls and allocations that may fail

ASSUME FdsAssumption == Fds \subseteq Nat \ {0}
ASSUME MxTypeAssumption == MxType \in {"select", "poll", "epoll"}
ASSUME FaultsAssumption == Faults \subseteq {"register", "recv", "send", "alloc"}
ASSUME ReferentsAssumption ==
    /\ Clients \cap Pids = {}
    /\ Listener \notin Clients \cup Pids
    /\ None \notin Clients \cup Pids \cup {Listener}

VARIABLES
    rd,         \* AMultiplexer::rd_sockets_
    wr,         \* AMultiplexer::wr_sockets_
    ep,         \* epoll only: the events the kernel watches a descriptor for
    toDel,      \* EventManager::fds_to_delete_
    ready       \* the events the multiplexer reported and has not dispatched

emVars == <<rd, wr, ep, toDel, ready>>

Types == {"r", "w"}                     \* CT_READ, CT_WRITE
Callbacks == Clients \cup Pids \cup {Listener}
Events == Fds \X Types
Both(F) == F \X Types                   \* CT_READWRITE

EmTypeOK ==
    /\ rd \in [Fds -> Callbacks \cup {None}]
    /\ wr \in [Fds -> Callbacks \cup {None}]
    /\ ep \in [Fds -> SUBSET Types]
    /\ toDel \subseteq Events
    /\ ready \subseteq Events

Table(t) == IF t = "r" THEN rd ELSE wr

-----------------------------------------------------------------------------
(* Registration.  A taken slot, or a failing epoll_ctl, refuses it.  epoll  *)
(* sets the interest of the descriptor to the new type alone.               *)

CanRegister(f, t) == Table(t)[f] = None
MayRefuse(f, t) == Table(t)[f] # None \/ "register" \in Faults

Interest(f, t) ==
    [ep EXCEPT ![f] = IF MxType = "epoll" THEN {t} ELSE {}]

RegisterRead(f, cb) ==
    /\ CanRegister(f, "r")
    /\ rd' = [rd EXCEPT ![f] = cb]
    /\ ep' = Interest(f, "r")

RegisterWrite(f, cb) ==
    /\ CanRegister(f, "w")
    /\ wr' = [wr EXCEPT ![f] = cb]
    /\ ep' = Interest(f, "w")

(* The kernel forgets a descriptor that is closed.                          *)
Forget(S) == [f \in Fds |-> IF f \in S THEN {} ELSE ep[f]]

-----------------------------------------------------------------------------
(* The deletions queued since the last round take effect.  An epoll         *)
(* descriptor keeps the interest in what is still registered.               *)

Deleted(f, t) == <<f, t>> \in toDel /\ Table(t)[f] # None
(* Slip: whatever is deleted, the descriptor is dropped from epoll.         *)
RemainingNothing(f) == {}
Remaining(f) == {t \in Types : Table(t)[f] # None /\ <<f, t>> \notin toDel}

FlushDeletions ==
    /\ rd' = [f \in Fds |-> IF <<f, "r">> \in toDel THEN None ELSE rd[f]]
    /\ wr' = [f \in Fds |-> IF <<f, "w">> \in toDel THEN None ELSE wr[f]]
    /\ ep' = [f \in Fds |-> IF ep[f] # {} /\ \E t \in Types : Deleted(f, t)
                            THEN Remaining(f) ELSE ep[f]]
    /\ toDel' = {}

-----------------------------------------------------------------------------
(* What the multiplexer passes to the kernel.                               *)
Watched(f, t) ==
    IF MxType = "epoll" THEN t \in ep[f] ELSE Table(t)[f] # None

(* select scans the descriptors upwards, reading before writing; poll keeps *)
(* one entry per callback, all the readers first; epoll reports descriptors *)
(* in no fixed order.                                                       *)
Precedes(e1, e2) ==
    CASE MxType = "select" -> e1[1] < e2[1] \/ (e1[1] = e2[1] /\ e1[2] = "r")
      [] MxType = "poll"   -> \/ e1[2] = "r" /\ e2[2] = "w"
                              \/ e1[2] = e2[2] /\ e1[1] < e2[1]
      [] MxType = "epoll"  -> e1[1] = e2[1] /\ e1[2] = "r"

Turn(e) == e \in ready /\ \A o \in ready \ {e} : ~Precedes(o, e)

(* The next event of the batch is <<f, t>> and calls the callback of cb.    *)
Dispatch(f, t, cb) ==
    /\ Turn(<<f, t>>)
    /\ Table(t)[f] = cb
    /\ ready' = ready \ {<<f, t>>}
=============================================================================
