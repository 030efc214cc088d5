------------------------ MODULE ChildProcessesManager ------------------------
(***************************************************************************)
(* c_api::ChildProcessesManager: the table of running children with their  *)
(* deadlines, and the operating system's view of the same processes.       *)
(***************************************************************************)
EXTENDS EventManager

CONSTANT CgiTimeout     \* kDefaultTimeoutSeconds_, in units of the clock

ASSUME CgiTimeoutAssumption == CgiTimeout \in Nat

VARIABLES
    child,      \* state of each process; the digit of a dead one is its status
    hold,       \* somebody holds the writing end of the child's socket pair
    data,       \* output written and not yet read by the server
    kids,       \* domain of child_processes_
    kage,       \* time since the child was registered, up to CgiTimeout
    todo,       \* children this pass of the waitpid loop has not looked at
    reapedNow   \* children_to_delete

osVars == <<child, hold, data>>
cpmVars == <<kids, kage, todo, reapedNow>>

Zombie == {"zombie0", "zombieN"}
Reaped == {"reaped0", "reapedN"}
ChildStates == {"none", "run", "killed"} \cup Zombie \cup Reaped

CpmTypeOK ==
    /\ child \in [Pids -> ChildStates]
    /\ hold \in [Pids -> BOOLEAN]
    /\ data \in [Pids -> BOOLEAN]
    /\ kids \subseteq Pids
    /\ kage \in [Pids -> 0 .. CgiTimeout]
    /\ todo \subseteq Pids
    /\ reapedNow \subseteq Pids

(* kill(pid, SIGKILL): only a running process is affected.                  *)
Killed(P) ==
    [p \in Pids |-> IF p \in P /\ child[p] = "run" THEN "killed" ELSE child[p]]

-----------------------------------------------------------------------------
(* TryRunChildProcess_: fork, and a table entry with a fresh deadline.      *)
RunChild(p) ==
    /\ child[p] = "none"
    /\ child' = [child EXCEPT ![p] = "run"]
    /\ hold' = [hold EXCEPT ![p] = TRUE]
    /\ kids' = kids \cup {p}
    /\ UNCHANGED <<data, kage, todo, reapedNow>>

(* The fork succeeded and its caller gave the child up at once.             *)
RunAndKillChild(p) ==
    /\ child[p] = "none"
    /\ child' = [child EXCEPT ![p] = "killed"]
    /\ hold' = [hold EXCEPT ![p] = TRUE]
    /\ UNCHANGED <<data, kids, kage, todo, reapedNow>>

(* KillChildProcess_ of every child in P: the entry goes, nobody waits.     *)
KillChildren(P) ==
    /\ child' = Killed(P \cap kids)
    /\ kids' = kids \ P
    /\ kage' = [p \in Pids |-> IF p \in P THEN 0 ELSE kage[p]]

(* CheckOnce_, first loop.                                                  *)
KillOverdue ==
    /\ child' = Killed({p \in kids : kage[p] >= CgiTimeout})
    /\ todo' = kids
    /\ reapedNow' = {}
    /\ UNCHANGED <<hold, data, kids, kage>>

(* waitpid with WNOHANG on the next child of the second loop.               *)
(* Slip: waitpid without WNOHANG waits for a child that is not dead.        *)
WaitBlocks(p) ==
    /\ p \in todo
    /\ child[p] \in Reaped
    /\ todo' = todo \ {p}
    /\ UNCHANGED <<osVars, kids, kage, reapedNow>>

WaitMisses(p) ==
    /\ p \in todo
    /\ child[p] \notin Zombie
    /\ todo' = todo \ {p}
    /\ UNCHANGED <<osVars, kids, kage, reapedNow>>

Reap(p) ==
    /\ p \in todo
    /\ child[p] \in Zombie
    /\ child' = [child EXCEPT ![p] = IF @ = "zombie0" THEN "reaped0" ELSE "reapedN"]
    /\ todo' = todo \ {p}
    /\ reapedNow' = reapedNow \cup {p}
    /\ UNCHANGED <<hold, data, kids, kage>>

(* CheckOnce_, third loop.                                                  *)
(* Slip: the children that were reaped stay in the table.                   *)
EraseNothing ==
    /\ todo = {}
    /\ reapedNow' = {}
    /\ UNCHANGED <<osVars, kids, kage, todo>>

EraseReaped ==
    /\ todo = {}
    /\ kids' = kids \ reapedNow
    /\ kage' = [p \in Pids |-> IF p \in reapedNow THEN 0 ELSE kage[p]]
    /\ reapedNow' = {}
    /\ UNCHANGED <<osVars, todo>>

-----------------------------------------------------------------------------
(* The processes themselves.  What a child leaves behind may hold its       *)
(* output open after it is gone.                                            *)
ChildWrites(p) ==
    /\ hold[p]
    /\ data' = [data EXCEPT ![p] = TRUE]
    /\ UNCHANGED <<child, hold, cpmVars>>

OutputCloses(p) ==
    /\ hold[p]
    /\ hold' = [hold EXCEPT ![p] = FALSE]
    /\ UNCHANGED <<child, data, cpmVars>>

Dies(p, how, leaves) ==
    /\ child' = [child EXCEPT ![p] = how]
    /\ hold' = [hold EXCEPT ![p] = @ /\ leaves]
    /\ UNCHANGED <<data, cpmVars>>

ChildExits(p) ==
    /\ child[p] = "run"
    /\ \E how \in Zombie, leaves \in BOOLEAN : Dies(p, how, leaves)

ChildDies(p) ==
    /\ child[p] = "killed"
    /\ \E leaves \in BOOLEAN : Dies(p, "zombieN", leaves)
=============================================================================
