----------------------------- MODULE HttpService -----------------------------
(***************************************************************************)
(* What the server promises each connection, without sockets, callbacks or *)
(* processes: requests are taken one at a time, each gets at most one      *)
(* response, a response once begun only shrinks until all of it is sent,   *)
(* and the next request is taken only then.  The server may give a         *)
(* connection up at any moment, for good.                                  *)
(***************************************************************************)
EXTENDS Naturals

CONSTANTS
    Clients,
    MaxUnits        \* units of data in a response

VARIABLES
    state,          \* what the service is doing for each client
    rest            \* units of the client's response still to be sent

States == {"none", "ready", "working", "answering", "over"}

ServiceTypeOK ==
    /\ state \in [Clients -> States]
    /\ rest \in [Clients -> 0 .. MaxUnits]

ServiceInit ==
    /\ state = [c \in Clients |-> "none"]
    /\ rest = [c \in Clients |-> 0]

Open(c) ==
    /\ state[c] = "none"
    /\ state' = [state EXCEPT ![c] = "ready"]
    /\ UNCHANGED rest

(* A complete request arrives and takes time, or is answered at once.       *)
Take(c) ==
    /\ state[c] = "ready"
    /\ state' = [state EXCEPT ![c] = "working"]
    /\ UNCHANGED rest

Answer(c) ==
    /\ state[c] \in {"ready", "working"}
    /\ state' = [state EXCEPT ![c] = "answering"]
    /\ \E n \in 1 .. MaxUnits : rest' = [rest EXCEPT ![c] = n]

SendPart(c) ==
    /\ state[c] = "answering"
    /\ \E n \in 1 .. MaxUnits : n < rest[c] /\ rest' = [rest EXCEPT ![c] = n]
    /\ UNCHANGED state

Finish(c) ==
    /\ state[c] = "answering"
    /\ state' = [state EXCEPT ![c] = "ready"]
    /\ rest' = [rest EXCEPT ![c] = 0]

(* One round of the server may give several connections up.                 *)
Drop(S) ==
    /\ \A c \in S : state[c] \in {"ready", "working", "answering"}
    /\ state' = [c \in Clients |-> IF c \in S THEN "over" ELSE state[c]]
    /\ rest' = [c \in Clients |-> IF c \in S THEN 0 ELSE rest[c]]

ServiceNext ==
    \/ \E c \in Clients : \/ Open(c) \/ Take(c) \/ Answer(c)
                          \/ SendPart(c) \/ Finish(c)
    \/ \E S \in SUBSET Clients : Drop(S)

ServiceSpec == ServiceInit /\ [][ServiceNext]_<<state, rest>>
=============================================================================
