----------------------------- MODULE IdExchange -----------------------------
(***************************************************************************)
(* What the start-up of the two-way saturator promises: on each of its     *)
(* Sockets sockets in turn the server learns the id of the client, then    *)
(* the client, which has learned the id of the server, is done with the    *)
(* socket, and only then the server is.  Neither side runs ahead.  The     *)
(* client is one side however often it is started: what counts is the run  *)
(* that has got furthest.                                                  *)
(***************************************************************************)
EXTENDS Naturals

CONSTANT Sockets  \* the number of sockets the ids are exchanged on

VARIABLES
    serverKnows,  \* sockets on which the server has learned the id of a client
    clientDone,   \* sockets the client is done with
    serverDone    \* sockets the server is done with

exchange == <<serverKnows, clientDone, serverDone>>

Init ==
    /\ serverKnows = 0
    /\ clientDone = 0
    /\ serverDone = 0

ServerLearns ==
    /\ serverKnows = serverDone
    /\ serverKnows < Sockets
    /\ serverKnows' = serverKnows + 1
    /\ UNCHANGED <<clientDone, serverDone>>

ClientFinishes ==
    /\ clientDone < serverKnows
    /\ clientDone' = clientDone + 1
    /\ UNCHANGED <<serverKnows, serverDone>>

ServerFinishes ==
    /\ serverDone < clientDone
    /\ serverDone' = serverDone + 1
    /\ UNCHANGED <<serverKnows, clientDone>>

Next == ServerLearns \/ ClientFinishes \/ ServerFinishes

Spec == Init /\ [][Next]_exchange
=============================================================================
