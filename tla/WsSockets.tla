------------------------------ MODULE WsSockets ------------------------------
(***************************************************************************)
(* Websockets between clients and one server, as the io sets of            *)
(* platforms/nodejs/ios (WebSocketClient.ts, WebSocketServer.ts) show them *)
(* to the drivers.                                                         *)
(*                                                                         *)
(* Sockets are numbered in the order in which clients make them.  The two  *)
(* ends of one learn of its end at different times.  What travels keeps    *)
(* its order, and is lost when the link breaks.                            *)
(***************************************************************************)
EXTENDS Naturals, Sequences, FiniteSets

CONSTANTS
    Clients,     \* clients of the server
    MaxDeaths    \* bound: how often links break, ends close and the server restarts

ASSUME ClientsAssumption == IsFiniteSet(Clients)
ASSUME MaxDeathsAssumption == MaxDeaths \in Nat

\* Each death ends one socket of a client at most: no more sockets are made.
MaxSockets == Cardinality(Clients) * (1 + MaxDeaths)

Sockets == 1 .. MaxSockets
SessionIds == 1 .. MaxSockets

VARIABLES
    socks,       \* sequence of sockets
    deaths

\* Messages to a client.  A message to the server is only ordinary data.
Open == [type |-> "open", session |-> 0]
Cookie(s) == [type |-> "cookie", session |-> s]
Data == [type |-> "data", session |-> 0]

ToClientType == [type : {"open", "cookie", "data"}, session : SessionIds \cup {0}]

SocketType ==
    [owner    : Clients,
     cookie   : SessionIds \cup {0},   \* session id in the headers of the request, 0: none
     client   : {"connecting", "open", "lost", "closed"},  \* lost: its end is not told yet
     server   : {"none", "open", "lost", "closed"},
     session  : SessionIds \cup {0},   \* the session it was taken for by the server
     cut      : BOOLEAN,               \* was a cookie on its way when the link broke
     toClient : Seq(ToClientType),
     toServer : Seq({Data})]

NewSocket(c, cookie) ==
    [owner |-> c, cookie |-> cookie, client |-> "connecting", server |-> "none",
     session |-> 0, cut |-> FALSE, toClient |-> <<>>, toServer |-> <<>>]

MadeSockets == DOMAIN socks

\* Both ends are going to be told of the end of the socket.
Ended(x) ==
    [x EXCEPT !.client = IF @ \in {"connecting", "open"} THEN "lost" ELSE @,
              !.server = IF @ = "open" THEN "lost" ELSE @]

\* The same, and what travels is lost.
Broken(x) ==
    [Ended(x) EXCEPT
        !.cut = @ \/ \E n \in DOMAIN x.toClient : x.toClient[n].type = "cookie",
        !.toClient = <<>>,
        !.toServer = <<>>]

\* Closed by the client.  Before its open event the ws library aborts the
\* handshake: what the server has sent is never told.
EndedByClient(x) == IF x.client = "connecting" THEN Broken(x) ELSE Ended(x)

Alive(k) == socks[k].client \in {"connecting", "open"}

Dies == /\ deaths < MaxDeaths
        /\ deaths' = deaths + 1

\* The network breaks, or refuses a socket that is connecting.
Break(k) ==
    /\ Alive(k)
    /\ Dies
    /\ socks' = [socks EXCEPT ![k] = Broken(@)]

SocketsTypeOK ==
    /\ socks \in Seq(SocketType)
    /\ Len(socks) <= MaxSockets
    /\ deaths \in 0 .. MaxDeaths

SocketsInit == socks = <<>> /\ deaths = 0
=============================================================================
