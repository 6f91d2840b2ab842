----------------------------- MODULE WsReconnect -----------------------------
(***************************************************************************)
(* Clients that reconnect (WsClientLogic) and a server that keeps their    *)
(* sessions (WsServerSessions), over sockets that break and a server that  *)
(* restarts (WsSockets).                                                   *)
(***************************************************************************)
EXTENDS WsServerSessions, WsClientLogic

vars == <<socks, deaths, serverVars, clientVars>>

TypeOK == SocketsTypeOK /\ ServerTypeOK /\ ClientTypeOK

Init == SocketsInit /\ ServerInit /\ ClientInit

Server(A) == A /\ UNCHANGED clientVars
Client(A) == A /\ UNCHANGED serverVars

\* The service above sends a message to a session.
Push(s) ==
    /\ sends < MaxSends
    /\ sends' = sends + 1
    /\ ServerSend(s)
    /\ UNCHANGED client

Next ==
    \/ Server(ServerStep)
    \/ \E s \in SessionIds : Server(CloseSession(s)) \/ Push(s)
    \/ Server(Restart)
    \/ Client(ClientStep)
    \/ \E c \in Clients : \/ Client(Connect(c))
                          \/ Client(Send(c))
                          \/ Client(Close(c))
                          \/ Client(DestroyClient(c))
    \/ \E k \in MadeSockets : Break(k) /\ UNCHANGED <<serverVars, clientVars>>

Spec == Init /\ [][Next]_vars

\* The event loops of both ends go on, timers fire, and a link that is not
\* broken delivers.  Nobody need send, close or connect, and nothing breaks
\* for ever.
FairSpec ==
    /\ Spec
    /\ \A k \in Sockets :
          /\ WF_vars(k \in MadeSockets /\ Server(RecoverSession(k)))
          /\ WF_vars(k \in MadeSockets /\ Server(NewSession(k)))
          /\ WF_vars(k \in MadeSockets /\ Server(CookieSent(k)))
          /\ WF_vars(k \in MadeSockets /\ Server(ServerClosed(k)))
          /\ WF_vars(k \in MadeSockets /\ Client(HandleOpen(k)))
          /\ WF_vars(k \in MadeSockets /\ Client(HandleMessage(k)))
          /\ WF_vars(k \in MadeSockets /\ Client(HandleClose(k)))
    /\ \A c \in Clients : WF_vars(Client(DoReconnect(c)))

-----------------------------------------------------------------------------
(* Properties *)

\* The server destroyed the session of an open connection: close() overtaken
\* by a reconnection (OpenMeansActive).
Orphaned(k) == socks[k].server = "open" /\ socks[k].session \notin active

\* A client that has connected, and on which close() and destroy() were not
\* called, is connected again, and for good, once links stop breaking; the
\* cookie it then holds is that of the session its connection serves, and the
\* server hears that session on this very connection - unless it destroyed the
\* session while the client came back.
ComesBack ==
    \A c \in Clients :
        LET k == client[c].socket
        IN  <>[](\/ k = 0
                 \/ client[c].final
                 \/ client[c].closed
                 \/ /\ client[c].opened
                    /\ client[c].cookie = socks[k].session
                    /\ mapped[socks[k].session] = k \/ Orphaned(k))

\* connectedPromise is for "first time connect or reconnect": while a client
\* stays connected it resolves, and the callers of send() go on.
ConnectedPromiseResolves ==
    \A c \in Clients : client[c].opened ~> (client[c].resolved \/ ~client[c].opened)
=============================================================================
