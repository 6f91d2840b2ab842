--------------------------- MODULE WsServerSessions ---------------------------
(***************************************************************************)
(* Sessions of clients that come back: entities/drivers/WsServerSessions   *)
(* over WsServerLogic, with the part of system/lib/Sessions.ts that it     *)
(* uses.                                                                   *)
(*                                                                         *)
(* A session belongs to a client and outlives its connections.  A new      *)
(* client is sent the id of its session as a cookie; one that brings the   *)
(* id of an active session gets that session back, and messages of its     *)
(* connection are those of the session.                                    *)
(***************************************************************************)
EXTENDS WsSockets

VARIABLES
    mapped,       \* sessionConnections: [session -> its connection, 0: none]
    active,       \* activeSession of Sessions
    lastSession,  \* ids are generated once: how many are
    pending,      \* connections whose setCookie() is awaited
    closing,      \* sessions whose destroyConnection() is awaited
    home          \* history: the client a session was made for, {}: none

serverVars == <<mapped, active, lastSession, pending, closing, home>>

ServerTypeOK ==
    /\ mapped \in [SessionIds -> Sockets \cup {0}]
    /\ active \subseteq SessionIds
    /\ lastSession \in SessionIds \cup {0}
    /\ pending \subseteq Sockets
    /\ closing \subseteq SessionIds
    /\ home \in [SessionIds -> {{}} \cup {{c} : c \in Clients}]

ServerInit ==
    /\ mapped = [s \in SessionIds |-> 0]
    /\ active = {}
    /\ lastSession = 0
    /\ pending = {}
    /\ closing = {}
    /\ home = [s \in SessionIds |-> {}]

\* A socket is accepted; both sides are told of it.
Accepts(k) == socks[k].client = "connecting" /\ socks[k].server = "none"

Accepted(k, session, toClient) ==
    [socks EXCEPT ![k].server = "open", ![k].session = session, ![k].toClient = toClient]

\* handleNewConnection() with the cookie of an active session: it is recovered.
RecoverSession(k) ==
    LET s == socks[k].cookie
    IN  /\ Accepts(k)
        /\ s \in active
        /\ mapped' = [mapped EXCEPT ![s] = k]
        /\ socks' = Accepted(k, s, <<Open>>)
        /\ UNCHANGED <<active, lastSession, pending, closing, home, deaths>>

\* handleNewConnection() without one: a new session, whose id is sent at once.
NewSession(k) ==
    LET s == lastSession + 1
    IN  /\ Accepts(k)
        /\ socks[k].cookie \notin active
        /\ lastSession' = s
        /\ active' = active \cup {s}
        /\ mapped' = [mapped EXCEPT ![s] = k]
        /\ home' = [home EXCEPT ![s] = {socks[k].owner}]
        /\ socks' = Accepted(k, s, <<Open, Cookie(s)>>)
        /\ pending' = pending \cup {k}
        /\ UNCHANGED <<closing, deaths>>

\* setCookie() is done, and newSession is emitted ...
CookieSent(k) ==
    /\ k \in pending
    /\ pending' = pending \ {k}
    /\ UNCHANGED <<mapped, active, lastSession, closing, home, socks, deaths>>

\* ... or it has failed: the connection is forgotten, the session is kept.
CookieFails(k) ==
    /\ k \in pending
    /\ socks[k].cut
    /\ pending' = pending \ {k}
    /\ mapped' = [mapped EXCEPT ![socks[k].session] = 0]
    /\ UNCHANGED <<active, lastSession, closing, home, socks, deaths>>

\* A message comes; it is emitted as one of the session of its connection,
\* if there is one.
ServerMessage(k) ==
    /\ socks[k].toServer # <<>>
    /\ socks' = [socks EXCEPT ![k].toServer = Tail(@)]
    /\ UNCHANGED <<serverVars, deaths>>

\* A mutant: the session that the connection was made for loses its connection.
ForgetSession(k) == [mapped EXCEPT ![socks[k].session] = 0]

\* The connection is found by its id: delete sessionConnections[sessionId].
Forget(k) == [s \in SessionIds |-> IF mapped[s] = k THEN 0 ELSE mapped[s]]

\* The server is told that a connection has closed.
ServerClosed(k) ==
    /\ socks[k].server = "lost"
    /\ socks[k].toServer = <<>>
    /\ socks' = [socks EXCEPT ![k].server = "closed"]
    /\ mapped' = Forget(k)
    /\ UNCHANGED <<active, lastSession, pending, closing, home, deaths>>

\* send(): only to a session that is active and connected.
ServerSend(s) ==
    /\ s \in active
    /\ mapped[s] # 0
    /\ socks[mapped[s]].server = "open"
    /\ socks' = [socks EXCEPT ![mapped[s]].toClient = Append(@, Data)]
    /\ UNCHANGED <<serverVars, deaths>>

\* close() or destroySession(): the connection is closed ...
CloseSession(s) ==
    /\ mapped[s] # 0
    /\ Dies
    /\ socks' = [socks EXCEPT ![mapped[s]] = Ended(@)]
    /\ closing' = closing \cup {s}
    /\ UNCHANGED <<mapped, active, lastSession, pending, home>>

\* A mutant: the session ends and its connection is left in the list.
CloseEndsKeepsConnection(s) ==
    /\ s \in closing
    /\ closing' = closing \ {s}
    /\ active' = active \ {s}
    /\ UNCHANGED <<mapped, lastSession, pending, home, socks, deaths>>

\* ... and then the session is destroyed, whatever has come meanwhile.
CloseEnds(s) ==
    /\ s \in closing
    /\ closing' = closing \ {s}
    /\ active' = active \ {s}
    /\ mapped' = [mapped EXCEPT ![s] = 0]
    /\ UNCHANGED <<lastSession, pending, home, socks, deaths>>

\* A mutant: ids are counted from the start of the process.
IdsAfterRestart == 0

\* makeUniqId() hashes a random id of the runtime with a counter.
NextId == lastSession

\* The process of the server ends and starts again; sessions are in memory.
Restart ==
    /\ Dies
    /\ socks' = [k \in DOMAIN socks |->
                   IF socks[k].server \in {"open", "lost"}
                   THEN [Broken(socks[k]) EXCEPT !.server = "closed"]
                   ELSE socks[k]]
    /\ mapped' = [s \in SessionIds |-> 0]
    /\ active' = {}
    /\ pending' = {}
    /\ closing' = {}
    /\ lastSession' = NextId
    /\ UNCHANGED home

ServerStep ==
    \/ \E k \in MadeSockets : \/ RecoverSession(k)
                              \/ NewSession(k)
                              \/ CookieSent(k)
                              \/ CookieFails(k)
                              \/ ServerMessage(k)
                              \/ ServerClosed(k)
    \/ \E s \in SessionIds : CloseEnds(s)

-----------------------------------------------------------------------------
(* Properties *)

\* Nobody speaks for another client: the connection of a session is one of
\* the client that the session was made for, over reconnections, late
\* answers and restarts of the server.
SessionsStayWithTheirClient ==
    \A s \in SessionIds : mapped[s] # 0 => socks[mapped[s]].owner \in home[s]

\* A session that has a connection is active, and the connection is one the
\* server still has: send() never finds a connection of a dead session.
ConnectedMeansActive ==
    \A s \in SessionIds :
        mapped[s] # 0 => s \in active /\ socks[mapped[s]].server \in {"open", "lost"}

\* An open connection of an active session is heard, or a newer one of the
\* same session is: the late end of an older connection does not silence it.
OpenMeansHeard ==
    \A k \in MadeSockets :
        (socks[k].server = "open" /\ socks[k].session \in active)
            => mapped[socks[k].session] >= k

\* close() is to "close connection of session manually" (WsServerSessions.ts:100):
\* no connection stays open whose session is destroyed.
OpenMeansActive ==
    \A k \in MadeSockets : socks[k].server = "open" => socks[k].session \in active
=============================================================================
