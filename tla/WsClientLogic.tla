---------------------------- MODULE WsClientLogic ----------------------------
(***************************************************************************)
(* The websocket client that reconnects:                                   *)
(* entities/drivers/WsClient/WsClientLogic.ts, with autoReconnect on,      *)
(* useCookie on and reconnectTimeoutMs above 0.  With the io of nodejs     *)
(* reConnect() never fails, so that maxTries other than 0 is never used up *)
(* and the client tries for ever.                                          *)
(***************************************************************************)
EXTENDS WsSockets

CONSTANT MaxSends    \* bound: how often send() is called, by clients and server

ASSUME MaxSendsAssumption == MaxSends \in Nat

VARIABLES
    client,      \* [Clients -> the fields of WsClientLogic]
    sends        \* how many calls of send() were made

clientVars == <<client, sends>>

ClientType ==
    [socket   : Sockets \cup {0},        \* the socket behind connectionId
     opened   : BOOLEAN,                 \* isConnectionOpened
     timer    : BOOLEAN,                 \* is reconnectTimeout set
     cookie   : SessionIds \cup {0},     \* the session id in cookies
     waiting  : BOOLEAN,                 \* waitingCookies
     resolved : BOOLEAN,                 \* is openPromise resolved
     wasOpen  : BOOLEAN,                 \* wasPrevOpenFulfilled
     caller   : {"none", "waiting", "stranded"}, \* of send(), at openPromise
     closed   : BOOLEAN,                 \* history: was close() called
     final    : BOOLEAN]                 \* destroyed

NewClient == [socket |-> 0, opened |-> FALSE, timer |-> FALSE, cookie |-> 0,
              waiting |-> TRUE, resolved |-> FALSE, wasOpen |-> FALSE,
              caller |-> "none", closed |-> FALSE, final |-> FALSE]

ClientTypeOK == client \in [Clients -> ClientType] /\ sends \in 0 .. MaxSends

ClientInit == client = [c \in Clients |-> NewClient] /\ sends = 0

\* init(): the first connection
Connect(c) ==
    /\ client[c].socket = 0
    /\ ~client[c].final
    /\ socks' = Append(socks, NewSocket(c, 0))
    /\ client' = [client EXCEPT ![c].socket = Len(socks')]
    /\ UNCHANGED <<sends, deaths>>

\* A mutant: the cookie is only waited for on the first connection.
WaitsOnce(c) == client[c].waiting

\* The first message of each connection may be a cookie: useCookie.
WaitsForCookie(c) == TRUE

\* handleConnectionOpen(); the other end may have ended the socket already.
HandleOpen(k) ==
    LET c == socks[k].owner
    IN  /\ socks[k].client \in {"connecting", "lost"}
        /\ socks[k].toClient # <<>>
        /\ Head(socks[k].toClient) = Open
        /\ socks' = [socks EXCEPT ![k].client = IF @ = "connecting" THEN "open" ELSE @,
                                  ![k].toClient = Tail(@)]
        /\ client' = IF client[c].final THEN client
                     ELSE [client EXCEPT ![c].opened = TRUE,
                                         ![c].wasOpen = TRUE,
                                         ![c].waiting = WaitsForCookie(c)]
        /\ UNCHANGED <<sends, deaths>>

\* The callers at openPromise go on once it is resolved: their data is sent.
Released(x, k, cl) ==
    IF cl.caller = "waiting" /\ x[k].client = "open" /\ x[k].server = "open"
    THEN [x EXCEPT ![k].toServer = Append(@, Data)]
    ELSE x

\* handleMessage(): the first message resolves openPromise; if it is a
\* cookie it is kept for the next connection, else it is an ordinary one.
HandleMessage(k) ==
    LET c == socks[k].owner
        cl == client[c]
        msg == Head(socks[k].toClient)
        taken == [socks EXCEPT ![k].toClient = Tail(@)]
    IN  /\ socks[k].toClient # <<>>
        /\ msg # Open
        /\ socks[k].client \in {"open", "lost"}
        /\ IF cl.final \/ ~cl.waiting
           THEN socks' = taken /\ UNCHANGED client
           ELSE /\ client' = [client EXCEPT
                       ![c].waiting = FALSE,
                       ![c].resolved = TRUE,
                       ![c].cookie = IF msg.type = "cookie" THEN msg.session ELSE @,
                       ![c].caller = IF @ = "waiting" THEN "none" ELSE @]
                /\ socks' = Released(taken, k, cl)
        /\ UNCHANGED <<sends, deaths>>

\* handleConnectionClose(), resolveReconnection() and reconnect(): a promise
\* that was once open is replaced, resolved or not, and the timer is set
\* unless it is.
HandleClose(k) ==
    LET c == socks[k].owner
        cl == client[c]
    IN  /\ socks[k].client = "lost"
        /\ socks[k].toClient = <<>>
        /\ socks' = [socks EXCEPT ![k].client = "closed"]
        /\ client' =
             IF cl.final THEN client
             ELSE IF cl.timer THEN [client EXCEPT ![c].opened = FALSE]
             ELSE [client EXCEPT
                     ![c].opened = FALSE,
                     ![c].timer = TRUE,
                     ![c].resolved = IF cl.wasOpen THEN FALSE ELSE @,
                     ![c].caller = IF cl.wasOpen /\ @ = "waiting" THEN "stranded" ELSE @,
                     ![c].wasOpen = FALSE]
        /\ UNCHANGED <<sends, deaths>>

\* A mutant: the handle of the timer is left when it has fired.
TimerAfterwards(c) == client[c].timer

\* doReconnect() begins with delete this.reconnectTimeout.
TimerOff(c) == FALSE

\* doReconnect() after reconnectTimeoutMs: reConnect() closes the socket
\* behind the connection id, if any, and makes one with the cookies.
DoReconnect(c) ==
    /\ client[c].timer
    /\ Len(socks) < MaxSockets
    /\ socks' = Append([socks EXCEPT ![client[c].socket] = Ended(@)],
                       NewSocket(c, client[c].cookie))
    /\ client' = [client EXCEPT ![c].timer = TimerOff(c), ![c].socket = Len(socks')]
    /\ UNCHANGED <<sends, deaths>>

\* send(): waits for openPromise.  One caller at a time is followed there.
Send(c) ==
    LET k == client[c].socket
    IN  /\ k # 0
        /\ ~client[c].final
        /\ sends < MaxSends
        /\ sends' = sends + 1
        /\ IF client[c].resolved
           THEN /\ socks' = IF socks[k].client = "open" /\ socks[k].server = "open"
                            THEN [socks EXCEPT ![k].toServer = Append(@, Data)] ELSE socks
                /\ UNCHANGED client
           ELSE /\ client[c].caller = "none"
                /\ client' = [client EXCEPT ![c].caller = "waiting"]
                /\ UNCHANGED socks
        /\ UNCHANGED deaths

\* close(): the handlers stay, and the end of the socket is heard as any other.
Close(c) ==
    LET k == client[c].socket
    IN  /\ k # 0
        /\ ~client[c].final
        /\ Alive(k)
        /\ Dies
        /\ socks' = [socks EXCEPT ![k] = EndedByClient(@)]
        /\ client' = [client EXCEPT ![c].closed = TRUE]
        /\ UNCHANGED sends

\* destroy(): no handlers, no timer, no promise.  Not after close(), where the
\* io knows no connection any more and removeListener() leaves the handlers.
DestroyClient(c) ==
    LET k == client[c].socket
    IN  /\ k # 0
        /\ ~client[c].final
        /\ ~client[c].closed
        /\ Dies
        /\ socks' = [socks EXCEPT ![k] = EndedByClient(@)]
        /\ client' = [client EXCEPT ![c].final = TRUE, ![c].opened = FALSE, ![c].timer = FALSE]
        /\ UNCHANGED sends

ClientStep ==
    \/ \E k \in MadeSockets : HandleOpen(k) \/ HandleMessage(k) \/ HandleClose(k)
    \/ \E c \in Clients : DoReconnect(c)

-----------------------------------------------------------------------------
(* Properties *)

\* While a client waits to reconnect its socket is dead, and while its socket
\* is dead and told of it waits, or is destroyed: no client is left behind
\* and none has two sockets.  This is so after close() too.
OneWayBack ==
    \A c \in Clients :
        /\ Cardinality({k \in MadeSockets : socks[k].owner = c /\ Alive(k)}) <= 1
        /\ client[c].socket # 0 /\ ~client[c].final =>
              (client[c].timer <=> socks[client[c].socket].client = "closed")

\* "if connection is closed by calling the close method you should create a
\* new instance to reconnect" (WsClientLogic.ts:34): an instance makes no
\* socket after close().
CloseIsFinal ==
    [][\A c \in Clients : client[c].closed => client'[c].socket = client[c].socket]_clientVars
=============================================================================
