-------------------------- MODULE WsReconnectProofs --------------------------
(***************************************************************************)
(* Sessions of WsReconnect for any number of clients, reconnections and    *)
(* restarts: a session that has a connection is active, and its connection *)
(* is one of the client that the session was made for.                     *)
(*                                                                         *)
(* A client gets a session by its cookie, and a cookie goes a long way:    *)
(* from the server into a message, from there to the client, and back in   *)
(* the headers of its next socket.  The invariant follows it: whoever      *)
(* holds the id of a session, on any of these places, is the client that   *)
(* the session was made for (Owned).                                       *)
(*                                                                         *)
(* On that rests the second part: a client waits to reconnect exactly      *)
(* while its socket is dead and never has two that live, and a connection  *)
(* that the server has open is heard as its session.  There the cookie is  *)
(* a secret until it has come (Secrets), so that a session whose cookie    *)
(* was cut off has no other connection to lose.                            *)
(***************************************************************************)
EXTENDS WsReconnect, FiniteSetTheorems, TLAPS

(* The bounds on numbers of sockets and sessions play no part here.        *)
MsgShape == [type : {"open", "cookie", "data"}, session : Nat]

SocketShape ==
    [owner : Clients, cookie : Nat,
     client : {"connecting", "open", "lost", "closed"},
     server : {"none", "open", "lost", "closed"},
     session : Nat, cut : BOOLEAN,
     toClient : Seq(MsgShape), toServer : Seq({Data})]

ClientShape ==
    [socket : Nat, opened : BOOLEAN, timer : BOOLEAN, cookie : Nat, waiting : BOOLEAN,
     resolved : BOOLEAN, wasOpen : BOOLEAN,
     caller : {"none", "waiting", "stranded"}, closed : BOOLEAN, final : BOOLEAN]

Shapes ==
    /\ socks \in Seq(SocketShape)
    /\ client \in [Clients -> ClientShape]
    /\ mapped \in [SessionIds -> Nat]
    /\ home \in [SessionIds -> SUBSET Clients]
    /\ lastSession \in Nat
    /\ active \in SUBSET Nat /\ \A s \in active : s <= lastSession

(* Client c may hold the id n of a session.                                *)
Owned(n, c) ==
    /\ n <= lastSession
    /\ n \in SessionIds => c \in home[n]

(* The ids of sessions on their way to the client of a socket.             *)
Cookies(x) ==
    {n \in Nat : \E i \in 1 .. Len(x.toClient) :
                    x.toClient[i].type = "cookie" /\ x.toClient[i].session = n}

Holders ==
    /\ \A k \in 1 .. Len(socks) :
          /\ Owned(socks[k].cookie, socks[k].owner)
          /\ \A n \in Cookies(socks[k]) : Owned(n, socks[k].owner)
    /\ \A c \in Clients : Owned(client[c].cookie, c)

Connections ==
    \A s \in SessionIds :
        mapped[s] # 0 =>
            /\ mapped[s] \in 1 .. Len(socks)
            /\ s \in active
            /\ socks[mapped[s]].server \in {"open", "lost"}
            /\ socks[mapped[s]].owner \in home[s]

IInv == Shapes /\ Holders /\ Connections

-----------------------------------------------------------------------------
(* Sequences.                                                              *)
LEMMA SessionIdsAreNat == SessionIds \subseteq Nat \ {0}
<1>1. Cardinality(Clients) \in Nat
  BY ClientsAssumption, FS_CardinalityType
<1>2. MaxSockets \in Nat
  BY <1>1, MaxDeathsAssumption DEF MaxSockets
<1> QED
  BY <1>2 DEF SessionIds

LEMMA ExceptSeq ==
  ASSUME NEW S, NEW q \in Seq(S), NEW i, NEW e, i \in 1 .. Len(q) => e \in S
  PROVE  /\ [q EXCEPT ![i] = e] \in Seq(S)
         /\ Len([q EXCEPT ![i] = e]) = Len(q)
         /\ \A j \in 1 .. Len(q) : [q EXCEPT ![i] = e][j] = IF j = i THEN e ELSE q[j]
<1> DEFINE r == [q EXCEPT ![i] = e]
<1>1. q \in [1 .. Len(q) -> S] /\ Len(q) \in Nat
  OBVIOUS
<1>2. r \in [1 .. Len(q) -> S]
  BY <1>1
<1>3. r \in Seq(S) /\ Len(r) = Len(q)
  BY <1>1, <1>2
<1>4. \A j \in 1 .. Len(q) : r[j] = IF j = i THEN e ELSE q[j]
  BY <1>1
<1> QED
  BY <1>3, <1>4

LEMMA AppendSeq ==
  ASSUME NEW S, NEW q \in Seq(S), NEW e \in S
  PROVE  /\ Append(q, e) \in Seq(S)
         /\ Len(Append(q, e)) = Len(q) + 1
         /\ \A j \in 1 .. Len(q) : Append(q, e)[j] = q[j]
         /\ Append(q, e)[Len(q) + 1] = e
OBVIOUS

LEMMA TailSeq ==
  ASSUME NEW S, NEW q \in Seq(S), q # << >>
  PROVE  /\ Tail(q) \in Seq(S)
         /\ Len(Tail(q)) = Len(q) - 1
         /\ \A j \in 1 .. Len(q) - 1 : Tail(q)[j] = q[j + 1]
         /\ Head(q) = q[1] /\ 1 \in 1 .. Len(q) /\ Head(q) \in S
OBVIOUS

LEMMA Domain ==
  ASSUME Shapes
  PROVE  /\ MadeSockets = 1 .. Len(socks) /\ Len(socks) \in Nat
         /\ \A k \in 1 .. Len(socks) : socks[k] \in SocketShape
BY DEF Shapes, MadeSockets

-----------------------------------------------------------------------------
(* What may become of a socket: it keeps its owner and its cookie, and     *)
(* carries no new cookie.                                                  *)
Keeps(x, y) ==
    /\ y \in SocketShape
    /\ y.owner = x.owner /\ y.cookie = x.cookie
    /\ Cookies(y) \subseteq Cookies(x)

(* It is still a connection of the server.                                 *)
Stays(x, y) == x.server \in {"open", "lost"} => y.server \in {"open", "lost"}

(* What may become of all of them; a new one has what its client holds.    *)
SocketsKeep ==
    /\ socks' \in Seq(SocketShape)
    /\ Len(socks') >= Len(socks)
    /\ \A k \in 1 .. Len(socks) : Keeps(socks[k], socks'[k])
    /\ \A k \in 1 .. Len(socks') : k > Len(socks) =>
          /\ socks'[k].cookie \in {0, client[socks'[k].owner].cookie}
          /\ Cookies(socks'[k]) = {}

LEMMA KeepsItself ==
  ASSUME NEW x \in SocketShape
  PROVE  Keeps(x, x) /\ Stays(x, x)
BY DEF Keeps, Stays

LEMMA EndedKeeps ==
  ASSUME NEW x \in SocketShape
  PROVE  Keeps(x, Ended(x)) /\ Stays(x, Ended(x))
<1>1. /\ Ended(x) \in SocketShape
      /\ Ended(x).owner = x.owner /\ Ended(x).cookie = x.cookie
      /\ Ended(x).toClient = x.toClient
      /\ Ended(x).server = IF x.server = "open" THEN "lost" ELSE x.server
  BY DEF Ended, SocketShape
<1>2. Cookies(Ended(x)) = Cookies(x)
  BY <1>1 DEF Cookies
<1> QED
  BY <1>1, <1>2 DEF Keeps, Stays

LEMMA BrokenKeeps ==
  ASSUME NEW x \in SocketShape
  PROVE  /\ Keeps(x, Broken(x)) /\ Stays(x, Broken(x))
         /\ Keeps(x, [Broken(x) EXCEPT !.server = "closed"])
<1> DEFINE e == Ended(x)
<1> DEFINE cut == e.cut \/ \E n \in DOMAIN x.toClient : x.toClient[n].type = "cookie"
<1>1. /\ e \in SocketShape /\ e.owner = x.owner /\ e.cookie = x.cookie
      /\ Stays(x, e)
  BY EndedKeeps DEF Keeps
<1>2. cut \in BOOLEAN
  <2>1. e.cut \in BOOLEAN
    BY <1>1 DEF SocketShape
  <2> QED
    BY <2>1, Zenon
<1>3. Broken(x) = [e EXCEPT !.cut = cut, !.toClient = <<>>, !.toServer = <<>>]
  BY DEF Broken
<1> HIDE DEF e, cut
<1>4. <<>> \in Seq(MsgShape) /\ <<>> \in Seq({Data})
  OBVIOUS
<1>5. /\ Broken(x) \in SocketShape /\ Broken(x).owner = e.owner
      /\ Broken(x).cookie = e.cookie /\ Broken(x).server = e.server
      /\ Broken(x).toClient = <<>>
  BY <1>1, <1>2, <1>3, <1>4 DEF SocketShape
<1> DEFINE b == Broken(x)
<1> HIDE DEF b
<1>6. /\ [b EXCEPT !.server = "closed"] \in SocketShape
      /\ [b EXCEPT !.server = "closed"].owner = b.owner
      /\ [b EXCEPT !.server = "closed"].cookie = b.cookie
      /\ [b EXCEPT !.server = "closed"].toClient = b.toClient
  BY <1>5 DEF SocketShape, b
<1>7. Cookies(b) = {} /\ Cookies([b EXCEPT !.server = "closed"]) = {}
  BY <1>5, <1>6 DEF Cookies, b
<1> QED
  BY <1>1, <1>5, <1>6, <1>7 DEF Keeps, Stays, b

LEMMA EndedByClientKeeps ==
  ASSUME NEW x \in SocketShape
  PROVE  Keeps(x, EndedByClient(x)) /\ Stays(x, EndedByClient(x))
BY EndedKeeps, BrokenKeeps DEF EndedByClient

LEMMA OneSocketChanges ==
  ASSUME Shapes, NEW k, NEW y, k \in 1 .. Len(socks) => Keeps(socks[k], y),
         socks' = [socks EXCEPT ![k] = y]
  PROVE  /\ SocketsKeep
         /\ \A j \in 1 .. Len(socks) : socks'[j] = IF j = k THEN y ELSE socks[j]
<1>1. k \in 1 .. Len(socks) => y \in SocketShape
  BY DEF Keeps
<1>2. socks \in Seq(SocketShape) /\ Len(socks) \in Nat
  BY DEF Shapes
<1>3. /\ socks' \in Seq(SocketShape)
      /\ Len(socks') = Len(socks)
      /\ \A j \in 1 .. Len(socks) : socks'[j] = IF j = k THEN y ELSE socks[j]
  BY <1>1, <1>2, ExceptSeq
<1>4. \A j \in 1 .. Len(socks) : Keeps(socks[j], socks'[j])
  BY <1>3, Domain, KeepsItself
<1> QED
  BY <1>2, <1>3, <1>4 DEF SocketsKeep

LEMMA NoSocketChanges ==
  ASSUME Shapes, UNCHANGED socks
  PROVE  SocketsKeep
<1>1. \A k \in 1 .. Len(socks) : Keeps(socks[k], socks'[k])
  BY Domain, KeepsItself
<1> QED
  BY <1>1 DEF SocketsKeep, Shapes

(* Who holds an id goes on holding it rightly, and connections go on, if   *)
(* no session is made and clients only take cookies that are their own.    *)
LEMMA HoldersStay ==
  ASSUME IInv, SocketsKeep, UNCHANGED <<home, lastSession>>,
         client' \in [Clients -> ClientShape],
         \A c \in Clients : client'[c].cookie = client[c].cookie \/ Owned(client'[c].cookie, c),
         active' \subseteq active,
         mapped' \in [SessionIds -> Nat],
         \A s \in SessionIds : mapped'[s] # 0 =>
            /\ mapped'[s] = mapped[s] /\ s \in active'
            /\ socks'[mapped[s]].server \in {"open", "lost"}
  PROVE  IInv'
<1>0. Shapes /\ Holders /\ Connections
  BY DEF IInv
<1>1. Len(socks) \in Nat /\ \A k \in 1 .. Len(socks) : socks[k] \in SocketShape
  BY <1>0, Domain
<1>2. Shapes'
  BY <1>0 DEF Shapes, SocketsKeep
<1>3. Len(socks') \in Nat /\ \A k \in 1 .. Len(socks') : socks'[k] \in SocketShape
  BY DEF SocketsKeep
<1>5. ASSUME NEW k \in 1 .. Len(socks')
      PROVE  /\ Owned(socks'[k].cookie, socks'[k].owner)
             /\ \A n \in Cookies(socks'[k]) : Owned(n, socks'[k].owner)
  <2>1. CASE k \in 1 .. Len(socks)
    BY <1>0, <2>1 DEF SocketsKeep, Keeps, Holders
  <2>2. CASE k > Len(socks)
    <3>1. /\ socks'[k].cookie \in {0, client[socks'[k].owner].cookie}
          /\ Cookies(socks'[k]) = {}
      BY <2>2 DEF SocketsKeep
    <3>2. socks'[k].owner \in Clients
      BY <1>3 DEF SocketShape
    <3>3. Owned(0, socks'[k].owner)
      BY <1>0, SessionIdsAreNat DEF Owned, Shapes
    <3>4. Owned(client[socks'[k].owner].cookie, socks'[k].owner)
      BY <1>0, <3>2 DEF Holders
    <3> QED
      BY <3>1, <3>3, <3>4
  <2> QED
    BY <1>1, <1>3, <2>1, <2>2
<1>6. \A c \in Clients : Owned(client'[c].cookie, c)
  BY <1>0 DEF Holders
<1>7. Holders'
  BY <1>5, <1>6 DEF Holders, Owned
<1>8. Connections'
  <2> SUFFICES ASSUME NEW s \in SessionIds, mapped'[s] # 0
               PROVE  /\ mapped'[s] \in 1 .. Len(socks')
                      /\ s \in active'
                      /\ socks'[mapped'[s]].server \in {"open", "lost"}
                      /\ socks'[mapped'[s]].owner \in home'[s]
    BY DEF Connections
  <2>1. mapped'[s] = mapped[s] /\ mapped[s] \in 1 .. Len(socks) /\ socks[mapped[s]].owner \in home[s]
    BY <1>0 DEF Connections
  <2>2. socks'[mapped[s]].owner = socks[mapped[s]].owner
    BY <2>1 DEF SocketsKeep, Keeps
  <2>3. mapped[s] \in 1 .. Len(socks')
    BY <1>1, <1>3, <2>1 DEF SocketsKeep
  <2> QED
    BY <2>1, <2>2, <2>3
<1> QED
  BY <1>2, <1>7, <1>8 DEF IInv

(* The common case: connections stay, no cookie is taken.                  *)
LEMMA OnlySocketsChange ==
  ASSUME IInv, SocketsKeep, UNCHANGED <<home, lastSession, active, mapped>>,
         client' \in [Clients -> ClientShape],
         \A c \in Clients : client'[c].cookie = client[c].cookie \/ Owned(client'[c].cookie, c),
         \A k \in 1 .. Len(socks) : Stays(socks[k], socks'[k])
  PROVE  IInv'
<1>1. mapped' \in [SessionIds -> Nat]
  BY DEF IInv, Shapes
<1>2. \A s \in SessionIds : mapped'[s] # 0 =>
         /\ mapped'[s] = mapped[s] /\ s \in active'
         /\ socks'[mapped[s]].server \in {"open", "lost"}
  BY DEF IInv, Connections, Stays
<1> QED
  BY <1>1, <1>2, HoldersStay

(* A socket is taken for session s, which is active from then on.          *)
LEMMA Accepting ==
  ASSUME IInv, NEW k \in 1 .. Len(socks), NEW s \in Nat \ {0}, NEW y \in SocketShape,
         socks[k].server = "none", y.server = "open",
         y.owner = socks[k].owner, y.cookie = socks[k].cookie,
         socks' = [socks EXCEPT ![k] = y],
         mapped' = [mapped EXCEPT ![s] = k], active' = active \cup {s}, UNCHANGED client,
         lastSession' \in Nat, lastSession <= lastSession', s <= lastSession',
         home' \in [SessionIds -> SUBSET Clients],
         \A n \in SessionIds : n <= lastSession => home'[n] = home[n],
         s \in SessionIds => y.owner \in home'[s],
         \A n \in Cookies(y) : n = s
  PROVE  IInv'
<1>0. Shapes /\ Holders /\ Connections
  BY DEF IInv
<1>1. /\ Len(socks) \in Nat /\ socks \in Seq(SocketShape)
      /\ \A j \in 1 .. Len(socks) : socks[j] \in SocketShape
  BY <1>0, Domain DEF Shapes
<1>2. /\ socks' \in Seq(SocketShape) /\ Len(socks') = Len(socks)
      /\ \A j \in 1 .. Len(socks) : socks'[j] = IF j = k THEN y ELSE socks[j]
  BY <1>1, ExceptSeq
<1>3. /\ mapped' \in [SessionIds -> Nat]
      /\ \A n \in SessionIds : mapped'[n] = IF n = s THEN k ELSE mapped[n]
  <2>1. mapped \in [SessionIds -> Nat] /\ k \in Nat
    BY <1>0, <1>1 DEF Shapes
  <2>2. mapped' = [n \in SessionIds |-> IF n = s THEN k ELSE mapped[n]]
    BY <2>1
  <2> QED
    BY <2>1, <2>2
<1>4. active' \in SUBSET Nat /\ \A n \in active' : n <= lastSession'
  BY <1>0 DEF Shapes
<1>5. Shapes'
  BY <1>0, <1>2, <1>3, <1>4 DEF Shapes
<1> DEFINE Later(n, c) == n <= lastSession' /\ (n \in SessionIds => c \in home'[n])
<1>6. \A n \in Nat : \A c : Owned(n, c) => Later(n, c)
  BY <1>0 DEF Owned, Shapes
<1>7. ASSUME NEW j \in 1 .. Len(socks)
      PROVE  /\ Later(socks'[j].cookie, socks'[j].owner)
             /\ \A n \in Cookies(socks'[j]) : Later(n, socks'[j].owner)
  <2>1. /\ Owned(socks[j].cookie, socks[j].owner) /\ socks[j].cookie \in Nat
        /\ \A n \in Cookies(socks[j]) : Owned(n, socks[j].owner) /\ n \in Nat
    BY <1>0, <1>1 DEF Holders, SocketShape, Cookies
  <2>2. CASE j = k
    BY <1>2, <1>6, <2>1, <2>2
  <2>3. CASE j # k
    BY <1>2, <1>6, <2>1, <2>3
  <2> QED
    BY <2>2, <2>3
<1>8. \A c \in Clients : Later(client'[c].cookie, c)
  BY <1>0, <1>6 DEF Holders, Shapes, ClientShape
<1>9. Holders'
  BY <1>2, <1>7, <1>8 DEF Holders, Owned
<1>10. Connections'
  <2> SUFFICES ASSUME NEW n \in SessionIds, mapped'[n] # 0
               PROVE  /\ mapped'[n] \in 1 .. Len(socks')
                      /\ n \in active'
                      /\ socks'[mapped'[n]].server \in {"open", "lost"}
                      /\ socks'[mapped'[n]].owner \in home'[n]
    BY DEF Connections
  <2>1. CASE n = s
    BY <1>2, <1>3, <2>1
  <2>2. CASE n # s
    <3>1. mapped'[n] = mapped[n]
      BY <1>3, <2>2
    <3>2. /\ mapped[n] \in 1 .. Len(socks) /\ n \in active
          /\ socks[mapped[n]].server \in {"open", "lost"}
          /\ socks[mapped[n]].owner \in home[n]
      BY <1>0, <3>1 DEF Connections
    <3>3. mapped[n] # k /\ home'[n] = home[n]
      BY <1>0, <3>2 DEF Shapes
    <3>4. socks'[mapped[n]] = socks[mapped[n]]
      BY <1>2, <3>2, <3>3
    <3> QED
      BY <1>2, <3>1, <3>2, <3>3, <3>4
  <2> QED
    BY <2>1, <2>2
<1> QED
  BY <1>5, <1>9, <1>10 DEF IInv

-----------------------------------------------------------------------------
(* The server.                                                             *)
LEMMA RecoverSessionKeeps ==
  ASSUME IInv, NEW k \in MadeSockets, RecoverSession(k), UNCHANGED clientVars
  PROVE  IInv'
<1>0. Shapes /\ Holders /\ k \in 1 .. Len(socks)
  BY Domain DEF IInv
<1> DEFINE s == socks[k].cookie
           y == [socks[k] EXCEPT !.server = "open", !.session = s, !.toClient = <<Open>>]
<1>1. /\ socks[k].server = "none" /\ s \in active
      /\ mapped' = [mapped EXCEPT ![s] = k]
      /\ socks' = Accepted(k, s, <<Open>>)
      /\ UNCHANGED <<active, lastSession, home, client>>
  BY DEF RecoverSession, Accepts, clientVars
<1>2. Owned(s, socks[k].owner)
  BY <1>0 DEF Holders
<1>3. s \in Nat /\ s <= lastSession
  BY <1>0, <1>1 DEF Shapes
<1>4. <<Open>> \in Seq(MsgShape)
  BY DEF Open, MsgShape
<1>5. /\ socks' = [socks EXCEPT ![k] = y]
      /\ y \in SocketShape /\ y.server = "open" /\ y.toClient = <<Open>>
      /\ y.owner = socks[k].owner /\ y.cookie = socks[k].cookie
  <2>1. socks[k] \in SocketShape
    BY <1>0, Domain
  <2>2. socks' = [socks EXCEPT ![k] = y]
    BY <1>1 DEF Accepted
  <2>3. /\ y \in SocketShape /\ y.server = "open"
        /\ y.owner = socks[k].owner /\ y.cookie = socks[k].cookie
    BY <1>3, <1>4, <2>1 DEF SocketShape
  <2>4. y.toClient = <<Open>>
    BY <2>1 DEF SocketShape
  <2> HIDE DEF y
  <2> QED
    BY <2>2, <2>3, <2>4
<1> HIDE DEF s, y
<1>6. Cookies(y) = {}
  BY <1>5 DEF Cookies, Open
<1>7. CASE s = 0
  (* 0 stands for no cookie, and is no active session. *)
  <2>1. mapped' = mapped
    BY <1>0, <1>1, <1>7, SessionIdsAreNat DEF Shapes
  <2>2. Keeps(socks[k], y) /\ Stays(socks[k], y)
    BY <1>5, <1>6 DEF Keeps, Stays
  <2>3. /\ SocketsKeep
        /\ \A j \in 1 .. Len(socks) : socks'[j] = IF j = k THEN y ELSE socks[j]
    <3>1. socks' = [socks EXCEPT ![k] = y]
      BY <1>5
    <3> QED
      BY <1>0, <2>2, <3>1, OneSocketChanges
  <2>4. \A j \in 1 .. Len(socks) : Stays(socks[j], socks'[j])
    BY <2>2, <2>3 DEF Stays
  <2> QED
    BY <1>0, <1>1, <2>1, <2>3, <2>4, OnlySocketsChange DEF Shapes
<1>8. CASE s # 0
  <2>1. s \in SessionIds => y.owner \in home'[s]
    BY <1>1, <1>2, <1>5 DEF Owned
  <2>2. active' = active \cup {s} /\ lastSession' \in Nat /\ home' \in [SessionIds -> SUBSET Clients]
    BY <1>0, <1>1 DEF Shapes
  <2>3. lastSession <= lastSession'
    BY <1>0, <1>1 DEF Shapes
  <2> QED
    BY <1>0, <1>1, <1>3, <1>5, <1>6, <1>8, <2>1, <2>2, <2>3, Accepting
<1> QED
  BY <1>7, <1>8

LEMMA NewSessionKeeps ==
  ASSUME IInv, NEW k \in MadeSockets, NewSession(k), UNCHANGED clientVars
  PROVE  IInv'
<1>0. Shapes /\ k \in 1 .. Len(socks)
  BY Domain DEF IInv
<1> DEFINE s == lastSession + 1
           q == <<Open, Cookie(s)>>
           y == [socks[k] EXCEPT !.server = "open", !.session = s, !.toClient = q]
<1>1. /\ socks[k].server = "none"
      /\ lastSession' = s /\ active' = active \cup {s}
      /\ mapped' = [mapped EXCEPT ![s] = k]
      /\ home' = [home EXCEPT ![s] = {socks[k].owner}]
      /\ socks' = Accepted(k, s, q)
      /\ UNCHANGED client
  BY DEF NewSession, Accepts, clientVars
<1>2. lastSession \in Nat /\ s \in Nat \ {0} /\ lastSession < s
  BY <1>0 DEF Shapes
<1>3. q \in Seq(MsgShape)
  BY <1>2 DEF Open, Cookie, MsgShape
<1>4. /\ socks' = [socks EXCEPT ![k] = y]
      /\ y \in SocketShape /\ y.server = "open" /\ y.toClient = q
      /\ y.owner = socks[k].owner /\ y.cookie = socks[k].cookie
  <2>1. socks[k] \in SocketShape
    BY <1>0, Domain
  <2>2. socks' = [socks EXCEPT ![k] = y]
    BY <1>1 DEF Accepted
  <2>3. /\ y \in SocketShape /\ y.server = "open"
        /\ y.owner = socks[k].owner /\ y.cookie = socks[k].cookie
    BY <1>2, <1>3, <2>1 DEF SocketShape
  <2>4. y.toClient = q
    BY <2>1 DEF SocketShape
  <2> HIDE DEF y
  <2> QED
    BY <2>2, <2>3, <2>4
<1> HIDE DEF s, y
<1>5. \A n \in Cookies(y) : n = s
  BY <1>4 DEF Cookies, Open, Cookie
<1>6. socks[k].owner \in Clients
  BY <1>0, Domain DEF SocketShape
<1>7. /\ home' \in [SessionIds -> SUBSET Clients]
      /\ \A n \in SessionIds : home'[n] = IF n = s THEN {socks[k].owner} ELSE home[n]
  BY <1>0, <1>1, <1>6 DEF Shapes
<1>8. \A n \in SessionIds : n <= lastSession => home'[n] = home[n]
  BY <1>2, <1>7, SessionIdsAreNat
<1>9. s \in SessionIds => y.owner \in home'[s]
  BY <1>4, <1>7
<1>10. s <= lastSession' /\ lastSession <= lastSession' /\ lastSession' \in Nat
  BY <1>1, <1>2
<1> QED
  BY <1>0, <1>1, <1>2, <1>4, <1>5, <1>7, <1>8, <1>9, <1>10, Accepting

(* One socket changes and nothing else that matters.                       *)
LEMMA SocketChangeKeeps ==
  ASSUME IInv, NEW k, NEW y,
         k \in 1 .. Len(socks) => Keeps(socks[k], y) /\ Stays(socks[k], y),
         socks' = [socks EXCEPT ![k] = y],
         UNCHANGED <<home, lastSession, active, mapped>>,
         client' \in [Clients -> ClientShape],
         \A c \in Clients : client'[c].cookie = client[c].cookie \/ Owned(client'[c].cookie, c)
  PROVE  IInv'
<1>0. Shapes
  BY DEF IInv
<1>1. k \in 1 .. Len(socks) => Keeps(socks[k], y)
  OBVIOUS
<1>2. /\ SocketsKeep
      /\ \A j \in 1 .. Len(socks) : socks'[j] = IF j = k THEN y ELSE socks[j]
  <2>1. socks' = [socks EXCEPT ![k] = y]
    OBVIOUS
  <2> QED
    BY ONLY <1>0, <1>1, <2>1, OneSocketChanges
<1>3. \A j \in 1 .. Len(socks) : Stays(socks[j], socks'[j])
  BY <1>2 DEF Stays
<1> QED
  BY <1>2, <1>3, OnlySocketsChange

LEMMA ClientStays ==
  ASSUME Shapes, UNCHANGED client
  PROVE  /\ client' \in [Clients -> ClientShape]
         /\ \A c \in Clients : client'[c].cookie = client[c].cookie \/ Owned(client'[c].cookie, c)
BY DEF Shapes

(* An ordinary message is added, one is taken, or other fields change.     *)
LEMMA DataKeeps ==
  ASSUME NEW x \in SocketShape
  PROVE  LET y == [x EXCEPT !.toClient = Append(@, Data)]
         IN  Keeps(x, y) /\ Stays(x, y)
<1> DEFINE y == [x EXCEPT !.toClient = Append(@, Data)]
<1>1. x.toClient \in Seq(MsgShape) /\ Data \in MsgShape
  BY DEF SocketShape, Data, MsgShape
<1> DEFINE q == Append(x.toClient, Data)
<1>2. /\ q \in Seq(MsgShape) /\ Len(q) = Len(x.toClient) + 1 /\ Len(x.toClient) \in Nat
      /\ \A j \in 1 .. Len(x.toClient) : q[j] = x.toClient[j]
      /\ q[Len(x.toClient) + 1] = Data
  BY <1>1, AppendSeq
<1>3. y = [x EXCEPT !.toClient = q]
  OBVIOUS
<1> HIDE DEF q
<1>4. /\ y \in SocketShape /\ y.owner = x.owner /\ y.cookie = x.cookie
      /\ y.server = x.server /\ y.toClient = q
  BY <1>2, <1>3 DEF SocketShape
<1> HIDE DEF y
<1>5. Cookies(y) \subseteq Cookies(x)
  <2> SUFFICES ASSUME NEW n \in Cookies(y) PROVE n \in Cookies(x)
    OBVIOUS
  <2>1. PICK i \in 1 .. Len(q) : q[i].type = "cookie" /\ q[i].session = n
    BY <1>4 DEF Cookies
  <2>2. i # Len(x.toClient) + 1
    BY <1>2, <2>1 DEF Data
  <2>3. i \in 1 .. Len(x.toClient) /\ q[i] = x.toClient[i]
    BY <1>2, <2>1, <2>2
  <2> QED
    BY <2>1, <2>3 DEF Cookies
<1> QED
  BY <1>4, <1>5 DEF Keeps, Stays, y

LEMMA TakenKeeps ==
  ASSUME NEW x \in SocketShape, x.toClient # << >>, NEW y \in SocketShape,
         y.owner = x.owner, y.cookie = x.cookie, y.server = x.server,
         y.toClient = Tail(x.toClient)
  PROVE  /\ Keeps(x, y) /\ Stays(x, y)
         /\ Head(x.toClient) \in MsgShape
         /\ Head(x.toClient).type = "cookie" => Head(x.toClient).session \in Cookies(x)
<1> DEFINE q == x.toClient
<1>1. q \in Seq(MsgShape) /\ Len(q) \in Nat
  BY DEF SocketShape
<1>2. /\ Len(Tail(q)) = Len(q) - 1
      /\ \A j \in 1 .. Len(q) - 1 : Tail(q)[j] = q[j + 1]
      /\ Head(q) = q[1] /\ 1 \in 1 .. Len(q) /\ Head(q) \in MsgShape
  BY <1>1, TailSeq
<1>3. Cookies(y) \subseteq Cookies(x)
  <2> SUFFICES ASSUME NEW n \in Cookies(y) PROVE n \in Cookies(x)
    OBVIOUS
  <2>1. PICK i \in 1 .. Len(Tail(q)) : Tail(q)[i].type = "cookie" /\ Tail(q)[i].session = n
    BY DEF Cookies
  <2>2. i + 1 \in 1 .. Len(q) /\ q[i + 1] = Tail(q)[i]
    BY <1>1, <1>2, <2>1
  <2> QED
    BY <2>1, <2>2 DEF Cookies
<1>4. Head(q).type = "cookie" => Head(q).session \in Cookies(x)
  BY <1>2 DEF Cookies, MsgShape
<1> QED
  BY <1>2, <1>3, <1>4 DEF Keeps, Stays

LEMMA OtherFieldsKeep ==
  ASSUME NEW x \in SocketShape, NEW y \in SocketShape,
         y.owner = x.owner, y.cookie = x.cookie, y.server = x.server,
         y.toClient = x.toClient
  PROVE  Keeps(x, y) /\ Stays(x, y)
BY DEF Keeps, Stays, Cookies

-----------------------------------------------------------------------------
(* The rest of what the server does.                                       *)
LEMMA CookieFailsKeeps ==
  ASSUME IInv, NEW k \in MadeSockets, CookieFails(k), UNCHANGED clientVars
  PROVE  IInv'
<1>0. Shapes /\ Connections
  BY DEF IInv
<1>1. /\ mapped' = [mapped EXCEPT ![socks[k].session] = 0]
      /\ UNCHANGED <<socks, home, lastSession, active, client>>
  BY DEF CookieFails, clientVars
<1>2. SocketsKeep
  BY <1>0, <1>1, NoSocketChanges
<1>3. mapped' \in [SessionIds -> Nat] /\ \A s \in SessionIds : mapped'[s] \in {0, mapped[s]}
  BY <1>0, <1>1 DEF Shapes
<1> QED
  BY <1>0, <1>1, <1>2, <1>3, ClientStays, HoldersStay DEF Connections

LEMMA ServerMessageKeeps ==
  ASSUME IInv, NEW k \in MadeSockets, ServerMessage(k), UNCHANGED clientVars
  PROVE  IInv'
<1>0. Shapes /\ socks[k] \in SocketShape
  BY Domain DEF IInv
<1> DEFINE y == [socks[k] EXCEPT !.toServer = Tail(@)]
<1>1. /\ socks[k].toServer # <<>> /\ socks' = [socks EXCEPT ![k] = y]
      /\ UNCHANGED <<home, lastSession, active, mapped, client>>
  BY DEF ServerMessage, serverVars, clientVars
<1>2. Tail(socks[k].toServer) \in Seq({Data})
  <2>1. socks[k].toServer \in Seq({Data})
    BY <1>0 DEF SocketShape
  <2> QED
    BY <1>1, <2>1, TailSeq
<1>3. /\ y \in SocketShape /\ y.owner = socks[k].owner /\ y.cookie = socks[k].cookie
      /\ y.server = socks[k].server /\ y.toClient = socks[k].toClient
  BY <1>0, <1>2 DEF SocketShape
<1> HIDE DEF y
<1>4. Keeps(socks[k], y) /\ Stays(socks[k], y)
  BY <1>0, <1>3, OtherFieldsKeep
<1> QED
  BY <1>0, <1>1, <1>4, ClientStays, SocketChangeKeeps

LEMMA ServerClosedKeeps ==
  ASSUME IInv, NEW k \in MadeSockets, ServerClosed(k), UNCHANGED clientVars
  PROVE  IInv'
<1>0. Shapes /\ Connections /\ socks[k] \in SocketShape
  BY Domain DEF IInv
<1> DEFINE y == [socks[k] EXCEPT !.server = "closed"]
<1>1. /\ socks' = [socks EXCEPT ![k] = y] /\ mapped' = Forget(k)
      /\ UNCHANGED <<home, lastSession, active, client>>
  BY DEF ServerClosed, clientVars
<1>2. /\ y \in SocketShape /\ y.owner = socks[k].owner /\ y.cookie = socks[k].cookie
      /\ y.toClient = socks[k].toClient
  BY <1>0 DEF SocketShape
<1> HIDE DEF y
<1>3. Keeps(socks[k], y)
  BY <1>2 DEF Keeps, Cookies
<1>4. /\ SocketsKeep
      /\ \A j \in 1 .. Len(socks) : socks'[j] = IF j = k THEN y ELSE socks[j]
  BY <1>0, <1>1, <1>3, OneSocketChanges
<1>5. /\ mapped' \in [SessionIds -> Nat]
      /\ \A s \in SessionIds : mapped'[s] # 0 => mapped'[s] = mapped[s] /\ mapped[s] # k
  BY <1>0, <1>1 DEF Forget, Shapes
<1>6. \A s \in SessionIds : mapped'[s] # 0 =>
         /\ mapped'[s] = mapped[s] /\ s \in active'
         /\ socks'[mapped[s]].server \in {"open", "lost"}
  BY <1>0, <1>1, <1>4, <1>5 DEF Connections
<1> QED
  BY <1>0, <1>1, <1>4, <1>5, <1>6, ClientStays, HoldersStay

LEMMA ServerSendKeeps ==
  ASSUME IInv, NEW s \in SessionIds, ServerSend(s), UNCHANGED client
  PROVE  IInv'
<1>0. Shapes
  BY DEF IInv
<1> DEFINE k == mapped[s]
           y == [socks[k] EXCEPT !.toClient = Append(@, Data)]
<1>1. /\ socks' = [socks EXCEPT ![k] = y]
      /\ UNCHANGED <<home, lastSession, active, mapped>>
  BY DEF ServerSend, serverVars
<1>2. k \in 1 .. Len(socks) => Keeps(socks[k], y) /\ Stays(socks[k], y)
  BY <1>0, Domain, DataKeeps
<1> HIDE DEF k, y
<1> QED
  BY <1>0, <1>1, <1>2, ClientStays, SocketChangeKeeps

LEMMA CloseSessionKeeps ==
  ASSUME IInv, NEW s \in SessionIds, CloseSession(s), UNCHANGED clientVars
  PROVE  IInv'
<1>0. Shapes
  BY DEF IInv
<1> DEFINE k == mapped[s]
           y == Ended(socks[k])
<1>1. /\ socks' = [socks EXCEPT ![k] = y]
      /\ UNCHANGED <<home, lastSession, active, mapped, client>>
  BY DEF CloseSession, clientVars
<1>2. k \in 1 .. Len(socks) => Keeps(socks[k], y) /\ Stays(socks[k], y)
  BY <1>0, Domain, EndedKeeps
<1> HIDE DEF k, y
<1> QED
  BY <1>0, <1>1, <1>2, ClientStays, SocketChangeKeeps

LEMMA CloseEndsKeeps ==
  ASSUME IInv, NEW s \in SessionIds, CloseEnds(s), UNCHANGED clientVars
  PROVE  IInv'
<1>0. Shapes /\ Connections
  BY DEF IInv
<1>1. /\ mapped' = [mapped EXCEPT ![s] = 0] /\ active' = active \ {s}
      /\ UNCHANGED <<socks, home, lastSession, client>>
  BY DEF CloseEnds, clientVars
<1>2. SocketsKeep
  BY <1>0, <1>1, NoSocketChanges
<1>3. /\ mapped' \in [SessionIds -> Nat]
      /\ \A n \in SessionIds : mapped'[n] # 0 => mapped'[n] = mapped[n] /\ n # s
  BY <1>0, <1>1 DEF Shapes
<1>4. \A n \in SessionIds : mapped'[n] # 0 =>
         /\ mapped'[n] = mapped[n] /\ n \in active'
         /\ socks'[mapped[n]].server \in {"open", "lost"}
  BY <1>0, <1>1, <1>3 DEF Connections
<1> QED
  BY <1>0, <1>1, <1>2, <1>3, <1>4, ClientStays, HoldersStay

LEMMA RestartKeeps ==
  ASSUME IInv, Restart, UNCHANGED clientVars
  PROVE  IInv'
<1>0. Shapes /\ socks \in Seq(SocketShape) /\ Len(socks) \in Nat
  BY DEF IInv, Shapes
<1> DEFINE y(k) == IF socks[k].server \in {"open", "lost"}
                   THEN [Broken(socks[k]) EXCEPT !.server = "closed"]
                   ELSE socks[k]
<1>1. /\ socks' = [k \in DOMAIN socks |-> y(k)]
      /\ mapped' = [s \in SessionIds |-> 0] /\ active' = {}
      /\ UNCHANGED <<home, lastSession, client>>
  BY DEF Restart, NextId, clientVars
<1>2. ASSUME NEW k \in 1 .. Len(socks)
      PROVE  Keeps(socks[k], y(k))
  <2>1. socks[k] \in SocketShape
    BY <1>0, Domain
  <2> QED
    BY <2>1, BrokenKeeps, KeepsItself
<1> HIDE DEF y
<1>3. DOMAIN socks = 1 .. Len(socks) /\ \A k \in 1 .. Len(socks) : y(k) \in SocketShape
  BY <1>0, <1>2 DEF Keeps
<1>4. /\ socks' \in Seq(SocketShape) /\ Len(socks') = Len(socks)
      /\ \A k \in 1 .. Len(socks) : socks'[k] = y(k)
  BY <1>0, <1>1, <1>3
<1>5. SocketsKeep
  BY <1>0, <1>2, <1>4 DEF SocketsKeep
<1>6. mapped' \in [SessionIds -> Nat] /\ \A s \in SessionIds : mapped'[s] = 0
  BY <1>1
<1> QED
  BY <1>0, <1>1, <1>5, <1>6, ClientStays, HoldersStay

-----------------------------------------------------------------------------
(* The clients and the links.                                              *)
LEMMA BreakKeeps ==
  ASSUME IInv, NEW k \in MadeSockets, Break(k), UNCHANGED <<serverVars, clientVars>>
  PROVE  IInv'
<1>0. Shapes
  BY DEF IInv
<1> DEFINE y == Broken(socks[k])
<1>1. /\ socks' = [socks EXCEPT ![k] = y]
      /\ UNCHANGED <<home, lastSession, active, mapped, client>>
  BY DEF Break, serverVars, clientVars
<1>2. k \in 1 .. Len(socks) => Keeps(socks[k], y) /\ Stays(socks[k], y)
  BY <1>0, Domain, BrokenKeeps
<1> HIDE DEF y
<1> QED
  BY <1>0, <1>1, <1>2, ClientStays, SocketChangeKeeps

(* close(), and the end of the socket in destroy().                        *)
LEMMA ClientEndKeeps ==
  ASSUME IInv, NEW c \in Clients, Close(c) \/ DestroyClient(c), UNCHANGED serverVars
  PROVE  IInv'
<1>0. Shapes
  BY DEF IInv
<1> DEFINE k == client[c].socket
           y == EndedByClient(socks[k])
<1>1. /\ socks' = [socks EXCEPT ![k] = y]
      /\ UNCHANGED <<home, lastSession, active, mapped>>
  BY DEF Close, DestroyClient, serverVars
<1>2. k \in 1 .. Len(socks) => Keeps(socks[k], y) /\ Stays(socks[k], y)
  BY <1>0, Domain, EndedByClientKeeps
<1> DEFINE closed == [client[c] EXCEPT !.closed = TRUE]
           gone == [client[c] EXCEPT !.final = TRUE, !.opened = FALSE, !.timer = FALSE]
<1>3. client' \in {[client EXCEPT ![c] = closed], [client EXCEPT ![c] = gone]}
  BY DEF Close, DestroyClient
<1>4. client[c] \in ClientShape
  BY <1>0 DEF Shapes
<1>5. /\ closed \in ClientShape /\ closed.cookie = client[c].cookie
      /\ gone \in ClientShape /\ gone.cookie = client[c].cookie
  BY <1>4 DEF ClientShape
<1> HIDE DEF closed, gone, k, y
<1>6. client' \in [Clients -> ClientShape] /\ \A d \in Clients : client'[d].cookie = client[d].cookie
  BY <1>0, <1>3, <1>5 DEF Shapes
<1> QED
  BY <1>0, <1>1, <1>2, <1>6, SocketChangeKeeps

(* A new socket carries the cookie of its client, or none.                 *)
LEMMA NewSocketKeeps ==
  ASSUME IInv, NEW c \in Clients, NEW n \in {0, client[c].cookie},
         NEW q \in Seq(SocketShape), Len(q) = Len(socks),
         \A k \in 1 .. Len(socks) : Keeps(socks[k], q[k]) /\ Stays(socks[k], q[k]),
         socks' = Append(q, NewSocket(c, n)),
         UNCHANGED <<home, lastSession, active, mapped>>,
         client' \in [Clients -> ClientShape],
         \A d \in Clients : client'[d].cookie = client[d].cookie
  PROVE  IInv'
<1> DEFINE x == NewSocket(c, n)
<1>1. n \in Nat /\ Len(socks) \in Nat
  BY Domain DEF IInv, Shapes, ClientShape
<1>2. <<>> \in Seq(MsgShape) /\ <<>> \in Seq({Data})
  OBVIOUS
<1>3. x \in SocketShape /\ x.owner = c /\ x.cookie = n /\ x.toClient = <<>>
  BY <1>1, <1>2 DEF NewSocket, SocketShape
<1> HIDE DEF x
<1>4. Cookies(x) = {}
  BY <1>3 DEF Cookies
<1>5. /\ socks' \in Seq(SocketShape) /\ Len(socks') = Len(socks) + 1
      /\ \A k \in 1 .. Len(socks) : socks'[k] = q[k]
      /\ socks'[Len(socks) + 1] = x
  BY <1>3, AppendSeq DEF x
<1>6. \A k \in 1 .. Len(socks') : k > Len(socks) => k = Len(socks) + 1
  BY <1>1, <1>5
<1>7. SocketsKeep
  BY <1>1, <1>3, <1>4, <1>5, <1>6 DEF SocketsKeep
<1>8. \A k \in 1 .. Len(socks) : Stays(socks[k], socks'[k])
  BY <1>5
<1> QED
  BY <1>7, <1>8, OnlySocketsChange

LEMMA ConnectKeeps ==
  ASSUME IInv, NEW c \in Clients, Connect(c), UNCHANGED serverVars
  PROVE  IInv'
<1>0. Shapes
  BY DEF IInv
<1>1. /\ socks' = Append(socks, NewSocket(c, 0))
      /\ client' = [client EXCEPT ![c].socket = Len(socks')]
      /\ UNCHANGED <<home, lastSession, active, mapped>>
  BY DEF Connect, serverVars
<1>2. socks \in Seq(SocketShape) /\ Len(socks') = Len(socks) + 1 /\ Len(socks') \in Nat
  BY <1>0, <1>1 DEF Shapes
<1>3. /\ client' \in [Clients -> ClientShape]
      /\ \A d \in Clients : client'[d].cookie = client[d].cookie
  <2>1. client[c] \in ClientShape
    BY <1>0 DEF Shapes
  <2> DEFINE cl == [client[c] EXCEPT !.socket = Len(socks')]
  <2>2. cl \in ClientShape /\ cl.cookie = client[c].cookie
    BY <1>2, <2>1 DEF ClientShape
  <2>3. client' = [client EXCEPT ![c] = cl]
    BY <1>1
  <2> HIDE DEF cl
  <2> QED
    BY <1>0, <2>2, <2>3 DEF Shapes
<1>4. \A k \in 1 .. Len(socks) : Keeps(socks[k], socks[k]) /\ Stays(socks[k], socks[k])
  BY <1>0, Domain, KeepsItself
<1> QED
  BY <1>1, <1>2, <1>3, <1>4, NewSocketKeeps

LEMMA DoReconnectKeeps ==
  ASSUME IInv, NEW c \in Clients, DoReconnect(c), UNCHANGED serverVars
  PROVE  IInv'
<1>0. Shapes /\ socks \in Seq(SocketShape) /\ Len(socks) \in Nat
  BY DEF IInv, Shapes
<1> DEFINE j == client[c].socket
           y == Ended(socks[j])
           q == [socks EXCEPT ![j] = y]
<1>1. /\ socks' = Append(q, NewSocket(c, client[c].cookie))
      /\ client' = [client EXCEPT ![c].timer = FALSE, ![c].socket = Len(socks')]
      /\ UNCHANGED <<home, lastSession, active, mapped>>
  BY DEF DoReconnect, TimerOff, serverVars
<1>2. j \in 1 .. Len(socks) => Keeps(socks[j], y) /\ Stays(socks[j], y)
  BY <1>0, Domain, EndedKeeps
<1>3. j \in 1 .. Len(socks) => y \in SocketShape
  BY <1>2 DEF Keeps
<1> HIDE DEF j, y
<1>4. /\ q \in Seq(SocketShape) /\ Len(q) = Len(socks)
      /\ \A k \in 1 .. Len(socks) : q[k] = IF k = j THEN y ELSE socks[k]
  BY <1>0, <1>3, ExceptSeq
<1> HIDE DEF q
<1>5. \A k \in 1 .. Len(socks) : Keeps(socks[k], q[k]) /\ Stays(socks[k], q[k])
  BY <1>0, <1>2, <1>4, Domain, KeepsItself
<1>6. Len(socks') \in Nat
  BY <1>0, <1>1, <1>4
<1>7. /\ client' \in [Clients -> ClientShape]
      /\ \A d \in Clients : client'[d].cookie = client[d].cookie
  <2>1. client[c] \in ClientShape
    BY <1>0 DEF Shapes
  <2> DEFINE cl == [client[c] EXCEPT !.timer = FALSE, !.socket = Len(socks')]
  <2>2. cl \in ClientShape /\ cl.cookie = client[c].cookie
    BY <1>6, <2>1 DEF ClientShape
  <2>3. client' = [client EXCEPT ![c] = cl]
    BY <1>1
  <2> HIDE DEF cl
  <2> QED
    BY <1>0, <2>2, <2>3 DEF Shapes
<1> QED
  BY <1>1, <1>4, <1>5, <1>7, NewSocketKeeps

LEMMA SendKeeps ==
  ASSUME IInv, NEW c \in Clients, Send(c), UNCHANGED serverVars
  PROVE  IInv'
<1>0. Shapes /\ client[c] \in ClientShape
  BY DEF IInv, Shapes
<1> DEFINE k == client[c].socket
           y == [socks[k] EXCEPT !.toServer = Append(@, Data)]
<1>1. UNCHANGED <<home, lastSession, active, mapped>>
  BY DEF serverVars
<1>2. ASSUME k \in 1 .. Len(socks)
      PROVE  Keeps(socks[k], y) /\ Stays(socks[k], y)
  <2>1. socks[k] \in SocketShape
    BY <1>0, <1>2, Domain
  <2>2. Append(socks[k].toServer, Data) \in Seq({Data})
    <3>1. socks[k].toServer \in Seq({Data})
      BY <2>1 DEF SocketShape
    <3> QED
      BY <3>1, AppendSeq
  <2>3. /\ y \in SocketShape /\ y.owner = socks[k].owner /\ y.cookie = socks[k].cookie
        /\ y.server = socks[k].server /\ y.toClient = socks[k].toClient
    BY <2>1, <2>2 DEF SocketShape
  <2> HIDE DEF y, k
  <2> QED
    BY <2>1, <2>3, OtherFieldsKeep
<1>3. \/ socks' = [socks EXCEPT ![k] = y] /\ UNCHANGED client
      \/ UNCHANGED <<socks, client>>
      \/ UNCHANGED socks /\ client' = [client EXCEPT ![c].caller = "waiting"]
  BY DEF Send
<1>4. CASE socks' = [socks EXCEPT ![k] = y] /\ UNCHANGED client
  <2> HIDE DEF k, y
  <2> QED
    BY <1>0, <1>1, <1>2, <1>4, ClientStays, SocketChangeKeeps
<1>5. CASE UNCHANGED socks /\ (UNCHANGED client \/ client' = [client EXCEPT ![c].caller = "waiting"])
  <2>1. /\ client' \in [Clients -> ClientShape]
        /\ \A d \in Clients : client'[d].cookie = client[d].cookie
    <3>1. CASE UNCHANGED client
      BY <1>0, <3>1 DEF Shapes
    <3>2. CASE client' = [client EXCEPT ![c].caller = "waiting"]
      <4> DEFINE cl == [client[c] EXCEPT !.caller = "waiting"]
      <4>1. cl \in ClientShape /\ cl.cookie = client[c].cookie
        BY <1>0 DEF ClientShape
      <4>2. client' = [client EXCEPT ![c] = cl]
        BY <3>2
      <4> HIDE DEF cl
      <4> QED
        BY <1>0, <4>1, <4>2 DEF Shapes
    <3> QED
      BY <1>5, <3>1, <3>2
  <2>2. SocketsKeep
    BY <1>0, <1>5, NoSocketChanges
  <2>3. \A i \in 1 .. Len(socks) : Stays(socks[i], socks'[i])
    BY <1>5 DEF Stays
  <2> QED
    BY <1>1, <2>1, <2>2, <2>3, OnlySocketsChange
<1> QED
  BY <1>3, <1>4, <1>5

LEMMA HandleOpenKeeps ==
  ASSUME IInv, NEW k \in MadeSockets, HandleOpen(k), UNCHANGED serverVars
  PROVE  IInv'
<1>0. Shapes /\ socks[k] \in SocketShape
  BY Domain DEF IInv
<1> DEFINE c == socks[k].owner
           end == IF socks[k].client = "connecting" THEN "open" ELSE socks[k].client
           y == [socks[k] EXCEPT !.client = end, !.toClient = Tail(@)]
           cl == [client[c] EXCEPT !.opened = TRUE, !.wasOpen = TRUE, !.waiting = TRUE]
<1>1. /\ socks[k].toClient # << >>
      /\ socks' = [socks EXCEPT ![k] = y]
      /\ UNCHANGED client \/ client' = [client EXCEPT ![c] = cl]
      /\ UNCHANGED <<home, lastSession, active, mapped>>
  BY DEF HandleOpen, WaitsForCookie, serverVars
<1>2. Tail(socks[k].toClient) \in Seq(MsgShape)
  <2>1. socks[k].toClient \in Seq(MsgShape)
    BY <1>0 DEF SocketShape
  <2> QED
    BY <1>1, <2>1, TailSeq
<1>3. /\ y \in SocketShape /\ y.owner = socks[k].owner /\ y.cookie = socks[k].cookie
      /\ y.server = socks[k].server /\ y.toClient = Tail(socks[k].toClient)
  <2>1. end \in {"connecting", "open", "lost", "closed"}
    BY <1>0 DEF SocketShape
  <2> HIDE DEF end
  <2> QED
    BY <1>0, <1>2, <2>1 DEF SocketShape
<1>4. c \in Clients /\ client[c] \in ClientShape
  BY <1>0 DEF SocketShape, Shapes
<1>5. cl \in ClientShape /\ cl.cookie = client[c].cookie
  BY <1>4 DEF ClientShape
<1> HIDE DEF c, y, cl
<1>6. Keeps(socks[k], y) /\ Stays(socks[k], y)
  BY <1>0, <1>1, <1>3, TakenKeeps
<1>7. /\ client' \in [Clients -> ClientShape]
      /\ \A d \in Clients : client'[d].cookie = client[d].cookie
  BY <1>0, <1>1, <1>4, <1>5 DEF Shapes
<1> QED
  BY <1>1, <1>6, <1>7, SocketChangeKeeps

(* The cookie that a client takes was on its way to this very client.      *)
LEMMA HandleMessageKeeps ==
  ASSUME IInv, NEW k \in MadeSockets, HandleMessage(k), UNCHANGED serverVars
  PROVE  IInv'
<1>0. Shapes /\ Holders /\ socks[k] \in SocketShape /\ k \in 1 .. Len(socks)
  BY Domain DEF IInv
<1> DEFINE c == socks[k].owner
           msg == Head(socks[k].toClient)
           x == [socks[k] EXCEPT !.toClient = Tail(@)]
           y == [x EXCEPT !.toServer = Append(@, Data)]
           cookie == IF msg.type = "cookie" THEN msg.session ELSE client[c].cookie
           caller == IF client[c].caller = "waiting" THEN "none" ELSE client[c].caller
           cl == [client[c] EXCEPT !.waiting = FALSE, !.resolved = TRUE,
                                   !.cookie = cookie, !.caller = caller]
<1>1. /\ socks[k].toClient # << >>
      /\ UNCHANGED <<home, lastSession, active, mapped>>
  BY DEF HandleMessage, serverVars
<1>2. \/ socks' = [socks EXCEPT ![k] = x] /\ UNCHANGED client
      \/ /\ socks' \in {[socks EXCEPT ![k] = x], [socks EXCEPT ![k] = y]}
         /\ client' = [client EXCEPT ![c] = cl]
  <2> DEFINE taken == [socks EXCEPT ![k] = x]
  <2>1. k \in DOMAIN socks
    BY DEF MadeSockets
  <2>2. [taken EXCEPT ![k].toServer = Append(@, Data)] = [socks EXCEPT ![k] = y]
    BY <2>1
  <2>3. Released(taken, k, client[c]) \in {taken, [socks EXCEPT ![k] = y]}
    BY <2>2 DEF Released
  <2>4. CASE client[c].final \/ ~client[c].waiting
    BY <2>4 DEF HandleMessage
  <2>5. CASE ~(client[c].final \/ ~client[c].waiting)
    <3>1. socks' = Released(taken, k, client[c])
      BY <2>5 DEF HandleMessage
    <3>2. client' = [client EXCEPT ![c].waiting = FALSE, ![c].resolved = TRUE,
                       ![c].cookie = IF msg.type = "cookie" THEN msg.session ELSE @,
                       ![c].caller = IF @ = "waiting" THEN "none" ELSE @]
      BY <2>5 DEF HandleMessage
    <3> QED
      BY <2>3, <3>1, <3>2
  <2> QED
    BY <2>4, <2>5
<1>3. /\ Tail(socks[k].toClient) \in Seq(MsgShape)
      /\ Append(socks[k].toServer, Data) \in Seq({Data})
  <2>1. socks[k].toClient \in Seq(MsgShape) /\ socks[k].toServer \in Seq({Data})
    BY <1>0 DEF SocketShape
  <2> QED
    BY <1>1, <2>1, TailSeq, AppendSeq
<1>4. /\ x \in SocketShape /\ x.owner = socks[k].owner /\ x.cookie = socks[k].cookie
      /\ x.server = socks[k].server /\ x.toClient = Tail(socks[k].toClient)
      /\ x.toServer = socks[k].toServer
  BY <1>0, <1>3 DEF SocketShape
<1>5. /\ y \in SocketShape /\ y.owner = socks[k].owner /\ y.cookie = socks[k].cookie
      /\ y.server = socks[k].server /\ y.toClient = Tail(socks[k].toClient)
  <2>1. Append(x.toServer, Data) \in Seq({Data})
    BY <1>3, <1>4
  <2> HIDE DEF x
  <2> QED
    BY <1>4, <2>1 DEF SocketShape
<1>6. c \in Clients /\ client[c] \in ClientShape
  BY <1>0 DEF SocketShape, Shapes
<1> HIDE DEF x, y
<1>7. /\ Keeps(socks[k], x) /\ Stays(socks[k], x)
      /\ msg \in MsgShape
      /\ msg.type = "cookie" => msg.session \in Cookies(socks[k])
  BY <1>0, <1>1, <1>4, TakenKeeps
<1>8. Keeps(socks[k], y) /\ Stays(socks[k], y)
  BY <1>0, <1>1, <1>5, TakenKeeps
<1> HIDE DEF msg
<1>9. cookie \in Nat /\ Owned(cookie, c)
  <2>1. CASE msg.type = "cookie"
    BY <1>0, <1>7, <2>1 DEF Holders, MsgShape
  <2>2. CASE msg.type # "cookie"
    BY <1>0, <1>6, <2>2 DEF Holders, ClientShape
  <2> QED
    BY <2>1, <2>2
<1>10. caller \in {"none", "waiting", "stranded"}
  BY <1>6 DEF ClientShape
<1> HIDE DEF cookie, caller
<1>11. cl \in ClientShape /\ cl.cookie = cookie
  BY <1>6, <1>9, <1>10 DEF ClientShape
<1> HIDE DEF cl, c
<1>12. /\ client' \in [Clients -> ClientShape]
       /\ \A d \in Clients : client'[d].cookie = client[d].cookie \/ Owned(client'[d].cookie, d)
  BY <1>0, <1>2, <1>6, <1>9, <1>11 DEF Shapes
<1> QED
  BY <1>1, <1>2, <1>7, <1>8, <1>12, SocketChangeKeeps

LEMMA HandleCloseKeeps ==
  ASSUME IInv, NEW k \in MadeSockets, HandleClose(k), UNCHANGED serverVars
  PROVE  IInv'
<1>0. Shapes /\ socks[k] \in SocketShape
  BY Domain DEF IInv
<1> DEFINE c == socks[k].owner
           x == client[c]
           y == [socks[k] EXCEPT !.client = "closed"]
           closed == [x EXCEPT !.opened = FALSE]
           resolved == IF x.wasOpen THEN FALSE ELSE x.resolved
           caller == IF x.wasOpen /\ x.caller = "waiting" THEN "stranded" ELSE x.caller
           later == [x EXCEPT !.opened = FALSE, !.timer = TRUE, !.resolved = resolved,
                              !.caller = caller, !.wasOpen = FALSE]
<1>1. /\ socks' = [socks EXCEPT ![k] = y]
      /\ UNCHANGED <<home, lastSession, active, mapped>>
  BY DEF HandleClose, serverVars
<1>2. \/ UNCHANGED client
      \/ client' = [client EXCEPT ![c] = closed]
      \/ client' = [client EXCEPT ![c] = later]
  BY DEF HandleClose
<1>3. /\ y \in SocketShape /\ y.owner = socks[k].owner /\ y.cookie = socks[k].cookie
      /\ y.server = socks[k].server /\ y.toClient = socks[k].toClient
  BY <1>0 DEF SocketShape
<1>4. c \in Clients /\ x \in ClientShape
  BY <1>0 DEF SocketShape, Shapes
<1> HIDE DEF c, y
<1>5. Keeps(socks[k], y) /\ Stays(socks[k], y)
  BY <1>0, <1>3, OtherFieldsKeep
<1>6. closed \in ClientShape /\ closed.cookie = x.cookie
  BY <1>4 DEF ClientShape
<1>7. later \in ClientShape /\ later.cookie = x.cookie
  <2>1. resolved \in BOOLEAN /\ caller \in {"none", "waiting", "stranded"}
    BY <1>4 DEF ClientShape
  <2> HIDE DEF resolved, caller, x
  <2> QED
    BY <1>4, <2>1 DEF ClientShape
<1> HIDE DEF closed, later
<1>8. /\ client' \in [Clients -> ClientShape]
      /\ \A d \in Clients : client'[d].cookie = client[d].cookie
  BY <1>0, <1>2, <1>4, <1>6, <1>7 DEF Shapes
<1> QED
  BY <1>1, <1>5, <1>8, SocketChangeKeeps

-----------------------------------------------------------------------------
(* The inductive invariant.                                                *)
LEMMA InitHolds ==
  ASSUME Init
  PROVE  IInv
<1>1. socks = <<>> /\ client = [c \in Clients |-> NewClient] /\ lastSession = 0 /\ active = {}
      /\ mapped = [s \in SessionIds |-> 0] /\ home = [s \in SessionIds |-> {}]
  BY DEF Init, SocketsInit, ServerInit, ClientInit
<1>2. NewClient \in ClientShape /\ NewClient.cookie = 0
  BY DEF NewClient, ClientShape
<1>3. socks \in Seq(SocketShape) /\ Len(socks) = 0
  BY <1>1
<1>4. Shapes
  BY <1>1, <1>2, <1>3 DEF Shapes
<1>5. Holders
  BY <1>1, <1>2, <1>3, SessionIdsAreNat DEF Holders, Owned
<1>6. Connections
  BY <1>1 DEF Connections
<1> QED
  BY <1>4, <1>5, <1>6 DEF IInv

LEMMA StutterKeeps ==
  ASSUME IInv, UNCHANGED <<socks, mapped, active, lastSession, home, client>>
  PROVE  IInv'
BY DEF IInv, Shapes, Holders, Connections, Owned, Cookies

LEMMA StepKeeps ==
  ASSUME IInv, [Next]_vars
  PROVE  IInv'
<1>1. CASE UNCHANGED vars
  BY <1>1, StutterKeeps DEF vars, serverVars, clientVars
<1>2. CASE Server(ServerStep)
  <2>0. UNCHANGED clientVars /\ ServerStep
    BY <1>2 DEF Server
  <2>1. ASSUME NEW k \in MadeSockets, CookieSent(k)
        PROVE  IInv'
    BY <2>0, <2>1, StutterKeeps DEF CookieSent, clientVars
  <2> QED
    BY <2>0, <2>1, RecoverSessionKeeps, NewSessionKeeps, CookieFailsKeeps,
       ServerMessageKeeps, ServerClosedKeeps, CloseEndsKeeps DEF ServerStep
<1>3. ASSUME NEW s \in SessionIds, Server(CloseSession(s)) \/ Push(s)
      PROVE  IInv'
  BY <1>3, CloseSessionKeeps, ServerSendKeeps DEF Server, Push
<1>4. CASE Server(Restart)
  BY <1>4, RestartKeeps DEF Server
<1>5. CASE Client(ClientStep)
  BY <1>5, HandleOpenKeeps, HandleMessageKeeps, HandleCloseKeeps, DoReconnectKeeps
     DEF Client, ClientStep
<1>6. ASSUME NEW c \in Clients,
             Client(Connect(c)) \/ Client(Send(c)) \/ Client(Close(c)) \/ Client(DestroyClient(c))
      PROVE  IInv'
  BY <1>6, ConnectKeeps, SendKeeps, ClientEndKeeps DEF Client
<1>7. ASSUME NEW k \in MadeSockets, Break(k), UNCHANGED <<serverVars, clientVars>>
      PROVE  IInv'
  BY <1>7, BreakKeeps
<1> QED
  BY <1>1, <1>2, <1>3, <1>4, <1>5, <1>6, <1>7 DEF Next

LEMMA Inductive == Spec => []IInv
<1>1. Init => IInv
  BY InitHolds
<1>2. IInv /\ [Next]_vars => IInv'
  BY StepKeeps
<1> QED
  BY <1>1, <1>2, PTL DEF Spec

-----------------------------------------------------------------------------
(* Nobody speaks for another client, whatever breaks, restarts or comes    *)
(* late between the making of a session and its recovery by a cookie.      *)
THEOREM NobodySpeaksForAnother == Spec => []SessionsStayWithTheirClient
<1>1. IInv => SessionsStayWithTheirClient
  BY DEF IInv, Connections, SessionsStayWithTheirClient
<1> QED
  BY <1>1, Inductive, PTL

(* sessionConnections only has connections of active sessions that the     *)
(* server still has.                                                       *)
THEOREM ConnectionsAreLive == Spec => []ConnectedMeansActive
<1>1. IInv => ConnectedMeansActive
  BY DEF IInv, Connections, ConnectedMeansActive
<1> QED
  BY <1>1, Inductive, PTL

(* A client that holds the id of a session, as its cookie or in the        *)
(* headers of a socket, is the one the session was made for.               *)
THEOREM CookiesStayWithTheirClient == Spec => []Holders
<1>1. IInv => Holders
  BY DEF IInv
<1> QED
  BY <1>1, Inductive, PTL

-----------------------------------------------------------------------------
(* One way back, and who is heard.  A socket has one life, at both ends:   *)
(* the server has no open connection whose client has left.                *)
Dead(x) == x.client \in {"lost", "closed"}

(* The id of its session is on its way to the client, or was cut off.      *)
Carries(x) == x.cut \/ Cookies(x) # {}

(* The fields of a socket fit each other.                                  *)
Fit(x) ==
    /\ x.server = "open" => ~Dead(x)
    /\ x.cut => x.toClient = <<>> /\ x.server \in {"lost", "closed"}
    /\ x.server = "none" => ~x.cut /\ x.toClient = <<>>
    /\ (x.session = 0) <=> (x.server = "none")
    /\ Cookies(x) \subseteq {x.session}
    /\ \A i, j \in 1 .. Len(x.toClient) :
          x.toClient[i].type = "cookie" /\ x.toClient[j].type = "cookie" => i = j
    /\ \A i \in 1 .. Len(x.toClient) :
          x.toClient[i].type # "cookie" => x.toClient[i].session = 0

Fits == \A k \in 1 .. Len(socks) : Fit(socks[k]) /\ socks[k].session <= lastSession

(* A client waits to reconnect exactly while its socket is closed, and all *)
(* its earlier sockets are.                                                *)
Ways ==
    /\ \A c \in Clients :
          /\ client[c].socket # 0 =>
                client[c].socket \in 1 .. Len(socks) /\ socks[client[c].socket].owner = c
          /\ client[c].timer => ~client[c].final /\ client[c].socket # 0
          /\ client[c].socket # 0 /\ ~client[c].final =>
                (client[c].timer <=> socks[client[c].socket].client = "closed")
    /\ \A k \in 1 .. Len(socks) :
          socks[k].client # "closed" => client[socks[k].owner].socket = k

(* The sockets of a client are born at different deaths, and each but its  *)
(* last has died since: there are no more than MaxSockets.                 *)
Born ==
    \E f \in [1 .. Len(socks) -> 0 .. deaths] :
        /\ \A j, k \in 1 .. Len(socks) :
              j # k /\ socks[j].owner = socks[k].owner => f[j] # f[k]
        /\ \A k \in 1 .. Len(socks) : Dead(socks[k]) => f[k] < deaths

(* Sessions are made for different sockets: there are no more.             *)
Made ==
    \E g \in [1 .. lastSession -> 1 .. Len(socks)] :
        /\ \A s, t \in 1 .. lastSession : s # t => g[s] # g[t]
        /\ \A s \in 1 .. lastSession : socks[g[s]].server # "none"

(* Nobody else can know the id of a session before its cookie has come.    *)
Secrets ==
    \A k \in 1 .. Len(socks) : Carries(socks[k]) =>
        /\ \A c \in Clients : client[c].cookie # socks[k].session
        /\ \A j \in 1 .. Len(socks) : socks[j].cookie # socks[k].session
        /\ \A j \in 1 .. Len(socks) : j # k => socks[j].session # socks[k].session

Homes ==
    \A k \in 1 .. Len(socks) :
        socks[k].server # "none" => home[socks[k].session] = {socks[k].owner}

Heard ==
    \A k \in 1 .. Len(socks) :
        socks[k].server = "open" /\ socks[k].session \in active
            => mapped[socks[k].session] = k

Bounded ==
    /\ deaths \in 0 .. MaxDeaths /\ sends \in 0 .. MaxSends
    /\ pending \subseteq 1 .. Len(socks) /\ closing \subseteq SessionIds
    /\ 0 \notin active
    /\ home \in [SessionIds -> {{}} \cup {{c} : c \in Clients}]

FullInv == /\ IInv
           /\ Fits /\ Ways /\ Born /\ Made /\ Secrets /\ Homes /\ Heard
           /\ Bounded

-----------------------------------------------------------------------------
(* What may become of a socket once it is accepted, or before.             *)
Moves(x, y) ==
    /\ y.owner = x.owner /\ y.cookie = x.cookie /\ y.session = x.session
    /\ Dead(x) => Dead(y)
    /\ y.server = "open" => x.server = "open"
    /\ (y.server = "none") <=> (x.server = "none")
    /\ Carries(y) => Carries(x)
    /\ Fit(y)

SameEnd(x, y) == (y.client = "closed") <=> (x.client = "closed")
Lives(x, y) == Dead(y) => Dead(x)

LEMMA MovesItself ==
  ASSUME NEW x \in SocketShape, Fit(x)
  PROVE  Moves(x, x) /\ SameEnd(x, x) /\ Lives(x, x)
BY DEF Moves, SameEnd, Lives

LEMMA SameMessages ==
  ASSUME NEW x, NEW y, y.toClient = x.toClient
  PROVE  Cookies(y) = Cookies(x)
BY DEF Cookies

(* The ends of a socket change, and not what is on its way.                *)
LEMMA EndsMove ==
  ASSUME NEW x \in SocketShape, NEW y \in SocketShape, Fit(x),
         y.owner = x.owner, y.cookie = x.cookie, y.session = x.session,
         y.toClient = x.toClient, y.cut = x.cut,
         Dead(x) => Dead(y),
         y.server = "open" => x.server = "open" /\ ~Dead(y),
         (y.server = "none") <=> (x.server = "none"),
         x.server \in {"lost", "closed"} => y.server \in {"lost", "closed"}
  PROVE  Moves(x, y)
<1>1. Cookies(y) = Cookies(x)
  BY SameMessages
<1>2. Carries(y) = Carries(x)
  BY <1>1 DEF Carries
<1>3. Fit(y)
  BY <1>1 DEF Fit
<1> QED
  BY <1>2, <1>3 DEF Moves

LEMMA EndedMoves ==
  ASSUME NEW x \in SocketShape, Fit(x)
  PROVE  /\ Ended(x) \in SocketShape
         /\ Moves(x, Ended(x)) /\ SameEnd(x, Ended(x)) /\ Dead(Ended(x))
<1> DEFINE y == Ended(x)
<1>1. /\ y \in SocketShape
      /\ y.owner = x.owner /\ y.cookie = x.cookie /\ y.session = x.session
      /\ y.toClient = x.toClient /\ y.cut = x.cut
      /\ y.server = IF x.server = "open" THEN "lost" ELSE x.server
      /\ y.client = IF x.client \in {"connecting", "open"} THEN "lost" ELSE x.client
  BY DEF Ended, SocketShape
<1>2. x.client \in {"connecting", "open", "lost", "closed"}
  BY DEF SocketShape
<1> HIDE DEF y
<1>3. Dead(y) /\ SameEnd(x, y)
  BY <1>1, <1>2 DEF Dead, SameEnd
<1>4. Moves(x, y)
  BY <1>1, <1>3, EndsMove
<1> QED
  BY <1>1, <1>3, <1>4 DEF y

(* What was on its way is lost; the ends are what they are after Ended().  *)
LEMMA CutMoves ==
  ASSUME NEW x \in SocketShape, NEW y \in SocketShape, Fit(x),
         y.owner = x.owner, y.cookie = x.cookie, y.session = x.session,
         y.toClient = << >>, y.cut => Carries(x), x.server = "none" => ~y.cut,
         Dead(y), y.server # "open", (y.server = "none") <=> (x.server = "none")
  PROVE  Moves(x, y)
<1>1. Cookies(y) = {}
  BY DEF Cookies
<1>2. Carries(y) => Carries(x)
  BY <1>1 DEF Carries
<1>3. y.server \in {"none", "open", "lost", "closed"}
  BY DEF SocketShape
<1>4. Fit(y)
  BY <1>1, <1>3 DEF Fit
<1> QED
  BY <1>2, <1>4 DEF Moves

LEMMA BrokenMoves ==
  ASSUME NEW x \in SocketShape, Fit(x)
  PROVE  LET y == Broken(x)
             z == [Broken(x) EXCEPT !.server = "closed"]
         IN  /\ Moves(x, y) /\ SameEnd(x, y)
             /\ x.server # "none" => Moves(x, z) /\ SameEnd(x, z)
<1> DEFINE e == Ended(x)
           cut == e.cut \/ \E n \in DOMAIN x.toClient : x.toClient[n].type = "cookie"
           y == Broken(x)
           z == [y EXCEPT !.server = "closed"]
<1>1. /\ e \in SocketShape
      /\ Moves(x, e) /\ SameEnd(x, e) /\ Dead(e)
  BY EndedMoves
<1>2. e.cut = x.cut /\ e.server # "open"
  BY DEF Ended, SocketShape
<1>3. cut \in BOOLEAN
  <2>1. e.cut \in BOOLEAN
    BY <1>1 DEF SocketShape
  <2> QED
    BY <2>1, Zenon
<1>4. y = [e EXCEPT !.cut = cut, !.toClient = <<>>, !.toServer = <<>>]
  BY DEF Broken
<1>5. cut => Carries(x)
  <2>1. ASSUME NEW n \in DOMAIN x.toClient, x.toClient[n].type = "cookie"
        PROVE  Cookies(x) # {}
    <3>1. x.toClient \in Seq(MsgShape) /\ n \in 1 .. Len(x.toClient)
      BY <2>1 DEF SocketShape
    <3>2. x.toClient[n] \in MsgShape
      BY <3>1
    <3>3. x.toClient[n].session \in Nat
      BY <3>2 DEF MsgShape
    <3>4. x.toClient[n].session \in Cookies(x)
      BY <2>1, <3>1, <3>3 DEF Cookies
    <3> QED
      BY <3>4
  <2> QED
    BY <1>2, <2>1 DEF Carries
<1>6. x.server = "none" => ~cut
  <2>1. x.server = "none" => ~x.cut /\ x.toClient = << >>
    BY DEF Fit
  <2> QED
    BY <1>2, <2>1
<1> HIDE DEF e, cut
<1>7. <<>> \in Seq(MsgShape) /\ <<>> \in Seq({Data})
  OBVIOUS
<1>8. /\ y \in SocketShape /\ y.owner = e.owner /\ y.cookie = e.cookie
      /\ y.session = e.session /\ y.client = e.client /\ y.server = e.server
      /\ y.toClient = << >> /\ y.cut = cut
  BY <1>1, <1>3, <1>4, <1>7 DEF SocketShape
<1> HIDE DEF y
<1>9. /\ z \in SocketShape /\ z.owner = e.owner /\ z.cookie = e.cookie
      /\ z.session = e.session /\ z.client = e.client /\ z.server = "closed"
      /\ z.toClient = << >> /\ z.cut = cut
  BY <1>8 DEF SocketShape
<1> HIDE DEF z
<1>10. Dead(y) /\ Dead(z) /\ SameEnd(x, y) /\ SameEnd(x, z)
  BY <1>1, <1>8, <1>9 DEF Dead, SameEnd
<1>11. /\ e.owner = x.owner /\ e.cookie = x.cookie /\ e.session = x.session
       /\ (e.server = "none") <=> (x.server = "none")
  BY <1>1 DEF Moves
<1>12. Moves(x, y)
  BY <1>2, <1>5, <1>6, <1>8, <1>10, <1>11, CutMoves
<1>13. x.server # "none" => Moves(x, z)
  BY <1>5, <1>6, <1>9, <1>10, <1>11, CutMoves
<1> QED
  BY <1>10, <1>12, <1>13 DEF y, z

LEMMA EndedByClientMoves ==
  ASSUME NEW x \in SocketShape, Fit(x)
  PROVE  Moves(x, EndedByClient(x)) /\ SameEnd(x, EndedByClient(x))
BY EndedMoves, BrokenMoves DEF EndedByClient

LEMMA DataMoves ==
  ASSUME NEW x \in SocketShape, Fit(x), x.server = "open"
  PROVE  LET y == [x EXCEPT !.toClient = Append(@, Data)]
         IN  Moves(x, y) /\ SameEnd(x, y) /\ Lives(x, y)
<1> DEFINE y == [x EXCEPT !.toClient = Append(@, Data)]
           m == Len(x.toClient)
           q == Append(x.toClient, Data)
<1>1. Keeps(x, y)
  BY DataKeeps
<1>2. /\ y.owner = x.owner /\ y.cookie = x.cookie /\ y.session = x.session
      /\ y.client = x.client /\ y.server = x.server /\ y.cut = x.cut
      /\ y.toClient = q
  BY DEF SocketShape
<1>3. x.toClient \in Seq(MsgShape) /\ Data \in MsgShape
  BY DEF SocketShape, Data, MsgShape
<1>4. /\ q \in Seq(MsgShape) /\ Len(q) = m + 1 /\ m \in Nat
      /\ \A j \in 1 .. m : q[j] = x.toClient[j]
      /\ q[m + 1] = Data
  BY <1>3, AppendSeq
<1> HIDE DEF y, q
<1>5. Cookies(y) \subseteq Cookies(x)
  BY <1>1 DEF Keeps
<1>6. ~x.cut
  BY DEF Fit
<1>7. ASSUME NEW i \in 1 .. m + 1
      PROVE  \/ i \in 1 .. m /\ q[i] = x.toClient[i]
             \/ q[i].type # "cookie" /\ q[i].session = 0
  BY <1>4 DEF Data
<1>8. Fit(y)
  <2>1. \A i, j \in 1 .. Len(q) : q[i].type = "cookie" /\ q[j].type = "cookie" => i = j
    BY <1>4, <1>7 DEF Fit
  <2>2. \A i \in 1 .. Len(q) : q[i].type # "cookie" => q[i].session = 0
    BY <1>4, <1>7 DEF Fit
  <2> HIDE DEF m
  <2> QED
    BY <1>2, <1>5, <1>6, <2>1, <2>2 DEF Fit, Dead
<1> QED
  BY <1>2, <1>5, <1>8 DEF Moves, SameEnd, Lives, Carries, Dead, y

(* The first message is taken.  If it is the cookie, there is no other.    *)
LEMMA TakenMoves ==
  ASSUME NEW x \in SocketShape, Fit(x), x.toClient # << >>, NEW y \in SocketShape,
         y.owner = x.owner, y.cookie = x.cookie, y.session = x.session,
         y.server = x.server, y.cut = x.cut, Dead(y) = Dead(x),
         y.toClient = Tail(x.toClient)
  PROVE  /\ Moves(x, y)
         /\ Head(x.toClient).type = "cookie" =>
               Head(x.toClient).session = x.session /\ Carries(x) /\ ~Carries(y)
<1> DEFINE q == x.toClient
           r == Tail(x.toClient)
           m == Len(x.toClient)
<1>1. q \in Seq(MsgShape) /\ m \in Nat
  BY DEF SocketShape
<1>2. /\ Len(r) = m - 1 /\ \A j \in 1 .. m - 1 : r[j] = q[j + 1]
      /\ Head(q) = q[1] /\ 1 \in 1 .. m
  BY <1>1, TailSeq
<1>3. /\ Keeps(x, y)
      /\ Head(q).type = "cookie" => Head(q).session \in Cookies(x)
  BY TakenKeeps
<1>4. Cookies(y) \subseteq Cookies(x) /\ ~x.cut /\ x.server # "none"
  BY <1>3 DEF Keeps, Fit
<1> HIDE DEF r
<1>5. y.toClient = r
  BY DEF r
<1>6. \A i \in 1 .. m - 1 : i + 1 \in 1 .. m /\ r[i] = q[i + 1]
  BY <1>1, <1>2
<1>7. /\ \A i, j \in 1 .. m : q[i].type = "cookie" /\ q[j].type = "cookie" => i = j
      /\ \A i \in 1 .. m : q[i].type # "cookie" => q[i].session = 0
  BY DEF Fit
<1>8. \A i, j \in 1 .. m - 1 : r[i].type = "cookie" /\ r[j].type = "cookie" => i = j
  <2> SUFFICES ASSUME NEW i \in 1 .. m - 1, NEW j \in 1 .. m - 1,
                      r[i].type = "cookie", r[j].type = "cookie"
               PROVE  i = j
    OBVIOUS
  <2>1. i + 1 = j + 1
    BY <1>6, <1>7
  <2> QED
    BY <1>1, <2>1
<1>9. \A i \in 1 .. m - 1 : r[i].type # "cookie" => r[i].session = 0
  BY <1>6, <1>7
<1>10. Fit(y)
  <2> HIDE DEF m
  <2> QED
    BY <1>2, <1>4, <1>5, <1>8, <1>9 DEF Fit
<1>11. ASSUME Head(q).type = "cookie"
       PROVE  Head(q).session = x.session /\ Carries(x) /\ ~Carries(y)
  <2>1. Head(q).session = x.session /\ Carries(x)
    BY <1>3, <1>11 DEF Fit, Carries
  <2>2. \A i \in 1 .. m - 1 : r[i].type # "cookie"
    <3> SUFFICES ASSUME NEW i \in 1 .. m - 1, r[i].type = "cookie" PROVE FALSE
      OBVIOUS
    <3>1. i + 1 = 1
      BY <1>2, <1>6, <1>7, <1>11
    <3> QED
      BY <1>1, <3>1
  <2>3. Cookies(y) = {}
    BY <1>2, <1>5, <2>2 DEF Cookies
  <2> QED
    BY <1>4, <2>1, <2>3 DEF Carries
<1>12. Moves(x, y)
  BY <1>4, <1>10 DEF Moves, Carries
<1> QED
  BY <1>11, <1>12

-----------------------------------------------------------------------------
(* What the numbers of sockets and sessions are bounded by.                *)
LEMMA FirstNumbers ==
  ASSUME NEW n \in Nat
  PROVE  /\ IsFiniteSet(1 .. n) /\ Cardinality(1 .. n) = n
         /\ IsFiniteSet(0 .. n) /\ Cardinality(0 .. n) = n + 1
<1>1. IsFiniteSet(1 .. n) /\ Cardinality(1 .. n) = IF 1 > n THEN 0 ELSE n - 1 + 1
  BY FS_Interval
<1>2. IsFiniteSet(0 .. n) /\ Cardinality(0 .. n) = IF 0 > n THEN 0 ELSE n - 0 + 1
  BY FS_Interval
<1> QED
  BY <1>1, <1>2

LEMMA MaxSocketsIsNat == MaxSockets \in Nat
<1>1. Cardinality(Clients) \in Nat
  BY ClientsAssumption, FS_CardinalityType
<1> QED
  BY <1>1, MaxDeathsAssumption DEF MaxSockets

LEMMA SocketsBounded ==
  ASSUME socks \in Seq(SocketShape), Born, deaths \in 0 .. MaxDeaths
  PROVE  Len(socks) \in Nat /\ Len(socks) <= MaxSockets
<1> DEFINE n == Len(socks)
           T == Clients \X (0 .. MaxDeaths)
<1>1. /\ n \in Nat /\ \A k \in 1 .. n : socks[k].owner \in Clients
      /\ deaths \in Nat /\ MaxDeaths \in Nat /\ deaths <= MaxDeaths
  <2>1. n \in Nat /\ \A k \in 1 .. n : socks[k] \in SocketShape
    OBVIOUS
  <2> QED
    BY <2>1, MaxDeathsAssumption DEF SocketShape
<1>2. PICK f \in [1 .. n -> 0 .. deaths] :
         \A j, k \in 1 .. n : j # k /\ socks[j].owner = socks[k].owner => f[j] # f[k]
  BY DEF Born
<1>3. /\ IsFiniteSet(0 .. MaxDeaths) /\ Cardinality(0 .. MaxDeaths) = MaxDeaths + 1
      /\ IsFiniteSet(1 .. n) /\ Cardinality(1 .. n) = n
  BY <1>1, FirstNumbers
<1>4. IsFiniteSet(T) /\ Cardinality(T) = Cardinality(Clients) * (MaxDeaths + 1)
  BY <1>3, ClientsAssumption, FS_Product
<1> DEFINE h == [k \in 1 .. n |-> <<socks[k].owner, f[k]>>]
<1>5. h \in Injection(1 .. n, T)
  <2>1. h \in [1 .. n -> T]
    <3> SUFFICES ASSUME NEW k \in 1 .. n PROVE <<socks[k].owner, f[k]>> \in T
      OBVIOUS
    <3>1. f[k] \in 0 .. MaxDeaths
      BY <1>1, <1>2
    <3> QED
      BY <1>1, <3>1
  <2>2. \A j, k \in 1 .. n : h[j] = h[k] => j = k
    BY <1>2
  <2> QED
    BY <2>1, <2>2 DEF Injection, IsInjective
<1>6. n <= Cardinality(T)
  BY <1>3, <1>4, <1>5, FS_Injection, SMTT(30)
<1>7. Cardinality(T) = MaxSockets
  BY <1>1, <1>4, FS_CardinalityType, ClientsAssumption DEF MaxSockets
<1> QED
  BY <1>1, <1>6, <1>7

LEMMA SessionsBounded ==
  ASSUME Made, lastSession \in Nat, Len(socks) \in Nat
  PROVE  lastSession <= Len(socks)
<1> DEFINE n == Len(socks)
<1>1. PICK g \in [1 .. lastSession -> 1 .. n] :
         \A s, t \in 1 .. lastSession : s # t => g[s] # g[t]
  BY DEF Made
<1>2. /\ IsFiniteSet(1 .. n) /\ Cardinality(1 .. n) = n
      /\ Cardinality(1 .. lastSession) = lastSession
  BY FirstNumbers
<1>3. g \in Injection(1 .. lastSession, 1 .. n)
  BY <1>1 DEF Injection, IsInjective
<1> QED
  BY <1>2, <1>3, FS_Injection, SMTT(30)

-----------------------------------------------------------------------------
(* Part by part: what a step must respect.                                 *)
(* A new socket, if there is one, is of a client whose others are dead.    *)
NewOne(c, n) ==
    /\ socks'[Len(socks) + 1] = NewSocket(c, n)
    /\ \A k \in 1 .. Len(socks) : socks[k].owner = c => Dead(socks[k])

MayAppend ==
    \/ Len(socks') = Len(socks)
    \/ /\ Len(socks') = Len(socks) + 1
       /\ \E c \in Clients : \E n \in {0, client[c].cookie} : NewOne(c, n)

LEMMA BornStays ==
  ASSUME Born, deaths \in Nat, Len(socks) \in Nat, MayAppend,
         \A k \in 1 .. Len(socks) :
            /\ socks'[k].owner = socks[k].owner
            /\ Dead(socks[k]) => Dead(socks'[k]),
         \/ deaths' = deaths /\ \A k \in 1 .. Len(socks) : Lives(socks[k], socks'[k])
         \/ deaths' = deaths + 1
  PROVE  Born'
<1> DEFINE n == Len(socks)
           m == Len(socks')
<1>1. PICK f \in [1 .. n -> 0 .. deaths] :
         /\ \A j, k \in 1 .. n : j # k /\ socks[j].owner = socks[k].owner => f[j] # f[k]
         /\ \A k \in 1 .. n : Dead(socks[k]) => f[k] < deaths
  BY DEF Born
<1> DEFINE h == [k \in 1 .. m |-> IF k \in 1 .. n THEN f[k] ELSE deaths]
<1>2. deaths' \in Nat /\ deaths <= deaths'
  OBVIOUS
<1>3. h \in [1 .. m -> 0 .. deaths']
  BY <1>1, <1>2
<1>4. CASE m = n
  <2>1. \A k \in 1 .. n : h[k] = f[k]
    BY <1>4
  <2>2. \A j, k \in 1 .. m : j # k /\ socks'[j].owner = socks'[k].owner => h[j] # h[k]
    BY <1>1, <1>4, <2>1
  <2>3. \A k \in 1 .. m : Dead(socks'[k]) => h[k] < deaths'
    BY <1>1, <1>2, <1>4, <2>1 DEF Lives
  <2> HIDE DEF h
  <2> QED
    BY <1>3, <2>2, <2>3 DEF Born
<1>5. CASE m = n + 1 /\ \E c \in Clients : \E i \in {0, client[c].cookie} : NewOne(c, i)
  <2>1. PICK c, i : c \in Clients /\ NewOne(c, i)
    BY <1>5
  <2>2. /\ socks'[m].owner = c /\ ~Dead(socks'[m])
        /\ \A k \in 1 .. n : socks[k].owner = c => f[k] < deaths
    BY <1>1, <1>5, <2>1 DEF NewOne, NewSocket, Dead
  <2>3. /\ \A k \in 1 .. m : k = m \/ k \in 1 .. n
        /\ \A k \in 1 .. n : h[k] = f[k]
        /\ h[m] = deaths
    BY <1>5
  <2> HIDE DEF h
  <2>4. ASSUME NEW j \in 1 .. m, NEW k \in 1 .. m, j # k, socks'[j].owner = socks'[k].owner
        PROVE  h[j] # h[k]
    <3>1. CASE j \in 1 .. n /\ k \in 1 .. n
      BY <1>1, <2>3, <2>4, <3>1
    <3>2. CASE j = m /\ k \in 1 .. n
      BY <1>1, <2>2, <2>3, <2>4, <3>2
    <3>3. CASE k = m /\ j \in 1 .. n
      BY <1>1, <2>2, <2>3, <2>4, <3>3
    <3> QED
      BY <2>3, <2>4, <3>1, <3>2, <3>3
  <2>5. \A k \in 1 .. m : Dead(socks'[k]) => h[k] < deaths'
    BY <1>1, <1>2, <2>2, <2>3 DEF Lives
  <2> QED
    BY <1>3, <2>4, <2>5 DEF Born
<1> QED
  BY <1>4, <1>5 DEF MayAppend

LEMMA MadeStays ==
  ASSUME Made, Len(socks) \in Nat, Len(socks') \in Nat, Len(socks') >= Len(socks),
         UNCHANGED lastSession,
         \A k \in 1 .. Len(socks) : socks[k].server # "none" => socks'[k].server # "none"
  PROVE  Made'
<1>1. PICK g \in [1 .. lastSession -> 1 .. Len(socks)] :
         /\ \A s, t \in 1 .. lastSession : s # t => g[s] # g[t]
         /\ \A s \in 1 .. lastSession : socks[g[s]].server # "none"
  BY DEF Made
<1>2. g \in [1 .. lastSession' -> 1 .. Len(socks')]
  BY <1>1
<1>3. \A s \in 1 .. lastSession' : socks'[g[s]].server # "none"
  BY <1>1
<1> QED
  BY <1>1, <1>2, <1>3 DEF Made

(* A session is made for a socket that none was made for.                  *)
LEMMA MadeGrows ==
  ASSUME Made, Len(socks) \in Nat, Len(socks') = Len(socks), lastSession \in Nat,
         lastSession' = lastSession + 1,
         NEW k \in 1 .. Len(socks), socks[k].server = "none", socks'[k].server # "none",
         \A j \in 1 .. Len(socks) : j # k => socks'[j] = socks[j]
  PROVE  Made'
<1> DEFINE m == lastSession + 1
<1>1. PICK g \in [1 .. lastSession -> 1 .. Len(socks)] :
         /\ \A s, t \in 1 .. lastSession : s # t => g[s] # g[t]
         /\ \A s \in 1 .. lastSession : socks[g[s]].server # "none"
  BY DEF Made
<1> DEFINE h == [s \in 1 .. m |-> IF s = m THEN k ELSE g[s]]
<1>2. \A s \in 1 .. m : s = m \/ s \in 1 .. lastSession
  OBVIOUS
<1>3. /\ h[m] = k
      /\ \A s \in 1 .. lastSession : h[s] = g[s] /\ g[s] # k /\ g[s] \in 1 .. Len(socks)
  BY <1>1
<1>4. h \in [1 .. m -> 1 .. Len(socks)]
  BY <1>1, <1>2
<1> HIDE DEF h
<1>5. ASSUME NEW s \in 1 .. m, NEW t \in 1 .. m, s # t
      PROVE  h[s] # h[t]
  <2>1. CASE s = m
    BY <1>2, <1>3, <1>5, <2>1
  <2>2. CASE t = m
    BY <1>2, <1>3, <1>5, <2>2
  <2>3. CASE s # m /\ t # m
    <3>1. s \in 1 .. lastSession /\ t \in 1 .. lastSession
      BY <1>2, <2>3
    <3> QED
      BY <1>1, <1>3, <1>5, <3>1
  <2> QED
    BY <2>1, <2>2, <2>3
<1>6. \A s \in 1 .. m : socks'[h[s]].server # "none"
  BY <1>1, <1>2, <1>3
<1> QED
  BY <1>4, <1>5, <1>6 DEF Made

LEMMA NewSocketFits ==
  ASSUME NEW c, NEW n
  PROVE  LET x == NewSocket(c, n)
         IN  /\ Fit(x) /\ ~Carries(x) /\ Cookies(x) = {}
             /\ x.owner = c /\ x.cookie = n /\ x.session = 0
             /\ x.client = "connecting" /\ x.server = "none"
<1> DEFINE x == NewSocket(c, n)
<1>1. /\ x.owner = c /\ x.cookie = n /\ x.session = 0 /\ x.toClient = << >> /\ x.cut = FALSE
      /\ x.client = "connecting" /\ x.server = "none"
  BY DEF NewSocket
<1> HIDE DEF x
<1>2. Cookies(x) = {}
  BY <1>1 DEF Cookies
<1>3. ~Carries(x) /\ Fit(x)
  BY <1>1, <1>2 DEF Carries, Fit
<1> QED
  BY <1>1, <1>2, <1>3 DEF x

LEMMA FitsNext ==
  ASSUME \A k \in 1 .. Len(socks') : Fit(socks'[k]) /\ socks'[k].session <= lastSession'
  PROVE  Fits'
BY DEF Fits, Fit, Dead, Cookies

LEMMA FitsStay ==
  ASSUME Fits, Len(socks) \in Nat, MayAppend, UNCHANGED lastSession, lastSession \in Nat,
         \A k \in 1 .. Len(socks) : Moves(socks[k], socks'[k])
  PROVE  Fits'
<1>1. \A k \in 1 .. Len(socks) : Fit(socks'[k]) /\ socks'[k].session <= lastSession'
  BY DEF Moves, Fits
<1>2. CASE Len(socks') = Len(socks)
  BY <1>1, <1>2, FitsNext
<1>3. CASE Len(socks') = Len(socks) + 1
  <2>1. PICK c, n : socks'[Len(socks) + 1] = NewSocket(c, n)
    BY <1>3 DEF MayAppend, NewOne
  <2>2. Fit(socks'[Len(socks) + 1]) /\ socks'[Len(socks) + 1].session = 0
    BY <2>1, NewSocketFits
  <2>3. \A k \in 1 .. Len(socks') : k = Len(socks) + 1 \/ k \in 1 .. Len(socks)
    BY <1>3
  <2>4. socks'[Len(socks) + 1].session <= lastSession'
    BY <2>2
  <2> QED
    BY <1>1, <2>2, <2>3, <2>4, FitsNext
<1> QED
  BY <1>2, <1>3 DEF MayAppend

(* A client may take a cookie that then is nobody's secret any more.       *)
LEMMA SecretsStay ==
  ASSUME Secrets, Fits, Len(socks) \in Nat, MayAppend,
         \A k \in 1 .. Len(socks) : Moves(socks[k], socks'[k]),
         \A c \in Clients :
            \/ client'[c].cookie = client[c].cookie
            \/ \E k \in 1 .. Len(socks) :
                  /\ Carries(socks[k]) /\ ~Carries(socks'[k])
                  /\ client'[c].cookie = socks[k].session
  PROVE  Secrets'
<1> DEFINE n == Len(socks)
<1> SUFFICES ASSUME NEW k \in 1 .. Len(socks'), Carries(socks[k])'
             PROVE  /\ \A c \in Clients : client'[c].cookie # socks'[k].session
                    /\ \A j \in 1 .. Len(socks') : socks'[j].cookie # socks'[k].session
                    /\ \A j \in 1 .. Len(socks') : j # k => socks'[j].session # socks'[k].session
  BY DEF Secrets
<1>0. Carries(socks'[k])
  BY DEF Carries, Cookies
<1>1. ASSUME NEW j \in 1 .. Len(socks'), j \notin 1 .. n
      PROVE  \E c \in Clients : \E i \in {0, client[c].cookie} :
                 /\ socks'[j].cookie = i /\ socks'[j].session = 0 /\ ~Carries(socks'[j])
  <2>1. Len(socks') = n + 1 /\ j = n + 1
    BY <1>1 DEF MayAppend
  <2>2. PICK c, i : c \in Clients /\ i \in {0, client[c].cookie} /\ socks'[j] = NewSocket(c, i)
    BY <1>1, <2>1 DEF MayAppend, NewOne
  <2> QED
    BY <2>2, NewSocketFits
<1>2. k \in 1 .. n
  BY <1>0, <1>1
<1>3. /\ Carries(socks[k]) /\ socks'[k].session = socks[k].session
      /\ Fit(socks[k])
  <2>1. Moves(socks[k], socks'[k]) /\ Fit(socks[k])
    BY <1>2 DEF Fits
  <2> QED
    BY <1>0, <2>1 DEF Moves
<1>4. socks[k].session # 0
  BY <1>3 DEF Fit, Carries, Cookies
<1>5. /\ \A c \in Clients : client[c].cookie # socks[k].session
      /\ \A j \in 1 .. n : socks[j].cookie # socks[k].session
      /\ \A j \in 1 .. n : j # k => socks[j].session # socks[k].session
  BY <1>2, <1>3 DEF Secrets
<1>6. ASSUME NEW c \in Clients PROVE client'[c].cookie # socks[k].session
  BY <1>5
<1>7. ASSUME NEW j \in 1 .. Len(socks')
      PROVE  /\ socks'[j].cookie # socks[k].session
             /\ j # k => socks'[j].session # socks[k].session
  <2>1. CASE j \in 1 .. n
    BY <1>5, <2>1 DEF Moves
  <2>2. CASE j \notin 1 .. n
    BY <1>1, <1>4, <1>5, <2>2
  <2> QED
    BY <2>1, <2>2
<1> QED
  BY <1>3, <1>6, <1>7

LEMMA WaysStay ==
  ASSUME Ways, Len(socks') = Len(socks),
         \A k \in 1 .. Len(socks) :
            /\ socks[k].owner \in Clients /\ socks'[k].owner = socks[k].owner
            /\ SameEnd(socks[k], socks'[k]),
         \A c \in Clients :
            /\ client'[c].socket = client[c].socket
            /\ \/ client'[c].timer = client[c].timer /\ client'[c].final = client[c].final
               \/ client'[c].timer = FALSE /\ client'[c].final = TRUE
  PROVE  Ways'
<1>1. ASSUME NEW c \in Clients
      PROVE  /\ client'[c].socket # 0 =>
                   client'[c].socket \in 1 .. Len(socks') /\ socks'[client'[c].socket].owner = c
             /\ client'[c].timer => ~client'[c].final /\ client'[c].socket # 0
             /\ client'[c].socket # 0 /\ ~client'[c].final =>
                   (client'[c].timer <=> socks'[client'[c].socket].client = "closed")
  <2> DEFINE s == client[c].socket
  <2>1. /\ s # 0 => s \in 1 .. Len(socks) /\ socks[s].owner = c
        /\ client[c].timer => ~client[c].final /\ s # 0
        /\ s # 0 /\ ~client[c].final => (client[c].timer <=> socks[s].client = "closed")
    BY DEF Ways
  <2>2. client'[c].socket = s
    OBVIOUS
  <2>3. s # 0 => /\ s \in 1 .. Len(socks') /\ socks'[s].owner = c
                 /\ (socks'[s].client = "closed") <=> (socks[s].client = "closed")
    BY <2>1 DEF SameEnd
  <2> HIDE DEF s
  <2>4. CASE client'[c].timer = client[c].timer /\ client'[c].final = client[c].final
    BY <2>1, <2>2, <2>3, <2>4
  <2>5. CASE client'[c].timer = FALSE /\ client'[c].final = TRUE
    BY <2>2, <2>3, <2>5
  <2> QED
    BY <2>4, <2>5
<1>2. ASSUME NEW k \in 1 .. Len(socks'), socks'[k].client # "closed"
      PROVE  client'[socks'[k].owner].socket = k
  BY <1>2 DEF Ways, SameEnd
<1> QED
  BY <1>1, <1>2 DEF Ways

LEMMA HomesStay ==
  ASSUME Homes, Len(socks) \in Nat, MayAppend, UNCHANGED home,
         \A k \in 1 .. Len(socks) : Moves(socks[k], socks'[k])
  PROVE  Homes'
<1> SUFFICES ASSUME NEW k \in 1 .. Len(socks'), socks'[k].server # "none"
             PROVE  home[socks'[k].session] = {socks'[k].owner}
  BY DEF Homes
<1>1. k \in 1 .. Len(socks)
  <2> SUFFICES ASSUME k \notin 1 .. Len(socks) PROVE FALSE
    OBVIOUS
  <2>1. Len(socks') = Len(socks) + 1 /\ k = Len(socks) + 1
    BY DEF MayAppend
  <2>2. PICK c, n : socks'[k] = NewSocket(c, n)
    BY <2>1 DEF MayAppend, NewOne
  <2> QED
    BY <2>2, NewSocketFits
<1> QED
  BY <1>1 DEF Moves, Homes

LEMMA HeardStays ==
  ASSUME Heard, Len(socks) \in Nat, MayAppend, active' \subseteq active,
         \A k \in 1 .. Len(socks) : Moves(socks[k], socks'[k]),
         \A k \in 1 .. Len(socks) :
            socks'[k].server = "open" /\ socks[k].session \in active' =>
               mapped'[socks[k].session] = mapped[socks[k].session]
  PROVE  Heard'
<1> SUFFICES ASSUME NEW k \in 1 .. Len(socks'),
                    socks'[k].server = "open", socks'[k].session \in active'
             PROVE  mapped'[socks'[k].session] = k
  BY DEF Heard
<1>1. k \in 1 .. Len(socks)
  <2> SUFFICES ASSUME k \notin 1 .. Len(socks) PROVE FALSE
    OBVIOUS
  <2>1. Len(socks') = Len(socks) + 1 /\ k = Len(socks) + 1
    BY DEF MayAppend
  <2>2. PICK c, n : socks'[k] = NewSocket(c, n)
    BY <2>1 DEF MayAppend, NewOne
  <2> QED
    BY <2>2, NewSocketFits
<1> QED
  BY <1>1 DEF Moves, Heard

-----------------------------------------------------------------------------
(* A step at which sockets only move on as they are.                       *)
LEMMA Facts ==
  ASSUME FullInv
  PROVE  /\ Shapes /\ Holders /\ Connections
         /\ MadeSockets = 1 .. Len(socks) /\ Len(socks) \in Nat
         /\ \A k \in 1 .. Len(socks) :
               /\ socks[k] \in SocketShape /\ Fit(socks[k])
               /\ socks[k].owner \in Clients
         /\ \A c \in Clients : client[c] \in ClientShape
         /\ lastSession \in Nat /\ deaths \in Nat
         /\ lastSession <= Len(socks) /\ Len(socks) <= MaxSockets
<1>1. Shapes /\ Holders /\ Connections
  BY DEF FullInv, IInv
<1>2. /\ MadeSockets = 1 .. Len(socks) /\ Len(socks) \in Nat
      /\ \A k \in 1 .. Len(socks) : socks[k] \in SocketShape
  BY <1>1, Domain
<1>3. \A k \in 1 .. Len(socks) : Fit(socks[k]) /\ socks[k].owner \in Clients
  BY <1>2 DEF FullInv, Fits, SocketShape
<1>4. lastSession \in Nat /\ deaths \in Nat /\ \A c \in Clients : client[c] \in ClientShape
  BY <1>1 DEF FullInv, Shapes, Bounded
<1>5. Len(socks) <= MaxSockets
  BY <1>1, SocketsBounded DEF FullInv, Shapes, Bounded
<1>6. lastSession <= Len(socks)
  BY <1>2, <1>4, SessionsBounded DEF FullInv
<1> QED
  BY <1>1, <1>2, <1>3, <1>4, <1>5, <1>6

SocketsMove ==
    /\ Len(socks') = Len(socks)
    /\ \A k \in 1 .. Len(socks) :
          Moves(socks[k], socks'[k]) /\ SameEnd(socks[k], socks'[k])

NobodyDies == deaths' = deaths /\ \A k \in 1 .. Len(socks) : Lives(socks[k], socks'[k])
OneDeath == deaths' = deaths + 1 /\ deaths' <= MaxDeaths

ClientsGoOn ==
    \A c \in Clients :
        /\ client'[c].socket = client[c].socket
        /\ \/ client'[c].timer = client[c].timer /\ client'[c].final = client[c].final
           \/ client'[c].timer = FALSE /\ client'[c].final = TRUE

CookiesComeHome ==
    \A c \in Clients :
        \/ client'[c].cookie = client[c].cookie
        \/ \E k \in 1 .. Len(socks) :
              /\ Carries(socks[k]) /\ ~Carries(socks'[k])
              /\ client'[c].cookie = socks[k].session

BoundsStay ==
    /\ pending' \subseteq pending /\ closing' \subseteq SessionIds
    /\ sends' \in 0 .. MaxSends
    /\ active' \subseteq active
    /\ UNCHANGED <<lastSession, home>>

OpenStaysMapped ==
    \A k \in 1 .. Len(socks) :
        socks'[k].server = "open" /\ socks[k].session \in active' =>
            mapped'[socks[k].session] = mapped[socks[k].session]

LEMMA Others ==
  ASSUME FullInv, IInv', Ways', MayAppend,
         \A k \in 1 .. Len(socks) : Moves(socks[k], socks'[k]),
         NobodyDies \/ OneDeath, CookiesComeHome, BoundsStay, OpenStaysMapped
  PROVE  FullInv'
<1>0. /\ Len(socks) \in Nat /\ lastSession \in Nat /\ deaths \in Nat
      /\ Len(socks') \in Nat /\ Len(socks') >= Len(socks)
  BY Facts DEF MayAppend
<1>1. Fits'
  BY <1>0, FitsStay DEF FullInv, BoundsStay
<1>2. Born'
  <2>1. \A k \in 1 .. Len(socks) :
           socks'[k].owner = socks[k].owner /\ (Dead(socks[k]) => Dead(socks'[k]))
    BY DEF Moves
  <2> QED
    BY <1>0, <2>1, BornStays DEF FullInv, NobodyDies, OneDeath
<1>3. Made'
  <2>1. \A k \in 1 .. Len(socks) : socks[k].server # "none" => socks'[k].server # "none"
    BY DEF Moves
  <2> QED
    BY <1>0, <2>1, MadeStays DEF FullInv, BoundsStay
<1>4. Secrets'
  BY <1>0, SecretsStay DEF FullInv, CookiesComeHome
<1>5. Homes'
  BY <1>0, HomesStay DEF FullInv, BoundsStay
<1>6. Heard'
  BY <1>0, HeardStays DEF FullInv, BoundsStay, OpenStaysMapped
<1>7. Bounded'
  <2>1. deaths' \in 0 .. MaxDeaths
    BY <1>0, MaxDeathsAssumption DEF FullInv, Bounded, NobodyDies, OneDeath
  <2>2. pending' \subseteq 1 .. Len(socks')
    BY <1>0 DEF FullInv, Bounded, BoundsStay
  <2>3. /\ closing' \subseteq SessionIds
        /\ sends' \in 0 .. MaxSends /\ 0 \notin active'
        /\ home' \in [SessionIds -> {{}} \cup {{c} : c \in Clients}]
    BY DEF FullInv, Bounded, BoundsStay
  <2> QED
    BY <2>1, <2>2, <2>3 DEF Bounded
<1> QED
  BY <1>1, <1>2, <1>3, <1>4, <1>5, <1>6, <1>7 DEF FullInv

LEMMA Ordinary ==
  ASSUME FullInv, IInv', SocketsMove, NobodyDies \/ OneDeath, ClientsGoOn,
         CookiesComeHome, BoundsStay, OpenStaysMapped
  PROVE  FullInv'
<1>1. MayAppend /\ \A k \in 1 .. Len(socks) : Moves(socks[k], socks'[k])
  BY DEF SocketsMove, MayAppend
<1>2. Ways'
  BY <1>1, Facts, WaysStay DEF FullInv, SocketsMove, ClientsGoOn, Moves
<1> QED
  BY <1>1, <1>2, Others

LEMMA OneMoves ==
  ASSUME FullInv, IInv', NEW k \in 1 .. Len(socks), NEW y,
         socks' = [socks EXCEPT ![k] = y],
         Moves(socks[k], y)
  PROVE  /\ Len(socks') = Len(socks)
         /\ \A j \in 1 .. Len(socks) :
               /\ socks'[j] = IF j = k THEN y ELSE socks[j]
               /\ Moves(socks[j], socks'[j])
         /\ SameEnd(socks[k], y) => SocketsMove
         /\ deaths' = deaths /\ Lives(socks[k], y) => NobodyDies
<1>1. /\ socks \in Seq(SocketShape) /\ socks' \in Seq(SocketShape)
  BY DEF FullInv, IInv, Shapes
<1>2. DOMAIN socks = 1 .. Len(socks) /\ DOMAIN socks' = 1 .. Len(socks')
  BY <1>1
<1>3. Len(socks) \in Nat /\ Len(socks') \in Nat /\ DOMAIN socks' = DOMAIN socks
  BY <1>1
<1>4. Len(socks') = Len(socks)
  BY <1>2, <1>3
<1>5. \A j \in 1 .. Len(socks) : socks'[j] = IF j = k THEN y ELSE socks[j]
  BY <1>2
<1>6. \A j \in 1 .. Len(socks) :
         /\ Moves(socks[j], socks[j]) /\ SameEnd(socks[j], socks[j])
         /\ Lives(socks[j], socks[j])
  BY Facts, MovesItself
<1> QED
  BY <1>4, <1>5, <1>6 DEF SocketsMove, NobodyDies

LEMMA NoneMoves ==
  ASSUME FullInv, UNCHANGED socks
  PROVE  SocketsMove /\ (deaths' = deaths => NobodyDies)
<1>1. \A j \in 1 .. Len(socks) :
         /\ Moves(socks[j], socks[j]) /\ SameEnd(socks[j], socks[j])
         /\ Lives(socks[j], socks[j])
  BY Facts, MovesItself
<1> QED
  BY <1>1 DEF SocketsMove, NobodyDies

(* The parts of Ordinary that hold because nothing is changed there.       *)
LEMMA Unchanged ==
  ASSUME FullInv
  PROVE  /\ UNCHANGED client => ClientsGoOn /\ CookiesComeHome
         /\ UNCHANGED <<pending, closing, sends, active, lastSession, home>> => BoundsStay
         /\ UNCHANGED mapped => OpenStaysMapped
BY DEF ClientsGoOn, CookiesComeHome, BoundsStay, OpenStaysMapped, FullInv, Bounded

-----------------------------------------------------------------------------
(* The server, but for the making and finding of sessions.                 *)
LEMMA CookieSentFull ==
  ASSUME FullInv, IInv', NEW k \in MadeSockets, CookieSent(k), UNCHANGED clientVars
  PROVE  FullInv'
<1>1. /\ pending' \subseteq pending
      /\ UNCHANGED <<mapped, active, lastSession, closing, home, socks, deaths, client, sends>>
  BY DEF CookieSent, clientVars
<1>2. BoundsStay
  BY <1>1 DEF BoundsStay, FullInv, Bounded
<1> QED
  BY <1>1, <1>2, Unchanged, NoneMoves, Ordinary

(* Nobody is open with the session of a cookie that was cut off.           *)
LEMMA CookieFailsFull ==
  ASSUME FullInv, IInv', NEW k \in MadeSockets, CookieFails(k), UNCHANGED clientVars
  PROVE  FullInv'
<1>1. /\ pending' \subseteq pending /\ socks[k].cut
      /\ mapped' = [mapped EXCEPT ![socks[k].session] = 0]
      /\ UNCHANGED <<active, lastSession, closing, home, socks, deaths, client, sends>>
  BY DEF CookieFails, clientVars
<1>2. BoundsStay
  BY <1>1 DEF BoundsStay, FullInv, Bounded
<1>3. k \in 1 .. Len(socks) /\ Fit(socks[k])
  BY Facts
<1>4. Carries(socks[k]) /\ socks[k].server # "open"
  BY <1>1, <1>3 DEF Carries, Fit
<1>5. \A j \in 1 .. Len(socks) :
         socks[j].server = "open" => socks[j].session # socks[k].session
  BY <1>3, <1>4 DEF FullInv, Secrets
<1>6. OpenStaysMapped
  <2>1. mapped \in [SessionIds -> Nat]
    BY Facts DEF Shapes
  <2>2. \A s : s # socks[k].session => mapped'[s] = mapped[s]
    BY <1>1, <2>1
  <2> QED
    BY <1>1, <1>5, <2>2 DEF OpenStaysMapped
<1> QED
  BY <1>1, <1>2, <1>6, Unchanged, NoneMoves, Ordinary

LEMMA ServerMessageFull ==
  ASSUME FullInv, IInv', NEW k \in MadeSockets, ServerMessage(k), UNCHANGED clientVars
  PROVE  FullInv'
<1> DEFINE y == [socks[k] EXCEPT !.toServer = Tail(@)]
<1>1. /\ socks[k].toServer # << >> /\ socks' = [socks EXCEPT ![k] = y]
      /\ UNCHANGED <<serverVars, deaths, client, sends>>
  BY DEF ServerMessage, clientVars
<1>2. k \in 1 .. Len(socks) /\ socks[k] \in SocketShape /\ Fit(socks[k])
  BY Facts
<1>3. Tail(socks[k].toServer) \in Seq({Data})
  <2>1. socks[k].toServer \in Seq({Data})
    BY <1>2 DEF SocketShape
  <2> QED
    BY <1>1, <2>1, TailSeq
<1>4. /\ y \in SocketShape
      /\ y.owner = socks[k].owner /\ y.cookie = socks[k].cookie
      /\ y.session = socks[k].session /\ y.client = socks[k].client
      /\ y.server = socks[k].server /\ y.cut = socks[k].cut
      /\ y.toClient = socks[k].toClient
  BY <1>2, <1>3 DEF SocketShape
<1> HIDE DEF y
<1>5. Dead(y) = Dead(socks[k]) /\ SameEnd(socks[k], y) /\ Lives(socks[k], y)
  BY <1>4 DEF Dead, SameEnd, Lives
<1>6. Moves(socks[k], y)
  BY <1>2, <1>4, <1>5, EndsMove DEF Fit
<1>7. SocketsMove /\ NobodyDies
  BY <1>1, <1>2, <1>5, <1>6, OneMoves
<1> QED
  BY <1>1, <1>7, Unchanged, Ordinary DEF serverVars

LEMMA ServerClosedFull ==
  ASSUME FullInv, IInv', NEW k \in MadeSockets, ServerClosed(k), UNCHANGED clientVars
  PROVE  FullInv'
<1> DEFINE y == [socks[k] EXCEPT !.server = "closed"]
<1>1. /\ socks[k].server = "lost" /\ socks' = [socks EXCEPT ![k] = y]
      /\ mapped' = Forget(k)
      /\ UNCHANGED <<active, lastSession, pending, closing, home, deaths, client, sends>>
  BY DEF ServerClosed, clientVars
<1>2. k \in 1 .. Len(socks) /\ socks[k] \in SocketShape /\ Fit(socks[k])
  BY Facts
<1>3. /\ y \in SocketShape
      /\ y.owner = socks[k].owner /\ y.cookie = socks[k].cookie
      /\ y.session = socks[k].session /\ y.client = socks[k].client
      /\ y.server = "closed" /\ y.cut = socks[k].cut
      /\ y.toClient = socks[k].toClient
  BY <1>2 DEF SocketShape
<1> HIDE DEF y
<1>4. Dead(y) = Dead(socks[k]) /\ SameEnd(socks[k], y) /\ Lives(socks[k], y)
  BY <1>3 DEF Dead, SameEnd, Lives
<1>5. Moves(socks[k], y)
  BY <1>1, <1>2, <1>3, <1>4, EndsMove
<1>6. SocketsMove /\ \A j \in 1 .. Len(socks) : socks'[j] = IF j = k THEN y ELSE socks[j]
  <2>1. k \in 1 .. Len(socks) /\ socks' = [socks EXCEPT ![k] = y]
    BY <1>1, <1>2
  <2>2. SocketsMove
    BY <2>1, <1>4, <1>5, OneMoves
  <2>3. \A j \in 1 .. Len(socks) : socks'[j] = IF j = k THEN y ELSE socks[j]
    BY <2>1, <1>5, OneMoves
  <2> QED
    BY <2>2, <2>3
<1>8. NobodyDies
  BY <1>1, <1>2, <1>4, <1>5, OneMoves
<1>7. OpenStaysMapped
  <2> SUFFICES ASSUME NEW j \in 1 .. Len(socks), socks'[j].server = "open",
                      socks[j].session \in active
               PROVE  mapped'[socks[j].session] = mapped[socks[j].session]
    BY <1>1 DEF OpenStaysMapped
  <2>1. j # k /\ socks[j].server = "open"
    BY <1>3, <1>6
  <2>2. mapped[socks[j].session] = j
    BY <2>1 DEF FullInv, Heard
  <2>3. socks[j].session \in SessionIds
    <3>1. socks[j].session \in Nat /\ socks[j].session # 0 /\ socks[j].session <= lastSession
      BY <2>1, Facts DEF SocketShape, Fit, FullInv, Fits
    <3> QED
      BY <3>1, Facts, MaxSocketsIsNat DEF SessionIds
  <2> QED
    BY <1>1, <2>1, <2>2, <2>3 DEF Forget
<1> QED
  BY <1>1, <1>6, <1>7, <1>8, Unchanged, Ordinary

LEMMA ServerSendFull ==
  ASSUME FullInv, IInv', NEW s \in SessionIds, Push(s)
  PROVE  FullInv'
<1> DEFINE k == mapped[s]
           y == [socks[k] EXCEPT !.toClient = Append(@, Data)]
<1>1. /\ k # 0 /\ socks[k].server = "open"
      /\ socks' = [socks EXCEPT ![k] = y]
      /\ sends < MaxSends /\ sends' = sends + 1
      /\ UNCHANGED <<serverVars, deaths, client>>
  BY DEF Push, ServerSend
<1>2. k \in 1 .. Len(socks)
  BY <1>1, Facts DEF Connections
<1>3. Moves(socks[k], y) /\ SameEnd(socks[k], y) /\ Lives(socks[k], y)
  BY <1>1, <1>2, Facts, DataMoves
<1> HIDE DEF k, y
<1>4. SocketsMove /\ NobodyDies
  BY <1>1, <1>2, <1>3, OneMoves
<1>5. BoundsStay
  BY <1>1, MaxSendsAssumption DEF BoundsStay, FullInv, Bounded, serverVars
<1> QED
  BY <1>1, <1>4, <1>5, Unchanged, Ordinary DEF serverVars

LEMMA CloseSessionFull ==
  ASSUME FullInv, IInv', NEW s \in SessionIds, CloseSession(s), UNCHANGED clientVars
  PROVE  FullInv'
<1> DEFINE k == mapped[s]
           y == Ended(socks[k])
<1>1. /\ k # 0 /\ socks' = [socks EXCEPT ![k] = y]
      /\ deaths < MaxDeaths /\ deaths' = deaths + 1
      /\ closing' = closing \cup {s}
      /\ UNCHANGED <<mapped, active, lastSession, pending, home, client, sends>>
  BY DEF CloseSession, Dies, clientVars
<1>2. k \in 1 .. Len(socks)
  BY <1>1, Facts DEF Connections
<1>3. Moves(socks[k], y) /\ SameEnd(socks[k], y)
  BY <1>2, Facts, EndedMoves
<1> HIDE DEF k, y
<1>4. SocketsMove
  BY <1>1, <1>2, <1>3, OneMoves
<1>5. OneDeath
  BY <1>1, Facts, MaxDeathsAssumption DEF OneDeath
<1>6. BoundsStay
  BY <1>1 DEF BoundsStay, FullInv, Bounded
<1> QED
  BY <1>1, <1>4, <1>5, <1>6, Unchanged, Ordinary

LEMMA CloseEndsFull ==
  ASSUME FullInv, IInv', NEW s \in SessionIds, CloseEnds(s), UNCHANGED clientVars
  PROVE  FullInv'
<1>1. /\ closing' = closing \ {s} /\ active' = active \ {s}
      /\ mapped' = [mapped EXCEPT ![s] = 0]
      /\ UNCHANGED <<lastSession, pending, home, socks, deaths, client, sends>>
  BY DEF CloseEnds, clientVars
<1>2. BoundsStay
  BY <1>1 DEF BoundsStay, FullInv, Bounded
<1>3. OpenStaysMapped
  <2>1. mapped \in [SessionIds -> Nat]
    BY Facts DEF Shapes
  <2>2. \A n \in active' : mapped'[n] = mapped[n]
    BY <1>1, <2>1
  <2> QED
    BY <2>2 DEF OpenStaysMapped
<1> QED
  BY <1>1, <1>2, <1>3, Unchanged, NoneMoves, Ordinary

LEMMA RestartFull ==
  ASSUME FullInv, IInv', Restart, UNCHANGED clientVars
  PROVE  FullInv'
<1> DEFINE y(k) == IF socks[k].server \in {"open", "lost"}
                   THEN [Broken(socks[k]) EXCEPT !.server = "closed"]
                   ELSE socks[k]
<1>1. /\ socks' = [k \in DOMAIN socks |-> y(k)]
      /\ deaths < MaxDeaths /\ deaths' = deaths + 1
      /\ active' = {} /\ pending' = {} /\ closing' = {}
      /\ UNCHANGED <<lastSession, home, client, sends>>
  BY DEF Restart, Dies, NextId, clientVars
<1>2. ASSUME NEW k \in 1 .. Len(socks)
      PROVE  Moves(socks[k], y(k)) /\ SameEnd(socks[k], y(k))
  <2>1. socks[k] \in SocketShape /\ Fit(socks[k])
    BY Facts
  <2> QED
    BY <2>1, BrokenMoves, MovesItself
<1> HIDE DEF y
<1>3. SocketsMove
  <2>1. DOMAIN socks = 1 .. Len(socks) /\ DOMAIN socks' = 1 .. Len(socks')
    BY DEF FullInv, IInv, Shapes
  <2>2. Len(socks) \in Nat /\ Len(socks') \in Nat
    BY DEF FullInv, IInv, Shapes
  <2>3. Len(socks') = Len(socks)
    BY <1>1, <2>1, <2>2
  <2> QED
    BY <1>1, <1>2, <2>1, <2>3 DEF SocketsMove
<1>4. BoundsStay
  BY <1>1 DEF BoundsStay, FullInv, Bounded
<1>5. OneDeath
  BY <1>1, Facts, MaxDeathsAssumption DEF OneDeath
<1>6. OpenStaysMapped
  BY <1>1 DEF OpenStaysMapped
<1> QED
  BY <1>1, <1>3, <1>4, <1>5, <1>6, Unchanged, Ordinary

-----------------------------------------------------------------------------
(* A socket is accepted.                                                   *)
LEMMA FreeSocket ==
  ASSUME Made, lastSession \in Nat, Len(socks) \in Nat,
         NEW k \in 1 .. Len(socks), socks[k].server = "none"
  PROVE  lastSession + 1 <= Len(socks)
<1> DEFINE n == Len(socks)
           m == lastSession + 1
<1>1. PICK g \in [1 .. lastSession -> 1 .. n] :
         /\ \A s, t \in 1 .. lastSession : s # t => g[s] # g[t]
         /\ \A s \in 1 .. lastSession : socks[g[s]].server # "none"
  BY DEF Made
<1> DEFINE h == [s \in 1 .. m |-> IF s = m THEN k ELSE g[s]]
<1>2. \A s \in 1 .. m : s = m \/ s \in 1 .. lastSession
  OBVIOUS
<1>3. /\ h[m] = k
      /\ \A s \in 1 .. lastSession : h[s] = g[s] /\ g[s] # k /\ g[s] \in 1 .. n
  BY <1>1
<1>4. h \in [1 .. m -> 1 .. n]
  BY <1>1, <1>2
<1> HIDE DEF h
<1>5. \A s, t \in 1 .. m : h[s] = h[t] => s = t
  BY <1>1, <1>2, <1>3
<1>6. h \in Injection(1 .. m, 1 .. n)
  BY <1>4, <1>5 DEF Injection, IsInjective
<1>7. IsFiniteSet(1 .. n) /\ Cardinality(1 .. n) = n /\ Cardinality(1 .. m) = m /\ m \in Nat
  <2>1. m \in Nat
    OBVIOUS
  <2> QED
    BY <2>1, FirstNumbers
<1> HIDE DEF m, n
<1>8. m <= n
  BY <1>6, <1>7, FS_Injection, SMTT(30)
<1> QED
  BY <1>8 DEF m, n

LEMMA AcceptFull ==
  ASSUME FullInv, IInv', NEW k \in 1 .. Len(socks), NEW s \in SessionIds, NEW y \in SocketShape,
         socks[k].client = "connecting", y.client = "connecting",
         socks[k].server = "none", y.server = "open",
         y.owner = socks[k].owner, y.session = s, Fit(y),
         socks' = [socks EXCEPT ![k] = y], mapped' = [mapped EXCEPT ![s] = k],
         \A j \in 1 .. Len(socks) : j # k /\ socks[j].server = "open" => socks[j].session # s,
         Made', Secrets', Homes',
         lastSession' \in Nat, lastSession <= lastSession', s <= lastSession',
         active' \subseteq active \cup {s}, pending' \subseteq pending \cup {k},
         home' \in [SessionIds -> {{}} \cup {{c} : c \in Clients}],
         UNCHANGED <<client, sends, closing, deaths>>
  PROVE  FullInv'
<1>0. /\ Len(socks) \in Nat /\ lastSession \in Nat /\ deaths \in Nat
      /\ socks \in Seq(SocketShape) /\ mapped \in [SessionIds -> Nat]
      /\ \A j \in 1 .. Len(socks) :
            socks[j] \in SocketShape /\ Fit(socks[j]) /\ socks[j].owner \in Clients
  BY Facts DEF Shapes
<1>1. /\ Len(socks') = Len(socks)
      /\ \A j \in 1 .. Len(socks) : socks'[j] = IF j = k THEN y ELSE socks[j]
  BY <1>0, ExceptSeq
<1>2. Fits'
  <2>1. \A j \in 1 .. Len(socks) : socks[j].session \in Nat /\ socks[j].session <= lastSession
    BY <1>0 DEF FullInv, Fits, SocketShape
  <2>2. \A j \in 1 .. Len(socks) : Fit(socks'[j]) /\ socks'[j].session <= lastSession'
    BY <1>0, <1>1, <2>1
  <2> QED
    BY <1>1, <2>2 DEF Fits, Fit, Dead, Cookies
<1>3. \A j \in 1 .. Len(socks) :
         /\ socks'[j].owner = socks[j].owner /\ SameEnd(socks[j], socks'[j])
         /\ Dead(socks'[j]) = Dead(socks[j])
  BY <1>1 DEF SameEnd, Dead
<1>4. Ways'
  <2>1. Ways /\ Len(socks') = Len(socks)
    BY <1>1 DEF FullInv
  <2>2. \A c \in Clients :
           /\ client'[c].socket = client[c].socket
           /\ client'[c].timer = client[c].timer /\ client'[c].final = client[c].final
    OBVIOUS
  <2> QED
    BY <1>0, <1>3, <2>1, <2>2, WaysStay
<1>5. Born'
  BY <1>0, <1>1, <1>3, BornStays DEF FullInv, MayAppend, Lives
<1>6. Heard'
  <2> SUFFICES ASSUME NEW j \in 1 .. Len(socks),
                      socks'[j].server = "open", socks'[j].session \in active'
               PROVE  mapped'[socks'[j].session] = j
    BY <1>1 DEF Heard
  <2>1. CASE j = k
    BY <1>0, <1>1, <2>1
  <2>2. CASE j # k
    <3>1. /\ socks'[j] = socks[j] /\ socks[j].session # s
          /\ socks[j].session \in active
      BY <1>1, <2>2
    <3>2. mapped[socks[j].session] = j
      BY <3>1 DEF FullInv, Heard
    <3> QED
      BY <1>0, <3>1, <3>2
  <2> QED
    BY <2>1, <2>2
<1>7. Bounded'
  <2>1. 0 \notin active'
    BY SessionIdsAreNat DEF FullInv, Bounded
  <2>2. pending' \subseteq 1 .. Len(socks')
    BY <1>1 DEF FullInv, Bounded
  <2> QED
    BY <2>1, <2>2 DEF FullInv, Bounded
<1> QED
  BY <1>2, <1>4, <1>5, <1>6, <1>7 DEF FullInv

(* Whoever brings a cookie is the one client with sockets of the session,  *)
(* and has no other open socket.                                           *)
LEMMA RecoverSessionFull ==
  ASSUME FullInv, IInv', NEW k \in MadeSockets, RecoverSession(k), UNCHANGED clientVars
  PROVE  FullInv'
<1> DEFINE s == socks[k].cookie
           y == [socks[k] EXCEPT !.server = "open", !.session = s, !.toClient = <<Open>>]
<1>1. /\ socks[k].client = "connecting" /\ socks[k].server = "none" /\ s \in active
      /\ mapped' = [mapped EXCEPT ![s] = k]
      /\ socks' = [socks EXCEPT ![k] = y]
      /\ UNCHANGED <<active, lastSession, pending, closing, home, deaths, client, sends>>
  BY DEF RecoverSession, Accepts, Accepted, clientVars
<1>2. /\ k \in 1 .. Len(socks) /\ socks[k] \in SocketShape /\ Fit(socks[k])
      /\ Len(socks) \in Nat /\ lastSession \in Nat /\ socks \in Seq(SocketShape)
  BY Facts DEF Shapes
<1>3. s \in Nat /\ s # 0 /\ s <= lastSession /\ s \in SessionIds
  BY <1>1, Facts, MaxSocketsIsNat DEF Shapes, FullInv, Bounded, SessionIds
<1>4. socks[k].owner \in home[s] /\ home[s] = {socks[k].owner}
  <2>1. socks[k].owner \in home[s]
    BY <1>2, <1>3, Facts DEF Holders, Owned
  <2>2. home[s] \in {{}} \cup {{c} : c \in Clients}
    BY <1>3 DEF FullInv, Bounded
  <2> QED
    BY <2>1, <2>2
<1>5. <<Open>> \in Seq(MsgShape) /\ Len(<<Open>>) = 1 /\ <<Open>>[1] = Open
  BY DEF Open, MsgShape
<1>6. /\ y \in SocketShape /\ y.client = "connecting" /\ y.server = "open"
      /\ y.owner = socks[k].owner /\ y.cookie = s /\ y.session = s
      /\ y.cut = socks[k].cut /\ y.toClient = <<Open>>
  BY <1>1, <1>2, <1>3, <1>5 DEF SocketShape
<1> HIDE DEF s, y
<1>7. ~y.cut /\ Cookies(y) = {}
  BY <1>1, <1>2, <1>5, <1>6 DEF Fit, Cookies, Open
<1>8. Fit(y) /\ ~Carries(y)
  BY <1>3, <1>5, <1>6, <1>7 DEF Fit, Carries, Dead, Open
<1>9. /\ Len(socks') = Len(socks)
      /\ \A j \in 1 .. Len(socks) : socks'[j] = IF j = k THEN y ELSE socks[j]
  BY <1>1, <1>2, <1>6, ExceptSeq
<1>10. ASSUME NEW j \in 1 .. Len(socks), j # k, socks[j].server = "open"
       PROVE  socks[j].session # s
  <2> SUFFICES ASSUME socks[j].session = s PROVE FALSE
    OBVIOUS
  <2>1. socks[j].owner = socks[k].owner
    BY <1>4, <1>10 DEF FullInv, Homes
  <2>2. socks[j].client # "closed" /\ socks[k].client # "closed"
    BY <1>1, <1>10, Facts DEF Fit, Dead
  <2> QED
    BY <1>2, <1>10, <2>1, <2>2 DEF FullInv, Ways
<1>11. Made'
  BY <1>1, <1>2, <1>6, <1>9, MadeStays DEF FullInv
<1>12. Secrets'
  <2> SUFFICES ASSUME NEW j \in 1 .. Len(socks), Carries(socks'[j])
               PROVE  /\ \A c \in Clients : client[c].cookie # socks'[j].session
                      /\ \A i \in 1 .. Len(socks) : socks'[i].cookie # socks'[j].session
                      /\ \A i \in 1 .. Len(socks) : i # j => socks'[i].session # socks'[j].session
    BY <1>1, <1>9 DEF Secrets, Carries, Cookies
  <2>1. j # k /\ socks'[j] = socks[j] /\ Carries(socks[j])
    BY <1>8, <1>9
  <2>2. /\ \A c \in Clients : client[c].cookie # socks[j].session
        /\ \A i \in 1 .. Len(socks) : socks[i].cookie # socks[j].session
        /\ \A i \in 1 .. Len(socks) : i # j => socks[i].session # socks[j].session
    BY <2>1 DEF FullInv, Secrets
  <2>3. s # socks[j].session
    BY <1>2, <2>2 DEF s
  <2> QED
    BY <1>6, <1>9, <2>1, <2>2, <2>3
<1>13. Homes'
  BY <1>1, <1>4, <1>6, <1>9 DEF FullInv, Homes
<1>14. /\ lastSession' \in Nat /\ lastSession <= lastSession' /\ s <= lastSession'
       /\ active' \subseteq active \cup {s} /\ pending' \subseteq pending \cup {k}
       /\ home' \in [SessionIds -> {{}} \cup {{c} : c \in Clients}]
  BY <1>1, <1>2, <1>3 DEF FullInv, Bounded
<1>15. /\ socks[k].client = "connecting" /\ socks[k].server = "none"
       /\ socks' = [socks EXCEPT ![k] = y] /\ mapped' = [mapped EXCEPT ![s] = k]
       /\ UNCHANGED <<client, sends, closing, deaths>>
  BY <1>1
<1> QED
  BY <1>2, <1>3, <1>6, <1>8, <1>10, <1>11, <1>12, <1>13, <1>14, <1>15, AcceptFull

LEMMA NewSessionFull ==
  ASSUME FullInv, IInv', NEW k \in MadeSockets, NewSession(k), UNCHANGED clientVars
  PROVE  FullInv'
<1> DEFINE s == lastSession + 1
           q == <<Open, Cookie(s)>>
           y == [socks[k] EXCEPT !.server = "open", !.session = s, !.toClient = q]
<1>1. /\ socks[k].client = "connecting" /\ socks[k].server = "none"
      /\ lastSession' = s /\ active' = active \cup {s}
      /\ mapped' = [mapped EXCEPT ![s] = k]
      /\ home' = [home EXCEPT ![s] = {socks[k].owner}]
      /\ socks' = [socks EXCEPT ![k] = y]
      /\ pending' = pending \cup {k}
      /\ UNCHANGED <<closing, deaths, client, sends>>
  BY DEF NewSession, Accepts, Accepted, clientVars
<1>2. /\ k \in 1 .. Len(socks) /\ socks[k] \in SocketShape /\ Fit(socks[k])
      /\ Len(socks) \in Nat /\ lastSession \in Nat /\ socks \in Seq(SocketShape)
      /\ socks[k].owner \in Clients
  BY Facts DEF Shapes
<1>3. s \in Nat /\ s # 0 /\ s \in SessionIds
  <2>1. lastSession + 1 <= Len(socks)
    BY <1>1, <1>2, FreeSocket DEF FullInv
  <2> QED
    BY <1>2, <2>1, Facts, MaxSocketsIsNat DEF SessionIds
<1>4. /\ q \in Seq(MsgShape) /\ Len(q) = 2 /\ q[1] = Open /\ q[2] = Cookie(s)
  BY <1>3 DEF Open, Cookie, MsgShape
<1>5. /\ y \in SocketShape /\ y.client = "connecting" /\ y.server = "open"
      /\ y.owner = socks[k].owner /\ y.cookie = socks[k].cookie /\ y.session = s
      /\ y.cut = socks[k].cut /\ y.toClient = q
  BY <1>1, <1>2, <1>3, <1>4 DEF SocketShape
<1> HIDE DEF s, q, y
<1>6. ~y.cut /\ Cookies(y) \subseteq {s}
  <2>1. ~y.cut
    BY <1>1, <1>2, <1>5 DEF Fit
  <2>2. ASSUME NEW n \in Cookies(y)
        PROVE  n = s
    <3>1. PICK i \in 1 .. 2 : q[i].type = "cookie" /\ q[i].session = n
      BY <1>4, <1>5, <2>2 DEF Cookies
    <3>2. i = 2
      BY <1>4, <3>1 DEF Open
    <3> QED
      BY <1>4, <3>1, <3>2 DEF Cookie
  <2> QED
    BY <2>1, <2>2
<1>7. Fit(y)
  <2>1. \A i, j \in 1 .. Len(q) : q[i].type = "cookie" /\ q[j].type = "cookie" => i = j
    BY <1>4 DEF Open
  <2>2. \A i \in 1 .. Len(q) : q[i].type # "cookie" => q[i].session = 0
    BY <1>4 DEF Open, Cookie
  <2> QED
    BY <1>3, <1>5, <1>6, <2>1, <2>2 DEF Fit, Dead
<1>8. /\ Len(socks') = Len(socks)
      /\ \A j \in 1 .. Len(socks) : socks'[j] = IF j = k THEN y ELSE socks[j]
  BY <1>1, <1>2, <1>5, ExceptSeq
<1>9. /\ \A j \in 1 .. Len(socks) :
            /\ socks[j].session \in Nat /\ socks[j].session # s
            /\ socks[j].cookie # s
      /\ \A c \in Clients : client[c].cookie # s
  <2>1. /\ \A j \in 1 .. Len(socks) :
              /\ socks[j].session \in Nat /\ socks[j].cookie \in Nat
              /\ socks[j].session <= lastSession /\ socks[j].cookie <= lastSession
        /\ \A c \in Clients : client[c].cookie \in Nat /\ client[c].cookie <= lastSession
    BY Facts DEF FullInv, Fits, SocketShape, ClientShape, Holders, Owned
  <2> QED
    BY <1>2, <2>1 DEF s
<1>10. Made'
  <2>1. socks'[k].server # "none" /\ \A j \in 1 .. Len(socks) : j # k => socks'[j] = socks[j]
    BY <1>2, <1>5, <1>8
  <2>2. Made /\ lastSession' = lastSession + 1
    BY <1>1 DEF FullInv, s
  <2> QED
    BY <1>1, <1>2, <1>8, <2>1, <2>2, MadeGrows
<1>11. Secrets'
  <2> SUFFICES ASSUME NEW j \in 1 .. Len(socks), Carries(socks'[j])
               PROVE  /\ \A c \in Clients : client[c].cookie # socks'[j].session
                      /\ \A i \in 1 .. Len(socks) : socks'[i].cookie # socks'[j].session
                      /\ \A i \in 1 .. Len(socks) : i # j => socks'[i].session # socks'[j].session
    BY <1>1, <1>8 DEF Secrets, Carries, Cookies
  <2>1. CASE j = k
    BY <1>5, <1>8, <1>9, <2>1
  <2>2. CASE j # k
    <3>1. /\ \A c \in Clients : client[c].cookie # socks[j].session
          /\ \A i \in 1 .. Len(socks) : socks[i].cookie # socks[j].session
          /\ \A i \in 1 .. Len(socks) : i # j => socks[i].session # socks[j].session
      BY <1>8, <2>2 DEF FullInv, Secrets
    <3> QED
      BY <1>5, <1>8, <1>9, <2>2, <3>1
  <2> QED
    BY <2>1, <2>2
<1>12. /\ home' \in [SessionIds -> {{}} \cup {{c} : c \in Clients}]
       /\ \A n \in SessionIds : home'[n] = IF n = s THEN {socks[k].owner} ELSE home[n]
  <2>1. home \in [SessionIds -> {{}} \cup {{c} : c \in Clients}]
    BY DEF FullInv, Bounded
  <2> QED
    BY <1>1, <1>2, <2>1
<1>13. Homes'
  <2> SUFFICES ASSUME NEW j \in 1 .. Len(socks), socks'[j].server # "none"
               PROVE  home'[socks'[j].session] = {socks'[j].owner}
    BY <1>8 DEF Homes
  <2>1. CASE j = k
    BY <1>3, <1>5, <1>8, <1>12, <2>1
  <2>2. CASE j # k
    <3>1. socks'[j] = socks[j]
      BY <1>8, <2>2
    <3>2. socks[j].session \in Nat /\ socks[j].session # 0 /\ socks[j].session <= lastSession
      BY <3>1, Facts DEF FullInv, Fits, Fit, SocketShape
    <3>3. socks[j].session \in SessionIds
      BY <3>2, Facts, MaxSocketsIsNat DEF SessionIds
    <3> QED
      BY <1>9, <1>12, <3>1, <3>3 DEF FullInv, Homes
  <2> QED
    BY <2>1, <2>2
<1>14. lastSession' \in Nat /\ lastSession <= lastSession' /\ s <= lastSession'
  BY <1>1, <1>2 DEF s
<1> QED
  BY <1>1, <1>2, <1>3, <1>5, <1>7, <1>9, <1>10, <1>11, <1>12, <1>13, <1>14, AcceptFull

-----------------------------------------------------------------------------
(* The clients and the links, but for new sockets.                         *)
LEMMA BreakFull ==
  ASSUME FullInv, IInv', NEW k \in MadeSockets, Break(k), UNCHANGED <<serverVars, clientVars>>
  PROVE  FullInv'
<1> DEFINE y == Broken(socks[k])
<1>1. /\ socks' = [socks EXCEPT ![k] = y]
      /\ deaths < MaxDeaths /\ deaths' = deaths + 1
      /\ UNCHANGED <<serverVars, client, sends>>
  BY DEF Break, Dies, clientVars
<1>2. k \in 1 .. Len(socks) /\ Moves(socks[k], y) /\ SameEnd(socks[k], y)
  <2>1. k \in 1 .. Len(socks) /\ socks[k] \in SocketShape /\ Fit(socks[k])
    BY Facts
  <2> QED
    BY <2>1, BrokenMoves
<1> HIDE DEF y
<1>3. SocketsMove
  BY <1>1, <1>2, OneMoves
<1>4. OneDeath
  BY <1>1, Facts, MaxDeathsAssumption DEF OneDeath
<1> QED
  BY <1>1, <1>3, <1>4, Unchanged, Ordinary DEF serverVars

LEMMA ClientEndFull ==
  ASSUME FullInv, IInv', NEW c \in Clients, Close(c) \/ DestroyClient(c), UNCHANGED serverVars
  PROVE  FullInv'
<1> DEFINE k == client[c].socket
           y == EndedByClient(socks[k])
<1>1. /\ k # 0 /\ socks' = [socks EXCEPT ![k] = y]
      /\ deaths < MaxDeaths /\ deaths' = deaths + 1
      /\ UNCHANGED <<serverVars, sends>>
  BY DEF Close, DestroyClient, Dies
<1>2. k \in 1 .. Len(socks) /\ Moves(socks[k], y) /\ SameEnd(socks[k], y)
  <2>1. k \in 1 .. Len(socks)
    BY <1>1 DEF FullInv, Ways
  <2>2. socks[k] \in SocketShape /\ Fit(socks[k])
    BY <2>1, Facts
  <2> QED
    BY <2>1, <2>2, EndedByClientMoves
<1>3. ClientsGoOn /\ CookiesComeHome
  <2>1. CASE Close(c)
    <3> DEFINE cl == [client[c] EXCEPT !.closed = TRUE]
    <3>1. client' = [client EXCEPT ![c] = cl]
      BY <2>1 DEF Close
    <3>2. /\ cl.socket = client[c].socket /\ cl.cookie = client[c].cookie
          /\ cl.timer = client[c].timer /\ cl.final = client[c].final
      BY Facts DEF ClientShape
    <3> HIDE DEF cl
    <3>3. \A d \in Clients : client'[d] = IF d = c THEN cl ELSE client[d]
      BY <3>1, Facts DEF Shapes
    <3> QED
      BY <3>2, <3>3 DEF ClientsGoOn, CookiesComeHome
  <2>2. CASE DestroyClient(c)
    <3> DEFINE cl == [client[c] EXCEPT !.final = TRUE, !.opened = FALSE, !.timer = FALSE]
    <3>1. client' = [client EXCEPT ![c] = cl]
      BY <2>2 DEF DestroyClient
    <3>2. /\ cl.socket = client[c].socket /\ cl.cookie = client[c].cookie
          /\ cl.timer = FALSE /\ cl.final = TRUE
      BY Facts DEF ClientShape
    <3> HIDE DEF cl
    <3>3. \A d \in Clients : client'[d] = IF d = c THEN cl ELSE client[d]
      BY <3>1, Facts DEF Shapes
    <3> QED
      BY <3>2, <3>3 DEF ClientsGoOn, CookiesComeHome
  <2> QED
    BY <2>1, <2>2
<1> HIDE DEF k, y
<1>4. SocketsMove
  BY <1>1, <1>2, OneMoves
<1>5. OneDeath
  BY <1>1, Facts, MaxDeathsAssumption DEF OneDeath
<1>6. BoundsStay /\ OpenStaysMapped
  BY <1>1, Unchanged DEF serverVars
<1> QED
  BY <1>3, <1>4, <1>5, <1>6, Ordinary

(* The message to the server is added; the rest is as it was.              *)
LEMMA SentMoves ==
  ASSUME NEW x \in SocketShape, Fit(x)
  PROVE  LET y == [x EXCEPT !.toServer = Append(@, Data)]
         IN  Moves(x, y) /\ SameEnd(x, y) /\ Lives(x, y)
<1> DEFINE y == [x EXCEPT !.toServer = Append(@, Data)]
<1>1. Append(x.toServer, Data) \in Seq({Data})
  <2>1. x.toServer \in Seq({Data})
    BY DEF SocketShape
  <2> QED
    BY <2>1, AppendSeq
<1>2. /\ y \in SocketShape
      /\ y.owner = x.owner /\ y.cookie = x.cookie /\ y.session = x.session
      /\ y.client = x.client /\ y.server = x.server /\ y.cut = x.cut
      /\ y.toClient = x.toClient
  BY <1>1 DEF SocketShape
<1> HIDE DEF y
<1>3. Dead(y) = Dead(x) /\ SameEnd(x, y) /\ Lives(x, y)
  BY <1>2 DEF Dead, SameEnd, Lives
<1>4. Moves(x, y)
  BY <1>2, <1>3, EndsMove DEF Fit
<1> QED
  BY <1>3, <1>4 DEF y

LEMMA SendFull ==
  ASSUME FullInv, IInv', NEW c \in Clients, Send(c), UNCHANGED serverVars
  PROVE  FullInv'
<1> DEFINE k == client[c].socket
           y == [socks[k] EXCEPT !.toServer = Append(@, Data)]
           cl == [client[c] EXCEPT !.caller = "waiting"]
<1>1. /\ k # 0 /\ sends < MaxSends /\ sends' = sends + 1
      /\ UNCHANGED <<serverVars, deaths>>
  BY DEF Send
<1>2. UNCHANGED socks \/ socks' = [socks EXCEPT ![k] = y]
  BY DEF Send
<1>3. UNCHANGED client \/ client' = [client EXCEPT ![c] = cl]
  BY DEF Send
<1>4. k \in 1 .. Len(socks)
  BY <1>1 DEF FullInv, Ways
<1>5. Moves(socks[k], y) /\ SameEnd(socks[k], y) /\ Lives(socks[k], y)
  BY <1>4, Facts, SentMoves
<1>6. ClientsGoOn /\ CookiesComeHome
  <2>1. CASE UNCHANGED client
    BY <2>1, Unchanged
  <2>2. CASE client' = [client EXCEPT ![c] = cl]
    <3>1. /\ cl.socket = client[c].socket /\ cl.cookie = client[c].cookie
          /\ cl.timer = client[c].timer /\ cl.final = client[c].final
      BY Facts DEF ClientShape
    <3> HIDE DEF cl
    <3>2. \A d \in Clients : client'[d] = IF d = c THEN cl ELSE client[d]
      BY <2>2, Facts DEF Shapes
    <3> QED
      BY <3>1, <3>2 DEF ClientsGoOn, CookiesComeHome
  <2> QED
    BY <1>3, <2>1, <2>2
<1> HIDE DEF k, y, cl
<1>7. SocketsMove /\ NobodyDies
  <2>1. CASE UNCHANGED socks
    BY <1>1, <2>1, NoneMoves
  <2>2. CASE socks' = [socks EXCEPT ![k] = y]
    BY <1>1, <1>4, <1>5, <2>2, OneMoves
  <2> QED
    BY <1>2, <2>1, <2>2
<1>8. BoundsStay
  BY <1>1, MaxSendsAssumption DEF BoundsStay, FullInv, Bounded, serverVars
<1>9. OpenStaysMapped
  BY <1>1, Unchanged DEF serverVars
<1> QED
  BY <1>6, <1>7, <1>8, <1>9, Ordinary

LEMMA HandleOpenFull ==
  ASSUME FullInv, IInv', NEW k \in MadeSockets, HandleOpen(k), UNCHANGED serverVars
  PROVE  FullInv'
<1> DEFINE c == socks[k].owner
           end == IF socks[k].client = "connecting" THEN "open" ELSE socks[k].client
           y == [socks[k] EXCEPT !.client = end, !.toClient = Tail(@)]
           cl == [client[c] EXCEPT !.opened = TRUE, !.wasOpen = TRUE, !.waiting = TRUE]
<1>1. /\ socks[k].client = "connecting" \/ socks[k].client = "lost"
      /\ socks[k].toClient # << >>
      /\ socks' = [socks EXCEPT ![k] = y]
      /\ UNCHANGED client \/ client' = [client EXCEPT ![c] = cl]
      /\ UNCHANGED <<serverVars, deaths, sends>>
  BY DEF HandleOpen, WaitsForCookie
<1>2. /\ k \in 1 .. Len(socks) /\ socks[k] \in SocketShape /\ Fit(socks[k])
      /\ c \in Clients /\ client[c] \in ClientShape
  BY Facts
<1>3. /\ y \in SocketShape
      /\ y.owner = socks[k].owner /\ y.cookie = socks[k].cookie
      /\ y.session = socks[k].session /\ y.client = end
      /\ y.server = socks[k].server /\ y.cut = socks[k].cut
      /\ y.toClient = Tail(socks[k].toClient)
  <2>1. socks[k].toClient \in Seq(MsgShape)
    BY <1>2 DEF SocketShape
  <2>2. Tail(socks[k].toClient) \in Seq(MsgShape)
    BY <1>1, <2>1, TailSeq
  <2>3. end \in {"connecting", "open", "lost", "closed"}
    BY <1>2 DEF SocketShape
  <2> HIDE DEF end
  <2> QED
    BY <1>2, <2>2, <2>3 DEF SocketShape
<1>4. ClientsGoOn /\ CookiesComeHome
  <2>1. CASE UNCHANGED client
    BY <2>1, Unchanged
  <2>2. CASE client' = [client EXCEPT ![c] = cl]
    <3>1. /\ cl.socket = client[c].socket /\ cl.cookie = client[c].cookie
          /\ cl.timer = client[c].timer /\ cl.final = client[c].final
      BY <1>2 DEF ClientShape
    <3> HIDE DEF cl, c
    <3>2. \A d \in Clients : client'[d] = IF d = c THEN cl ELSE client[d]
      BY <2>2, Facts DEF Shapes
    <3> QED
      BY <3>1, <3>2 DEF ClientsGoOn, CookiesComeHome
  <2> QED
    BY <1>1, <2>1, <2>2
<1> HIDE DEF c, y, cl
<1>5. Dead(y) = Dead(socks[k]) /\ SameEnd(socks[k], y) /\ Lives(socks[k], y)
  BY <1>1, <1>3 DEF Dead, SameEnd, Lives
<1>6. Moves(socks[k], y)
  BY <1>1, <1>2, <1>3, <1>5, TakenMoves
<1>7. SocketsMove /\ NobodyDies
  BY <1>1, <1>2, <1>5, <1>6, OneMoves
<1>8. BoundsStay /\ OpenStaysMapped
  BY <1>1, Unchanged DEF serverVars
<1> QED
  BY <1>4, <1>7, <1>8, Ordinary

(* The cookie that a client takes is that of the socket it came by, which  *)
(* carries it no more.                                                     *)
LEMMA HandleMessageFull ==
  ASSUME FullInv, IInv', NEW k \in MadeSockets, HandleMessage(k), UNCHANGED serverVars
  PROVE  FullInv'
<1> DEFINE c == socks[k].owner
           msg == Head(socks[k].toClient)
           x == [socks[k] EXCEPT !.toClient = Tail(@)]
           y == [x EXCEPT !.toServer = Append(@, Data)]
           cookie == IF msg.type = "cookie" THEN msg.session ELSE client[c].cookie
           caller == IF client[c].caller = "waiting" THEN "none" ELSE client[c].caller
           cl == [client[c] EXCEPT !.waiting = FALSE, !.resolved = TRUE,
                                   !.cookie = cookie, !.caller = caller]
<1>1. /\ socks[k].toClient # << >>
      /\ UNCHANGED <<serverVars, deaths, sends>>
  BY DEF HandleMessage
<1>2. /\ socks' \in {[socks EXCEPT ![k] = x], [socks EXCEPT ![k] = y]}
      /\ UNCHANGED client \/ client' = [client EXCEPT ![c] = cl]
  <2> DEFINE taken == [socks EXCEPT ![k] = x]
  <2>1. k \in DOMAIN socks
    BY DEF MadeSockets
  <2>2. [taken EXCEPT ![k].toServer = Append(@, Data)] = [socks EXCEPT ![k] = y]
    BY <2>1
  <2>3. Released(taken, k, client[c]) \in {taken, [socks EXCEPT ![k] = y]}
    BY <2>2 DEF Released
  <2>4. CASE client[c].final \/ ~client[c].waiting
    BY <2>4 DEF HandleMessage
  <2>5. CASE ~(client[c].final \/ ~client[c].waiting)
    <3>1. socks' = Released(taken, k, client[c])
      BY <2>5 DEF HandleMessage
    <3>2. client' = [client EXCEPT ![c].waiting = FALSE, ![c].resolved = TRUE,
                       ![c].cookie = IF msg.type = "cookie" THEN msg.session ELSE @,
                       ![c].caller = IF @ = "waiting" THEN "none" ELSE @]
      BY <2>5 DEF HandleMessage
    <3> QED
      BY <2>3, <3>1, <3>2
  <2> QED
    BY <2>4, <2>5
<1>3. /\ k \in 1 .. Len(socks) /\ socks[k] \in SocketShape /\ Fit(socks[k])
      /\ c \in Clients /\ client[c] \in ClientShape
  BY Facts
<1>4. /\ x \in SocketShape
      /\ x.owner = socks[k].owner /\ x.cookie = socks[k].cookie
      /\ x.session = socks[k].session /\ x.client = socks[k].client
      /\ x.server = socks[k].server /\ x.cut = socks[k].cut
      /\ x.toClient = Tail(socks[k].toClient)
  <2>1. socks[k].toClient \in Seq(MsgShape)
    BY <1>3 DEF SocketShape
  <2>2. Tail(socks[k].toClient) \in Seq(MsgShape)
    BY <1>1, <2>1, TailSeq
  <2> QED
    BY <1>3, <2>2 DEF SocketShape
<1>5. /\ y \in SocketShape
      /\ y.owner = socks[k].owner /\ y.cookie = socks[k].cookie
      /\ y.session = socks[k].session /\ y.client = socks[k].client
      /\ y.server = socks[k].server /\ y.cut = socks[k].cut
      /\ y.toClient = Tail(socks[k].toClient)
  <2>1. Append(x.toServer, Data) \in Seq({Data})
    <3>1. x.toServer \in Seq({Data})
      BY <1>4 DEF SocketShape
    <3> QED
      BY <3>1, AppendSeq
  <2> HIDE DEF x
  <2> QED
    BY <1>4, <2>1 DEF SocketShape
<1> HIDE DEF x, y
<1>6. PICK z \in SocketShape :
        /\ socks' = [socks EXCEPT ![k] = z]
        /\ z.owner = socks[k].owner /\ z.cookie = socks[k].cookie
        /\ z.session = socks[k].session /\ z.client = socks[k].client
        /\ z.server = socks[k].server /\ z.cut = socks[k].cut
        /\ z.toClient = Tail(socks[k].toClient)
  BY <1>2, <1>4, <1>5
<1>7. Dead(z) = Dead(socks[k]) /\ SameEnd(socks[k], z) /\ Lives(socks[k], z)
  BY <1>6 DEF Dead, SameEnd, Lives
<1>8. /\ Moves(socks[k], z)
      /\ msg.type = "cookie" =>
            msg.session = socks[k].session /\ Carries(socks[k]) /\ ~Carries(z)
  BY <1>1, <1>3, <1>6, <1>7, TakenMoves
<1>9. SocketsMove /\ NobodyDies
  BY <1>1, <1>3, <1>6, <1>7, <1>8, OneMoves
<1>10. socks'[k] = z
  BY <1>3, <1>6, <1>8, OneMoves
<1>11. ClientsGoOn /\ CookiesComeHome
  <2>1. CASE UNCHANGED client
    BY <2>1, Unchanged
  <2>2. CASE client' = [client EXCEPT ![c] = cl]
    <3> HIDE DEF msg, caller, cookie
    <3>1. /\ cl.socket = client[c].socket /\ cl.cookie = cookie
          /\ cl.timer = client[c].timer /\ cl.final = client[c].final
      BY <1>3 DEF ClientShape
    <3> HIDE DEF cl, c
    <3>2. \A d \in Clients : client'[d] = IF d = c THEN cl ELSE client[d]
      BY <2>2, Facts DEF Shapes
    <3>3. ClientsGoOn
      BY <3>1, <3>2 DEF ClientsGoOn
    <3>4. CASE msg.type = "cookie"
      <4>1. cookie = socks[k].session /\ Carries(socks[k]) /\ ~Carries(socks'[k])
        BY <1>8, <1>10, <3>4 DEF cookie
      <4>2. CookiesComeHome
        BY <1>3, <3>1, <3>2, <4>1 DEF CookiesComeHome
      <4> QED
        BY <3>3, <4>2
    <3>5. CASE msg.type # "cookie"
      <4>1. cookie = client[c].cookie
        BY <3>5 DEF cookie
      <4>2. CookiesComeHome
        BY <3>1, <3>2, <4>1 DEF CookiesComeHome
      <4> QED
        BY <3>3, <4>2
    <3> QED
      BY <3>4, <3>5
  <2> QED
    BY <1>2, <2>1, <2>2
<1>12. BoundsStay /\ OpenStaysMapped
  BY <1>1, Unchanged DEF serverVars
<1> QED
  BY <1>9, <1>11, <1>12, Ordinary

(* Only the current socket of a client can close, and then it waits.       *)
LEMMA HandleCloseFull ==
  ASSUME FullInv, IInv', NEW k \in MadeSockets, HandleClose(k), UNCHANGED serverVars
  PROVE  FullInv'
<1> DEFINE c == socks[k].owner
           x == client[c]
           y == [socks[k] EXCEPT !.client = "closed"]
           resolved == IF x.wasOpen THEN FALSE ELSE x.resolved
           caller == IF x.wasOpen /\ x.caller = "waiting" THEN "stranded" ELSE x.caller
           later == [x EXCEPT !.opened = FALSE, !.timer = TRUE, !.resolved = resolved,
                              !.caller = caller, !.wasOpen = FALSE]
<1>1. /\ socks[k].client = "lost"
      /\ socks' = [socks EXCEPT ![k] = y]
      /\ UNCHANGED <<serverVars, deaths, sends>>
  BY DEF HandleClose
<1>2. /\ k \in 1 .. Len(socks) /\ socks[k] \in SocketShape /\ Fit(socks[k])
      /\ c \in Clients /\ x \in ClientShape
  BY Facts
<1>3. x.socket = k /\ (~x.final => ~x.timer) /\ (x.final => ~x.timer)
  BY <1>1, <1>2, SessionIdsAreNat DEF FullInv, Ways
<1>4. \/ UNCHANGED client /\ x.final
      \/ client' = [client EXCEPT ![c] = later] /\ ~x.final
  BY <1>3 DEF HandleClose
<1>5. /\ y \in SocketShape
      /\ y.owner = socks[k].owner /\ y.cookie = socks[k].cookie
      /\ y.session = socks[k].session /\ y.client = "closed"
      /\ y.server = socks[k].server /\ y.cut = socks[k].cut
      /\ y.toClient = socks[k].toClient
  BY <1>2 DEF SocketShape
<1>6. /\ later.socket = k /\ later.cookie = x.cookie /\ later.timer = TRUE /\ later.final = x.final
  BY <1>2, <1>3 DEF ClientShape
<1>7. \A d \in Clients : d # c => client'[d] = client[d]
  BY <1>4, Facts DEF Shapes
<1>8. client'[c] = IF x.final THEN x ELSE later
  BY <1>2, <1>4, Facts DEF Shapes
<1> HIDE DEF c, x, y, later
<1>9. Dead(y) = Dead(socks[k]) /\ Lives(socks[k], y)
  BY <1>1, <1>5 DEF Dead, Lives
<1>10. Moves(socks[k], y)
  BY <1>1, <1>2, <1>5, <1>9, EndsMove DEF Fit
<1>11. /\ Len(socks') = Len(socks)
       /\ \A j \in 1 .. Len(socks) :
             /\ socks'[j] = IF j = k THEN y ELSE socks[j]
             /\ Moves(socks[j], socks'[j])
  BY <1>1, <1>2, <1>10, OneMoves
<1>12. NobodyDies
  BY <1>1, <1>2, <1>9, <1>10, OneMoves
<1>13. Ways'
  <2>1. ASSUME NEW d \in Clients
        PROVE  /\ client'[d].socket # 0 =>
                     client'[d].socket \in 1 .. Len(socks') /\ socks'[client'[d].socket].owner = d
               /\ client'[d].timer => ~client'[d].final /\ client'[d].socket # 0
               /\ client'[d].socket # 0 /\ ~client'[d].final =>
                     (client'[d].timer <=> socks'[client'[d].socket].client = "closed")
    <3> DEFINE s == client[d].socket
    <3>1. /\ s # 0 => s \in 1 .. Len(socks) /\ socks[s].owner = d
          /\ client[d].timer => ~client[d].final /\ s # 0
          /\ s # 0 /\ ~client[d].final => (client[d].timer <=> socks[s].client = "closed")
      BY DEF FullInv, Ways
    <3>2. CASE d # c
      <4>1. client'[d] = client[d] /\ (s # 0 => s # k)
        BY <1>7, <3>1, <3>2 DEF c
      <4>2. s # 0 => socks'[s] = socks[s]
        BY <1>11, <3>1, <4>1
      <4> QED
        BY <1>11, <3>1, <4>1, <4>2
    <3>3. CASE d = c
      <4>1. socks'[k].client = "closed" /\ socks'[k].owner = c /\ k \in 1 .. Len(socks') /\ k # 0
        BY <1>2, <1>5, <1>11 DEF c
      <4>2. client'[c].socket = k /\ client'[c].timer = ~client'[c].final
        <5>1. CASE x.final
          BY <1>2, <1>3, <1>8, <5>1 DEF ClientShape
        <5>2. CASE ~x.final
          BY <1>2, <1>6, <1>8, <5>2 DEF ClientShape
        <5> QED
          BY <5>1, <5>2
      <4> QED
        BY <3>3, <4>1, <4>2
    <3> QED
      BY <3>2, <3>3
  <2>2. ASSUME NEW j \in 1 .. Len(socks'), socks'[j].client # "closed"
        PROVE  client'[socks'[j].owner].socket = j
    <3>1. j # k /\ socks'[j] = socks[j] /\ socks[j].owner \in Clients
      BY <1>5, <1>11, <2>2, Facts
    <3>2. client[socks[j].owner].socket = j
      BY <1>11, <2>2, <3>1 DEF FullInv, Ways
    <3>3. client'[socks[j].owner].socket = client[socks[j].owner].socket
      BY <1>3, <1>6, <1>7, <1>8, <3>1 DEF x
    <3> QED
      BY <3>1, <3>2, <3>3
  <2> QED
    BY <2>1, <2>2 DEF Ways
<1>14. CookiesComeHome
  BY <1>6, <1>7, <1>8 DEF CookiesComeHome, x
<1>15. BoundsStay /\ OpenStaysMapped
  BY <1>1, Unchanged DEF serverVars
<1>16. MayAppend
  BY <1>11 DEF MayAppend
<1> QED
  BY <1>11, <1>12, <1>13, <1>14, <1>15, <1>16, Others

-----------------------------------------------------------------------------
(* A new socket of a client, all of whose others are closed.               *)
LEMMA NewSocketFull ==
  ASSUME FullInv, IInv', NEW c \in Clients, NEW n \in {0, client[c].cookie},
         NEW q \in Seq(SocketShape), Len(q) = Len(socks),
         \A k \in 1 .. Len(socks) :
            /\ Moves(socks[k], q[k]) /\ SameEnd(socks[k], q[k]) /\ Lives(socks[k], q[k])
            /\ socks[k].owner = c => socks[k].client = "closed",
         socks' = Append(q, NewSocket(c, n)),
         ~client[c].final,
         \A d \in Clients : d # c => client'[d] = client[d],
         client'[c].socket = Len(socks) + 1, client'[c].timer = FALSE,
         client'[c].final = client[c].final, client'[c].cookie = client[c].cookie,
         UNCHANGED <<serverVars, deaths, sends>>
  PROVE  FullInv'
<1> DEFINE x == NewSocket(c, n)
           m == Len(socks) + 1
<1>1. /\ x.owner = c /\ x.client = "connecting"
  BY NewSocketFits
<1>2. Len(socks) \in Nat /\ socks' \in Seq(SocketShape)
  BY Facts DEF IInv, Shapes
<1>3. /\ Len(socks') = m
      /\ \A k \in 1 .. Len(socks) : socks'[k] = q[k]
      /\ socks'[m] = x
      /\ \A k \in 1 .. m : k = m \/ k \in 1 .. Len(socks)
  BY <1>2 DEF x
<1>4. MayAppend
  <2>1. \A k \in 1 .. Len(socks) : socks[k].owner = c => Dead(socks[k])
    BY DEF Dead
  <2> QED
    BY <1>3, <2>1 DEF MayAppend, NewOne, m, x
<1> HIDE DEF x
<1>5. \A k \in 1 .. Len(socks) :
         /\ Moves(socks[k], socks'[k]) /\ SameEnd(socks[k], socks'[k])
         /\ Lives(socks[k], socks'[k])
  BY <1>3
<1>6. Ways'
  <2>1. ASSUME NEW d \in Clients
        PROVE  /\ client'[d].socket # 0 =>
                     client'[d].socket \in 1 .. Len(socks') /\ socks'[client'[d].socket].owner = d
               /\ client'[d].timer => ~client'[d].final /\ client'[d].socket # 0
               /\ client'[d].socket # 0 /\ ~client'[d].final =>
                     (client'[d].timer <=> socks'[client'[d].socket].client = "closed")
    <3>1. CASE d # c
      <4> DEFINE s == client[d].socket
      <4>1. /\ s # 0 => s \in 1 .. Len(socks) /\ socks[s].owner = d
            /\ client[d].timer => ~client[d].final /\ s # 0
            /\ s # 0 /\ ~client[d].final => (client[d].timer <=> socks[s].client = "closed")
        BY DEF FullInv, Ways
      <4>2. client'[d] = client[d]
        BY <3>1
      <4>3. s # 0 => /\ s \in 1 .. Len(socks') /\ socks'[s].owner = d
                     /\ (socks'[s].client = "closed") <=> (socks[s].client = "closed")
        BY <1>2, <1>3, <1>5, <4>1 DEF Moves, SameEnd
      <4> QED
        BY <4>1, <4>2, <4>3
    <3>2. CASE d = c
      BY <1>1, <1>2, <1>3, <3>2
    <3> QED
      BY <3>1, <3>2
  <2>2. ASSUME NEW k \in 1 .. Len(socks'), socks'[k].client # "closed"
        PROVE  client'[socks'[k].owner].socket = k
    <3>1. CASE k = m
      BY <1>1, <1>3, <3>1
    <3>2. CASE k \in 1 .. Len(socks)
      <4>1. /\ socks'[k].owner = socks[k].owner /\ socks[k].client # "closed"
            /\ socks[k].owner \in Clients
        BY <1>5, <2>2, <3>2, Facts DEF Moves, SameEnd
      <4>2. socks[k].owner # c /\ client[socks[k].owner].socket = k
        BY <3>2, <4>1 DEF FullInv, Ways
      <4> QED
        BY <4>1, <4>2
    <3> QED
      BY <1>3, <3>1, <3>2
  <2> QED
    BY <2>1, <2>2 DEF Ways
<1>7. NobodyDies
  BY <1>5 DEF NobodyDies
<1>8. CookiesComeHome
  BY DEF CookiesComeHome
<1>9. BoundsStay /\ OpenStaysMapped
  BY Unchanged DEF serverVars
<1> QED
  BY <1>4, <1>5, <1>6, <1>7, <1>8, <1>9, Others

LEMMA ConnectFull ==
  ASSUME FullInv, IInv', NEW c \in Clients, Connect(c), UNCHANGED serverVars
  PROVE  FullInv'
<1> DEFINE cl == [client[c] EXCEPT !.socket = Len(socks')]
<1>1. /\ client[c].socket = 0 /\ ~client[c].final
      /\ socks' = Append(socks, NewSocket(c, 0))
      /\ client' = [client EXCEPT ![c] = cl]
      /\ UNCHANGED <<serverVars, deaths, sends>>
  BY DEF Connect
<1>2. /\ socks \in Seq(SocketShape) /\ Len(socks) \in Nat /\ Len(socks') = Len(socks) + 1
  BY <1>1, Facts DEF Shapes
<1>3. /\ ~client[c].timer
      /\ \A k \in 1 .. Len(socks) : socks[k].owner = c => socks[k].client = "closed"
  BY <1>1, <1>2 DEF FullInv, Ways
<1>4. /\ cl.socket = Len(socks) + 1 /\ cl.timer = FALSE
      /\ cl.final = client[c].final /\ cl.cookie = client[c].cookie
  <2>1. client[c] \in ClientShape
    BY Facts
  <2> QED
    BY <1>2, <1>3, <2>1 DEF ClientShape
<1> HIDE DEF cl
<1>5. client'[c] = cl /\ \A d \in Clients : d # c => client'[d] = client[d]
  BY <1>1, Facts DEF Shapes
<1>6. \A k \in 1 .. Len(socks) :
         /\ Moves(socks[k], socks[k]) /\ SameEnd(socks[k], socks[k])
         /\ Lives(socks[k], socks[k])
  BY Facts, MovesItself
<1> QED
  BY <1>1, <1>2, <1>3, <1>4, <1>5, <1>6, NewSocketFull

LEMMA DoReconnectFull ==
  ASSUME FullInv, IInv', NEW c \in Clients, DoReconnect(c), UNCHANGED serverVars
  PROVE  FullInv'
<1> DEFINE j == client[c].socket
           y == Ended(socks[j])
           q == [socks EXCEPT ![j] = y]
           cl == [client[c] EXCEPT !.timer = FALSE, !.socket = Len(socks')]
<1>1. /\ client[c].timer
      /\ socks' = Append(q, NewSocket(c, client[c].cookie))
      /\ client' = [client EXCEPT ![c] = cl]
      /\ UNCHANGED <<serverVars, deaths, sends>>
  BY DEF DoReconnect, TimerOff
<1>2. ~client[c].final /\ j \in 1 .. Len(socks) /\ socks[j].client = "closed"
  BY <1>1 DEF FullInv, Ways
<1>3. \A k \in 1 .. Len(socks) : socks[k].owner = c => socks[k].client = "closed"
  BY <1>2 DEF FullInv, Ways
<1>4. socks \in Seq(SocketShape) /\ Len(socks) \in Nat
  BY Facts DEF Shapes
<1>5. /\ y \in SocketShape /\ Moves(socks[j], y) /\ SameEnd(socks[j], y)
      /\ Lives(socks[j], y)
  <2>1. socks[j] \in SocketShape /\ Fit(socks[j])
    BY <1>2, Facts
  <2>2. Dead(socks[j])
    BY <1>2 DEF Dead
  <2> QED
    BY <2>1, <2>2, EndedMoves DEF Lives
<1> HIDE DEF j, y
<1>6. /\ q \in Seq(SocketShape) /\ Len(q) = Len(socks)
      /\ \A k \in 1 .. Len(socks) : q[k] = IF k = j THEN y ELSE socks[k]
  BY <1>4, <1>5, ExceptSeq
<1> HIDE DEF q
<1>7. \A k \in 1 .. Len(socks) :
         /\ Moves(socks[k], q[k]) /\ SameEnd(socks[k], q[k]) /\ Lives(socks[k], q[k])
  BY <1>5, <1>6, Facts, MovesItself
<1>8. Len(socks') = Len(socks) + 1
  BY <1>1, <1>4, <1>6
<1>9. /\ cl.socket = Len(socks) + 1 /\ cl.timer = FALSE
      /\ cl.final = client[c].final /\ cl.cookie = client[c].cookie
  <2>1. client[c] \in ClientShape
    BY Facts
  <2> QED
    BY <1>8, <2>1 DEF ClientShape
<1> HIDE DEF cl
<1>10. client'[c] = cl /\ \A d \in Clients : d # c => client'[d] = client[d]
  BY <1>1, Facts DEF Shapes
<1> QED
  BY <1>1, <1>2, <1>3, <1>6, <1>7, <1>9, <1>10, NewSocketFull

-----------------------------------------------------------------------------
(* The second inductive invariant.                                         *)
LEMMA InitFull ==
  ASSUME Init
  PROVE  FullInv
<1>1. /\ socks = << >> /\ deaths = 0 /\ sends = 0
      /\ client = [c \in Clients |-> NewClient] /\ lastSession = 0 /\ active = {}
      /\ pending = {} /\ closing = {} /\ home = [s \in SessionIds |-> {}]
  BY DEF Init, SocketsInit, ServerInit, ClientInit
<1>2. Len(socks) = 0
  BY <1>1
<1>3. Fits /\ Secrets /\ Homes /\ Heard
  BY <1>2 DEF Fits, Secrets, Homes, Heard
<1>4. Ways
  BY <1>1, <1>2 DEF Ways, NewClient
<1>5. Born
  <2> DEFINE f == [k \in 1 .. Len(socks) |-> 0]
  <2>1. f \in [1 .. Len(socks) -> 0 .. deaths]
    BY <1>1
  <2>2. \A k \in 1 .. Len(socks) : FALSE
    BY <1>2
  <2> HIDE DEF f
  <2> QED
    BY <2>1, <2>2 DEF Born
<1>6. Made
  <2> DEFINE g == [s \in 1 .. lastSession |-> 1]
  <2>1. \A s \in 1 .. lastSession : FALSE
    BY <1>1
  <2>2. g \in [1 .. lastSession -> 1 .. Len(socks)]
    BY <2>1
  <2> HIDE DEF g
  <2> QED
    BY <2>1, <2>2 DEF Made
<1>7. Bounded
  BY <1>1, MaxDeathsAssumption, MaxSendsAssumption DEF Bounded
<1> QED
  BY <1>3, <1>4, <1>5, <1>6, <1>7, InitHolds DEF FullInv

LEMMA StutterFull ==
  ASSUME FullInv, IInv', UNCHANGED vars
  PROVE  FullInv'
BY Unchanged, NoneMoves, Ordinary DEF vars, serverVars, clientVars

LEMMA StepFull ==
  ASSUME FullInv, [Next]_vars
  PROVE  FullInv'
<1>0. IInv'
  BY StepKeeps DEF FullInv
<1>1. CASE UNCHANGED vars
  BY <1>0, <1>1, StutterFull
<1>2. CASE Server(ServerStep)
  <2>0. UNCHANGED clientVars /\ ServerStep
    BY <1>2 DEF Server
  <2> QED
    BY <1>0, <2>0, RecoverSessionFull, NewSessionFull, CookieSentFull, CookieFailsFull,
       ServerMessageFull, ServerClosedFull, CloseEndsFull DEF ServerStep
<1>3. ASSUME NEW s \in SessionIds, Server(CloseSession(s)) \/ Push(s)
      PROVE  FullInv'
  BY <1>0, <1>3, CloseSessionFull, ServerSendFull DEF Server
<1>4. CASE Server(Restart)
  BY <1>0, <1>4, RestartFull DEF Server
<1>5. CASE Client(ClientStep)
  BY <1>0, <1>5, HandleOpenFull, HandleMessageFull, HandleCloseFull, DoReconnectFull
     DEF Client, ClientStep
<1>6. ASSUME NEW c \in Clients,
             Client(Connect(c)) \/ Client(Send(c)) \/ Client(Close(c)) \/ Client(DestroyClient(c))
      PROVE  FullInv'
  BY <1>0, <1>6, ConnectFull, SendFull, ClientEndFull DEF Client
<1>7. ASSUME NEW k \in MadeSockets, Break(k), UNCHANGED <<serverVars, clientVars>>
      PROVE  FullInv'
  BY <1>0, <1>7, BreakFull
<1> QED
  BY <1>1, <1>2, <1>3, <1>4, <1>5, <1>6, <1>7 DEF Next

LEMMA InductiveFull == Spec => []FullInv
<1>1. Init => FullInv
  BY InitFull
<1>2. FullInv /\ [Next]_vars => FullInv'
  BY StepFull
<1> QED
  BY <1>1, <1>2, PTL DEF Spec

-----------------------------------------------------------------------------
(* A client waits to reconnect exactly while its socket is dead and told,  *)
(* and never has two sockets that live.                                    *)
THEOREM NoClientIsLeftBehind == Spec => []OneWayBack
<1>1. ASSUME FullInv, NEW c \in Clients
      PROVE  Cardinality({k \in MadeSockets : socks[k].owner = c /\ Alive(k)}) <= 1
  <2> DEFINE S == {k \in MadeSockets : socks[k].owner = c /\ Alive(k)}
             one == client[c].socket
  <2>1. S \subseteq {one}
    BY <1>1, Facts DEF FullInv, Ways, Alive
  <2>2. IsFiniteSet({one}) /\ Cardinality({one}) = 1
    BY FS_Singleton
  <2> HIDE DEF S, one
  <2>3. Cardinality(S) <= Cardinality({one})
    BY <2>1, <2>2, FS_Subset
  <2> QED
    BY <2>2, <2>3 DEF S
<1>2. FullInv => OneWayBack
  BY <1>1 DEF OneWayBack, FullInv, Ways
<1> QED
  BY <1>2, InductiveFull, PTL

(* A connection that the server has open, of an active session, is the one *)
(* that is heard as that session: no late end of an older one and no       *)
(* failure to send a cookie silences it.                                   *)
THEOREM OpenIsHeard == Spec => []OpenMeansHeard
<1>1. ASSUME FullInv PROVE OpenMeansHeard
  <2> SUFFICES ASSUME NEW k \in MadeSockets,
                      socks[k].server = "open", socks[k].session \in active
               PROVE  mapped[socks[k].session] >= k
    BY DEF OpenMeansHeard
  <2>1. k \in Nat /\ mapped[socks[k].session] = k
    BY <1>1, Facts DEF FullInv, Heard
  <2> QED
    BY <2>1
<1> QED
  BY <1>1, InductiveFull, PTL

(* Types, and with them the bound on sockets: each death ends at most one  *)
(* socket of a client, so that MaxSockets are enough.                      *)
THEOREM TypeCorrect == Spec => []TypeOK
<1> SUFFICES ASSUME FullInv PROVE TypeOK
  BY InductiveFull, PTL
<1>1. /\ Len(socks) \in Nat /\ MaxSockets \in Nat /\ Len(socks) <= MaxSockets
      /\ lastSession \in Nat /\ lastSession <= MaxSockets
  BY Facts, MaxSocketsIsNat
<1>2. \A n \in Nat : n <= lastSession => n \in SessionIds \cup {0}
  BY <1>1 DEF SessionIds
<1>3. \A k \in 1 .. Len(socks) : k \in Sockets
  BY <1>1 DEF Sockets
<1>4. ASSUME NEW k \in 1 .. Len(socks) PROVE socks[k] \in SocketType
  <2> DEFINE x == socks[k]
  <2>1. /\ x \in SocketShape /\ Fit(x) /\ x.session <= lastSession
        /\ x.cookie <= lastSession
    BY Facts DEF FullInv, Fits, Holders, Owned
  <2>2. x.session \in SessionIds \cup {0} /\ x.cookie \in SessionIds \cup {0}
    BY <1>2, <2>1 DEF SocketShape
  <2>3. x.toClient \in Seq(ToClientType)
    <3>1. x.toClient \in Seq(MsgShape)
      BY <2>1 DEF SocketShape
    <3>2. ASSUME NEW i \in 1 .. Len(x.toClient)
          PROVE  x.toClient[i] \in ToClientType
      <4>1. x.toClient[i] \in MsgShape
        BY <3>1
      <4>2. x.toClient[i].session \in SessionIds \cup {0}
        <5>1. CASE x.toClient[i].type = "cookie"
          <6>1. x.toClient[i].session \in Nat
            BY <4>1 DEF MsgShape
          <6>2. x.toClient[i].session \in Cookies(x)
            BY <5>1, <6>1 DEF Cookies
          <6> QED
            BY <2>1, <2>2, <6>2 DEF Fit
        <5>2. CASE x.toClient[i].type # "cookie"
          BY <2>1, <5>2 DEF Fit
        <5> QED
          BY <5>1, <5>2
      <4> QED
        BY <4>1, <4>2 DEF MsgShape, ToClientType
    <3> QED
      BY <3>1, <3>2
  <2> QED
    BY <2>1, <2>2, <2>3 DEF SocketShape, SocketType
<1>5. SocketsTypeOK
  <2>1. socks \in Seq(SocketType)
    BY <1>4, Facts DEF Shapes
  <2> QED
    BY <1>1, <2>1 DEF SocketsTypeOK, FullInv, Bounded
<1>6. ServerTypeOK
  <2>1. mapped \in [SessionIds -> Sockets \cup {0}]
    BY <1>3, Facts DEF Shapes, Connections
  <2>2. active \subseteq SessionIds /\ lastSession \in SessionIds \cup {0}
    BY <1>1, <1>2, Facts DEF Shapes, FullInv, Bounded
  <2> QED
    BY <1>3, <2>1, <2>2 DEF ServerTypeOK, FullInv, Bounded
<1>7. ClientTypeOK
  <2>1. ASSUME NEW c \in Clients PROVE client[c] \in ClientType
    <3>1. client[c] \in ClientShape /\ client[c].cookie \in SessionIds \cup {0}
      <4>1. client[c] \in ClientShape /\ client[c].cookie <= lastSession
        BY Facts DEF Holders, Owned
      <4> QED
        BY <1>2, <4>1 DEF ClientShape
    <3>2. client[c].socket \in Sockets \cup {0}
      BY <1>3 DEF FullInv, Ways
    <3> QED
      BY <3>1, <3>2 DEF ClientShape, ClientType
  <2> QED
    BY <2>1, Facts DEF ClientTypeOK, Shapes, FullInv, Bounded
<1> QED
  BY <1>5, <1>6, <1>7 DEF TypeOK
=============================================================================
