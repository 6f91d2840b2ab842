------------------------------ MODULE RemoteCall ------------------------------
(***************************************************************************)
(* Calls of methods and of callbacks across a connection:                  *)
(* system/lib/remoteCall/ (RemoteCall.ts, RemoteCallbacks.ts, helpers.ts). *)
(*                                                                         *)
(* Two instances of RemoteCall talk over a connection.  An "ask" is one    *)
(* request that waits for a response: a call of a method by its name, or a *)
(* call of a fake callback, which asks the other side to call the real     *)
(* one.  A response carries the name of the method (the id of the          *)
(* callback) and no number of the request, so that it is heard by every    *)
(* ask of that name.  The connection keeps the order of the messages of    *)
(* one direction and may lose them; the code above it reconnects.          *)
(*                                                                         *)
(* The send() that an instance is given waits for the connection first,    *)
(* for ever if need be (WsClientLogic.connectedPromise).  A message is     *)
(* taken to leave when the promise of its send() settles.                  *)
(***************************************************************************)
EXTENDS Naturals, Sequences, FiniteSets

CONSTANTS
    Client,         \* the instance made by WsApiClient or IoClient
    Server,         \* the instance made by ApiManager or IoServerConnectionLogic
    Methods,        \* names of methods
    WithCallback,   \* those of them that take a callback
    Callers,        \* the sides whose users call methods of the other one
    MethodCallers,  \* the sides whose constructor was given a methodCaller
    MaxAsks,        \* bound: how many asks are made in a behaviour
    MaxLosses       \* bound: sends that do not deliver and lost connections in a behaviour

Sides == {Client, Server}
Asks == 1 .. MaxAsks

ASSUME SidesAssumption == Client # Server
ASSUME CallersAssumption == Callers \subseteq Sides /\ MethodCallers \subseteq Sides
ASSUME BoundsAssumption == MaxAsks \in Nat /\ MaxLosses \in Nat
\* a name of a method is never taken for the id of a callback
ASSUME MethodsAssumption == Methods \cap Asks = {} /\ WithCallback \subseteq Methods

VARIABLES
    asks,       \* [Asks -> record]: the requests made, by number
    made,       \* how many of them are made
    handlers,   \* [Sides -> set of asks]: methodsResultEvents and cbsResultEvents
    unsent,     \* [Sides -> sequence of messages to the side whose send() is awaited]
    channel,    \* [Sides -> sequence of messages that travel to the side]
    running,    \* [Sides -> asks whose method or real callback runs there]
    callBacks,  \* [Sides -> callbacks that are registered, by the ask that passed them]
    fakes,      \* [Sides -> callbacks of the other side that local code can call]
    destroyed,  \* the sides whose destroy() was called
    losses

vars == <<asks, made, handlers, unsent, channel, running, callBacks, fakes, destroyed, losses>>

Peer(s) == IF s = Client THEN Server ELSE Client

Kinds == {"method", "cb"}
WaitStates == {"none", "waiting", "result", "timeout", "refused", "stuck"}

AskType == [from   : Sides,
            kind   : Kinds,
            key    : Methods \cup Asks,   \* name of the method, or id of the callback
            send   : {"waits", "done", "failed"},  \* the promise of send()
            wait   : WaitStates,          \* the promise of waitForResponse()
            answer : Asks \cup {0},       \* whose response it has got
            rivals : SUBSET Asks]         \* other asks whose response it could hear

MessageType == [type : {"call", "result"}, ask : Asks]

Call(i) == [type |-> "call", ask |-> i]
Result(i) == [type |-> "result", ask |-> i]

TypeOK ==
    /\ asks \in [Asks -> AskType]
    /\ made \in 0 .. MaxAsks
    /\ handlers \in [Sides -> SUBSET Asks]
    /\ unsent \in [Sides -> Seq(MessageType)]
    /\ channel \in [Sides -> Seq(MessageType)]
    /\ running \in [Sides -> SUBSET Asks]
    /\ callBacks \in [Sides -> SUBSET Asks]
    /\ fakes \in [Sides -> SUBSET Asks]
    /\ destroyed \subseteq Sides
    /\ losses \in 0 .. MaxLosses

NoAsk == [from |-> Client, kind |-> "method", key |-> CHOOSE m \in Methods \cup Asks : TRUE,
          send |-> "waits", wait |-> "none", answer |-> 0, rivals |-> {}]

Init ==
    /\ asks = [i \in Asks |-> NoAsk]
    /\ made = 0
    /\ handlers = [s \in Sides |-> {}]
    /\ unsent = [s \in Sides |-> <<>>]
    /\ channel = [s \in Sides |-> <<>>]
    /\ running = [s \in Sides |-> {}]
    /\ callBacks = [s \in Sides |-> {}]
    /\ fakes = [s \in Sides |-> {}]
    /\ destroyed = {}
    /\ losses = 0

-----------------------------------------------------------------------------
(* Sending *)

SendOutcomes == {"sent", "lost", "fails", "forgotten"}

\* A message is given to send().
Posted(s, msg) == unsent' = [unsent EXCEPT ![s] = Append(@, msg)]

\* What becomes of the oldest message whose send() is awaited: it is on its
\* way, is lost without anybody knowing, fails, or is forgotten with the
\* promise it waits for (a response has no caller to be told).
SendSettles(s, how) ==
    LET msg == Head(unsent[s])
        told == IF how = "fails" THEN "failed" ELSE "done"
    IN  /\ unsent[s] # <<>>
        /\ unsent' = [unsent EXCEPT ![s] = Tail(@)]
        /\ IF how = "sent"
           THEN /\ channel' = [channel EXCEPT ![s] = Append(@, msg)]
                /\ UNCHANGED losses
           ELSE /\ losses < MaxLosses
                /\ losses' = losses + 1
                /\ UNCHANGED channel
        /\ asks' = IF msg.type = "call" /\ how # "forgotten"
                   THEN [asks EXCEPT ![msg.ask].send = told] ELSE asks
        /\ UNCHANGED <<made, handlers, running, callBacks, fakes, destroyed>>

Carries(s, i) ==
    \/ \E n \in DOMAIN channel[s] : channel[s][n].ask = i
    \/ \E n \in DOMAIN unsent[s] : unsent[s][n].ask = i

\* The request or the response of i is sent or travels, or the other side
\* works on it.
Underway(i) == \E s \in Sides : Carries(s, i) \/ i \in running[s]

SameName(i, j) ==
    /\ asks[i].from = asks[j].from
    /\ asks[i].kind = asks[j].kind
    /\ asks[i].key = asks[j].key

\* Asks of this name whose response may come while a new one waits.
RivalsOf(s, kind, key) ==
    {j \in 1 .. made : /\ asks[j].from = s
                       /\ asks[j].kind = kind
                       /\ asks[j].key = key
                       /\ Underway(j)}

\* What callMethod() and a fake callback share: send, wait for the response,
\* and only when send() has settled return what the wait ends with; if send()
\* fails the caller is told so, and the wait goes on.  After destroy() there
\* is no list to add the handler to.
Ask(s, kind, key) ==
    LET i == made + 1
        refused == s \in destroyed
        new == [from |-> s, kind |-> kind, key |-> key, send |-> "waits",
                wait |-> IF refused THEN "refused" ELSE "waiting",
                answer |-> 0, rivals |-> RivalsOf(s, kind, key)]
    IN  /\ made < MaxAsks
        /\ made' = i
        /\ asks' = [j \in Asks |->
                      IF j = i THEN new
                      ELSE IF /\ asks[j].from = s /\ asks[j].kind = kind
                              /\ asks[j].key = key /\ asks[j].wait = "waiting"
                           THEN [asks[j] EXCEPT !.rivals = @ \cup {i}]
                           ELSE asks[j]]
        /\ handlers' = IF refused THEN handlers ELSE [handlers EXCEPT ![s] = @ \cup {i}]
        /\ Posted(Peer(s), Call(i))

\* RemoteCall.callMethod().  Its users drop the instance when they destroy it.
CallMethod(s, m) ==
    /\ s \in Callers \ destroyed
    /\ Ask(s, "method", m)
    /\ callBacks' = IF m \in WithCallback THEN [callBacks EXCEPT ![s] = @ \cup {made + 1}] ELSE callBacks
    /\ UNCHANGED <<channel, running, fakes, destroyed, losses>>

\* Local code calls a fake callback; it may keep it after destroy().
CallFake(s, c) ==
    /\ c \in fakes[s]
    /\ Ask(s, "cb", c)
    /\ UNCHANGED <<channel, running, callBacks, fakes, destroyed, losses>>

-----------------------------------------------------------------------------
(* Receiving: RemoteCall.incomeMessage() *)

Receives(s, msg) == /\ channel[s] # <<>>
                    /\ msg = Head(channel[s])

\* callLocalMethod(): marks of callbacks become fake callbacks.  A side
\* without a methodCaller throws, and answers nothing.
ReceiveCallMethod(s) ==
    \E i \in Asks :
        /\ Receives(s, Call(i))
        /\ asks[i].kind = "method"
        /\ channel' = [channel EXCEPT ![s] = Tail(@)]
        /\ IF s \in MethodCallers
           THEN /\ running' = [running EXCEPT ![s] = @ \cup {i}]
                /\ fakes' = IF asks[i].key \in WithCallback THEN [fakes EXCEPT ![s] = @ \cup {i}] ELSE fakes
           ELSE UNCHANGED <<running, fakes>>
        /\ UNCHANGED <<asks, made, handlers, unsent, callBacks, destroyed, losses>>

\* handleRemoteCbCall() of a callback that is registered
ReceiveCbCall(s) ==
    \E i \in Asks :
        /\ Receives(s, Call(i))
        /\ asks[i].kind = "cb"
        /\ asks[i].key \in callBacks[s]
        /\ channel' = [channel EXCEPT ![s] = Tail(@)]
        /\ running' = [running EXCEPT ![s] = @ \cup {i}]
        /\ UNCHANGED <<asks, made, handlers, unsent, callBacks, fakes, destroyed, losses>>

\* handleRemoteCbCall() of one that is not: an error is sent back
RefuseCbCall(s) ==
    \E i \in Asks :
        /\ Receives(s, Call(i))
        /\ asks[i].kind = "cb"
        /\ asks[i].key \notin callBacks[s]
        /\ channel' = [channel EXCEPT ![s] = Tail(@)]
        /\ Posted(Peer(s), Result(i))
        /\ UNCHANGED <<asks, made, handlers, running, callBacks, fakes, destroyed, losses>>

\* A mutant: the name of the method is not compared.
HearsAll(s, i) == {j \in handlers[s] : asks[j].kind = asks[i].kind}

\* The handlers of waitForResponse() that take a response of i for theirs.
Hears(s, i) == {j \in handlers[s] : asks[j].kind = asks[i].kind /\ asks[j].key = asks[i].key}

\* methodsResultEvents.emit() or cbsResultEvents.emit(); after destroy() it throws.
ReceiveResult(s) ==
    \E i \in Asks :
        LET heard == IF s \in destroyed THEN {} ELSE Hears(s, i)
        IN  /\ Receives(s, Result(i))
            /\ channel' = [channel EXCEPT ![s] = Tail(@)]
            /\ asks' = [j \in Asks |-> IF j \in heard
                                       THEN [asks[j] EXCEPT !.wait = "result", !.answer = i]
                                       ELSE asks[j]]
            /\ handlers' = [handlers EXCEPT ![s] = @ \ heard]
            /\ UNCHANGED <<made, unsent, running, callBacks, fakes, destroyed, losses>>

\* The method or the real callback ends, well or not, and the response is sent.
Finish(s, i) ==
    /\ i \in running[s]
    /\ running' = [running EXCEPT ![s] = @ \ {i}]
    /\ Posted(Peer(s), Result(i))
    /\ UNCHANGED <<asks, made, handlers, channel, callBacks, fakes, destroyed, losses>>

-----------------------------------------------------------------------------
(* Timeouts, the connection and the end *)

\* A mutant: waitForResponse() rejects on timeout and forgets to remove its handler.
TimeOutKeepsHandler(i) ==
    /\ asks[i].wait = "waiting"
    /\ asks' = [asks EXCEPT ![i].wait = IF asks[i].from \in destroyed THEN "stuck" ELSE "timeout"]
    /\ UNCHANGED <<made, handlers, unsent, channel, running, callBacks, fakes, destroyed, losses>>

\* A mutant: only calls of methods are given a timer.
TimeOutOfMethods(i) ==
    /\ asks[i].wait = "waiting"
    /\ asks[i].kind = "method"
    /\ asks' = [asks EXCEPT ![i].wait = IF asks[i].from \in destroyed THEN "stuck" ELSE "timeout"]
    /\ handlers' = [handlers EXCEPT ![asks[i].from] = @ \ {i}]
    /\ UNCHANGED <<made, unsent, channel, running, callBacks, fakes, destroyed, losses>>

\* The timer of waitForResponse().  After destroy() it throws before it rejects.
TimeOut(i) ==
    LET s == asks[i].from
    IN  /\ asks[i].wait = "waiting"
        /\ IF s \in destroyed
           THEN /\ asks' = [asks EXCEPT ![i].wait = "stuck"]
                /\ UNCHANGED handlers
           ELSE /\ asks' = [asks EXCEPT ![i].wait = "timeout"]
                /\ handlers' = [handlers EXCEPT ![s] = @ \ {i}]
        /\ UNCHANGED <<made, unsent, channel, running, callBacks, fakes, destroyed, losses>>

ConnectionLost ==
    /\ losses < MaxLosses
    /\ losses' = losses + 1
    /\ \E s \in Sides : channel[s] # <<>>
    /\ channel' = [s \in Sides |-> <<>>]
    /\ UNCHANGED <<asks, made, handlers, unsent, running, callBacks, fakes, destroyed>>

\* A mutant: destroy() does not clear the registered callbacks.
DestroyKeepsCallBacks(s) ==
    /\ s \notin destroyed
    /\ destroyed' = destroyed \cup {s}
    /\ handlers' = [handlers EXCEPT ![s] = {}]
    /\ UNCHANGED <<asks, made, unsent, channel, running, callBacks, fakes, losses>>

\* RemoteCall.destroy(): the waits and their timers are left as they are.
Destroy(s) ==
    /\ s \notin destroyed
    /\ destroyed' = destroyed \cup {s}
    /\ handlers' = [handlers EXCEPT ![s] = {}]
    /\ callBacks' = [callBacks EXCEPT ![s] = {}]
    /\ UNCHANGED <<asks, made, unsent, channel, running, fakes, losses>>

Deliver(s) ==
    \/ ReceiveCallMethod(s)
    \/ ReceiveCbCall(s)
    \/ RefuseCbCall(s)
    \/ ReceiveResult(s)

Next ==
    \/ \E s \in Sides, m \in Methods : CallMethod(s, m)
    \/ \E s \in Sides, c \in Asks : CallFake(s, c)
    \/ \E s \in Sides, how \in SendOutcomes : SendSettles(s, how)
    \/ \E s \in Sides : Deliver(s)
    \/ \E s \in Sides, i \in Asks : Finish(s, i)
    \/ \E i \in Asks : TimeOut(i)
    \/ ConnectionLost
    \/ \E s \in Sides : Destroy(s)

Spec == Init /\ [][Next]_vars

\* Timers fire.  Methods need not end, messages need not arrive, and send()
\* need not settle.
FairSpec ==
    /\ Spec
    /\ \A i \in Asks : WF_vars(TimeOut(i))

-----------------------------------------------------------------------------
(* Properties *)

\* While a side is in use, the handlers in its lists are those of the asks
\* that still wait: a response or a timeout takes its handler away, and no
\* handler of a settled wait hears a later response.
HandlersAreWaits ==
    \A s \in Sides \ destroyed :
        handlers[s] = {i \in Asks : asks[i].from = s /\ asks[i].wait = "waiting"}

\* A result that a caller gets is that of its own request, or of another one
\* of the same name that was on its way while the caller waited: a call that
\* is alone under its name, and not followed by a late answer, gets its own.
OwnOrRivalsAnswer ==
    \A i \in 1 .. made : asks[i].answer \in {0, i} \cup asks[i].rivals

\* After destroy() no real callback starts, whatever messages are under way.
NoCallbackAfterDestroy ==
    [][\A s \in destroyed, i \in Asks :
          (i \in running'[s] \ running[s]) => asks[i].kind = "method"]_vars

\* Settled: the promise that callMethod() or the fake callback has returned.
Settled(i) ==
    \/ asks[i].send = "failed"
    \/ asks[i].send = "done" /\ asks[i].wait \in {"result", "timeout", "refused"}

\* Once its message has left, or send() has failed, every call ends, whatever
\* is lost and however long its method runs, unless its own side is destroyed.
\* The timeout of the response does not bound a send() that never settles:
\* such a call hangs although its wait is over (RemoteCall.ts:78).
CallsSettle ==
    \A i \in Asks :
        (i \in 1 .. made /\ asks[i].send # "waits")
            ~> (Settled(i) \/ asks[i].from \in destroyed)
=============================================================================
