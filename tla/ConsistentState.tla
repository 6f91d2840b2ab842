--------------------------- MODULE ConsistentState ---------------------------
(***************************************************************************)
(* system/lib/ConsistentState.ts: the local copy of the parameters of a    *)
(* device that lives on a server, kept consistent while it is read and     *)
(* written.  Reading and writing are jobs of one Queue, taken here with    *)
(* the guarantee of SerialQueue that Queue is shown to implement.          *)
(*                                                                         *)
(* A dictionary is a function from some of the parameters to values; a     *)
(* parameter the local state does not hold has the value Undef.            *)
(*                                                                         *)
(* The server is external: it answers a request in the step that executes  *)
(* it, may refuse it, and may change by itself, which it tells in an event.*)
(* Requests and messages keep their order.                                 *)
(***************************************************************************)
EXTENDS Integers, Sequences, SequencesExt, FiniteSets, Functions

CONSTANTS
  Params, Values,
  Undef,        \* JavaScript's undefined, as the value of a parameter
  None,         \* and as the value of a field
  Users,        \* callers of write() and load()
  Modes,        \* the ways a ConsistentState may be constructed
  Timeouts,     \* whether the timer of a job may fire before the job is done
  CallsDuringInit, \* whether write() and load() are called before init() is done
  MaxWrites,    \* bound: calls of write()
  MaxLoads,     \* bound: calls of load()
  MaxEvents     \* bound: changes the server makes by itself

ASSUME ModesAssumption ==
  Modes \subseteq [initialize : BOOLEAN, getter : BOOLEAN, setter : BOOLEAN]
ASSUME BoundsAssumption ==
  MaxWrites \in Nat /\ MaxLoads \in Nat /\ MaxEvents \in Nat
ASSUME UndefAssumption == Undef \notin Values
ASSUME NoneAssumption ==
  /\ \A ps \in SUBSET Params : None # ps /\ None \notin [ps -> Values]
  /\ None \notin {"read", "write"}

(* WRITING_ID and READING_ID *)
WRITE == "write"
READ == "read"

VARIABLES
  mode,                  \* which callbacks were passed to the constructor
  state,                 \* what stateGetter returns
  actualRemoteState,     \* a dictionary or None
  paramsListToSave,      \* a set of parameters or None
  nextWritePartialState, \* a dictionary or None
  q,                     \* the queue: [line, serving]
  readCb,                \* callback of the reading job: "init" or "load"
  initStep,              \* of init(): "no", "reading", "continues", "done",
                         \* "failed"
  initResult,            \* result in doInitialize, a dictionary or None
  job,                   \* number of the last job the queue has started
  ready,                 \* the current job had nothing to send: it is about to
                         \* end without the server
  outbox,                \* requests on their way to the server
  inbox,                 \* what the server has sent and we have not handled
  server,                \* the parameters of the device, on the server
  user,                  \* by user: the promise it waits for
  writeNo,               \* number of the last writing job
  writes, loads, events, \* how many there were
  unheard,               \* history: parameters whose last event was dropped
  destroyed

bookkeeping == <<actualRemoteState, paramsListToSave, nextWritePartialState>>
initVars == <<readCb, initStep, initResult>>
bounds == <<writes, loads, events>>
vars == <<mode, state, actualRemoteState, paramsListToSave,
          nextWritePartialState, q, readCb, initStep, initResult, job, ready, outbox,
          inbox, server, user, writeNo, writes, loads, events, unheard,
          destroyed>>

SQ == INSTANCE SerialQueue WITH
        JobIds <- {WRITE, READ}, Nobody <- None, serial <- q

-----------------------------------------------------------------------------
(* Dictionaries.                                                           *)

Dictionaries == UNION {[ps -> Values] : ps \in SUBSET Params}
Partials == {d \in Dictionaries : DOMAIN d # {}}
States == [Params -> Values \cup {Undef}]

(* The keys of a state that hold a value.                                  *)
Known(s) == Restrict(s, {p \in DOMAIN s : s[p] # Undef})

(* mergeDeepObjects of flat objects: the top wins, undefined values of the *)
(* top remove a key.  At no call here does the top hold undefined.         *)
Merge(top, bottom) ==
  [p \in DOMAIN top \cup DOMAIN bottom |->
     IF p \in DOMAIN top THEN top[p] ELSE bottom[p]]

(* stateUpdater: {...state, ...partial} *)
Updated(s, partial) == Merge(partial, s)

Without(d, ps) == Restrict(d, DOMAIN d \ ps)

(* A mutant: the parameters being saved are not spared.                    *)
SafeOverwrites(s, partial, saving) == Updated(s, partial)

(* generateSafeNewState, as what it hands to stateUpdater *)
Safe(s, partial, saving) == Updated(s, Without(partial, saving))

(* A mutant: nothing is restored.                                          *)
RestoredNothing(s, actual, saving) == s

(* restorePreviousState *)
Restored(s, actual, saving) ==
  Updated(s, Merge(actual, [p \in saving |-> Undef]))

(* collectDataToSave: those that differ from what the server holds *)
Changed(s, actual, saving) ==
  Restrict(s, {p \in saving : p \notin DOMAIN actual \/ s[p] # actual[p]})

-----------------------------------------------------------------------------
(* The queue.                                                              *)

Listed(id) == SQ!Has(q, id)

(* A mutant: the last write() of those postponed replaces the others.      *)
NextWriteReplaced(partial) == partial

NextWriteOr(partial) ==
  IF nextWritePartialState = None THEN partial
  ELSE Merge(partial, nextWritePartialState)

(* The queue becomes q2 and calls the callback of the job it starts:       *)
(* handleLoading and init's callback ask for the state at once, writeJobCb *)
(* sends what has changed in s, or is done at once if nothing has.         *)
Launch(q2, starts, cb, s, actual, saving) ==
  /\ q' = q2
  /\ job' = IF starts THEN job + 1 ELSE job
  /\ IF ~starts
     THEN ready' = (ready /\ q2.serving # None) /\ UNCHANGED outbox
     ELSE IF q2.serving = READ
     THEN /\ outbox' = Append(outbox, [kind |-> "get", job |-> job', cb |-> cb])
          /\ ready' = FALSE
     ELSE LET data == Changed(s, actual, saving) IN
          /\ ready' = (DOMAIN data = {})
          /\ outbox' = IF ready' THEN outbox
                       ELSE Append(outbox, [kind |-> "set", job |-> job',
                                            data |-> data])

Ask(id, cb, s, actual, saving) ==
  Launch(SQ!Ask(q, id), q.serving = None, cb, s, actual, saving)

(* A mutant: a postponed promise is settled by the current writing job.    *)
SettleTooEarly(on, err) ==
  [u \in Users |->
     IF user[u].on \notin on THEN user[u]
     ELSE [user[u] EXCEPT !.on = IF err THEN "rejected" ELSE "resolved"]]

(* A mutant: a postponed promise goes on waiting after an error.           *)
SettleIgnoresError(on, err) ==
  [u \in Users |->
     IF user[u].on \notin on THEN user[u]
     ELSE [user[u] EXCEPT !.on = IF @ = "postponed" THEN "next"
                                 ELSE IF err THEN "rejected" ELSE "resolved"]]

(* The promises that wait for the end of a job.                            *)
Settle(on, err) ==
  [u \in Users |->
     IF user[u].on \notin on THEN user[u]
     ELSE [user[u] EXCEPT !.on = IF err THEN "rejected"
                                 ELSE IF @ = "postponed" THEN "next" ELSE "resolved"]]

EndReadJob(s, actual, err) ==
  LET q2 == SQ!Serve(SQ!Release(q)) IN
  /\ Launch(q2, q2.serving # None, readCb, s, actual, paramsListToSave)
  /\ user' = Settle({READ}, err)
  /\ initStep' = IF initStep # "reading" THEN initStep
                 ELSE IF err THEN "failed" ELSE "continues"

(* handleWriteSuccess: what was postponed is written in the next job. The  *)
(* handler of the end asks for that job before the queue serves the next.  *)
WriteSuccess ==
  IF nextWritePartialState = None
  THEN LET q2 == SQ!Serve(SQ!Release(q)) IN
       /\ actualRemoteState' = None
       /\ paramsListToSave' = None
       /\ UNCHANGED <<state, nextWritePartialState, writeNo>>
       /\ Launch(q2, q2.serving # None, readCb, state, None, None)
  ELSE LET data == nextWritePartialState
           q2 == SQ!Ask(SQ!Release(q), WRITE)
       IN
       /\ actualRemoteState' = Known(state)
       /\ paramsListToSave' = DOMAIN data
       /\ nextWritePartialState' = None
       /\ state' = Updated(state, data)
       /\ writeNo' = writeNo + 1
       /\ Launch(q2, q2.serving # None, readCb, state', Known(state),
                 DOMAIN data)

(* handleWriteError: the state is restored, what was postponed is dropped. *)
WriteError ==
  LET q2 == SQ!Serve(SQ!Release(q)) IN
  /\ state' = Restored(state, actualRemoteState, paramsListToSave)
  /\ actualRemoteState' = None
  /\ paramsListToSave' = None
  /\ nextWritePartialState' = None
  /\ UNCHANGED writeNo
  /\ Launch(q2, q2.serving # None, readCb, state', None, None)

EndWriteJob(err) ==
  /\ user' = Settle({WRITE, "postponed", "next"}, err)
  /\ IF err THEN WriteError ELSE WriteSuccess
  /\ UNCHANGED initVars

-----------------------------------------------------------------------------
(* The API.                                                                *)

InitInProgress == initStep \in {"reading", "continues"}

CanInit == mode.initialize \/ mode.getter

(* A device calls init() first, and waits for it unless CallsDuringInit.    *)
MayCall(u) ==
  /\ ~destroyed
  /\ user[u].on = "idle"
  /\ ~CanInit \/ initStep = "done" \/ (CallsDuringInit /\ InitInProgress)

Pends(u, on, no, ps) ==
  user' = [user EXCEPT ![u] = [on |-> on, no |-> no, params |-> ps]]

(* startNewWriteJob *)
StartNewWriteJob(u, partial) ==
  IF \/ nextWritePartialState # None
     \/ actualRemoteState # None
     \/ paramsListToSave # None
  THEN /\ Pends(u, "rejected", 0, {})
       /\ UNCHANGED <<state, bookkeeping, q, job, ready, outbox, writeNo>>
  ELSE /\ actualRemoteState' = Known(state)
       /\ paramsListToSave' = DOMAIN partial
       /\ state' = Updated(state, partial)
       /\ writeNo' = writeNo + 1
       /\ Ask(WRITE, readCb, state', actualRemoteState', paramsListToSave')
       /\ Pends(u, WRITE, writeNo', DOMAIN partial)
       /\ UNCHANGED nextWritePartialState

Write(u, partial) ==
  /\ MayCall(u)
  /\ writes < MaxWrites
  /\ writes' = writes + 1
  /\ CASE ~mode.setter ->
            /\ state' = Updated(state, partial)
            /\ Pends(u, "resolved", 0, {})
            /\ UNCHANGED <<bookkeeping, q, job, ready, outbox, writeNo>>
       [] mode.setter /\ q.serving = WRITE ->
            /\ nextWritePartialState' = NextWriteOr(partial)
            /\ Pends(u, "postponed", writeNo + 1, DOMAIN partial)
            /\ UNCHANGED <<state, actualRemoteState, paramsListToSave, q, job,
                           ready, outbox, writeNo>>
       [] mode.setter /\ WRITE \in SQ!Waiting(q) ->
            /\ paramsListToSave' = paramsListToSave \cup DOMAIN partial
            /\ state' = Updated(state, partial)
            /\ Pends(u, WRITE, writeNo, DOMAIN partial)
            /\ UNCHANGED <<actualRemoteState, nextWritePartialState, q, job,
                           ready, outbox, writeNo>>
       [] OTHER -> StartNewWriteJob(u, partial)
  /\ UNCHANGED <<mode, initVars, inbox, server, loads, events, unheard,
                 destroyed>>

(* Queue.add of a callback for the reading job: refused while one runs,    *)
(* and it replaces the one of a job that waits.                            *)
AddReading(cb) ==
  /\ readCb' = IF q.serving = READ THEN readCb ELSE cb
  /\ Ask(READ, cb, state, actualRemoteState, paramsListToSave)

Load(u) ==
  /\ MayCall(u)
  /\ loads < MaxLoads
  /\ loads' = loads + 1
  /\ IF mode.getter
     THEN AddReading("load") /\ Pends(u, READ, 0, {})
     ELSE Pends(u, "resolved", 0, {}) /\ UNCHANGED <<readCb, q, job, ready, outbox>>
  /\ UNCHANGED <<mode, state, bookkeeping, initStep, initResult, inbox, server,
                 writeNo, writes, events, unheard, destroyed>>

(* init() throws if there is neither callback, and changes nothing.        *)
StartInit ==
  /\ ~destroyed
  /\ initStep = "no"
  /\ CanInit
  /\ initStep' = "reading"
  /\ AddReading("init")
  /\ UNCHANGED <<mode, state, bookkeeping, initResult, inbox, server, user,
                 writeNo, bounds, unheard, destroyed>>

(* doInitialize goes on, a promise reaction after the reading job ended.   *)
ContinueInit ==
  /\ initStep = "continues"
  /\ IF initResult = None
     THEN initStep' = "failed" /\ UNCHANGED <<state, unheard>>
     ELSE /\ initStep' = "done"
          /\ state' = Updated(state, initResult)
          /\ unheard' = unheard \ DOMAIN initResult
  /\ UNCHANGED <<mode, bookkeeping, q, readCb, initResult, job, ready, outbox,
                 inbox, server, user, writeNo, bounds, destroyed>>

(* A mutant: only the queue is destroyed.                                  *)
DestroyQueueOnly ==
  /\ ~destroyed
  /\ destroyed' = TRUE
  /\ q' = SQ!Idle
  /\ ready' = FALSE
  /\ UNCHANGED <<mode, state, bookkeeping, initVars, job, outbox, inbox,
                 server, user, writeNo, bounds, unheard>>

Destroy ==
  /\ ~destroyed
  /\ destroyed' = TRUE
  /\ q' = SQ!Idle
  /\ ready' = FALSE
  /\ actualRemoteState' = None
  /\ paramsListToSave' = None
  /\ nextWritePartialState' = None
  /\ UNCHANGED <<mode, state, initVars, job, outbox, inbox, server, user,
                 writeNo, bounds, unheard>>

-----------------------------------------------------------------------------
(* What comes from outside: messages of the server and the timer of the    *)
(* current job.  Promise reactions run before either.                      *)

NoReactionWaits == ~ready /\ initStep # "continues"

IsLive(message) == q.serving # None /\ message.job = job

Arrives(kind) ==
  /\ NoReactionWaits
  /\ inbox # <<>>
  /\ Head(inbox).kind = kind
  /\ inbox' = Tail(inbox)

(* The getter returned.  handleLoading applies what it got even if the     *)
(* queue has given up on it, and leaves alone what is being saved.         *)
ApplyLoaded(data) ==
  IF actualRemoteState = None
  THEN state' = Updated(state, data) /\ UNCHANGED actualRemoteState
  ELSE /\ actualRemoteState' = data
       /\ state' = Safe(state, data, paramsListToSave)

StateArrives ==
  LET m == Head(inbox) IN
  /\ Arrives("got")
  /\ IF m.cb = "load"
     THEN /\ ApplyLoaded(m.data)
          /\ unheard' = unheard \ DOMAIN m.data
          /\ UNCHANGED initResult
     ELSE /\ initResult' = m.data
          /\ UNCHANGED <<state, actualRemoteState, unheard>>
  /\ IF IsLive(m)
     THEN EndReadJob(state', actualRemoteState', FALSE)
     ELSE UNCHANGED <<q, job, ready, outbox, user, initStep>>
  /\ UNCHANGED <<mode, paramsListToSave, nextWritePartialState, readCb, server,
                 writeNo, bounds, destroyed>>

ReadFails ==
  /\ EndReadJob(state, actualRemoteState, TRUE)
  /\ UNCHANGED <<state, bookkeeping, readCb, initResult, writeNo>>

(* The getter or the setter failed.                                        *)
RefusalArrives ==
  LET m == Head(inbox) IN
  /\ Arrives("refused")
  /\ CASE ~IsLive(m) -> UNCHANGED <<state, bookkeeping, initVars, q, job,
                                    ready, outbox, user, writeNo>>
       [] IsLive(m) /\ q.serving = READ -> ReadFails
       [] OTHER -> EndWriteJob(TRUE)
  /\ UNCHANGED <<mode, server, bounds, unheard, destroyed>>

(* The setter returned.                                                    *)
SavedArrives ==
  LET m == Head(inbox) IN
  /\ Arrives("saved")
  /\ IF IsLive(m)
     THEN EndWriteJob(FALSE) /\ unheard' = unheard \ m.params
     ELSE UNCHANGED <<state, bookkeeping, initVars, q, job, ready, outbox,
                      user, writeNo, unheard>>
  /\ UNCHANGED <<mode, server, bounds, destroyed>>

(* The job that had nothing to send ends.                                  *)
EmptyWriteEnds ==
  /\ ready
  /\ EndWriteJob(FALSE)
  /\ UNCHANGED <<mode, inbox, server, bounds, unheard, destroyed>>

(* The parameters that the current writing job has sent.                   *)
BeingSent ==
  (UNION {DOMAIN r.data : r \in {x \in ToSet(outbox) : x.kind = "set" /\ IsLive(x)}})
  \cup (UNION {m.params : m \in {x \in ToSet(inbox) : x.kind \in {"saved", "refused"}
                                                      /\ IsLive(x)}})

(* setIncomeState, called for an event of the server.  After destroy       *)
(* nobody calls it.                                                        *)
SetIncomeState ==
  LET partial == Head(inbox).data IN
  /\ Arrives("event")
  /\ CASE destroyed \/ q.serving = READ ->
            /\ unheard' = unheard \cup DOMAIN partial
            /\ UNCHANGED <<state, actualRemoteState>>
       [] ~destroyed /\ q.serving = WRITE ->
            /\ state' = Safe(state, partial, paramsListToSave)
            /\ actualRemoteState' = Merge(partial, actualRemoteState)
            /\ unheard' = (unheard \ DOMAIN partial) \cup
                          ((DOMAIN partial \cap paramsListToSave) \ BeingSent)
       [] OTHER ->
            /\ state' = Updated(state, partial)
            /\ unheard' = unheard \ DOMAIN partial
            /\ UNCHANGED actualRemoteState
  /\ UNCHANGED <<mode, paramsListToSave, nextWritePartialState, q, initVars,
                 job, ready, outbox, server, user, writeNo, bounds, destroyed>>

(* The queue gives up on its current job, which ends with an error.  The   *)
(* request goes on.                                                        *)
Timeout ==
  /\ Timeouts
  /\ NoReactionWaits
  /\ q.serving # None
  /\ IF q.serving = READ
     THEN ReadFails
     ELSE EndWriteJob(TRUE)
  /\ UNCHANGED <<mode, inbox, server, bounds, unheard, destroyed>>

-----------------------------------------------------------------------------
(* The server.                                                             *)

Says(message) == inbox' = Append(inbox, message)

ServerDoes ==
  LET r == Head(outbox) IN
  /\ outbox # <<>>
  /\ outbox' = Tail(outbox)
  /\ IF r.kind = "get"
     THEN /\ Says([kind |-> "got", job |-> r.job, cb |-> r.cb, data |-> server])
          /\ UNCHANGED server
     ELSE /\ Says([kind |-> "saved", job |-> r.job, params |-> DOMAIN r.data])
          /\ server' = Updated(server, r.data)
  /\ UNCHANGED <<mode, state, bookkeeping, q, initVars, job, ready, user,
                 writeNo, bounds, unheard, destroyed>>

ServerRefuses ==
  LET r == Head(outbox) IN
  /\ outbox # <<>>
  /\ outbox' = Tail(outbox)
  /\ Says([kind |-> "refused", job |-> r.job,
           params |-> IF r.kind = "get" THEN {} ELSE DOMAIN r.data])
  /\ UNCHANGED <<mode, state, bookkeeping, q, initVars, job, ready, server,
                 user, writeNo, bounds, unheard, destroyed>>

ServerChanges(p, v) ==
  /\ events < MaxEvents
  /\ events' = events + 1
  /\ server[p] # v
  /\ server' = [server EXCEPT ![p] = v]
  /\ Says([kind |-> "event", data |-> [x \in {p} |-> v]])
  /\ UNCHANGED <<mode, state, bookkeeping, q, initVars, job, ready, outbox,
                 user, writeNo, writes, loads, unheard, destroyed>>

Resume(u) ==
  /\ user[u].on \in {"resolved", "rejected"}
  /\ user' = [user EXCEPT ![u] = [on |-> "idle", no |-> 0, params |-> {}]]
  /\ UNCHANGED <<mode, state, bookkeeping, q, initVars, job, ready, outbox,
                 inbox, server, writeNo, bounds, unheard, destroyed>>

-----------------------------------------------------------------------------
Init ==
  /\ mode \in Modes
  /\ state = [p \in Params |-> Undef]
  /\ actualRemoteState = None
  /\ paramsListToSave = None
  /\ nextWritePartialState = None
  /\ q = SQ!Idle
  /\ readCb = "load"
  /\ initStep = "no"
  /\ initResult = None
  /\ job = 0
  /\ ready = FALSE
  /\ outbox = <<>>
  /\ inbox = <<>>
  /\ server \in [Params -> Values]
  /\ user = [u \in Users |-> [on |-> "idle", no |-> 0, params |-> {}]]
  /\ writeNo = 0
  /\ writes = 0
  /\ loads = 0
  /\ events = 0
  /\ unheard = {}
  /\ destroyed = FALSE

Next ==
  \/ StartInit
  \/ ContinueInit
  \/ \E u \in Users, partial \in Partials : Write(u, partial)
  \/ \E u \in Users : Load(u)
  \/ Destroy
  \/ StateArrives
  \/ RefusalArrives
  \/ SavedArrives
  \/ EmptyWriteEnds
  \/ SetIncomeState
  \/ Timeout
  \/ ServerDoes
  \/ ServerRefuses
  \/ \E p \in Params, v \in Values : ServerChanges(p, v)
  \/ \E u \in Users : Resume(u)

Spec == Init /\ [][Next]_vars

(* The event loop runs promise reactions and fires the timer of the        *)
(* current job.  Neither the server nor the callers have to do anything.   *)
FairSpec ==
  /\ Spec
  /\ WF_vars(ContinueInit)
  /\ WF_vars(EmptyWriteEnds)
  /\ WF_vars(Timeout)
  /\ \A u \in Users : WF_vars(Resume(u))

-----------------------------------------------------------------------------
(* Properties.                                                             *)

(* Type invariant: what the fields of the class and the wires may hold.    *)
TypeOK ==
  /\ mode \in Modes
  /\ state \in States
  /\ actualRemoteState \in Dictionaries \cup {None}
  /\ paramsListToSave \in (SUBSET Params) \cup {None}
  /\ nextWritePartialState \in Partials \cup {None}
  /\ q.serving \in {READ, WRITE, None}
  /\ q.line \in {<<>>, <<READ>>, <<WRITE>>}
  /\ readCb \in {"init", "load"}
  /\ initStep \in {"no", "reading", "continues", "done", "failed"}
  /\ initResult \in Dictionaries \cup {None}
  /\ server \in [Params -> Values]
  /\ user \in [Users -> [on : {"idle", READ, WRITE, "postponed", "next",
                               "resolved", "rejected"},
                         no : Nat, params : SUBSET Params]]

(* The fields of a write cycle are set exactly while a writing job is in   *)
(* the queue, and a next cycle is collected only while one is in progress: *)
(* none of the errors "has to be removed", "has to be set", "no ..." can   *)
(* be reached, and no cycle starts from what another one has left.         *)
CycleMatchesQueue ==
  /\ (actualRemoteState # None) <=> Listed(WRITE)
  /\ (paramsListToSave # None) <=> Listed(WRITE)
  /\ nextWritePartialState # None => q.serving = WRITE

(* The promise of write() waits for the end of the very job that saves its *)
(* parameters, also when they were postponed or merged with others.        *)
PromiseFollowsItsWrite ==
  ~destroyed => \A u \in Users :
    CASE user[u].on \in {WRITE, "next"} ->
           /\ Listed(WRITE)
           /\ user[u].no = writeNo
           /\ user[u].params \subseteq paramsListToSave
      [] user[u].on = "postponed" ->
           /\ q.serving = WRITE
           /\ user[u].no = writeNo + 1
           /\ nextWritePartialState # None
           /\ user[u].params \subseteq DOMAIN nextWritePartialState
      [] OTHER -> TRUE

(* What is being saved is the most actual: while a write cycle lasts, only *)
(* another write() changes its parameters, whatever is loaded or told.     *)
SavingIsNotOverwritten ==
  [][(/\ paramsListToSave # None /\ paramsListToSave' # None
      /\ writeNo' = writeNo /\ writes' = writes)
     => \A p \in paramsListToSave : state'[p] = state[p]]_vars

(* When the promise of write() is resolved the server holds the values     *)
(* that are written (by then of the last write() of each parameter), or    *)
(* has changed since, by an event not handled yet or dropped.              *)
ResolvedMeansSaved ==
  [][\A u \in Users :
       (user[u].on \in {WRITE, "postponed", "next"} /\ user'[u].on = "resolved")
       => \A p \in user[u].params :
            LET written == IF user[u].on = "postponed"
                           THEN nextWritePartialState[p] ELSE state[p]
            IN  \/ server[p] = written
                \/ p \in unheard'
                \/ \E m \in ToSet(inbox') : m.kind = "event" /\ p \in DOMAIN m.data
    ]_vars

Quiet ==
  /\ q.serving = None /\ inbox = <<>> /\ outbox = <<>>
  /\ ~InitInProgress /\ ~destroyed

(* "State which is consistent while reading and writing": when nothing is  *)
(* on its way the local state is the one of the server.                    *)
Consistent ==
  (Quiet /\ mode.setter) =>
    \A p \in Params : state[p] \in {Undef, server[p]}

(* The same but for parameters whose last event was not applied, either    *)
(* because a reading job was in progress that failed, or because it was a  *)
(* parameter of the writing job that the job had no need to send.          *)
ConsistentIfHeard ==
  (Quiet /\ mode.setter) =>
    \A p \in Params \ unheard : state[p] \in {Undef, server[p]}

(* Every promise of write() and load() is settled, even if the server      *)
(* never answers, unless the state is destroyed.                           *)
PromisesSettle ==
  \A u \in Users :
    user[u].on \in {READ, WRITE, "postponed", "next"}
      ~> (destroyed \/ user[u].on \in {"idle", "resolved", "rejected"})
=============================================================================
