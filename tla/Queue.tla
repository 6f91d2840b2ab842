-------------------------------- MODULE Queue --------------------------------
(***************************************************************************)
(* system/lib/Queue.ts: callbacks run one at a time, each under a timeout. *)
(*                                                                         *)
(* A step is one synchronous run of the JavaScript engine: an API call, a  *)
(* timer callback, or a promise reaction.  Everything such a run does is   *)
(* part of the step: the endJob event between two jobs, the handlers it    *)
(* calls, the start of the next job.  A timer fires only when no promise   *)
(* reaction is waiting to run.                                             *)
(*                                                                         *)
(* A job object is [id, n, cb]: n tells two jobs with the same id apart,   *)
(* and cb is the callback it will call.  The numbers are handed out one    *)
(* per callback given to the queue, MaxCbs in all.  The third field of the *)
(* code's job, the canceled flag, is the set canceled.                     *)
(***************************************************************************)
EXTENDS Integers, Sequences, SequencesExt, FiniteSets

CONSTANTS
  NamedIds,  \* ids chosen by callers
  Clients,   \* those who wait for promises of the queue
  MaxCbs,    \* bound: how many callbacks are ever given to the queue
  MaxUnnamed,\* bound: how many of them come without an id
  NoJob      \* undefined: no current job, no timeout, no callback

ASSUME BoundsAssumption == MaxCbs \in Nat /\ MaxUnnamed \in Nat

Numbers == 1..MaxCbs

(* An unnamed job is called by the value of unnamedJobIdCounter.           *)
Ids == NamedIds \cup 0..(MaxUnnamed - 1)

ASSUME NoJobAssumption == NoJob \notin Ids \cup Numbers

Job == [id : Ids, n : Numbers, cb : Numbers]

ASSUME NoJobIsNotAJob == NoJob \notin Job

VARIABLES
  queue,                \* the jobs that wait
  currentJob,           \* the job in progress or NoJob
  runningTimeout,       \* handle of the timer of the current job, or NoJob
  unnamedJobIdCounter,
  canceled,             \* numbers of the jobs marked as canceled
  armed,                \* jobs whose timer the event loop still holds
  calls,                \* callbacks called and not yet reacted to
  endHandler,           \* by id: callback that a onJobEndOnce handler adds
                        \* again when the job with this id ends, or NoJob
  promise,              \* by client: the promise of the queue it waits for
  made,                 \* how many callbacks were given so far
  ended,                \* history, by job number: how many times it ended
  thrown,               \* an internal error of the queue was thrown
  destroyed

vars == <<queue, currentJob, runningTimeout, unnamedJobIdCounter, canceled,
          armed, calls, endHandler, promise, made, ended, thrown, destroyed>>

Call == [job : Job, out : {"pending", "ok", "error"}]

Promise == [on : {"start", "end"}, id : Ids \cup {NoJob}, n : Numbers \cup {NoJob},
            state : {"idle", "pending", "resolved", "rejected"}]

NoPromise == [on |-> "end", id |-> NoJob, n |-> NoJob, state |-> "idle"]

Settled(p) == p.state \in {"resolved", "rejected"}

-----------------------------------------------------------------------------
(* The job list: [queue, current], apart from timers and callbacks.        *)

JobList == [queue |-> queue, current |-> currentJob]

Queued(jl, id) == \E i \in DOMAIN jl.queue : jl.queue[i].id = id

IsCurrent(jl, id) == jl.current # NoJob /\ jl.current.id = id

HasJob(jl, id) == IsCurrent(jl, id) \/ Queued(jl, id)

GetJobIndex(jl, id) ==
  CHOOSE i \in DOMAIN jl.queue :
    jl.queue[i].id = id /\ \A k \in 1..(i - 1) : jl.queue[k].id # id

(* A mutant: the last job of the queue starts.                             *)
StartNextLast(jl) ==
  IF jl.current # NoJob \/ jl.queue = <<>>
  THEN jl
  ELSE [queue |-> Front(jl.queue), current |-> Last(jl.queue)]

StartNextJobIfNeed(jl) ==
  IF jl.current # NoJob \/ jl.queue = <<>>
  THEN jl
  ELSE [queue |-> Tail(jl.queue), current |-> Head(jl.queue)]

(* A mutant: the job added to an idle queue is not started.                *)
AddJobNotStarted(jl, id, cb) ==
  IF HasJob(jl, id) THEN jl
  ELSE [jl EXCEPT !.queue = Append(@, [id |-> id, n |-> cb, cb |-> cb])]

(* The callback of the current job is never replaced, the one of a job     *)
(* that waits is, and the job keeps its place.                             *)
AddJob(jl, id, cb) ==
  CASE IsCurrent(jl, id) -> jl
    [] ~IsCurrent(jl, id) /\ Queued(jl, id) ->
         [jl EXCEPT !.queue[GetJobIndex(jl, id)].cb = cb]
    [] OTHER ->
         StartNextJobIfNeed(
           [jl EXCEPT !.queue = Append(@, [id |-> id, n |-> cb, cb |-> cb])])

RemoveJobFromQueue(jl, id) ==
  IF Queued(jl, id)
  THEN [jl EXCEPT !.queue = RemoveAt(@, GetJobIndex(jl, id))]
  ELSE jl

(* The endJob event of id: its handler may add a job of the same id.       *)
EmitEndJob(jl, id) ==
  IF endHandler[id] = NoJob THEN jl ELSE AddJob(jl, id, endHandler[id])

-----------------------------------------------------------------------------
(* The promises settled by the endJob and startJob events of a step.       *)

(* A mutant: an error resolves the promise as well.                        *)
OutcomeIgnoresError(p, err) == "resolved"

Outcome(p, err) == IF err /\ p.on = "end" THEN "rejected" ELSE "resolved"

SettlePromises(endId, startId, err) ==
  promise' = [c \in Clients |->
    LET p == promise[c]
        hit == \/ p.on = "end" /\ p.id = endId
               \/ p.on = "start" /\ p.id = startId
    IN  IF p.state # "pending" \/ ~hit THEN p
        ELSE [p EXCEPT !.state = Outcome(p, err)]]

(* The step leaves the job list jl and the current job went on, or there   *)
(* was none.  A job that became current is started: startJob emits the     *)
(* event, arms the timer and calls the callback.                           *)
Proceed(jl) ==
  /\ queue' = jl.queue
  /\ currentJob' = jl.current
  /\ UNCHANGED <<endHandler, ended>>
  /\ IF jl.current = currentJob
     THEN UNCHANGED <<runningTimeout, armed, calls, promise>>
     ELSE /\ runningTimeout' = jl.current
          /\ armed' = armed \cup {jl.current}
          /\ calls' = calls \cup {[job |-> jl.current, out |-> "pending"]}
          /\ SettlePromises(NoJob, jl.current.id, FALSE)

(* A mutant: the timer of a job that ended is not cleared.                 *)
ArmedNotCleared(fired) == armed \ {fired}

(* The timers left when the current job was finalized; fired is the one    *)
(* whose callback we are in, if any.                                       *)
ArmedAfterEnd(fired) == armed \ {runningTimeout, fired}

HandlersAfterEnd == [endHandler EXCEPT ![currentJob.id] = NoJob]

(* The same when the current job was finalized, its timer cleared, and its *)
(* endJob event emitted; reacted is the call whose promise reaction we are *)
(* in, if any.                                                             *)
ProceedAfterEnd(jl, err, fired, reacted) ==
  /\ queue' = jl.queue
  /\ currentJob' = jl.current
  /\ endHandler' = HandlersAfterEnd
  /\ ended' = [ended EXCEPT ![currentJob.n] = @ + 1]
  /\ runningTimeout' = jl.current
  /\ IF jl.current = NoJob
     THEN /\ armed' = ArmedAfterEnd(fired)
          /\ calls' = calls \ {reacted}
          /\ SettlePromises(currentJob.id, NoJob, err)
     ELSE /\ armed' = ArmedAfterEnd(fired) \cup {jl.current}
          /\ calls' = (calls \ {reacted}) \cup
                      {[job |-> jl.current, out |-> "pending"]}
          /\ SettlePromises(currentJob.id, jl.current.id, err)

Finalized == [JobList EXCEPT !.current = NoJob]

(* A mutant: nothing is started when a job ended.                          *)
NextNotStarted(id) == EmitEndJob(Finalized, id)

NextAfterEnd(id) == StartNextJobIfNeed(EmitEndJob(Finalized, id))

(* handleCbFinished: the job list is checked by id, not by job object.     *)
HandleCbFinished(job, err, fired, reacted) ==
  IF ~IsCurrent(JobList, job.id)
  THEN /\ thrown' = TRUE
       /\ armed' = armed \ {fired}
       /\ calls' = calls \ {reacted}
       /\ UNCHANGED <<queue, currentJob, runningTimeout, endHandler, promise,
                      ended>>
  ELSE /\ ProceedAfterEnd(NextAfterEnd(job.id), err, fired, reacted)
       /\ UNCHANGED thrown

-----------------------------------------------------------------------------
(* The API, called by anybody at any time before destroy.                  *)

AddWithId(id) ==
  /\ ~destroyed
  /\ made < MaxCbs
  /\ made' = made + 1
  /\ Proceed(AddJob(JobList, id, made + 1))
  /\ UNCHANGED <<canceled, thrown, destroyed>>

Add(id) == AddWithId(id) /\ UNCHANGED unnamedJobIdCounter

AddUnnamed ==
  /\ unnamedJobIdCounter + 1 < MaxUnnamed
  /\ unnamedJobIdCounter' = unnamedJobIdCounter + 1
  /\ AddWithId(unnamedJobIdCounter + 1)

(* A canceled current job ends without an error and before the job list is *)
(* searched, so the search also sees what the handlers of its end added.   *)
CancelJob(id) ==
  /\ ~destroyed
  /\ IF IsCurrent(JobList, id)
     THEN /\ canceled' = canceled \cup {currentJob.n}
          /\ ProceedAfterEnd(
               StartNextJobIfNeed(
                 RemoveJobFromQueue(EmitEndJob(Finalized, id), id)),
               FALSE, NoJob, NoJob)
     ELSE /\ Proceed(StartNextJobIfNeed(RemoveJobFromQueue(JobList, id)))
          /\ UNCHANGED canceled
  /\ UNCHANGED <<unnamedJobIdCounter, made, thrown, destroyed>>

(* The number of the job that has the id now.                              *)
NumberOf(id) ==
  CASE IsCurrent(JobList, id) -> currentJob.n
    [] ~IsCurrent(JobList, id) /\ Queued(JobList, id) ->
         queue[GetJobIndex(JobList, id)].n
    [] OTHER -> NoJob

Await(c, on, id, state) ==
  /\ promise[c].state = "idle"
  /\ promise' = [promise EXCEPT ![c] =
       [on |-> on, id |-> id, n |-> NumberOf(id), state |-> state]]
  /\ UNCHANGED <<queue, currentJob, runningTimeout, unnamedJobIdCounter,
                 canceled, armed, calls, endHandler, made, ended, thrown,
                 destroyed>>

WaitJobStart(c, id) ==
  /\ ~destroyed
  /\ Await(c, "start", id,
           CASE IsCurrent(JobList, id) -> "resolved"
             [] ~HasJob(JobList, id) -> "rejected"
             [] OTHER -> "pending")

WaitJobFinished(c, id, force) ==
  /\ ~destroyed
  /\ Await(c, "end", id,
           IF force \/ HasJob(JobList, id) THEN "pending" ELSE "rejected")

WaitCurrentJobFinished(c) ==
  /\ ~destroyed
  /\ IF currentJob = NoJob
     THEN Await(c, "end", NoJob, "resolved")
     ELSE Await(c, "end", currentJob.id, "pending")

(* A handler that adds a job of the same id, as ConsistentState registers. *)
OnJobEndOnce(id) ==
  /\ ~destroyed
  /\ made < MaxCbs
  /\ endHandler[id] = NoJob
  /\ made' = made + 1
  /\ endHandler' = [endHandler EXCEPT ![id] = made + 1]
  /\ UNCHANGED <<queue, currentJob, runningTimeout, unnamedJobIdCounter,
                 canceled, armed, calls, promise, ended, thrown, destroyed>>

Destroy ==
  /\ ~destroyed
  /\ destroyed' = TRUE
  /\ queue' = <<>>
  /\ currentJob' = NoJob
  /\ runningTimeout' = NoJob
  /\ armed' = armed \ {runningTimeout}
  /\ canceled' = IF currentJob = NoJob THEN canceled
                 ELSE canceled \cup {currentJob.n}
  /\ endHandler' = [id \in Ids |-> NoJob]
  /\ UNCHANGED <<unnamedJobIdCounter, calls, promise, made, ended, thrown>>

-----------------------------------------------------------------------------
(* The event loop.                                                         *)

(* The promise that a callback returned is settled from the outside.       *)
SettleCb(call, out) ==
  /\ call.out = "pending"
  /\ calls' = (calls \ {call}) \cup {[call EXCEPT !.out = out]}
  /\ UNCHANGED <<queue, currentJob, runningTimeout, unnamedJobIdCounter,
                 canceled, armed, endHandler, promise, made, ended, thrown,
                 destroyed>>

(* A mutant: the callback of a canceled job ends a job as well.            *)
ReactAlways(call) ==
  /\ call.out # "pending"
  /\ HandleCbFinished(call.job, call.out = "error", NoJob, call)
  /\ UNCHANGED <<unnamedJobIdCounter, canceled, made, destroyed>>

(* The reaction to it, a promise job that runs later.                      *)
ReactToCb(call) ==
  /\ call.out # "pending"
  /\ IF call.job.n \in canceled
     THEN /\ calls' = calls \ {call}
          /\ UNCHANGED <<queue, currentJob, runningTimeout, armed, endHandler,
                         promise, ended, thrown>>
     ELSE HandleCbFinished(call.job, call.out = "error", NoJob, call)
  /\ UNCHANGED <<unnamedJobIdCounter, canceled, made, destroyed>>

ResumeClient(c) ==
  /\ Settled(promise[c])
  /\ promise' = [promise EXCEPT ![c] = NoPromise]
  /\ UNCHANGED <<queue, currentJob, runningTimeout, unnamedJobIdCounter,
                 canceled, armed, calls, endHandler, made, ended, thrown,
                 destroyed>>

NoReactionWaits ==
  /\ \A call \in calls : call.out = "pending"
  /\ \A c \in Clients : ~Settled(promise[c])

(* A mutant: the job whose time is over is not marked as canceled.         *)
TimeoutForgets(job) ==
  /\ NoReactionWaits
  /\ HandleCbFinished(job, TRUE, job, NoJob)
  /\ UNCHANGED <<unnamedJobIdCounter, canceled, made, destroyed>>

Timeout(job) ==
  /\ NoReactionWaits
  /\ canceled' = canceled \cup {job.n}
  /\ HandleCbFinished(job, TRUE, job, NoJob)
  /\ UNCHANGED <<unnamedJobIdCounter, made, destroyed>>

-----------------------------------------------------------------------------
Init ==
  /\ queue = <<>>
  /\ currentJob = NoJob
  /\ runningTimeout = NoJob
  /\ unnamedJobIdCounter = -1
  /\ canceled = {}
  /\ armed = {}
  /\ calls = {}
  /\ endHandler = [id \in Ids |-> NoJob]
  /\ promise = [c \in Clients |-> NoPromise]
  /\ made = 0
  /\ ended = [n \in Numbers |-> 0]
  /\ thrown = FALSE
  /\ destroyed = FALSE

Next ==
  \/ \E id \in NamedIds : Add(id)
  \/ AddUnnamed
  \/ \E id \in Ids : CancelJob(id)
  \/ \E id \in Ids : OnJobEndOnce(id)
  \/ \E c \in Clients, id \in Ids : WaitJobStart(c, id)
  \/ \E c \in Clients, id \in Ids, force \in BOOLEAN :
       WaitJobFinished(c, id, force)
  \/ \E c \in Clients : WaitCurrentJobFinished(c)
  \/ Destroy
  \/ \E call \in calls, out \in {"ok", "error"} : SettleCb(call, out)
  \/ \E call \in calls : ReactToCb(call)
  \/ \E c \in Clients : ResumeClient(c)
  \/ \E job \in armed : Timeout(job)

Spec == Init /\ [][Next]_vars

(* The event loop runs promise reactions and, between them, timers that    *)
(* are due, however often somebody else makes it busy again.  Nobody has   *)
(* to call the queue, and the promise of a callback may never settle.      *)
Fairness ==
  /\ WF_vars(\E call \in calls : ReactToCb(call))
  /\ WF_vars(\E c \in Clients : ResumeClient(c))
  /\ SF_vars(\E job \in armed : Timeout(job))

FairSpec == Spec /\ Fairness

-----------------------------------------------------------------------------
(* Properties.                                                             *)

Listed == {queue[i].n : i \in DOMAIN queue} \cup
          (IF currentJob = NoJob THEN {} ELSE {currentJob.n})

(* Type invariant: what the fields of the class may hold.                  *)
TypeOK ==
  /\ queue \in Seq(Job)
  /\ currentJob \in Job \cup {NoJob}
  /\ runningTimeout \in Job \cup {NoJob}
  /\ unnamedJobIdCounter \in -1..(MaxUnnamed - 1)
  /\ canceled \subseteq Numbers
  /\ armed \subseteq Job
  /\ calls \subseteq Call
  /\ endHandler \in [Ids -> Numbers \cup {NoJob}]
  /\ promise \in [Clients -> Promise]
  /\ made \in 0..MaxCbs
  /\ ended \in [Numbers -> Nat]
  /\ thrown \in BOOLEAN
  /\ destroyed \in BOOLEAN

(* Jobs are told apart by their ids alone (cancelJob, hasJob,              *)
(* handleCbFinished), so no two listed jobs may share one.                 *)
UniqueIds ==
  /\ \A i, j \in DOMAIN queue : queue[i].id = queue[j].id => i = j
  /\ currentJob # NoJob => ~Queued(JobList, currentJob.id)

(* Exactly the current job has a timer, and runningTimeout is its handle:  *)
(* no timer of a job that has ended is left to end another one.            *)
TimerOfCurrentJob ==
  /\ runningTimeout = currentJob
  /\ armed = IF currentJob = NoJob THEN {} ELSE {currentJob}

(* Callbacks run one at a time but for those the queue has given up on: a  *)
(* callback that can still end a job is the one of the current job, and    *)
(* the current job has one.                                                *)
OneLiveCallback ==
  /\ \A call \in calls : call.job.n \notin canceled => call.job = currentJob
  /\ currentJob # NoJob =>
       /\ currentJob.n \notin canceled
       /\ \E call \in calls : call.job = currentJob

(* handleCbFinished never meets the states its two errors are thrown in.   *)
NoInternalError == ~thrown

(* A job waits only behind a job in progress.                              *)
NobodyWaitsForNothing == queue # <<>> => currentJob # NoJob

(* A job ends at most once: it is out of the list before its endJob event  *)
(* is emitted, so nothing finds it there to end it again or to run it.     *)
EndsAtMostOnce ==
  /\ \A n \in Numbers : ended[n] <= 1
  /\ \A n \in Listed : ended[n] = 0

(* Inductive invariant: the properties above, and why the numbers of jobs  *)
(* tell them apart.  A number nobody uses yet, or one kept by a handler    *)
(* for a job it will add, belongs to no job, call or history; a job that   *)
(* waits was neither called nor canceled; a job is called once.            *)
Fresh(n) ==
  /\ n \notin Listed
  /\ n \notin canceled
  /\ ended[n] = 0
  /\ \A call \in calls : call.job.n # n

NumbersTellJobsApart ==
  /\ \A i, j \in DOMAIN queue : queue[i].n = queue[j].n => i = j
  /\ \A i \in DOMAIN queue :
       /\ currentJob # NoJob => queue[i].n # currentJob.n
       /\ queue[i].n \notin canceled
       /\ \A call \in calls : call.job.n # queue[i].n
  /\ \A call1, call2 \in calls : call1.job.n = call2.job.n => call1 = call2
  /\ \A n \in Numbers : n > made => Fresh(n)
  /\ \A id \in Ids : endHandler[id] # NoJob =>
       /\ endHandler[id] <= made
       /\ Fresh(endHandler[id])
  /\ \A id1, id2 \in Ids :
       endHandler[id1] = endHandler[id2] => endHandler[id1] = NoJob \/ id1 = id2

Inv ==
  /\ TypeOK
  /\ UniqueIds
  /\ TimerOfCurrentJob
  /\ OneLiveCallback
  /\ NoInternalError
  /\ NobodyWaitsForNothing
  /\ EndsAtMostOnce
  /\ NumbersTellJobsApart

(* A job ends by its own doing: its callback is reacted to, its own timer  *)
(* fires or it is canceled.  handleCbFinished compares ids only, and yet a *)
(* late callback or timer is never taken for the end of a later job that   *)
(* has the same id.                                                        *)
EndsByItself ==
  [][\A n \in Numbers : ended'[n] # ended[n] =>
       \/ n \in canceled' \ canceled
       \/ \E call \in calls \ calls' :
            call.job.n = n /\ call.out # "pending"
    ]_vars

(* A promise of waitJobFinished is settled by the end of the job that had  *)
(* the id when it was asked for, and tells how that job ended, unless that *)
(* job was taken out of the queue before it started.                       *)
PromiseTellsOfItsJob ==
  [][\A c \in Clients :
       LET p == promise[c] IN
       (/\ p.state = "pending" /\ p.on = "end" /\ p.n \in Listed
        /\ Settled(promise'[c]))
       => /\ ended'[p.n] = ended[p.n] + 1
          /\ \/ p.n \in canceled'
             \/ \E call \in calls :
                  /\ call.job.n = p.n
                  /\ call.out =
                       IF promise'[c].state = "resolved" THEN "ok" ELSE "error"
    ]_vars

(* A promise asked for a job in the list does not stay pending, unless the *)
(* job was taken out before it started, by cancelJob or destroy.           *)
PromisesSettle ==
  \A c \in Clients, n \in Numbers :
    LET Pending == promise[c].state = "pending" /\ promise[c].n = n
    IN  (Pending /\ n \in Listed)
          ~> (~Pending \/ (n \notin Listed /\ ended[n] = 0))

(* What the users of the queue see of the job list.                        *)
serialView ==
  [line |-> [i \in DOMAIN queue |-> queue[i].id],
   serving |-> IF currentJob = NoJob THEN NoJob ELSE currentJob.id]

(* The queue implements the one its users count on.                        *)
Promised == INSTANCE SerialQueue WITH
  JobIds <- Ids,
  Nobody <- NoJob,
  serial <- serialView

ServesInOrder == Promised!Spec
=============================================================================
