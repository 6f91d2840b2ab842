----------------------------- MODULE QueueProofs -----------------------------
(***************************************************************************)
(* Inv is an invariant of Queue, for every set of ids and of clients and   *)
(* every bound.                                                            *)
(*                                                                         *)
(* A step changes the job list through AddJob, RemoveJobFromQueue and      *)
(* StartNextJobIfNeed, and everything else through Proceed or              *)
(* ProceedAfterEnd.  The lemmas about the first three say what a job list  *)
(* keeps; the lemmas about the other two, that a step whose job list has   *)
(* kept it preserves Inv.  What is left for each action is to see that the *)
(* number of the callback it gives to the queue is fresh.                  *)
(***************************************************************************)
EXTENDS Queue, SequenceTheorems, TLAPS

(* What a job list [queue, current] keeps.                                 *)
JobListType == [queue : Seq(Job), current : Job \cup {NoJob}]

NumbersOf(jl) ==
  {jl.queue[i].n : i \in DOMAIN jl.queue} \cup
  (IF jl.current = NoJob THEN {} ELSE {jl.current.n})

DistinctIds(jl) ==
  /\ \A i, j \in DOMAIN jl.queue : jl.queue[i].id = jl.queue[j].id => i = j
  /\ jl.current # NoJob =>
       \A i \in DOMAIN jl.queue : jl.queue[i].id # jl.current.id

DistinctNumbers(jl) ==
  /\ \A i, j \in DOMAIN jl.queue : jl.queue[i].n = jl.queue[j].n => i = j
  /\ jl.current # NoJob =>
       \A i \in DOMAIN jl.queue : jl.queue[i].n # jl.current.n

WellFormed(jl) ==
  /\ jl \in JobListType
  /\ DistinctIds(jl)
  /\ DistinctNumbers(jl)

Busy(jl) == jl.queue # <<>> => jl.current # NoJob

-----------------------------------------------------------------------------
LEMMA JobIndex ==
  ASSUME NEW jl, WellFormed(jl), NEW id, Queued(jl, id)
  PROVE  /\ GetJobIndex(jl, id) \in DOMAIN jl.queue
         /\ jl.queue[GetJobIndex(jl, id)].id = id
<1>1. PICK i \in DOMAIN jl.queue : jl.queue[i].id = id
  BY DEF Queued
<1>2. \A k \in 1..(i - 1) : jl.queue[k].id # id
  <2>1. DOMAIN jl.queue = 1..Len(jl.queue) /\ Len(jl.queue) \in Nat
    BY DEF WellFormed, JobListType
  <2>2. \A k \in 1..(i - 1) : k \in DOMAIN jl.queue /\ k # i
    BY <2>1
  <2> QED
    BY <1>1, <2>2 DEF WellFormed, DistinctIds
<1> QED
  BY <1>1, <1>2 DEF GetJobIndex

(* Starting the next job moves it; the job list stays what it is.          *)
LEMMA StartNextKeeps ==
  ASSUME NEW jl, WellFormed(jl)
  PROVE  LET s == StartNextJobIfNeed(jl) IN
         /\ WellFormed(s)
         /\ Busy(s)
         /\ NumbersOf(s) = NumbersOf(jl)
         /\ jl.current # NoJob => s = jl
<1> DEFINE s == StartNextJobIfNeed(jl)
<1>1. CASE jl.current # NoJob \/ jl.queue = <<>>
  <2>1. s = jl
    BY <1>1 DEF StartNextJobIfNeed
  <2> QED
    BY <1>1, <2>1 DEF Busy
<1>2. CASE jl.current = NoJob /\ jl.queue # <<>>
  <2>1. s = [queue |-> Tail(jl.queue), current |-> Head(jl.queue)]
    BY <1>2 DEF StartNextJobIfNeed
  <2>2. /\ jl.queue \in Seq(Job)
        /\ Len(jl.queue) \in Nat
        /\ Len(jl.queue) > 0
        /\ DOMAIN jl.queue = 1..Len(jl.queue)
    BY <1>2 DEF WellFormed, JobListType
  <2>3. /\ s.queue \in Seq(Job)
        /\ DOMAIN s.queue = 1..(Len(jl.queue) - 1)
        /\ \A i \in DOMAIN s.queue : i + 1 \in DOMAIN jl.queue
                                     /\ s.queue[i] = jl.queue[i + 1]
        /\ 1 \in DOMAIN jl.queue
        /\ s.current = jl.queue[1]
        /\ s.current \in Job
    BY <2>1, <2>2
  <2>4. s.current # NoJob
    BY <2>3, NoJobIsNotAJob
  <2>5. WellFormed(s)
    <3>1. s \in JobListType
      BY <2>1, <2>3 DEF JobListType
    <3>2. \A i \in DOMAIN s.queue : i + 1 # 1 /\ i \in Int
      BY <2>2, <2>3
    <3>3. DistinctIds(s)
      <4>1. ASSUME NEW i \in DOMAIN s.queue, NEW j \in DOMAIN s.queue,
                   s.queue[i].id = s.queue[j].id
            PROVE  i = j
        BY <2>3, <3>2, <4>1 DEF WellFormed, DistinctIds
      <4>2. ASSUME NEW i \in DOMAIN s.queue
            PROVE  s.queue[i].id # s.current.id
        BY <2>3, <3>2 DEF WellFormed, DistinctIds
      <4> QED
        BY <4>1, <4>2 DEF DistinctIds
    <3>4. DistinctNumbers(s)
      <4>1. ASSUME NEW i \in DOMAIN s.queue, NEW j \in DOMAIN s.queue,
                   s.queue[i].n = s.queue[j].n
            PROVE  i = j
        BY <2>3, <3>2, <4>1 DEF WellFormed, DistinctNumbers
      <4>2. ASSUME NEW i \in DOMAIN s.queue
            PROVE  s.queue[i].n # s.current.n
        BY <2>3, <3>2 DEF WellFormed, DistinctNumbers
      <4> QED
        BY <4>1, <4>2 DEF DistinctNumbers
    <3> QED
      BY <3>1, <3>3, <3>4 DEF WellFormed
  <2>6. NumbersOf(s) = NumbersOf(jl)
    <3>1. \A j \in DOMAIN jl.queue :
            jl.queue[j] = s.current
            \/ (j - 1 \in DOMAIN s.queue /\ s.queue[j - 1] = jl.queue[j])
      BY <2>2, <2>3
    <3> QED
      BY <1>2, <2>3, <2>4, <3>1 DEF NumbersOf
  <2> QED
    BY <1>2, <2>3, <2>4, <2>5, <2>6 DEF Busy
<1> QED
  BY <1>1, <1>2

(* A job list keeps what it is if the job with cb's number is new to it.   *)
LEMMA AddKeeps ==
  ASSUME NEW jl, WellFormed(jl), NEW id \in Ids, NEW cb \in Numbers,
         cb \notin NumbersOf(jl)
  PROVE  LET s == AddJob(jl, id, cb) IN
         /\ WellFormed(s)
         /\ Busy(jl) => Busy(s)
         /\ NumbersOf(s) \subseteq NumbersOf(jl) \cup {cb}
         /\ jl.current # NoJob => s.current = jl.current
<1> DEFINE s == AddJob(jl, id, cb)
           new == [id |-> id, n |-> cb, cb |-> cb]
<1>0. /\ jl.queue \in Seq(Job)
      /\ Len(jl.queue) \in Nat
      /\ DOMAIN jl.queue = 1..Len(jl.queue)
      /\ \A i \in DOMAIN jl.queue : jl.queue[i] \in Job
      /\ jl = [queue |-> jl.queue, current |-> jl.current]
      /\ jl.current \in Job \cup {NoJob}
  BY DEF WellFormed, JobListType
<1>1. CASE IsCurrent(jl, id)
  BY <1>1 DEF AddJob
<1>2. CASE ~IsCurrent(jl, id) /\ Queued(jl, id)
  <2> DEFINE k == GetJobIndex(jl, id)
  <2>1. k \in DOMAIN jl.queue
    BY <1>2, JobIndex
  <2>2. s = [jl EXCEPT !.queue[k].cb = cb]
    BY <1>2 DEF AddJob
  <2> HIDE DEF k
  <2>3. /\ s \in JobListType
        /\ DOMAIN s.queue = DOMAIN jl.queue
        /\ s.current = jl.current
        /\ \A i \in DOMAIN jl.queue : /\ s.queue[i].id = jl.queue[i].id
                                      /\ s.queue[i].n = jl.queue[i].n
    <3>1. /\ s.queue = [jl.queue EXCEPT ![k] = [@ EXCEPT !.cb = cb]]
          /\ s.current = jl.current
          /\ s = [queue |-> s.queue, current |-> s.current]
      BY <1>0, <2>2
    <3>2. [jl.queue[k] EXCEPT !.cb = cb] \in Job
      BY <1>0, <2>1 DEF Job
    <3>3. s.queue \in Seq(Job)
      BY <1>0, <2>1, <3>1, <3>2
    <3>4. \A i \in DOMAIN jl.queue :
            s.queue[i] = IF i = k THEN [jl.queue[k] EXCEPT !.cb = cb]
                         ELSE jl.queue[i]
      BY <1>0, <2>1, <3>1
    <3> QED
      BY <1>0, <2>1, <3>1, <3>3, <3>4 DEF JobListType, Job
  <2>4. WellFormed(s)
    BY <2>3 DEF WellFormed, DistinctIds, DistinctNumbers
  <2>5. Busy(jl) => Busy(s)
    BY <1>0, <2>3 DEF Busy, JobListType
  <2>6. NumbersOf(s) = NumbersOf(jl)
    BY <2>3 DEF NumbersOf
  <2> QED
    BY <2>3, <2>4, <2>5, <2>6
<1>3. CASE ~IsCurrent(jl, id) /\ ~Queued(jl, id)
  <2> DEFINE a == [jl EXCEPT !.queue = Append(@, new)]
  <2>1. s = StartNextJobIfNeed(a)
    BY <1>3 DEF AddJob
  <2>2. /\ new \in Job
        /\ a.queue = Append(jl.queue, new)
        /\ a.current = jl.current
        /\ a = [queue |-> a.queue, current |-> a.current]
    BY <1>0 DEF Job
  <2>3. /\ a.queue \in Seq(Job)
        /\ DOMAIN a.queue = 1..(Len(jl.queue) + 1)
        /\ \A i \in DOMAIN jl.queue : a.queue[i] = jl.queue[i]
        /\ a.queue[Len(jl.queue) + 1] = new
        /\ \A i \in DOMAIN a.queue :
             i \in DOMAIN jl.queue \/ i = Len(jl.queue) + 1
        /\ DOMAIN jl.queue \subseteq DOMAIN a.queue
    BY <1>0, <2>2
  <2> HIDE DEF a
  <2>4. \A i \in DOMAIN jl.queue : jl.queue[i].id # id /\ jl.queue[i].n # cb
    BY <1>3 DEF Queued, NumbersOf
  <2>5. jl.current # NoJob => jl.current.id # id /\ jl.current.n # cb
    BY <1>3 DEF IsCurrent, NumbersOf
  <2>6. DistinctIds(a)
    BY <2>2, <2>3, <2>4, <2>5 DEF DistinctIds, WellFormed
  <2>7. DistinctNumbers(a)
    BY <2>2, <2>3, <2>4, <2>5 DEF DistinctNumbers, WellFormed
  <2>8. WellFormed(a)
    BY <1>0, <2>2, <2>3, <2>6, <2>7 DEF WellFormed, JobListType
  <2>9. NumbersOf(a) = NumbersOf(jl) \cup {cb}
    <3>1. Len(jl.queue) + 1 \in DOMAIN a.queue
      BY <1>0, <2>3
    <3> QED
      BY <2>2, <2>3, <3>1 DEF NumbersOf
  <2> QED
    BY <2>1, <2>2, <2>8, <2>9, StartNextKeeps
<1> QED
  BY <1>1, <1>2, <1>3

LEMMA RemoveAtKeeps ==
  ASSUME NEW S, NEW sq \in Seq(S), NEW k \in DOMAIN sq
  PROVE  LET r == RemoveAt(sq, k) IN
         /\ r \in Seq(S)
         /\ DOMAIN r = 1..(Len(sq) - 1)
         /\ \A i \in DOMAIN r : r[i] = sq[IF i < k THEN i ELSE i + 1]
<1>1. /\ Len(sq) \in Nat
      /\ DOMAIN sq = 1..Len(sq)
      /\ k \in 1..Len(sq)
  OBVIOUS
<1>2. /\ 1 \in Int /\ k - 1 \in Int /\ k + 1 \in Int /\ Len(sq) \in Int
      /\ \A i \in 1..(k - 1) : sq[i] \in S
      /\ \A i \in (k + 1)..Len(sq) : sq[i] \in S
  BY <1>1
<1>3. /\ SubSeq(sq, 1, k - 1) \in Seq(S)
      /\ Len(SubSeq(sq, 1, k - 1)) = IF 1 <= k - 1 THEN (k - 1) - 1 + 1 ELSE 0
      /\ \A i \in 1..((k - 1) - 1 + 1) :
           SubSeq(sq, 1, k - 1)[i] = sq[1 + i - 1]
  BY <1>2, SubSeqProperties
<1>0. /\ SubSeq(sq, k + 1, Len(sq)) \in Seq(S)
      /\ Len(SubSeq(sq, k + 1, Len(sq))) =
           IF k + 1 <= Len(sq) THEN Len(sq) - (k + 1) + 1 ELSE 0
      /\ \A i \in 1..(Len(sq) - (k + 1) + 1) :
           SubSeq(sq, k + 1, Len(sq))[i] = sq[(k + 1) + i - 1]
  BY <1>2, SubSeqProperties
<1> DEFINE a == SubSeq(sq, 1, k - 1)
           b == SubSeq(sq, k + 1, Len(sq))
<1>4. RemoveAt(sq, k) = a \o b
  BY DEF RemoveAt
<1>5. /\ a \in Seq(S) /\ Len(a) = k - 1
      /\ b \in Seq(S) /\ Len(b) = Len(sq) - k
      /\ \A i \in 1..(k - 1) : a[i] = sq[i]
      /\ \A i \in 1..(Len(sq) - k) : b[i] = sq[k + i]
  <2> HIDE DEF a, b
  <2>1. /\ a \in Seq(S)
        /\ Len(a) = IF 1 <= k - 1 THEN (k - 1) - 1 + 1 ELSE 0
        /\ \A i \in 1..((k - 1) - 1 + 1) : a[i] = sq[1 + i - 1]
    BY <1>3 DEF a
  <2>2. /\ b \in Seq(S)
        /\ Len(b) = IF k + 1 <= Len(sq) THEN Len(sq) - (k + 1) + 1 ELSE 0
        /\ \A i \in 1..(Len(sq) - (k + 1) + 1) : b[i] = sq[(k + 1) + i - 1]
    BY <1>0 DEF b
  <2>3. Len(a) = k - 1 /\ Len(b) = Len(sq) - k
    BY <1>1, <2>1, <2>2
  <2>4. \A i \in 1..(k - 1) : a[i] = sq[i]
    BY <1>1, <2>1
  <2>5. \A i \in 1..(Len(sq) - k) : b[i] = sq[k + i]
    <3> TAKE i \in 1..(Len(sq) - k)
    <3>1. i \in 1..(Len(sq) - (k + 1) + 1) /\ (k + 1) + i - 1 = k + i
      BY <1>1
    <3> QED
      BY <2>2, <3>1
  <2> QED
    BY <2>1, <2>2, <2>3, <2>4, <2>5
<1> HIDE DEF a, b
<1>6. /\ a \o b \in Seq(S)
      /\ Len(a \o b) = Len(a) + Len(b)
      /\ \A i \in 1..(Len(a) + Len(b)) :
           (a \o b)[i] = IF i <= Len(a) THEN a[i] ELSE b[i - Len(a)]
  BY <1>5, ConcatProperties
<1>7. Len(a) + Len(b) = Len(sq) - 1
  BY <1>1, <1>5
<1>8. \A i \in 1..(Len(sq) - 1) : (a \o b)[i] = sq[IF i < k THEN i ELSE i + 1]
  <2> TAKE i \in 1..(Len(sq) - 1)
  <2>0. (a \o b)[i] = IF i <= k - 1 THEN a[i] ELSE b[i - (k - 1)]
    BY <1>5, <1>6, <1>7
  <2>1. CASE i < k
    <3>1. i <= k - 1 /\ i \in 1..(k - 1)
      BY <1>1, <2>1
    <3> QED
      BY <1>5, <2>0, <2>1, <3>1
  <2>2. CASE ~(i < k)
    <3>1. /\ ~(i <= k - 1)
          /\ i - (k - 1) \in 1..(Len(sq) - k)
          /\ k + (i - (k - 1)) = i + 1
      BY <1>1, <2>2
    <3> QED
      BY <1>5, <2>0, <2>2, <3>1
  <2> QED
    BY <2>1, <2>2
<1>9. DOMAIN (a \o b) = 1..(Len(sq) - 1)
  BY <1>6, <1>7
<1> QED
  BY <1>4, <1>6, <1>8, <1>9

(* Taking a job out of the queue.                                          *)
LEMMA RemoveKeeps ==
  ASSUME NEW jl, WellFormed(jl), NEW id
  PROVE  LET s == RemoveJobFromQueue(jl, id) IN
         /\ WellFormed(s)
         /\ NumbersOf(s) \subseteq NumbersOf(jl)
         /\ s.current = jl.current
<1> DEFINE s == RemoveJobFromQueue(jl, id)
<1>1. CASE ~Queued(jl, id)
  BY <1>1 DEF RemoveJobFromQueue
<1>2. CASE Queued(jl, id)
  <2> DEFINE k == GetJobIndex(jl, id)
  <2>0. /\ jl.queue \in Seq(Job)
        /\ Len(jl.queue) \in Nat
        /\ DOMAIN jl.queue = 1..Len(jl.queue)
        /\ jl = [queue |-> jl.queue, current |-> jl.current]
        /\ jl.current \in Job \cup {NoJob}
    BY DEF WellFormed, JobListType
  <2>1. k \in DOMAIN jl.queue
    BY <1>2, JobIndex
  <2>2. s = [queue |-> RemoveAt(jl.queue, k), current |-> jl.current]
    BY <1>2, <2>0 DEF RemoveJobFromQueue
  <2> HIDE DEF k
  <2> DEFINE old(i) == IF i < k THEN i ELSE i + 1
  <2>3. /\ s.queue \in Seq(Job)
        /\ DOMAIN s.queue = 1..(Len(jl.queue) - 1)
        /\ \A i \in DOMAIN s.queue : s.queue[i] = jl.queue[old(i)]
        /\ s.current = jl.current
    BY <2>0, <2>1, <2>2, RemoveAtKeeps
  <2>4. \A i, j \in DOMAIN s.queue :
          /\ old(i) \in DOMAIN jl.queue
          /\ old(i) = old(j) => i = j
    BY <2>0, <2>1, <2>3
  <2> HIDE DEF old
  <2>5. DistinctIds(s)
    BY <2>3, <2>4 DEF DistinctIds, WellFormed
  <2>6. DistinctNumbers(s)
    BY <2>3, <2>4 DEF DistinctNumbers, WellFormed
  <2>7. s \in JobListType
    BY <2>0, <2>2, <2>3 DEF JobListType
  <2>8. NumbersOf(s) \subseteq NumbersOf(jl)
    BY <2>3, <2>4 DEF NumbersOf
  <2> QED
    BY <2>3, <2>5, <2>6, <2>7, <2>8 DEF WellFormed
<1> QED
  BY <1>1, <1>2

-----------------------------------------------------------------------------
LEMMA InvJobList ==
  ASSUME Inv
  PROVE  /\ WellFormed(JobList)
         /\ Busy(JobList)
         /\ NumbersOf(JobList) = Listed
         /\ JobList.queue = queue /\ JobList.current = currentJob
BY DEF Inv, TypeOK, UniqueIds, NobodyWaitsForNothing, NumbersTellJobsApart,
       JobList, WellFormed, JobListType, DistinctIds, DistinctNumbers, Busy,
       NumbersOf, Listed, Queued

(* The next job list is jl.                                                *)
LEMMA NextJobList ==
  ASSUME NEW jl, WellFormed(jl), Busy(jl),
         queue' = jl.queue, currentJob' = jl.current
  PROVE  /\ UniqueIds'
         /\ NobodyWaitsForNothing'
         /\ queue' \in Seq(Job)
         /\ currentJob' \in Job \cup {NoJob}
         /\ Listed' = NumbersOf(jl)
         /\ \A i, j \in DOMAIN queue' : queue'[i].n = queue'[j].n => i = j
         /\ currentJob' # NoJob =>
              /\ \A i \in DOMAIN queue' : queue'[i].n # currentJob'.n
              /\ currentJob'.n \in Listed'
         /\ \A i \in DOMAIN queue' : queue'[i].n \in Listed'
         /\ Listed' \subseteq Numbers
<1>1. UniqueIds'
  BY DEF UniqueIds, JobList, Queued, WellFormed, DistinctIds
<1>2. NobodyWaitsForNothing'
  BY DEF NobodyWaitsForNothing, Busy
<1>3. /\ queue' \in Seq(Job)
      /\ currentJob' \in Job \cup {NoJob}
  BY DEF WellFormed, JobListType
<1>4. Listed' = NumbersOf(jl)
  BY DEF Listed, NumbersOf
<1>5. Listed' \subseteq Numbers
  <2>1. /\ \A i \in DOMAIN queue' : queue'[i] \in Job
        /\ currentJob' # NoJob => currentJob' \in Job
    BY <1>3
  <2>2. \A job \in Job : job.n \in Numbers
    BY DEF Job
  <2> QED
    BY <2>1, <2>2 DEF Listed
<1> QED
  BY <1>1, <1>2, <1>3, <1>4, <1>5 DEF WellFormed, DistinctNumbers, Listed

LEMMA SettledPromisesHaveType ==
  ASSUME promise \in [Clients -> Promise], NEW endId, NEW startId, NEW err,
         SettlePromises(endId, startId, err)
  PROVE  promise' \in [Clients -> Promise]
<1>1. ASSUME NEW c \in Clients
      PROVE  promise'[c] \in Promise
  BY <1>1 DEF SettlePromises, Outcome, Promise
<1>2. promise' = [c \in Clients |-> promise'[c]]
  BY DEF SettlePromises
<1> QED
  BY <1>1, <1>2

(* The current job went on.  The numbers that came to the list, if any,    *)
(* were fresh and no handler keeps them.                                   *)
LEMMA ProceedKeepsInv ==
  ASSUME Inv,
         NEW jl, WellFormed(jl), Busy(jl),
         currentJob # NoJob => jl.current = currentJob,
         NEW F \in SUBSET Numbers,
         NumbersOf(jl) \subseteq Listed \cup F,
         \A n \in F : Fresh(n) /\ n <= made' /\ \A id \in Ids : endHandler[id] # n,
         made' \in made..MaxCbs,
         Proceed(jl),
         unnamedJobIdCounter' \in -1..(MaxUnnamed - 1),
         UNCHANGED <<canceled, thrown, destroyed>>
  PROVE  Inv'
<1> USE NoJobAssumption, NoJobIsNotAJob, BoundsAssumption
<1>0. queue' = jl.queue /\ currentJob' = jl.current
  BY DEF Proceed
<1>1. /\ UniqueIds'
      /\ NobodyWaitsForNothing'
      /\ queue' \in Seq(Job)
      /\ currentJob' \in Job \cup {NoJob}
      /\ Listed' = NumbersOf(jl)
      /\ \A i, j \in DOMAIN queue' : queue'[i].n = queue'[j].n => i = j
      /\ currentJob' # NoJob =>
           /\ \A i \in DOMAIN queue' : queue'[i].n # currentJob'.n
           /\ currentJob'.n \in Listed'
      /\ \A i \in DOMAIN queue' : queue'[i].n \in Listed'
      /\ Listed' \subseteq Numbers
  BY <1>0, NextJobList
<1>2. /\ made \in 0..MaxCbs /\ made' \in 0..MaxCbs /\ made <= made'
      /\ endHandler' = endHandler /\ ended' = ended /\ canceled' = canceled
  BY DEF Inv, TypeOK, Proceed
<1> DEFINE new == [job |-> jl.current, out |-> "pending"]
<1>3. \/ /\ jl.current = currentJob
         /\ UNCHANGED <<runningTimeout, armed, calls, promise>>
      \/ /\ jl.current # currentJob
         /\ currentJob = NoJob
         /\ jl.current \in Job
         /\ runningTimeout' = jl.current
         /\ armed' = armed \cup {jl.current}
         /\ calls' = calls \cup {new}
         /\ new \in Call
         /\ SettlePromises(NoJob, jl.current.id, FALSE)
  <2>1. jl.current \in Job => new \in Call
    BY DEF Call
  <2> QED
    BY <1>0, <1>1, <2>1 DEF Proceed
<1>4. new.job = jl.current
  OBVIOUS
<1> HIDE DEF new
(* A listed job is the current one that went on, or was waiting, or is     *)
(* fresh.                                                                  *)
<1>5. \A n \in Listed' :
        \/ currentJob # NoJob /\ currentJob' = currentJob /\ n = currentJob.n
        \/ n \notin canceled /\ ended[n] = 0 /\ \A call \in calls : call.job.n # n
  <2>1. ASSUME NEW n \in Listed', n \notin F, currentJob = NoJob \/ n # currentJob.n
        PROVE  n \notin canceled /\ ended[n] = 0 /\ \A call \in calls : call.job.n # n
    <3>1. n \in Listed
      BY <1>1, <2>1
    <3>2. PICK i \in DOMAIN queue : queue[i].n = n
      BY <2>1, <3>1 DEF Listed
    <3> QED
      BY <3>1, <3>2 DEF Inv, NumbersTellJobsApart, EndsAtMostOnce
  <2>2. \A n \in F : n \notin canceled /\ ended[n] = 0 /\ \A call \in calls : call.job.n # n
    BY DEF Fresh
  <2> QED
    BY <1>0, <2>1, <2>2
<1>6. \A i \in DOMAIN queue' :
        /\ queue'[i].n \notin canceled
        /\ \A call \in calls : call.job.n # queue'[i].n
  BY <1>0, <1>1, <1>5
<1>7. TypeOK'
  <2>1. promise' \in [Clients -> Promise]
    BY <1>3, SettledPromisesHaveType DEF Inv, TypeOK
  <2>2. calls' \subseteq Call /\ armed' \subseteq Job
        /\ runningTimeout' \in Job \cup {NoJob}
    BY <1>3 DEF Inv, TypeOK
  <2> QED
    BY <1>1, <1>2, <2>1, <2>2 DEF Inv, TypeOK
<1>8. TimerOfCurrentJob'
  BY <1>0, <1>3 DEF Inv, TimerOfCurrentJob
<1>13. OneLiveCallback'
  <2>1. CASE jl.current = currentJob
    BY <1>0, <1>2, <1>3, <2>1 DEF Inv, OneLiveCallback
  <2>2. CASE jl.current # currentJob
    <3>1. currentJob' \in Job /\ currentJob' # NoJob /\ currentJob = NoJob
      BY <1>0, <1>3, <2>2
    <3>2. currentJob'.n \notin canceled
      BY <1>1, <1>5, <3>1
    <3>3. \A call \in calls : call.job # NoJob
      <4>1. \A call \in Call : call.job \in Job
        BY DEF Call
      <4> QED
        BY <4>1 DEF Inv, TypeOK
    <3>4. \A call \in calls : call.job.n \in canceled
      BY <3>1, <3>3 DEF Inv, OneLiveCallback
    <3>5. calls' = calls \cup {new} /\ new.job = currentJob'
      BY <1>0, <1>3, <1>4, <2>2
    <3> QED
      BY <1>2, <3>2, <3>4, <3>5 DEF OneLiveCallback
  <2> QED
    BY <2>1, <2>2
<1>9. NoInternalError'
  BY DEF Inv, NoInternalError
<1>10. EndsAtMostOnce'
  <2>1. currentJob # NoJob => currentJob.n \in Listed
    BY DEF Listed
  <2>2. \A n \in Listed' : ended[n] = 0
    BY <1>5, <2>1 DEF Inv, EndsAtMostOnce
  <2>3. \A n \in Numbers : ended[n] <= 1
    BY DEF Inv, EndsAtMostOnce
  <2> QED
    BY <1>2, <2>2, <2>3 DEF EndsAtMostOnce
<1>11. NumbersTellJobsApart'
  <2>0. \A call \in calls' : call \in calls \/ (call.job.n = currentJob'.n
                                  /\ currentJob' # NoJob /\ currentJob = NoJob)
    BY <1>0, <1>3, <1>4
  <2>1. \A i \in DOMAIN queue' : \A call \in calls' : call.job.n # queue'[i].n
    BY <1>1, <1>6, <2>0
  <2>2. \A call1, call2 \in calls' : call1.job.n = call2.job.n => call1 = call2
    <3>1. CASE jl.current = currentJob
      BY <1>3, <3>1 DEF Inv, NumbersTellJobsApart
    <3>2. CASE jl.current # currentJob
      <4>1. \A call \in calls : call.job.n # new.job.n
        BY <1>0, <1>1, <1>3, <1>4, <1>5, <3>2
      <4>2. calls' = calls \cup {new}
        BY <1>3, <3>2
      <4> QED
        BY <4>1, <4>2 DEF Inv, NumbersTellJobsApart
    <3> QED
      BY <3>1, <3>2
  <2> DEFINE FreshNext(n) == /\ n \notin Listed' /\ n \notin canceled'
                             /\ ended'[n] = 0
                             /\ \A call \in calls' : call.job.n # n
  <2>3. \A n \in Numbers : Fresh(n) /\ n \notin F => FreshNext(n)
    <3>1. \A n \in Numbers : n \notin Listed /\ n \notin F => n \notin Listed'
      BY <1>1
    <3> QED
      BY <1>1, <1>2, <2>0, <3>1 DEF Fresh
  <2>4. \A n \in Numbers : n > made' => FreshNext(n)
    <3> SUFFICES ASSUME NEW n \in Numbers, n > made' PROVE Fresh(n) /\ n \notin F
      BY <2>3
    <3>1. n > made /\ n \notin F
      BY <1>2 DEF Numbers
    <3> QED
      BY <3>1 DEF Inv, NumbersTellJobsApart
  <2>5. \A id \in Ids : endHandler[id] # NoJob =>
          endHandler[id] <= made' /\ FreshNext(endHandler[id])
    <3> SUFFICES ASSUME NEW id \in Ids, endHandler[id] # NoJob
                 PROVE  endHandler[id] <= made' /\ FreshNext(endHandler[id])
      OBVIOUS
    <3>1. endHandler[id] \in Numbers /\ endHandler[id] <= made
          /\ Fresh(endHandler[id]) /\ endHandler[id] \notin F
      BY DEF Inv, TypeOK, NumbersTellJobsApart
    <3> QED
      BY <1>2, <2>3, <3>1 DEF Numbers
  <2>6. \A id1, id2 \in Ids :
          endHandler'[id1] = endHandler'[id2] => endHandler'[id1] = NoJob \/ id1 = id2
    BY <1>2 DEF Inv, NumbersTellJobsApart
  <2> QED
    BY <1>1, <1>2, <1>6, <2>1, <2>2, <2>4, <2>5, <2>6
    DEF NumbersTellJobsApart, Fresh
<1> QED
  BY <1>1, <1>7, <1>8, <1>9, <1>10, <1>11, <1>13 DEF Inv

(* The current job was finalized and its endJob event emitted.  The number *)
(* that came to the list, if any, is the one its endHandler kept.  The job *)
(* was canceled, or this is the reaction to its callback.                  *)
LEMMA ProceedAfterEndKeepsInv ==
  ASSUME Inv, currentJob # NoJob,
         NEW jl, WellFormed(jl), Busy(jl),
         NEW H, H = endHandler[currentJob.id],
         \A n \in NumbersOf(jl) :
           (n \in Listed /\ n # currentJob.n) \/ (n = H /\ H # NoJob),
         NEW err, NEW fired \in {NoJob, currentJob}, NEW reacted,
         ProceedAfterEnd(jl, err, fired, reacted),
         \/ canceled' = canceled \cup {currentJob.n} /\ reacted = NoJob
         \/ canceled' = canceled /\ reacted \in calls /\ reacted.job = currentJob,
         UNCHANGED <<unnamedJobIdCounter, made, thrown, destroyed>>
  PROVE  Inv'
<1> USE NoJobAssumption, NoJobIsNotAJob, BoundsAssumption
<1>0. queue' = jl.queue /\ currentJob' = jl.current /\ runningTimeout' = jl.current
  BY DEF ProceedAfterEnd
<1>1. /\ UniqueIds'
      /\ NobodyWaitsForNothing'
      /\ queue' \in Seq(Job)
      /\ currentJob' \in Job \cup {NoJob}
      /\ Listed' = NumbersOf(jl)
      /\ \A i, j \in DOMAIN queue' : queue'[i].n = queue'[j].n => i = j
      /\ currentJob' # NoJob =>
           /\ \A i \in DOMAIN queue' : queue'[i].n # currentJob'.n
           /\ currentJob'.n \in Listed'
      /\ \A i \in DOMAIN queue' : queue'[i].n \in Listed'
      /\ Listed' \subseteq Numbers
  BY <1>0, NextJobList
<1> DEFINE old == currentJob.n
           new == [job |-> jl.current, out |-> "pending"]
<1>2. /\ currentJob \in Job /\ currentJob.id \in Ids /\ old \in Numbers
      /\ old \in Listed /\ old \notin canceled
      /\ ended[old] = 0
      /\ H \in Numbers \cup {NoJob}
      /\ endHandler' = [endHandler EXCEPT ![currentJob.id] = NoJob]
      /\ ended' = [ended EXCEPT ![old] = 1]
      /\ canceled' \subseteq canceled \cup {old}
      /\ made' = made
  <2>1. currentJob \in Job
    BY DEF Inv, TypeOK
  <2>2. currentJob.id \in Ids /\ old \in Numbers
    BY <2>1 DEF Job
  <2>3. old \in Listed /\ old \notin canceled /\ ended[old] = 0
    BY DEF Inv, Listed, OneLiveCallback, EndsAtMostOnce
  <2>4. H \in Numbers \cup {NoJob}
    BY <2>2 DEF Inv, TypeOK
  <2>5. /\ endHandler' = [endHandler EXCEPT ![currentJob.id] = NoJob]
        /\ ended' = [ended EXCEPT ![old] = ended[old] + 1]
    BY DEF ProceedAfterEnd, HandlersAfterEnd
  <2> QED
    BY <2>1, <2>2, <2>3, <2>4, <2>5
<1>3. /\ armed \ {runningTimeout, fired} = {}
      /\ armed' = IF jl.current = NoJob THEN {} ELSE {jl.current}
  BY DEF ProceedAfterEnd, ArmedAfterEnd, Inv, TimerOfCurrentJob
<1>4. /\ calls' = (calls \ {reacted}) \cup (IF jl.current = NoJob THEN {} ELSE {new})
      /\ jl.current \in Job => new \in Call
      /\ new.job = jl.current
  BY DEF ProceedAfterEnd, Call
<1>5. \E startId : SettlePromises(currentJob.id, startId, err)
  BY DEF ProceedAfterEnd
<1> HIDE DEF new, old
(* The calls that stay are of canceled jobs; the current job has none.     *)
<1>6. \A call \in calls \ {reacted} : call.job.n \in canceled'
  <2> SUFFICES ASSUME NEW call \in calls, call # reacted, call.job.n \notin canceled'
               PROVE  FALSE
    OBVIOUS
  <2>1. call.job = currentJob
    BY DEF Inv, OneLiveCallback
  <2>2. reacted \in calls /\ reacted.job = currentJob
    BY <2>1 DEF old
  <2> QED
    BY <2>1, <2>2 DEF Inv, NumbersTellJobsApart
(* What is listed next was waiting, or is what the handler kept.           *)
<1>7. \A n \in Listed' :
        n # old /\ n \notin canceled /\ ended[n] = 0 /\ \A call \in calls : call.job.n # n
  <2> SUFFICES ASSUME NEW n \in Listed'
               PROVE  n # old /\ n \notin canceled /\ ended[n] = 0
                      /\ \A call \in calls : call.job.n # n
    OBVIOUS
  <2>1. CASE n \in Listed /\ n # old
    <3>1. PICK i \in DOMAIN queue : queue[i].n = n
      BY <2>1 DEF Listed, old
    <3> QED
      BY <2>1, <3>1 DEF Inv, NumbersTellJobsApart, EndsAtMostOnce
  <2>2. CASE n = H /\ H # NoJob
    <3>1. Fresh(n)
      BY <1>2, <2>2 DEF Inv, NumbersTellJobsApart
    <3> QED
      BY <1>2, <3>1 DEF Fresh
  <2> QED
    BY <1>1, <2>1, <2>2 DEF old
<1>8. TypeOK'
  <2>1. promise' \in [Clients -> Promise]
    BY <1>5, SettledPromisesHaveType DEF Inv, TypeOK
  <2>2. calls' \subseteq Call /\ armed' \subseteq Job
        /\ runningTimeout' \in Job \cup {NoJob}
    BY <1>0, <1>1, <1>3, <1>4 DEF Inv, TypeOK
  <2>3. /\ endHandler' \in [Ids -> Numbers \cup {NoJob}]
        /\ ended' \in [Numbers -> Nat]
        /\ canceled' \subseteq Numbers
    BY <1>2 DEF Inv, TypeOK
  <2> QED
    BY <1>1, <1>2, <2>1, <2>2, <2>3 DEF Inv, TypeOK
<1>9. TimerOfCurrentJob'
  BY <1>0, <1>3 DEF TimerOfCurrentJob
<1>10. OneLiveCallback'
  <2>1. \A call \in calls' : call.job.n \in canceled' \/ call.job = currentJob'
    BY <1>0, <1>4, <1>6
  <2>2. currentJob' # NoJob => currentJob'.n \notin canceled'
    BY <1>1, <1>2, <1>7
  <2>3. currentJob' # NoJob => \E call \in calls' : call.job = currentJob'
    BY <1>0, <1>4
  <2> QED
    BY <2>1, <2>2, <2>3 DEF OneLiveCallback
<1>11. NoInternalError'
  BY DEF Inv, NoInternalError
<1>12. EndsAtMostOnce'
  <2>1. \A n \in Numbers : ended'[n] <= 1
    BY <1>2 DEF Inv, TypeOK, EndsAtMostOnce
  <2>2. \A n \in Listed' : ended'[n] = 0
    BY <1>1, <1>2, <1>7 DEF Inv, TypeOK
  <2> QED
    BY <2>1, <2>2 DEF EndsAtMostOnce
<1>13. NumbersTellJobsApart'
  <2>0. \A call \in calls' :
          call \in calls \/ (currentJob' # NoJob /\ call = new /\ call.job.n = currentJob'.n)
    BY <1>0, <1>4
  <2>1. \A i \in DOMAIN queue' :
          /\ queue'[i].n \notin canceled'
          /\ \A call \in calls' : call.job.n # queue'[i].n
    BY <1>1, <1>2, <1>7, <2>0
  <2>2. \A call1, call2 \in calls' : call1.job.n = call2.job.n => call1 = call2
    <3>1. currentJob' # NoJob => \A call \in calls : call.job.n # currentJob'.n
      BY <1>1, <1>7
    <3>2. \A call1, call2 \in calls : call1.job.n = call2.job.n => call1 = call2
      BY DEF Inv, NumbersTellJobsApart
    <3> QED
      BY <2>0, <3>1, <3>2
  <2> DEFINE FreshNext(n) == /\ n \notin Listed' /\ n \notin canceled'
                             /\ ended'[n] = 0
                             /\ \A call \in calls' : call.job.n # n
  <2>3. \A n \in Numbers : Fresh(n) /\ n # H => FreshNext(n)
    <3> SUFFICES ASSUME NEW n \in Numbers, Fresh(n), n # H
                 PROVE  FreshNext(n)
      OBVIOUS
    <3>1. n # old /\ n \notin Listed
      BY <1>2 DEF Fresh
    <3>2. n \notin Listed'
      BY <1>1, <3>1
    <3>3. n \notin canceled' /\ ended'[n] = 0
      BY <1>2, <3>1 DEF Fresh, Inv, TypeOK
    <3>4. \A call \in calls' : call.job.n # n
      BY <1>1, <2>0, <3>2 DEF Fresh
    <3> QED
      BY <3>2, <3>3, <3>4
  <2>4. \A n \in Numbers : n > made' => FreshNext(n)
    <3> SUFFICES ASSUME NEW n \in Numbers, n > made
                 PROVE  Fresh(n) /\ n # H
      BY <1>2, <2>3
    <3>1. H # NoJob => H <= made /\ H \in Numbers
      BY <1>2 DEF Inv, NumbersTellJobsApart
    <3>2. made \in Nat
      BY DEF Inv, TypeOK
    <3> QED
      BY <3>1, <3>2 DEF Inv, NumbersTellJobsApart, Numbers
  <2>5. \A id \in Ids : endHandler'[id] # NoJob =>
          id # currentJob.id /\ endHandler'[id] = endHandler[id]
    BY <1>2 DEF Inv, TypeOK
  <2>6. \A id \in Ids : endHandler'[id] # NoJob =>
          endHandler'[id] <= made' /\ FreshNext(endHandler'[id])
    <3> SUFFICES ASSUME NEW id \in Ids, endHandler'[id] # NoJob
                 PROVE  endHandler'[id] <= made' /\ FreshNext(endHandler'[id])
      OBVIOUS
    <3>1. /\ id # currentJob.id /\ endHandler'[id] = endHandler[id]
          /\ endHandler[id] # NoJob
      BY <2>5
    <3>2. endHandler[id] \in Numbers /\ endHandler[id] <= made
          /\ Fresh(endHandler[id]) /\ endHandler[id] # H
      BY <1>2, <3>1 DEF Inv, TypeOK, NumbersTellJobsApart
    <3> QED
      BY <1>2, <2>3, <3>1, <3>2
  <2>7. \A id1, id2 \in Ids :
          endHandler'[id1] = endHandler'[id2] => endHandler'[id1] = NoJob \/ id1 = id2
    BY <2>5 DEF Inv, NumbersTellJobsApart
  <2> QED
    BY <1>1, <2>1, <2>2, <2>4, <2>6, <2>7 DEF NumbersTellJobsApart, Fresh
<1> QED
  BY <1>1, <1>8, <1>9, <1>10, <1>11, <1>12, <1>13 DEF Inv

-----------------------------------------------------------------------------
(* Each action preserves Inv.                                              *)

LEMMA NextNumberIsFresh ==
  ASSUME Inv, made < MaxCbs
  PROVE  /\ made + 1 \in Numbers
         /\ made + 1 \in made..MaxCbs
         /\ Fresh(made + 1)
         /\ \A id \in Ids : endHandler[id] # made + 1
<1>1. made \in Nat /\ MaxCbs \in Nat
  BY BoundsAssumption DEF Inv, TypeOK
<1>2. made + 1 \in Numbers /\ made + 1 \in made..MaxCbs /\ made + 1 > made
  BY <1>1 DEF Numbers
<1>3. Fresh(made + 1)
  BY <1>2 DEF Inv, NumbersTellJobsApart
<1>4. ASSUME NEW id \in Ids, endHandler[id] = made + 1
      PROVE  FALSE
  <2>1. endHandler[id] # NoJob
    BY <1>2, <1>4, NoJobAssumption
  <2>2. endHandler[id] <= made
    BY <2>1 DEF Inv, NumbersTellJobsApart
  <2> QED
    BY <1>1, <1>4, <2>2
<1> QED
  BY <1>2, <1>3, <1>4

LEMMA AddWithIdKeepsInv ==
  ASSUME Inv, NEW id \in Ids, AddWithId(id),
         unnamedJobIdCounter' \in -1..(MaxUnnamed - 1)
  PROVE  Inv'
<1> DEFINE jl == AddJob(JobList, id, made + 1)
<1>1. /\ made < MaxCbs /\ made' = made + 1 /\ Proceed(jl)
      /\ UNCHANGED <<canceled, thrown, destroyed>>
  BY DEF AddWithId
<1>2. /\ made + 1 \in Numbers
      /\ made + 1 \in made..MaxCbs
      /\ Fresh(made + 1)
      /\ \A i \in Ids : endHandler[i] # made + 1
  BY <1>1, NextNumberIsFresh
<1>3. /\ WellFormed(JobList) /\ Busy(JobList)
      /\ NumbersOf(JobList) = Listed /\ JobList.current = currentJob
  BY InvJobList
<1>4. made + 1 \notin NumbersOf(JobList)
  BY <1>2, <1>3 DEF Fresh
<1>5. /\ WellFormed(jl) /\ Busy(jl)
      /\ NumbersOf(jl) \subseteq Listed \cup {made + 1}
      /\ currentJob # NoJob => jl.current = currentJob
  BY <1>2, <1>3, <1>4, AddKeeps
<1>6. {made + 1} \in SUBSET Numbers
  BY <1>2
<1>7. \A n \in {made + 1} :
        Fresh(n) /\ n <= made' /\ \A i \in Ids : endHandler[i] # n
  BY <1>1, <1>2 DEF Numbers
<1> HIDE DEF jl
<1> QED
  BY <1>1, <1>2, <1>5, <1>6, <1>7, ProceedKeepsInv

(* What is in the job list after the endJob event of the current job.      *)
LEMMA EmitEndJobKeeps ==
  ASSUME Inv, currentJob # NoJob
  PROVE  LET e == EmitEndJob(Finalized, currentJob.id)
             H == endHandler[currentJob.id]
         IN  /\ WellFormed(e)
             /\ \A n \in NumbersOf(e) :
                  (n \in Listed /\ n # currentJob.n) \/ (n = H /\ H # NoJob)
<1> DEFINE H == endHandler[currentJob.id]
<1>1. /\ WellFormed(JobList)
      /\ JobList = [queue |-> queue, current |-> currentJob]
  BY InvJobList DEF JobList
<1>2. /\ Finalized = [queue |-> queue, current |-> NoJob]
      /\ Finalized.queue = queue /\ Finalized.current = NoJob
  BY <1>1 DEF Finalized
<1>3. WellFormed(Finalized)
  BY <1>1, <1>2 DEF WellFormed, JobListType, DistinctIds, DistinctNumbers
<1>4. \A n \in NumbersOf(Finalized) : n \in Listed /\ n # currentJob.n
  BY <1>2 DEF NumbersOf, Listed, Inv, NumbersTellJobsApart
<1>5. CASE H = NoJob
  BY <1>3, <1>4, <1>5 DEF EmitEndJob
<1>6. CASE H # NoJob
  <2>1. currentJob.id \in Ids
    BY DEF Inv, TypeOK, Job
  <2>2. H \in Numbers /\ Fresh(H)
    BY <1>6, <2>1 DEF Inv, TypeOK, NumbersTellJobsApart
  <2>3. H \notin NumbersOf(Finalized)
    BY <1>4, <2>2 DEF Fresh
  <2>4. EmitEndJob(Finalized, currentJob.id)
          = AddJob(Finalized, currentJob.id, H)
    BY <1>6 DEF EmitEndJob
  <2> HIDE DEF H
  <2>5. /\ WellFormed(AddJob(Finalized, currentJob.id, H))
        /\ NumbersOf(AddJob(Finalized, currentJob.id, H))
             \subseteq NumbersOf(Finalized) \cup {H}
    BY <1>3, <2>1, <2>2, <2>3, AddKeeps
  <2> QED
    BY <1>4, <1>6, <2>4, <2>5 DEF H
<1> QED
  BY <1>5, <1>6

LEMMA HandleCbFinishedKeepsInv ==
  ASSUME Inv, currentJob # NoJob,
         NEW err, NEW fired \in {NoJob, currentJob}, NEW reacted,
         HandleCbFinished(currentJob, err, fired, reacted),
         \/ canceled' = canceled \cup {currentJob.n} /\ reacted = NoJob
         \/ canceled' = canceled /\ reacted \in calls /\ reacted.job = currentJob,
         UNCHANGED <<unnamedJobIdCounter, made, destroyed>>
  PROVE  Inv'
<1> DEFINE e == EmitEndJob(Finalized, currentJob.id)
           jl == StartNextJobIfNeed(e)
           H == endHandler[currentJob.id]
<1>1. ProceedAfterEnd(jl, err, fired, reacted) /\ thrown' = thrown
  BY DEF HandleCbFinished, NextAfterEnd, IsCurrent, JobList
<1>2. /\ WellFormed(e)
      /\ \A n \in NumbersOf(e) :
           (n \in Listed /\ n # currentJob.n) \/ (n = H /\ H # NoJob)
  BY EmitEndJobKeeps
<1> HIDE DEF e
<1>3. WellFormed(jl) /\ Busy(jl) /\ NumbersOf(jl) = NumbersOf(e)
  BY <1>2, StartNextKeeps
<1> HIDE DEF jl
<1> QED
  BY <1>1, <1>2, <1>3, ProceedAfterEndKeepsInv

LEMMA CancelJobKeepsInv ==
  ASSUME Inv, NEW id \in Ids, CancelJob(id)
  PROVE  Inv'
<1>1. CASE IsCurrent(JobList, id)
  <2>1. currentJob # NoJob /\ id = currentJob.id
    BY <1>1 DEF IsCurrent, JobList
  <2> DEFINE e == EmitEndJob(Finalized, currentJob.id)
             r == RemoveJobFromQueue(e, id)
             jl == StartNextJobIfNeed(r)
             H == endHandler[currentJob.id]
  <2>2. /\ ProceedAfterEnd(jl, FALSE, NoJob, NoJob)
        /\ canceled' = canceled \cup {currentJob.n}
        /\ UNCHANGED <<unnamedJobIdCounter, made, thrown, destroyed>>
    BY <1>1, <2>1 DEF CancelJob
  <2>3. /\ WellFormed(e)
        /\ \A n \in NumbersOf(e) :
             (n \in Listed /\ n # currentJob.n) \/ (n = H /\ H # NoJob)
    BY <2>1, EmitEndJobKeeps
  <2> HIDE DEF e
  <2>4. WellFormed(r) /\ NumbersOf(r) \subseteq NumbersOf(e)
    BY <2>3, RemoveKeeps
  <2> HIDE DEF r
  <2>5. WellFormed(jl) /\ Busy(jl) /\ NumbersOf(jl) = NumbersOf(r)
    BY <2>4, StartNextKeeps
  <2> HIDE DEF jl
  <2> QED
    BY <2>1, <2>2, <2>3, <2>4, <2>5, ProceedAfterEndKeepsInv
<1>2. CASE ~IsCurrent(JobList, id)
  <2> DEFINE r == RemoveJobFromQueue(JobList, id)
             jl == StartNextJobIfNeed(r)
  <2>1. /\ Proceed(jl)
        /\ UNCHANGED <<canceled, unnamedJobIdCounter, made, thrown, destroyed>>
    BY <1>2 DEF CancelJob
  <2>2. /\ WellFormed(JobList)
        /\ NumbersOf(JobList) = Listed /\ JobList.current = currentJob
    BY InvJobList
  <2>3. /\ WellFormed(r) /\ NumbersOf(r) \subseteq Listed
        /\ r.current = currentJob
    BY <2>2, RemoveKeeps
  <2> HIDE DEF r
  <2>4. /\ WellFormed(jl) /\ Busy(jl) /\ NumbersOf(jl) \subseteq Listed
        /\ currentJob # NoJob => jl.current = currentJob
    BY <2>3, StartNextKeeps
  <2> HIDE DEF jl
  <2>5. /\ made' \in made..MaxCbs
        /\ unnamedJobIdCounter' \in -1..(MaxUnnamed - 1)
    BY <2>1, BoundsAssumption DEF Inv, TypeOK
  <2> DEFINE F == {}
  <2>6. /\ F \in SUBSET Numbers
        /\ NumbersOf(jl) \subseteq Listed \cup F
        /\ \A n \in F :
             Fresh(n) /\ n <= made' /\ \A i \in Ids : endHandler[i] # n
    BY <2>4
  <2> HIDE DEF F
  <2> QED
    BY <2>1, <2>4, <2>5, <2>6, ProceedKeepsInv
<1> QED
  BY <1>1, <1>2

(* A step that changes nothing but what clients wait for.                  *)
LEMMA PromiseStepKeepsInv ==
  ASSUME Inv, promise' \in [Clients -> Promise],
         UNCHANGED <<queue, currentJob, runningTimeout, unnamedJobIdCounter,
                     canceled, armed, calls, endHandler, made, ended, thrown,
                     destroyed>>
  PROVE  Inv'
<1>1. Listed' = Listed
  BY DEF Listed
<1>2. TypeOK'
  BY DEF Inv, TypeOK
<1>3. UniqueIds' /\ TimerOfCurrentJob' /\ OneLiveCallback'
  BY DEF Inv, UniqueIds, TimerOfCurrentJob, OneLiveCallback, JobList, Queued
<1>4. NoInternalError' /\ NobodyWaitsForNothing' /\ EndsAtMostOnce'
  BY <1>1 DEF Inv, NoInternalError, NobodyWaitsForNothing, EndsAtMostOnce
<1>5. NumbersTellJobsApart'
  BY <1>1 DEF Inv, NumbersTellJobsApart, Fresh
<1> QED
  BY <1>2, <1>3, <1>4, <1>5 DEF Inv

LEMMA AwaitKeepsInv ==
  ASSUME Inv, NEW c \in Clients, NEW on \in {"start", "end"},
         NEW id \in Ids \cup {NoJob},
         NEW state \in {"idle", "pending", "resolved", "rejected"},
         Await(c, on, id, state)
  PROVE  Inv'
<1> DEFINE p == [on |-> on, id |-> id, n |-> NumberOf(id), state |-> state]
<1>1. NumberOf(id) \in Numbers \cup {NoJob}
  <2>1. CASE IsCurrent(JobList, id)
    BY <2>1 DEF NumberOf, IsCurrent, JobList, Inv, TypeOK, Job
  <2>2. CASE ~IsCurrent(JobList, id) /\ Queued(JobList, id)
    <3>1. GetJobIndex(JobList, id) \in DOMAIN queue
      BY <2>2, InvJobList, JobIndex
    <3>2. queue[GetJobIndex(JobList, id)] \in Job
      BY <3>1 DEF Inv, TypeOK
    <3> QED
      BY <2>2, <3>2 DEF NumberOf, Job
  <2>3. CASE ~IsCurrent(JobList, id) /\ ~Queued(JobList, id)
    BY <2>3 DEF NumberOf
  <2> QED
    BY <2>1, <2>2, <2>3
<1>2. p \in Promise
  BY <1>1 DEF Promise
<1>3. promise' \in [Clients -> Promise]
  BY <1>2 DEF Await, Inv, TypeOK
<1> QED
  BY <1>3, PromiseStepKeepsInv DEF Await

LEMMA OnJobEndOnceKeepsInv ==
  ASSUME Inv, NEW id \in Ids, OnJobEndOnce(id)
  PROVE  Inv'
<1> USE NoJobAssumption
<1>1. /\ made + 1 \in Numbers
      /\ Fresh(made + 1)
      /\ \A i \in Ids : endHandler[i] # made + 1
  BY NextNumberIsFresh DEF OnJobEndOnce
<1>2. /\ made \in Nat /\ made' = made + 1 /\ made' \in 0..MaxCbs
      /\ endHandler' = [endHandler EXCEPT ![id] = made + 1]
      /\ endHandler' \in [Ids -> Numbers \cup {NoJob}]
      /\ UNCHANGED <<queue, currentJob, runningTimeout, unnamedJobIdCounter,
                     canceled, armed, calls, promise, ended, thrown, destroyed>>
  BY <1>1 DEF OnJobEndOnce, Inv, TypeOK, Numbers
<1>3. Listed' = Listed
  BY <1>2 DEF Listed
<1> DEFINE FreshNext(n) == /\ n \notin Listed' /\ n \notin canceled'
                           /\ ended'[n] = 0
                           /\ \A call \in calls' : call.job.n # n
<1>4. \A n \in Numbers : Fresh(n) => FreshNext(n)
  BY <1>2, <1>3 DEF Fresh
<1>5. NumbersTellJobsApart'
  <2>1. \A n \in Numbers : n > made' => FreshNext(n)
    <3>1. \A n \in Numbers : n > made' => n > made
      BY <1>2 DEF Numbers
    <3> QED
      BY <1>4, <3>1 DEF Inv, NumbersTellJobsApart
  <2>2. ASSUME NEW i \in Ids, endHandler'[i] # NoJob
        PROVE  endHandler'[i] <= made' /\ FreshNext(endHandler'[i])
    <3>1. CASE i = id
      <4>1. endHandler'[i] = made + 1
        BY <1>2, <3>1 DEF Inv, TypeOK
      <4>2. FreshNext(made + 1)
        BY <1>1, <1>4
      <4> HIDE DEF FreshNext
      <4> QED
        BY <1>2, <4>1, <4>2
    <3>2. CASE i # id
      <4>1. endHandler'[i] = endHandler[i] /\ endHandler[i] \in Numbers
        BY <1>2, <2>2, <3>2 DEF Inv, TypeOK
      <4>2. endHandler[i] <= made /\ Fresh(endHandler[i])
        BY <2>2, <4>1 DEF Inv, NumbersTellJobsApart
      <4>3. FreshNext(endHandler[i])
        BY <1>4, <4>1, <4>2
      <4> HIDE DEF FreshNext
      <4> QED
        BY <1>2, <4>1, <4>2, <4>3 DEF Numbers
    <3> QED
      BY <3>1, <3>2
  <2>3. \A i, j \in Ids :
          endHandler'[i] = endHandler'[j] => endHandler'[i] = NoJob \/ i = j
    BY <1>1, <1>2 DEF Inv, TypeOK, NumbersTellJobsApart
  <2> QED
    BY <1>2, <2>1, <2>2, <2>3 DEF Inv, NumbersTellJobsApart, Fresh
<1> QED
  BY <1>2, <1>3, <1>5
  DEF Inv, TypeOK, UniqueIds, TimerOfCurrentJob, OneLiveCallback,
      NoInternalError, NobodyWaitsForNothing, EndsAtMostOnce, JobList, Queued

LEMMA DestroyKeepsInv ==
  ASSUME Inv, Destroy
  PROVE  Inv'
<1> USE NoJobAssumption, NoJobIsNotAJob
<1>1. /\ queue' = <<>> /\ currentJob' = NoJob /\ runningTimeout' = NoJob
      /\ armed' = {}
      /\ endHandler' = [id \in Ids |-> NoJob]
      /\ canceled \subseteq canceled'
      /\ UNCHANGED <<unnamedJobIdCounter, calls, promise, made, ended, thrown>>
  BY DEF Destroy, Inv, TimerOfCurrentJob
<1>2. DOMAIN queue' = {} /\ Listed' = {} /\ queue' \in Seq(Job)
  BY <1>1 DEF Listed
<1>3. canceled' \subseteq canceled \cup Listed /\ Listed \subseteq Numbers
      /\ canceled' \subseteq Numbers
  <2>1. canceled' \subseteq canceled \cup Listed
    BY DEF Destroy, Listed
  <2>2. \A job \in Job : job.n \in Numbers
    BY DEF Job
  <2>3. Listed \subseteq Numbers
    BY <2>2 DEF Listed, Inv, TypeOK
  <2> QED
    BY <2>1, <2>3 DEF Inv, TypeOK
<1>4. TypeOK'
  BY <1>1, <1>2, <1>3 DEF Inv, TypeOK, Destroy
<1>5. OneLiveCallback'
  BY <1>1 DEF Inv, OneLiveCallback, Destroy
<1>6. NumbersTellJobsApart'
  <2>1. ASSUME NEW n \in Numbers, n > made'
        PROVE  Fresh(n)'
    <3>1. Fresh(n)
      BY <1>1, <2>1 DEF Inv, NumbersTellJobsApart
    <3> QED
      BY <1>1, <1>2, <1>3, <3>1 DEF Fresh
  <2> QED
    BY <1>1, <1>2, <2>1 DEF Inv, NumbersTellJobsApart
<1> QED
  BY <1>1, <1>2, <1>4, <1>5, <1>6
  DEF Inv, UniqueIds, TimerOfCurrentJob, NoInternalError,
      NobodyWaitsForNothing, EndsAtMostOnce

LEMMA SettleCbKeepsInv ==
  ASSUME Inv, NEW call \in calls, NEW out \in {"ok", "error"},
         SettleCb(call, out)
  PROVE  Inv'
<1> DEFINE new == [call EXCEPT !.out = out]
<1>1. /\ calls' = (calls \ {call}) \cup {new}
      /\ new \in Call /\ new.job = call.job
      /\ UNCHANGED <<queue, currentJob, runningTimeout, unnamedJobIdCounter,
                     canceled, armed, endHandler, promise, made, ended, thrown,
                     destroyed>>
  BY DEF SettleCb, Inv, TypeOK, Call
<1> HIDE DEF new
<1>2. \A c \in calls' : \E d \in calls : c.job = d.job
  BY <1>1
<1>3. \A d \in calls : \E c \in calls' : c.job = d.job
  BY <1>1
<1>4. TypeOK'
  BY <1>1 DEF Inv, TypeOK
<1>5. OneLiveCallback'
  BY <1>1, <1>2, <1>3 DEF Inv, OneLiveCallback
<1>6. \A n : Fresh(n) => Fresh(n)'
  BY <1>1, <1>2 DEF Fresh, Listed
<1>7. \A call1, call2 \in calls' : call1.job.n = call2.job.n => call1 = call2
  BY <1>1 DEF Inv, NumbersTellJobsApart
<1>8. NumbersTellJobsApart'
  BY <1>1, <1>2, <1>6, <1>7 DEF Inv, NumbersTellJobsApart
<1> QED
  BY <1>1, <1>4, <1>5, <1>8
  DEF Inv, UniqueIds, TimerOfCurrentJob, NoInternalError, JobList, Queued,
      NobodyWaitsForNothing, EndsAtMostOnce, Listed

LEMMA ReactToCbKeepsInv ==
  ASSUME Inv, NEW call \in calls, ReactToCb(call)
  PROVE  Inv'
<1>1. CASE call.job.n \in canceled
  <2>1. /\ calls' = calls \ {call}
        /\ UNCHANGED <<queue, currentJob, runningTimeout, unnamedJobIdCounter,
                       canceled, armed, endHandler, promise, made, ended,
                       thrown, destroyed>>
    BY <1>1 DEF ReactToCb
  <2>2. OneLiveCallback'
    BY <1>1, <2>1 DEF Inv, OneLiveCallback
  <2>3. \A n : Fresh(n) => Fresh(n)'
    BY <2>1 DEF Fresh, Listed
  <2>4. NumbersTellJobsApart'
    BY <2>1, <2>3 DEF Inv, NumbersTellJobsApart
  <2> QED
    BY <2>1, <2>2, <2>4
    DEF Inv, TypeOK, UniqueIds, TimerOfCurrentJob, NoInternalError, JobList,
        Queued, NobodyWaitsForNothing, EndsAtMostOnce, Listed
<1>2. CASE call.job.n \notin canceled
  <2>1. call.job = currentJob /\ call.job \in Job
    BY <1>2 DEF Inv, OneLiveCallback, TypeOK, Call
  <2>2. currentJob # NoJob
    BY <2>1, NoJobIsNotAJob
  <2>3. /\ HandleCbFinished(currentJob, call.out = "error", NoJob, call)
        /\ UNCHANGED <<unnamedJobIdCounter, canceled, made, destroyed>>
    BY <1>2, <2>1 DEF ReactToCb
  <2> DEFINE err == call.out = "error"
  <2> HIDE DEF err
  <2>4. HandleCbFinished(currentJob, err, NoJob, call)
    BY <2>3 DEF err
  <2> QED
    BY <2>1, <2>2, <2>3, <2>4, HandleCbFinishedKeepsInv
<1> QED
  BY <1>1, <1>2

LEMMA TimeoutKeepsInv ==
  ASSUME Inv, NEW job \in armed, Timeout(job)
  PROVE  Inv'
<1>1. currentJob # NoJob /\ job = currentJob
  BY DEF Inv, TimerOfCurrentJob
<1>2. /\ HandleCbFinished(currentJob, TRUE, currentJob, NoJob)
      /\ canceled' = canceled \cup {currentJob.n}
      /\ UNCHANGED <<unnamedJobIdCounter, made, destroyed>>
  BY <1>1 DEF Timeout
<1> QED
  BY <1>1, <1>2, HandleCbFinishedKeepsInv

-----------------------------------------------------------------------------
LEMMA InitInv == Init => Inv
<1> SUFFICES ASSUME Init PROVE Inv
  OBVIOUS
<1>1. DOMAIN queue = {} /\ Listed = {} /\ queue \in Seq(Job)
  BY DEF Init, Listed
<1>2. NoPromise \in Promise
  BY DEF NoPromise, Promise
<1>3. TypeOK
  <2>1. /\ endHandler \in [Ids -> Numbers \cup {NoJob}]
        /\ promise \in [Clients -> Promise]
        /\ ended \in [Numbers -> Nat]
    BY <1>2 DEF Init
  <2>2. unnamedJobIdCounter \in -1..(MaxUnnamed - 1) /\ made \in 0..MaxCbs
    BY BoundsAssumption DEF Init
  <2> QED
    BY <1>1, <2>1, <2>2 DEF Init, TypeOK
<1> QED
  BY <1>1, <1>3
  DEF Init, Inv, UniqueIds, TimerOfCurrentJob, OneLiveCallback,
      NoInternalError, NobodyWaitsForNothing, EndsAtMostOnce,
      NumbersTellJobsApart, Fresh, Numbers

LEMMA NextInv == Inv /\ [Next]_vars => Inv'
<1> SUFFICES ASSUME Inv, [Next]_vars PROVE Inv'
  OBVIOUS
<1>1. ASSUME NEW id \in NamedIds, Add(id) PROVE Inv'
  <2>1. id \in Ids
    BY DEF Ids
  <2>2. AddWithId(id) /\ unnamedJobIdCounter' \in -1..(MaxUnnamed - 1)
    BY <1>1 DEF Add, Inv, TypeOK
  <2> QED
    BY <2>1, <2>2, AddWithIdKeepsInv
<1>2. CASE AddUnnamed
  <2> DEFINE id == unnamedJobIdCounter + 1
  <2>1. id \in 0..(MaxUnnamed - 1)
    BY <1>2, BoundsAssumption DEF AddUnnamed, Inv, TypeOK
  <2>2. id \in Ids /\ AddWithId(id)
        /\ unnamedJobIdCounter' \in -1..(MaxUnnamed - 1)
    BY <1>2, <2>1, BoundsAssumption DEF AddUnnamed, Ids
  <2> HIDE DEF id
  <2> QED
    BY <2>2, AddWithIdKeepsInv
<1>3. ASSUME NEW id \in Ids, CancelJob(id) PROVE Inv'
  BY <1>3, CancelJobKeepsInv
<1>4. ASSUME NEW id \in Ids, OnJobEndOnce(id) PROVE Inv'
  BY <1>4, OnJobEndOnceKeepsInv
<1>5. ASSUME NEW c \in Clients, NEW id \in Ids, WaitJobStart(c, id)
      PROVE  Inv'
  <2>1. PICK state \in {"resolved", "rejected", "pending"} :
          Await(c, "start", id, state)
    BY <1>5 DEF WaitJobStart
  <2> QED
    BY <2>1, AwaitKeepsInv
<1>6. ASSUME NEW c \in Clients, NEW id \in Ids, NEW force \in BOOLEAN,
             WaitJobFinished(c, id, force)
      PROVE  Inv'
  <2>1. PICK state \in {"rejected", "pending"} : Await(c, "end", id, state)
    BY <1>6 DEF WaitJobFinished
  <2> QED
    BY <2>1, AwaitKeepsInv
<1>7. ASSUME NEW c \in Clients, WaitCurrentJobFinished(c)
      PROVE  Inv'
  <2>1. PICK id \in Ids \cup {NoJob}, state \in {"resolved", "pending"} :
          Await(c, "end", id, state)
    <3>1. currentJob # NoJob => currentJob.id \in Ids
      BY DEF Inv, TypeOK, Job
    <3> QED
      BY <1>7, <3>1 DEF WaitCurrentJobFinished
  <2> QED
    BY <2>1, AwaitKeepsInv
<1>8. CASE Destroy
  BY <1>8, DestroyKeepsInv
<1>9. ASSUME NEW call \in calls, NEW out \in {"ok", "error"}, SettleCb(call, out)
      PROVE  Inv'
  BY <1>9, SettleCbKeepsInv
<1>10. ASSUME NEW call \in calls, ReactToCb(call) PROVE Inv'
  BY <1>10, ReactToCbKeepsInv
<1>11. ASSUME NEW c \in Clients, ResumeClient(c) PROVE Inv'
  <2>1. NoPromise \in Promise
    BY DEF NoPromise, Promise
  <2>2. promise' \in [Clients -> Promise]
    BY <1>11, <2>1 DEF ResumeClient, Inv, TypeOK
  <2> QED
    BY <1>11, <2>2, PromiseStepKeepsInv DEF ResumeClient
<1>12. ASSUME NEW job \in armed, Timeout(job) PROVE Inv'
  BY <1>12, TimeoutKeepsInv
<1>13. CASE UNCHANGED vars
  <2>1. promise' \in [Clients -> Promise]
    BY <1>13 DEF vars, Inv, TypeOK
  <2> QED
    BY <1>13, <2>1, PromiseStepKeepsInv DEF vars
<1> QED
  BY <1>1, <1>2, <1>3, <1>4, <1>5, <1>6, <1>7, <1>8, <1>9, <1>10, <1>11,
     <1>12, <1>13 DEF Next

(* Whatever the ids, the clients and the bounds, the job list, the timers, *)
(* the callbacks and the history agree as Inv says in every state.         *)
THEOREM QueueInvariant == Spec => []Inv
<1>1. Init => Inv
  BY InitInv
<1>2. Inv /\ [Next]_vars => Inv'
  BY NextInv
<1> QED
  BY <1>1, <1>2, PTL DEF Spec

(* Fields of Queue hold what they are declared to hold.                    *)
THEOREM TypeCorrect == Spec => []TypeOK
<1>1. Inv => TypeOK
  BY DEF Inv
<1> QED
  BY <1>1, QueueInvariant, PTL

(* The ids by which cancelJob, hasJob and handleCbFinished look a job up   *)
(* name at most one job.                                                   *)
THEOREM IdsAreUnique == Spec => []UniqueIds
<1>1. Inv => UniqueIds
  BY DEF Inv
<1> QED
  BY <1>1, QueueInvariant, PTL

(* The event loop holds the timer of the current job and no other.         *)
THEOREM OneTimer == Spec => []TimerOfCurrentJob
<1>1. Inv => TimerOfCurrentJob
  BY DEF Inv
<1> QED
  BY <1>1, QueueInvariant, PTL

(* A callback that still can end a job is that of the current job.         *)
THEOREM OneAtATime == Spec => []OneLiveCallback
<1>1. Inv => OneLiveCallback
  BY DEF Inv
<1> QED
  BY <1>1, QueueInvariant, PTL

(* Neither of the errors handleCbFinished throws is ever thrown.           *)
THEOREM NoErrorIsThrown == Spec => []NoInternalError
<1>1. Inv => NoInternalError
  BY DEF Inv
<1> QED
  BY <1>1, QueueInvariant, PTL

(* A job ends at most once.                                                *)
THEOREM EndsOnce == Spec => []EndsAtMostOnce
<1>1. Inv => EndsAtMostOnce
  BY DEF Inv
<1> QED
  BY <1>1, QueueInvariant, PTL

(* The queue never holds jobs without one that is in progress: each way    *)
(* out of a job, with what its handlers add, starts the next one.          *)
THEOREM WaitersAreServed == Spec => []NobodyWaitsForNothing
<1>1. Inv => NobodyWaitsForNothing
  BY DEF Inv
<1> QED
  BY <1>1, QueueInvariant, PTL

(* A step that adds to the history of a job's ends is the end of that job. *)
LEMMA EndsOfCurrentJob ==
  ASSUME Inv, [Next]_vars
  PROVE  \A n \in Numbers : ended'[n] # ended[n] =>
           \/ n \in canceled' \ canceled
           \/ \E call \in calls \ calls' :
                call.job.n = n /\ call.out # "pending"
<1> SUFFICES ASSUME NEW n \in Numbers, ended'[n] # ended[n]
             PROVE  \/ n \in canceled' \ canceled
                    \/ \E call \in calls \ calls' :
                         call.job.n = n /\ call.out # "pending"
  OBVIOUS
<1>1. ASSUME NEW jl, NEW err, NEW fired, NEW reacted,
             ProceedAfterEnd(jl, err, fired, reacted), currentJob # NoJob
      PROVE  n = currentJob.n /\ n \notin canceled
  <2>1. n = currentJob.n
    BY <1>1 DEF ProceedAfterEnd, Inv, TypeOK
  <2> QED
    BY <1>1, <2>1 DEF Inv, OneLiveCallback
<1>2. ASSUME NEW id \in Ids, CancelJob(id)
      PROVE  n \in canceled' \ canceled
  <2>1. /\ IsCurrent(JobList, id)
        /\ canceled' = canceled \cup {currentJob.n}
    BY <1>2 DEF CancelJob, Proceed
  <2>2. currentJob # NoJob
    BY <2>1 DEF IsCurrent, JobList
  <2>3. n = currentJob.n /\ n \notin canceled
    BY <1>1, <1>2, <2>1, <2>2 DEF CancelJob
  <2> QED
    BY <2>1, <2>3
<1>3. ASSUME NEW job \in armed, Timeout(job)
      PROVE  n \in canceled' \ canceled
  <2>1. job = currentJob /\ currentJob # NoJob
    BY DEF Inv, TimerOfCurrentJob
  <2>2. \E jl : ProceedAfterEnd(jl, TRUE, job, NoJob)
    BY <1>3, <2>1 DEF Timeout, HandleCbFinished, IsCurrent, JobList
  <2>3. n = currentJob.n /\ n \notin canceled
    BY <1>1, <2>1, <2>2
  <2> QED
    BY <1>3, <2>1, <2>3 DEF Timeout
<1>4. ASSUME NEW call \in calls, ReactToCb(call)
      PROVE  call \notin calls' /\ call.job.n = n /\ call.out # "pending"
  <2>1. call.job.n \notin canceled /\ call.out # "pending"
    BY <1>4 DEF ReactToCb
  <2>2. call.job = currentJob /\ currentJob # NoJob
    BY <2>1, NoJobIsNotAJob DEF Inv, TypeOK, OneLiveCallback, Call
  <2>3. PICK jl, err : ProceedAfterEnd(jl, err, NoJob, call)
    BY <1>4, <2>1, <2>2 DEF ReactToCb, HandleCbFinished, IsCurrent, JobList
  <2>4. n = currentJob.n
    BY <1>1, <2>2, <2>3
  <2>5. \A c \in calls' : c \in calls \ {call} \/ c.out = "pending"
    BY <2>3 DEF ProceedAfterEnd
  <2> QED
    BY <2>1, <2>2, <2>4, <2>5
<1>5. CASE ended' = ended
  BY <1>5
<1> QED
  BY <1>2, <1>3, <1>4, <1>5
  DEF Next, vars, Add, AddUnnamed, AddWithId, Proceed, WaitJobStart,
      WaitJobFinished, WaitCurrentJobFinished, Await, OnJobEndOnce, Destroy,
      SettleCb, ResumeClient

(* A late callback or timer never ends a later job.                        *)
THEOREM JobsEndByThemselves == Spec => EndsByItself
<1> DEFINE A == \A n \in Numbers : ended'[n] # ended[n] =>
                  \/ n \in canceled' \ canceled
                  \/ \E call \in calls \ calls' :
                       call.job.n = n /\ call.out # "pending"
<1>1. Inv /\ [Next]_vars => A
  BY EndsOfCurrentJob
<1>2. [][A]_vars => EndsByItself
  BY DEF EndsByItself
<1> HIDE DEF A
<1>3. Spec => [][A]_vars
  BY <1>1, QueueInvariant, PTL DEF Spec
<1> QED
  BY <1>2, <1>3

-----------------------------------------------------------------------------
(* Promises are matched by id.  That they tell of the right job rests on   *)
(* what the number of a job says of its id, as long as somebody waits.     *)

Known(jl, id, n) ==
  \/ \E i \in DOMAIN jl.queue : jl.queue[i].id = id /\ jl.queue[i].n = n
  \/ jl.current # NoJob /\ jl.current.id = id /\ jl.current.n = n

(* The number of the job was handed out already, it is not one that will   *)
(* come to the list again, and in the list it goes with the id.            *)
KnowsItsJob(p) ==
  p.n # NoJob =>
    /\ p.n <= made
    /\ \A id \in Ids : endHandler[id] # p.n
    /\ \A id \in Ids : Known(JobList, id, p.n) => id = p.id

PromisesKnowTheirJobs == \A c \in Clients : KnowsItsJob(promise[c])

LEMMA StartNextKnows ==
  ASSUME NEW jl, jl.queue \in Seq(Job), NEW id, NEW n,
         Known(StartNextJobIfNeed(jl), id, n)
  PROVE  Known(jl, id, n)
<1> DEFINE s == StartNextJobIfNeed(jl)
<1>1. CASE jl.current # NoJob \/ jl.queue = <<>>
  BY <1>1 DEF StartNextJobIfNeed
<1>2. CASE jl.current = NoJob /\ jl.queue # <<>>
  <2>1. s.queue = Tail(jl.queue) /\ s.current = Head(jl.queue)
    BY <1>2 DEF StartNextJobIfNeed
  <2>2. /\ \A i \in DOMAIN s.queue : i + 1 \in DOMAIN jl.queue
                                     /\ s.queue[i] = jl.queue[i + 1]
        /\ 1 \in DOMAIN jl.queue
        /\ s.current = jl.queue[1]
    BY <1>2, <2>1
  <2> QED
    BY <2>2 DEF Known
<1> QED
  BY <1>1, <1>2

LEMMA AddKnows ==
  ASSUME NEW jl, WellFormed(jl), NEW id \in Ids, NEW cb \in Numbers,
         NEW i, NEW n, Known(AddJob(jl, id, cb), i, n)
  PROVE  Known(jl, i, n) \/ n = cb
<1> DEFINE s == AddJob(jl, id, cb)
           new == [id |-> id, n |-> cb, cb |-> cb]
<1>0. /\ jl.queue \in Seq(Job)
      /\ Len(jl.queue) \in Nat
      /\ DOMAIN jl.queue = 1..Len(jl.queue)
      /\ \A k \in DOMAIN jl.queue : jl.queue[k] \in Job
      /\ jl = [queue |-> jl.queue, current |-> jl.current]
  BY DEF WellFormed, JobListType
<1>1. CASE IsCurrent(jl, id)
  BY <1>1 DEF AddJob
<1>2. CASE ~IsCurrent(jl, id) /\ Queued(jl, id)
  <2> DEFINE k == GetJobIndex(jl, id)
  <2>1. k \in DOMAIN jl.queue
    BY <1>2, JobIndex
  <2>2. s = [jl EXCEPT !.queue[k].cb = cb]
    BY <1>2 DEF AddJob
  <2> HIDE DEF k
  <2>3. /\ s.queue = [jl.queue EXCEPT ![k] = [@ EXCEPT !.cb = cb]]
        /\ s.current = jl.current
    BY <1>0, <2>2
  <2>4. /\ DOMAIN s.queue = DOMAIN jl.queue
        /\ \A j \in DOMAIN jl.queue :
             s.queue[j] = IF j = k THEN [jl.queue[k] EXCEPT !.cb = cb]
                          ELSE jl.queue[j]
    BY <1>0, <2>1, <2>3
  <2>5. \A j \in DOMAIN jl.queue : /\ s.queue[j].id = jl.queue[j].id
                                   /\ s.queue[j].n = jl.queue[j].n
    BY <1>0, <2>1, <2>4 DEF Job
  <2> QED
    BY <2>3, <2>4, <2>5 DEF Known
<1>3. CASE ~IsCurrent(jl, id) /\ ~Queued(jl, id)
  <2> DEFINE a == [jl EXCEPT !.queue = Append(@, new)]
  <2>1. s = StartNextJobIfNeed(a)
    BY <1>3 DEF AddJob
  <2>2. /\ a.queue = Append(jl.queue, new)
        /\ a.current = jl.current
    BY <1>0
  <2>3. new \in Job
    BY DEF Job
  <2>4. /\ a.queue \in Seq(Job)
        /\ \A j \in DOMAIN a.queue :
             \/ j \in DOMAIN jl.queue /\ a.queue[j] = jl.queue[j]
             \/ a.queue[j] = new
    BY <1>0, <2>2, <2>3
  <2> HIDE DEF a
  <2>5. Known(a, i, n)
    BY <2>1, <2>4, StartNextKnows
  <2> QED
    BY <2>2, <2>4, <2>5 DEF Known
<1> QED
  BY <1>1, <1>2, <1>3

LEMMA RemoveKnows ==
  ASSUME NEW jl, WellFormed(jl), NEW id, NEW i, NEW n,
         Known(RemoveJobFromQueue(jl, id), i, n)
  PROVE  Known(jl, i, n)
<1> DEFINE s == RemoveJobFromQueue(jl, id)
<1>1. CASE ~Queued(jl, id)
  BY <1>1 DEF RemoveJobFromQueue
<1>2. CASE Queued(jl, id)
  <2> DEFINE k == GetJobIndex(jl, id)
  <2>0. /\ jl.queue \in Seq(Job)
        /\ Len(jl.queue) \in Nat
        /\ DOMAIN jl.queue = 1..Len(jl.queue)
        /\ jl = [queue |-> jl.queue, current |-> jl.current]
    BY DEF WellFormed, JobListType
  <2>1. k \in DOMAIN jl.queue
    BY <1>2, JobIndex
  <2>2. s = [queue |-> RemoveAt(jl.queue, k), current |-> jl.current]
    BY <1>2, <2>0 DEF RemoveJobFromQueue
  <2> HIDE DEF k
  <2> DEFINE old(j) == IF j < k THEN j ELSE j + 1
  <2>3. /\ DOMAIN s.queue = 1..(Len(jl.queue) - 1)
        /\ \A j \in DOMAIN s.queue : s.queue[j] = jl.queue[old(j)]
        /\ s.current = jl.current
    BY <2>0, <2>1, <2>2, RemoveAtKeeps
  <2>4. \A j \in DOMAIN s.queue : old(j) \in DOMAIN jl.queue
    BY <2>0, <2>1, <2>3
  <2> HIDE DEF old
  <2> QED
    BY <2>3, <2>4 DEF Known
<1> QED
  BY <1>1, <1>2

(* What the job list holds after the endJob event of the current job.      *)
LEMMA EmitEndJobKnows ==
  ASSUME Inv, currentJob # NoJob, NEW i, NEW n,
         Known(EmitEndJob(Finalized, currentJob.id), i, n)
  PROVE  \/ Known(JobList, i, n)
         \/ \E id \in Ids : endHandler[id] = n
<1>1. /\ WellFormed(JobList)
      /\ JobList = [queue |-> queue, current |-> currentJob]
  BY InvJobList DEF JobList
<1>2. Finalized.queue = queue /\ Finalized.current = NoJob
  BY <1>1 DEF Finalized
<1>3. WellFormed(Finalized)
  BY <1>1 DEF Finalized, WellFormed, JobListType, DistinctIds, DistinctNumbers
<1>4. \A j, m : Known(Finalized, j, m) => Known(JobList, j, m)
  BY <1>1, <1>2 DEF Known
<1>5. currentJob.id \in Ids
  BY DEF Inv, TypeOK, Job
<1>6. CASE endHandler[currentJob.id] = NoJob
  BY <1>4, <1>6 DEF EmitEndJob
<1>7. CASE endHandler[currentJob.id] # NoJob
  <2>1. endHandler[currentJob.id] \in Numbers
    BY <1>5, <1>7 DEF Inv, TypeOK
  <2>2. Known(AddJob(Finalized, currentJob.id, endHandler[currentJob.id]), i, n)
    BY <1>7 DEF EmitEndJob
  <2>3. Known(Finalized, i, n) \/ n = endHandler[currentJob.id]
    BY <1>3, <1>5, <2>1, <2>2, AddKnows
  <2> QED
    BY <1>4, <1>5, <2>3
<1> QED
  BY <1>6, <1>7

KnownNext(id, n) == Known([queue |-> queue', current |-> currentJob'], id, n)

(* Jobs of the next list are listed already, have a number that is handed  *)
(* out in this step, or the one kept by a handler.                         *)
ListGrows ==
  \A i, n : KnownNext(i, n) =>
    Known(JobList, i, n) \/ n = made + 1 \/ \E id \in Ids : endHandler[id] = n

(* Handlers are dropped or get the number handed out in this step.         *)
HandlersGrow ==
  \A id \in Ids : endHandler'[id] \in {endHandler[id], NoJob, made + 1}

LEMMA CurrentEnds ==
  ASSUME Inv, NEW jl, NEW err, NEW fired, NEW reacted,
         ProceedAfterEnd(jl, err, fired, reacted), currentJob # NoJob,
         \A i, n : Known(jl, i, n) =>
           Known(EmitEndJob(Finalized, currentJob.id), i, n)
  PROVE  ListGrows /\ HandlersGrow
<1>1. queue' = jl.queue /\ currentJob' = jl.current
      /\ endHandler' = [endHandler EXCEPT ![currentJob.id] = NoJob]
  BY DEF ProceedAfterEnd, HandlersAfterEnd
<1>2. ListGrows
  <2>1. \A i, n : KnownNext(i, n) => Known(jl, i, n)
    BY <1>1 DEF KnownNext, Known, JobList
  <2> QED
    BY <2>1, EmitEndJobKnows DEF ListGrows
<1>3. HandlersGrow
  BY <1>1 DEF HandlersGrow, Inv, TypeOK
<1> QED
  BY <1>2, <1>3

LEMMA CbFinished ==
  ASSUME Inv, NEW err, NEW fired, NEW reacted, currentJob # NoJob,
         HandleCbFinished(currentJob, err, fired, reacted)
  PROVE  ListGrows /\ HandlersGrow
<1> DEFINE e == EmitEndJob(Finalized, currentJob.id)
           jl == StartNextJobIfNeed(e)
<1>1. ProceedAfterEnd(jl, err, fired, reacted)
  BY DEF HandleCbFinished, NextAfterEnd, IsCurrent, JobList
<1>2. WellFormed(e)
  BY EmitEndJobKeeps
<1>3. e.queue \in Seq(Job)
  BY <1>2 DEF WellFormed, JobListType
<1> HIDE DEF e
<1>4. \A i, n : Known(jl, i, n) => Known(e, i, n)
  BY <1>3, StartNextKnows
<1> HIDE DEF jl
<1> QED
  BY <1>1, <1>4, CurrentEnds DEF e

LEMMA ListProceeds ==
  ASSUME NEW jl, Proceed(jl),
         \A i, n : Known(jl, i, n) => Known(JobList, i, n) \/ n = made + 1
  PROVE  ListGrows /\ HandlersGrow
<1>1. queue' = jl.queue /\ currentJob' = jl.current /\ endHandler' = endHandler
  BY DEF Proceed
<1>2. \A i, n : KnownNext(i, n) => Known(jl, i, n)
  BY <1>1 DEF KnownNext, Known, JobList
<1> QED
  BY <1>1, <1>2 DEF ListGrows, HandlersGrow

LEMMA AddWithIdGrows ==
  ASSUME Inv, NEW id \in Ids, AddWithId(id)
  PROVE  ListGrows /\ HandlersGrow
<1> DEFINE jl == AddJob(JobList, id, made + 1)
<1>1. Proceed(jl) /\ made + 1 \in Numbers
  BY NextNumberIsFresh DEF AddWithId
<1>2. \A i, n : Known(jl, i, n) => Known(JobList, i, n) \/ n = made + 1
  BY <1>1, InvJobList, AddKnows
<1> HIDE DEF jl
<1> QED
  BY <1>1, <1>2, ListProceeds

LEMMA CancelJobGrows ==
  ASSUME Inv, NEW id \in Ids, CancelJob(id)
  PROVE  ListGrows /\ HandlersGrow
<1>1. CASE IsCurrent(JobList, id)
  <2>1. currentJob # NoJob /\ id = currentJob.id
    BY <1>1 DEF IsCurrent, JobList
  <2> DEFINE e == EmitEndJob(Finalized, currentJob.id)
             r == RemoveJobFromQueue(e, id)
             jl == StartNextJobIfNeed(r)
  <2>2. ProceedAfterEnd(jl, FALSE, NoJob, NoJob)
    BY <1>1, <2>1 DEF CancelJob
  <2>3. WellFormed(e)
    BY <2>1, EmitEndJobKeeps
  <2> HIDE DEF e
  <2>4. WellFormed(r) /\ \A i, n : Known(r, i, n) => Known(e, i, n)
    BY <2>3, RemoveKeeps, RemoveKnows
  <2>5. r.queue \in Seq(Job)
    BY <2>4 DEF WellFormed, JobListType
  <2> HIDE DEF r
  <2>6. \A i, n : Known(jl, i, n) => Known(r, i, n)
    BY <2>5, StartNextKnows
  <2> HIDE DEF jl
  <2> QED
    BY <2>1, <2>2, <2>4, <2>6, CurrentEnds DEF e
<1>2. CASE ~IsCurrent(JobList, id)
  <2> DEFINE r == RemoveJobFromQueue(JobList, id)
             jl == StartNextJobIfNeed(r)
  <2>1. Proceed(jl)
    BY <1>2 DEF CancelJob
  <2>2. WellFormed(r) /\ \A i, n : Known(r, i, n) => Known(JobList, i, n)
    BY InvJobList, RemoveKeeps, RemoveKnows
  <2>3. r.queue \in Seq(Job)
    BY <2>2 DEF WellFormed, JobListType
  <2> HIDE DEF r
  <2>4. \A i, n : Known(jl, i, n) => Known(r, i, n)
    BY <2>3, StartNextKnows
  <2> HIDE DEF jl
  <2> QED
    BY <2>1, <2>2, <2>4, ListProceeds
<1> QED
  BY <1>1, <1>2

LEMMA ReactToCbGrows ==
  ASSUME Inv, NEW call \in calls, ReactToCb(call)
  PROVE  ListGrows /\ HandlersGrow
<1>1. CASE call.job.n \in canceled
  BY <1>1 DEF ReactToCb, ListGrows, HandlersGrow, KnownNext, Known, JobList
<1>2. CASE call.job.n \notin canceled
  <2>1. call.job = currentJob /\ currentJob # NoJob
    BY <1>2, NoJobIsNotAJob DEF Inv, OneLiveCallback, TypeOK, Call
  <2>2. \E err : HandleCbFinished(currentJob, err, NoJob, call)
    BY <1>2, <2>1 DEF ReactToCb
  <2> QED
    BY <2>1, <2>2, CbFinished
<1> QED
  BY <1>1, <1>2

LEMMA TimeoutGrows ==
  ASSUME Inv, NEW job \in armed, Timeout(job)
  PROVE  ListGrows /\ HandlersGrow
<1>1. currentJob # NoJob /\ job = currentJob
  BY DEF Inv, TimerOfCurrentJob
<1>2. HandleCbFinished(currentJob, TRUE, currentJob, NoJob)
  BY <1>1 DEF Timeout
<1> QED
  BY <1>1, <1>2, CbFinished

(* Who waits keeps the number and the id; and who comes to wait for a job  *)
(* finds it in the list.                                                   *)
PromisesKept ==
  \A c \in Clients :
    \/ promise'[c].n = promise[c].n /\ promise'[c].id = promise[c].id
    \/ promise'[c].n = NoJob
    \/ /\ UNCHANGED <<queue, currentJob, endHandler, made>>
       /\ Known(JobList, promise'[c].id, promise'[c].n)

LEMMA AwaitKnows ==
  ASSUME Inv, NEW c \in Clients, NEW on, NEW id, NEW state, Await(c, on, id, state)
  PROVE  ListGrows /\ HandlersGrow /\ PromisesKept
<1>1. NumberOf(id) = NoJob \/ Known(JobList, id, NumberOf(id))
  <2>1. CASE IsCurrent(JobList, id)
    BY <2>1 DEF NumberOf, IsCurrent, Known, JobList
  <2>2. CASE ~IsCurrent(JobList, id) /\ Queued(JobList, id)
    <3>1. GetJobIndex(JobList, id) \in DOMAIN queue
          /\ queue[GetJobIndex(JobList, id)].id = id
      BY <2>2, InvJobList, JobIndex
    <3>2. NumberOf(id) = queue[GetJobIndex(JobList, id)].n
      BY <2>2 DEF NumberOf
    <3> QED
      BY <3>1, <3>2 DEF KnownNext, Known, JobList
  <2>3. CASE ~IsCurrent(JobList, id) /\ ~Queued(JobList, id)
    BY <2>3 DEF NumberOf
  <2> QED
    BY <2>1, <2>2, <2>3
<1>2. \A d \in Clients :
        \/ promise'[d] = promise[d]
        \/ promise'[d].id = id /\ promise'[d].n = NumberOf(id)
  <2>1. promise' = [promise EXCEPT ![c] =
          [on |-> on, id |-> id, n |-> NumberOf(id), state |-> state]]
    BY DEF Await
  <2>2. DOMAIN promise = Clients
    BY DEF Inv, TypeOK
  <2> QED
    BY <2>1, <2>2
<1>3. PromisesKept
  BY <1>1, <1>2 DEF PromisesKept, Await
<1>4. ListGrows /\ HandlersGrow
  BY DEF Await, ListGrows, HandlersGrow, KnownNext, Known, JobList
<1> QED
  BY <1>3, <1>4

LEMMA SettledKept ==
  ASSUME Inv, NEW endId, NEW startId, NEW err, SettlePromises(endId, startId, err)
  PROVE  PromisesKept
<1> SUFFICES ASSUME NEW c \in Clients
             PROVE  promise'[c].n = promise[c].n /\ promise'[c].id = promise[c].id
  BY DEF PromisesKept
<1>1. promise[c] \in Promise
  BY DEF Inv, TypeOK
<1>2. \/ promise'[c] = promise[c]
      \/ promise'[c] = [promise[c] EXCEPT !.state = Outcome(promise[c], err)]
  BY DEF SettlePromises
<1> QED
  BY <1>1, <1>2 DEF Promise

LEMMA HandleCbFinishedKept ==
  ASSUME Inv, NEW job, NEW err, NEW fired, NEW reacted,
         HandleCbFinished(job, err, fired, reacted)
  PROVE  PromisesKept
<1>1. promise' = promise \/ \E endId, startId : SettlePromises(endId, startId, err)
  BY DEF HandleCbFinished, ProceedAfterEnd
<1> QED
  BY <1>1, SettledKept DEF PromisesKept

LEMMA NextGrows ==
  ASSUME Inv, [Next]_vars
  PROVE  ListGrows /\ HandlersGrow /\ PromisesKept
<1>1. ASSUME NEW id \in Ids, AddWithId(id)
      PROVE  ListGrows /\ HandlersGrow /\ PromisesKept
  <2>1. \E jl : Proceed(jl)
    BY <1>1 DEF AddWithId
  <2>2. promise' = promise
        \/ \E startId : SettlePromises(NoJob, startId, FALSE)
    BY <2>1 DEF Proceed
  <2>3. PromisesKept
    BY <2>2, SettledKept DEF PromisesKept
  <2> QED
    BY <1>1, <2>3, AddWithIdGrows
<1>2. ASSUME NEW id \in NamedIds, Add(id)
      PROVE  ListGrows /\ HandlersGrow /\ PromisesKept
  BY <1>1, <1>2 DEF Add, Ids
<1>3. CASE AddUnnamed
  <2>1. unnamedJobIdCounter + 1 \in 0..(MaxUnnamed - 1)
    BY <1>3, BoundsAssumption DEF AddUnnamed, Inv, TypeOK
  <2> QED
    BY <1>1, <1>3, <2>1 DEF AddUnnamed, Ids
<1>4. ASSUME NEW id \in Ids, CancelJob(id)
      PROVE  ListGrows /\ HandlersGrow /\ PromisesKept
  <2>1. \E jl : Proceed(jl) \/ ProceedAfterEnd(jl, FALSE, NoJob, NoJob)
    BY <1>4 DEF CancelJob
  <2>2. promise' = promise
        \/ \E endId, startId : SettlePromises(endId, startId, FALSE)
    BY <2>1 DEF Proceed, ProceedAfterEnd
  <2>3. PromisesKept
    BY <2>2, SettledKept DEF PromisesKept
  <2> QED
    BY <1>4, <2>3, CancelJobGrows
<1>5. ASSUME NEW id \in Ids, OnJobEndOnce(id)
      PROVE  ListGrows /\ HandlersGrow /\ PromisesKept
  BY <1>5 DEF OnJobEndOnce, ListGrows, HandlersGrow, PromisesKept, KnownNext, Known,
              JobList, Inv, TypeOK
<1>6. ASSUME NEW c \in Clients, NEW id \in Ids, WaitJobStart(c, id)
      PROVE  ListGrows /\ HandlersGrow /\ PromisesKept
  <2>1. \E state : Await(c, "start", id, state)
    BY <1>6 DEF WaitJobStart
  <2> QED
    BY <2>1, AwaitKnows
<1>7. ASSUME NEW c \in Clients, NEW id \in Ids, NEW force \in BOOLEAN,
             WaitJobFinished(c, id, force)
      PROVE  ListGrows /\ HandlersGrow /\ PromisesKept
  <2>1. \E state : Await(c, "end", id, state)
    BY <1>7 DEF WaitJobFinished
  <2> QED
    BY <2>1, AwaitKnows
<1>8. ASSUME NEW c \in Clients, WaitCurrentJobFinished(c)
      PROVE  ListGrows /\ HandlersGrow /\ PromisesKept
  <2>1. \E id, state : Await(c, "end", id, state)
    BY <1>8 DEF WaitCurrentJobFinished
  <2> QED
    BY <2>1, AwaitKnows
<1>9. CASE Destroy
  BY <1>9 DEF Destroy, ListGrows, HandlersGrow, PromisesKept, KnownNext, Known, JobList
<1>10. ASSUME NEW call \in calls, NEW out \in {"ok", "error"}, SettleCb(call, out)
      PROVE  ListGrows /\ HandlersGrow /\ PromisesKept
  BY <1>10 DEF SettleCb, ListGrows, HandlersGrow, PromisesKept, KnownNext, Known, JobList
<1>11. ASSUME NEW call \in calls, ReactToCb(call)
      PROVE  ListGrows /\ HandlersGrow /\ PromisesKept
  <2>1. promise' = promise \/ \E err : HandleCbFinished(call.job, err, NoJob, call)
    BY <1>11 DEF ReactToCb
  <2>2. PromisesKept
    BY <2>1, HandleCbFinishedKept DEF PromisesKept
  <2> QED
    BY <1>11, <2>2, ReactToCbGrows
<1>12. ASSUME NEW c \in Clients, ResumeClient(c)
      PROVE  ListGrows /\ HandlersGrow /\ PromisesKept
  BY <1>12 DEF ResumeClient, ListGrows, HandlersGrow, PromisesKept, KnownNext, Known,
               JobList, Inv, TypeOK, NoPromise
<1>13. ASSUME NEW job \in armed, Timeout(job)
      PROVE  ListGrows /\ HandlersGrow /\ PromisesKept
  <2>1. PromisesKept
    BY <1>13, HandleCbFinishedKept DEF Timeout
  <2> QED
    BY <1>13, <2>1, TimeoutGrows
<1>14. CASE UNCHANGED vars
  BY <1>14 DEF vars, ListGrows, HandlersGrow, PromisesKept, KnownNext, Known, JobList
<1> QED
  BY <1>2, <1>3, <1>4, <1>5, <1>6, <1>7, <1>8, <1>9, <1>10, <1>11, <1>12,
     <1>13, <1>14 DEF Next

(* A job in the list has a number that was handed out and is nobody's to   *)
(* add again; and its id.                                                  *)
LEMMA KnownFacts ==
  ASSUME Inv, NEW id, NEW n, Known(JobList, id, n)
  PROVE  /\ n \in Numbers /\ n <= made
         /\ \A h \in Ids : endHandler[h] # n
         /\ \A j : Known(JobList, j, n) => j = id
<1>1. n \in Listed
  BY DEF Known, Listed, JobList
<1>2. n \in Numbers
  <2>1. \A job \in Job : job.n \in Numbers
    BY DEF Job
  <2>2. \A i \in DOMAIN queue : queue[i] \in Job
    BY DEF Inv, TypeOK
  <2>3. currentJob # NoJob => currentJob \in Job
    BY DEF Inv, TypeOK
  <2> QED
    BY <1>1, <2>1, <2>2, <2>3 DEF Listed
<1>3. n <= made
  BY <1>1, <1>2 DEF Inv, TypeOK, NumbersTellJobsApart, Fresh, Numbers
<1>4. \A h \in Ids : endHandler[h] # n
  BY <1>1, <1>2, NoJobAssumption DEF Inv, NumbersTellJobsApart, Fresh
<1>5. \A j : Known(JobList, j, n) => j = id
  BY DEF KnownNext, Known, JobList, Inv, NumbersTellJobsApart
<1> QED
  BY <1>2, <1>3, <1>4, <1>5

LEMMA PromisesStayKnown ==
  Inv /\ PromisesKnowTheirJobs /\ [Next]_vars => PromisesKnowTheirJobs'
<1> SUFFICES ASSUME Inv, PromisesKnowTheirJobs, [Next]_vars,
                    NEW c \in Clients, promise'[c].n # NoJob
             PROVE  /\ promise'[c].n <= made'
                    /\ \A id \in Ids : endHandler'[id] # promise'[c].n
                    /\ \A id \in Ids :
                         KnownNext(id, promise'[c].n) => id = promise'[c].id
  BY DEF PromisesKnowTheirJobs, KnowsItsJob, KnownNext, Known, JobList
<1>1. ListGrows /\ HandlersGrow /\ PromisesKept
  BY NextGrows
<1>2. made' \in {made, made + 1}
  BY DEF Next, vars, Add, AddUnnamed, AddWithId, CancelJob, WaitJobStart,
         WaitJobFinished, WaitCurrentJobFinished, Await, OnJobEndOnce, Destroy,
         SettleCb, ReactToCb, ResumeClient, Timeout
<1>3. promise[c].n \in Numbers \cup {NoJob} /\ made \in Nat
  BY DEF Inv, TypeOK, Promise
<1>4. CASE promise'[c].n = promise[c].n /\ promise'[c].id = promise[c].id
  <2> DEFINE n == promise[c].n
  <2>1. /\ n \in Numbers /\ n <= made
        /\ \A id \in Ids : endHandler[id] # n
        /\ \A id \in Ids : Known(JobList, id, n) => id = promise[c].id
    BY <1>3, <1>4 DEF PromisesKnowTheirJobs, KnowsItsJob
  <2>2. n <= made' /\ n # made + 1 /\ n # NoJob
    BY <1>2, <1>3, <1>4, <2>1 DEF Numbers
  <2> HIDE DEF n
  <2>3. \A id \in Ids : endHandler'[id] # n
    BY <1>1, <2>1, <2>2 DEF HandlersGrow
  <2>4. \A id \in Ids : KnownNext(id, n) => id = promise[c].id
    BY <1>1, <2>1, <2>2 DEF ListGrows
  <2> QED
    BY <1>4, <2>2, <2>3, <2>4 DEF n
<1>5. CASE /\ UNCHANGED <<queue, currentJob, endHandler, made>>
           /\ Known(JobList, promise'[c].id, promise'[c].n)
  <2> DEFINE n == promise'[c].n
             i == promise'[c].id
  <2>1. Known(JobList, i, n)
    BY <1>5
  <2> HIDE DEF n, i
  <2>2. /\ n <= made
        /\ \A h \in Ids : endHandler[h] # n
        /\ \A j : Known(JobList, j, n) => j = i
    BY <2>1, KnownFacts
  <2>3. \A j : KnownNext(j, n) => Known(JobList, j, n)
    BY <1>5 DEF KnownNext, JobList
  <2> QED
    BY <1>5, <2>2, <2>3 DEF n, i
<1> QED
  BY <1>1, <1>4, <1>5 DEF PromisesKept

LEMMA PromisesKnow == Spec => []PromisesKnowTheirJobs
<1>1. Init => PromisesKnowTheirJobs
  BY DEF Init, PromisesKnowTheirJobs, KnowsItsJob, NoPromise
<1> QED
  BY <1>1, QueueInvariant, PromisesStayKnown, PTL DEF Spec

(* What PromiseTellsOfItsJob says of one step and one client.              *)
Tells(c) ==
  LET p == promise[c] IN
    (/\ p.state = "pending" /\ p.on = "end" /\ p.n \in Listed
     /\ Settled(promise'[c]))
    => /\ ended'[p.n] = ended[p.n] + 1
       /\ \/ p.n \in canceled'
          \/ \E call \in calls :
               /\ call.job.n = p.n
               /\ call.out =
                    IF promise'[c].state = "resolved" THEN "ok" ELSE "error"

(* The end of the current job settles the promises with its id: those are  *)
(* of this job.                                                            *)
LEMMA EndTells ==
  ASSUME Inv, PromisesKnowTheirJobs, currentJob # NoJob, NEW c \in Clients,
         promise[c].state = "pending", promise[c].on = "end",
         promise[c].n \in Listed, Settled(promise'[c]),
         NEW jl, NEW err, NEW fired, NEW reacted,
         ProceedAfterEnd(jl, err, fired, reacted)
  PROVE  /\ promise[c].n = currentJob.n
         /\ ended'[promise[c].n] = ended[promise[c].n] + 1
         /\ promise'[c].state = IF err THEN "rejected" ELSE "resolved"
<1> DEFINE p == promise[c]
<1>1. \E startId : SettlePromises(currentJob.id, startId, err)
  BY DEF ProceedAfterEnd
<1>2. p \in Promise
  BY DEF Inv, TypeOK
<1>3. /\ p.id = currentJob.id
      /\ promise'[c] = [p EXCEPT !.state = Outcome(p, err)]
  BY <1>1 DEF SettlePromises, Settled
<1>4. promise'[c].state = IF err THEN "rejected" ELSE "resolved"
  BY <1>2, <1>3 DEF Outcome, Promise
<1>5. p.n = currentJob.n
  <2>1. PICK job \in Job : /\ job.n = p.n
                           /\ \/ \E i \in DOMAIN queue : queue[i] = job
                              \/ job = currentJob
    BY DEF Listed, Inv, TypeOK
  <2>2. Known(JobList, job.id, p.n)
    BY <2>1 DEF Known, JobList
  <2>3. job.id \in Ids /\ p.n # NoJob
    BY <2>1, NoJobAssumption DEF Job
  <2>4. job.id = p.id
    BY <2>2, <2>3 DEF PromisesKnowTheirJobs, KnowsItsJob
  <2>5. job = currentJob
    BY <1>3, <2>1, <2>4 DEF Inv, UniqueIds, JobList, Queued
  <2> QED
    BY <2>1, <2>5
<1>6. ended'[currentJob.n] = ended[currentJob.n] + 1
  <2>1. currentJob.n \in Numbers
    BY DEF Inv, TypeOK, Job
  <2> QED
    BY <2>1 DEF ProceedAfterEnd, Inv, TypeOK
<1> QED
  BY <1>4, <1>5, <1>6

LEMMA StepTells ==
  ASSUME Inv, PromisesKnowTheirJobs, [Next]_vars, NEW c \in Clients
  PROVE  Tells(c)
<1> SUFFICES ASSUME promise[c].state = "pending", promise[c].on = "end",
                    promise[c].n \in Listed, Settled(promise'[c])
             PROVE  /\ ended'[promise[c].n] = ended[promise[c].n] + 1
                    /\ \/ promise[c].n \in canceled'
                       \/ \E call \in calls :
                            /\ call.job.n = promise[c].n
                            /\ call.out = IF promise'[c].state = "resolved"
                                          THEN "ok" ELSE "error"
  BY DEF Tells
<1> DEFINE Goal ==
      /\ ended'[promise[c].n] = ended[promise[c].n] + 1
      /\ \/ promise[c].n \in canceled'
         \/ \E call \in calls :
              /\ call.job.n = promise[c].n
              /\ call.out = IF promise'[c].state = "resolved"
                            THEN "ok" ELSE "error"
<1>1. promise'[c] # promise[c]
  BY DEF Settled
<1>2. ASSUME NEW jl, Proceed(jl)
      PROVE  FALSE
  <2>1. promise' = promise \/ \E startId : SettlePromises(NoJob, startId, FALSE)
    BY <1>2 DEF Proceed
  <2>2. promise[c].id # NoJob
    <3>1. PICK job \in Job : /\ job.n = promise[c].n
                             /\ Known(JobList, job.id, promise[c].n)
      <4>1. queue \in Seq(Job) /\ currentJob \in Job \cup {NoJob}
        BY DEF Inv, TypeOK
      <4>2. JobList.queue = queue /\ JobList.current = currentJob
        BY DEF JobList
      <4>3. CASE currentJob # NoJob /\ promise[c].n = currentJob.n
        <5>1. currentJob \in Job /\ Known(JobList, currentJob.id, promise[c].n)
          BY <4>1, <4>2, <4>3 DEF Known
        <5> QED
          BY <4>3, <5>1
      <4>4. CASE \E i \in DOMAIN queue : promise[c].n = queue[i].n
        <5>1. PICK i \in DOMAIN queue : promise[c].n = queue[i].n
          BY <4>4
        <5>2. queue[i] \in Job
          BY <4>1, <5>1
        <5>3. Known(JobList, queue[i].id, promise[c].n)
          BY <4>2, <5>1 DEF Known
        <5> QED
          BY <5>1, <5>2, <5>3
      <4> QED
        BY <4>3, <4>4 DEF Listed
    <3>2. job.id \in Ids /\ promise[c].n # NoJob
      BY <3>1, NoJobAssumption DEF Job
    <3> QED
      BY <3>1, <3>2, NoJobAssumption DEF PromisesKnowTheirJobs, KnowsItsJob
  <2> QED
    BY <1>1, <2>1, <2>2 DEF SettlePromises
<1>3. ASSUME NEW id \in Ids, CancelJob(id)
      PROVE  Goal
  <2>1. IsCurrent(JobList, id)
    BY <1>2, <1>3 DEF CancelJob
  <2>2. currentJob # NoJob
    BY <2>1 DEF IsCurrent, JobList
  <2>3. /\ canceled' = canceled \cup {currentJob.n}
        /\ \E jl : ProceedAfterEnd(jl, FALSE, NoJob, NoJob)
    BY <1>3, <2>1 DEF CancelJob
  <2> QED
    BY <2>2, <2>3, EndTells
<1>4. ASSUME NEW job \in armed, Timeout(job)
      PROVE  Goal
  <2>1. job = currentJob /\ currentJob # NoJob
    BY DEF Inv, TimerOfCurrentJob
  <2>2. \E jl : ProceedAfterEnd(jl, TRUE, job, NoJob)
    BY <1>4, <2>1 DEF Timeout, HandleCbFinished, IsCurrent, JobList
  <2>3. canceled' = canceled \cup {currentJob.n}
    BY <1>4, <2>1 DEF Timeout
  <2> QED
    BY <2>1, <2>2, <2>3, EndTells
<1>5. ASSUME NEW call \in calls, ReactToCb(call)
      PROVE  Goal
  <2>1. call.job.n \notin canceled
    BY <1>1, <1>5 DEF ReactToCb
  <2>2. call.job = currentJob /\ currentJob # NoJob
    BY <2>1, NoJobIsNotAJob DEF Inv, TypeOK, OneLiveCallback, Call
  <2>3. call.out \in {"ok", "error"}
    BY <1>5 DEF ReactToCb, Inv, TypeOK, Call
  <2>4. PICK jl, err : /\ ProceedAfterEnd(jl, err, NoJob, call)
                       /\ err = (call.out = "error")
    BY <1>5, <2>1, <2>2 DEF ReactToCb, HandleCbFinished, IsCurrent, JobList
  <2>5. /\ promise[c].n = currentJob.n
        /\ ended'[promise[c].n] = ended[promise[c].n] + 1
        /\ promise'[c].state = IF err THEN "rejected" ELSE "resolved"
    BY <2>2, <2>4, EndTells
  <2> QED
    BY <2>2, <2>3, <2>4, <2>5
<1>6. ASSUME NEW d \in Clients, NEW on, NEW id, NEW state, Await(d, on, id, state)
      PROVE  FALSE
  BY <1>1, <1>6 DEF Await, Inv, TypeOK
<1>7. ASSUME NEW d \in Clients, ResumeClient(d)
      PROVE  FALSE
  BY <1>1, <1>7 DEF ResumeClient, Settled, Inv, TypeOK
<1>8. CASE UNCHANGED promise
  BY <1>1, <1>8
<1> QED
  BY <1>2, <1>3, <1>4, <1>5, <1>6, <1>7, <1>8
  DEF Next, vars, Add, AddUnnamed, AddWithId, WaitJobStart, WaitJobFinished,
      WaitCurrentJobFinished, OnJobEndOnce, Destroy, SettleCb

(* Whoever waits for the end of a job is told of the end of this job, and  *)
(* how it ended, although promises are matched by id and listeners may add *)
(* a job of the same id before the promise reacts.                         *)
THEOREM PromisesTell == Spec => PromiseTellsOfItsJob
<1> DEFINE A == \A c \in Clients : Tells(c)
<1>1. Inv /\ PromisesKnowTheirJobs /\ [Next]_vars => A
  BY StepTells
<1>2. [][A]_vars => PromiseTellsOfItsJob
  BY DEF PromiseTellsOfItsJob, Tells
<1> HIDE DEF A
<1>3. Spec => [][A]_vars
  BY <1>1, QueueInvariant, PromisesKnow, PTL DEF Spec
<1> QED
  BY <1>2, <1>3

-----------------------------------------------------------------------------
(* Queue implements SerialQueue.  What a user of the queue sees of a job   *)
(* list: the ids in the line, and the one being served.                    *)

Seen(jl) ==
  [line |-> [i \in DOMAIN jl.queue |-> jl.queue[i].id],
   serving |-> IF jl.current = NoJob THEN NoJob ELSE jl.current.id]

LEMMA LenOfDomain ==
  ASSUME NEW S, NEW s \in Seq(S), NEW m \in Nat, DOMAIN s = 1..m
  PROVE  Len(s) = m
<1>1. Len(s) \in Nat /\ DOMAIN s = 1..Len(s)
  OBVIOUS
<1>2. ~(m < Len(s))
  <2>1. m < Len(s) => Len(s) \in 1..Len(s) /\ Len(s) \notin 1..m
    BY <1>1
  <2> QED
    BY <1>1, <2>1
<1>3. ~(Len(s) < m)
  <2>1. Len(s) < m => m \in 1..m /\ m \notin 1..Len(s)
    BY <1>1
  <2> QED
    BY <1>1, <2>1
<1> QED
  BY <1>1, <1>2, <1>3

LEMMA SeenFacts ==
  ASSUME NEW jl, WellFormed(jl)
  PROVE  /\ jl.queue \in Seq(Job)
         /\ Len(jl.queue) \in Nat
         /\ DOMAIN jl.queue = 1..Len(jl.queue)
         /\ \A i \in DOMAIN jl.queue : jl.queue[i] \in Job /\ jl.queue[i].id \in Ids
         /\ Seen(jl).line \in Seq(Ids)
         /\ Len(Seen(jl).line) = Len(jl.queue)
         /\ DOMAIN Seen(jl).line = DOMAIN jl.queue
         /\ \A i \in DOMAIN jl.queue : Seen(jl).line[i] = jl.queue[i].id
         /\ Seen(jl).serving = NoJob <=> jl.current = NoJob
         /\ jl.current # NoJob => Seen(jl).serving = jl.current.id
         /\ jl.current # NoJob => jl.current \in Job /\ jl.current.id \in Ids
         /\ Seen(jl).line = <<>> <=> jl.queue = <<>>
         /\ Seen(jl) = [line |-> Seen(jl).line, serving |-> Seen(jl).serving]
         /\ jl = [queue |-> jl.queue, current |-> jl.current]
<1>1. /\ jl.queue \in Seq(Job)
      /\ Len(jl.queue) \in Nat
      /\ DOMAIN jl.queue = 1..Len(jl.queue)
      /\ \A i \in DOMAIN jl.queue : jl.queue[i] \in Job
      /\ jl.current # NoJob => jl.current \in Job
      /\ jl = [queue |-> jl.queue, current |-> jl.current]
  BY DEF WellFormed, JobListType
<1>2. /\ \A i \in DOMAIN jl.queue : jl.queue[i].id \in Ids
      /\ jl.current # NoJob => jl.current.id \in Ids
  BY <1>1 DEF Job
<1>3. /\ Seen(jl).line = [i \in 1..Len(jl.queue) |-> jl.queue[i].id]
      /\ Seen(jl).serving = IF jl.current = NoJob THEN NoJob ELSE jl.current.id
      /\ Seen(jl) = [line |-> Seen(jl).line, serving |-> Seen(jl).serving]
  BY <1>1 DEF Seen
<1>4. Seen(jl).line \in Seq(Ids) /\ Len(Seen(jl).line) = Len(jl.queue)
  BY <1>1, <1>2, <1>3
<1>5. Seen(jl).serving = NoJob <=> jl.current = NoJob
  BY <1>2, <1>3, NoJobAssumption
<1>6. Seen(jl).line = <<>> <=> jl.queue = <<>>
  BY <1>1, <1>4
<1> QED
  BY <1>1, <1>2, <1>3, <1>4, <1>5, <1>6

LEMMA SeenServed ==
  ASSUME NEW jl, WellFormed(jl)
  PROVE  Seen(StartNextJobIfNeed(jl)) = Promised!Serve(Seen(jl))
<1> DEFINE s == StartNextJobIfNeed(jl)
           v == Seen(jl)
<1>1. CASE jl.current # NoJob \/ jl.queue = <<>>
  BY <1>1, SeenFacts DEF StartNextJobIfNeed, Promised!Serve
<1>2. CASE jl.current = NoJob /\ jl.queue # <<>>
  <2>1. s.queue = Tail(jl.queue) /\ s.current = Head(jl.queue)
    BY <1>2 DEF StartNextJobIfNeed
  <2>2. Promised!Serve(v) = [line |-> Tail(v.line), serving |-> Head(v.line)]
    BY <1>2, SeenFacts DEF Promised!Serve
  <2>3. WellFormed(s) /\ s.current # NoJob
    BY <1>2, StartNextKeeps, <2>1, SeenFacts, NoJobIsNotAJob
  <2> HIDE DEF s, v
  <2>4. Seen(s).serving = Head(v.line)
    BY <1>2, <2>1, <2>3, SeenFacts DEF v
  <2>5. Seen(s).line = Tail(v.line)
    <3>1. /\ v.line \in Seq(Ids) /\ v.line # <<>> /\ Len(v.line) = Len(jl.queue)
          /\ Len(v.line) \in Nat /\ Len(v.line) > 0
          /\ Seen(s).line \in Seq(Ids)
      BY <1>2, <2>3, SeenFacts DEF v
    <3>2. Tail(v.line) \in Seq(Ids) /\ Len(Tail(v.line)) = Len(v.line) - 1
      BY <3>1
    <3>3. Len(Seen(s).line) = Len(v.line) - 1
      <4>1. Len(Seen(s).line) = Len(s.queue)
        BY <2>3, SeenFacts
      <4>2. Len(Tail(jl.queue)) = Len(jl.queue) - 1
        BY <1>2, SeenFacts
      <4> QED
        BY <2>1, <3>1, <4>1, <4>2
    <3>4. ASSUME NEW i \in 1..(Len(v.line) - 1)
          PROVE  Seen(s).line[i] = Tail(v.line)[i]
      <4>1. Tail(v.line)[i] = v.line[i + 1] /\ Tail(jl.queue)[i] = jl.queue[i + 1]
        BY <1>2, <3>1, SeenFacts
      <4>2. v.line[i + 1] = jl.queue[i + 1].id
        BY <3>1, SeenFacts DEF v
      <4>3. Seen(s).line[i] = s.queue[i].id
        BY <2>3, <3>3, SeenFacts
      <4> QED
        BY <2>1, <4>1, <4>2, <4>3
    <3> QED
      BY <3>1, <3>2, <3>3, <3>4, SeqEqual
  <2> QED
    BY <2>2, <2>3, <2>4, <2>5, SeenFacts DEF s, v
<1> QED
  BY <1>1, <1>2

LEMMA SeenHas ==
  ASSUME NEW jl, WellFormed(jl), NEW id \in Ids
  PROVE  /\ id \in Promised!Waiting(Seen(jl)) <=> Queued(jl, id)
         /\ Promised!Has(Seen(jl), id) <=> HasJob(jl, id)
<1>1. id \in Promised!Waiting(Seen(jl)) <=> Queued(jl, id)
  <2> DEFINE line == Seen(jl).line
  <2>1. /\ DOMAIN line = DOMAIN jl.queue
        /\ \A i \in DOMAIN jl.queue : line[i] = jl.queue[i].id
    BY SeenFacts
  <2>2. Promised!Waiting(Seen(jl)) = {line[i] : i \in DOMAIN line}
    BY DEF Promised!Waiting, Promised!ToSet
  <2> HIDE DEF line
  <2> QED
    BY <2>1, <2>2 DEF Queued
<1>2. id = Seen(jl).serving <=> IsCurrent(jl, id)
  BY SeenFacts, NoJobAssumption DEF IsCurrent
<1> QED
  BY <1>1, <1>2 DEF Promised!Has, HasJob

LEMMA QueueReplaced ==
  ASSUME NEW jl, NEW q, NEW c, NEW r, jl = [queue |-> q, current |-> c]
  PROVE  [jl EXCEPT !.queue = r] = [queue |-> r, current |-> c]
OBVIOUS

LEMMA SeenAsked ==
  ASSUME NEW jl, WellFormed(jl), NEW id \in Ids, NEW cb \in Numbers,
         cb \notin NumbersOf(jl)
  PROVE  Seen(AddJob(jl, id, cb)) = Promised!Ask(Seen(jl), id)
<1> DEFINE v == Seen(jl)
           new == [id |-> id, n |-> cb, cb |-> cb]
<1>1. CASE IsCurrent(jl, id)
  BY <1>1, SeenHas DEF AddJob, Promised!Ask, HasJob
<1>2. CASE ~IsCurrent(jl, id) /\ Queued(jl, id)
  <2> DEFINE k == GetJobIndex(jl, id)
             s == [jl EXCEPT !.queue[k].cb = cb]
  <2>1. k \in DOMAIN jl.queue
    BY <1>2, JobIndex
  <2>2. AddJob(jl, id, cb) = s
    BY <1>2 DEF AddJob
  <2>3. Promised!Ask(v, id) = v
    BY <1>2, SeenHas DEF Promised!Ask, HasJob
  <2> HIDE DEF k
  <2>4. /\ s.queue = [jl.queue EXCEPT ![k] = [@ EXCEPT !.cb = cb]]
        /\ s.current = jl.current
    BY SeenFacts
  <2>5. /\ DOMAIN s.queue = DOMAIN jl.queue
        /\ \A j \in DOMAIN jl.queue :
             s.queue[j] = IF j = k THEN [jl.queue[k] EXCEPT !.cb = cb]
                          ELSE jl.queue[j]
    BY <2>1, <2>4, SeenFacts
  <2> HIDE DEF s
  <2>6. ASSUME NEW j \in DOMAIN jl.queue
        PROVE  s.queue[j].id = jl.queue[j].id
    <3>1. jl.queue[k] \in Job
      BY <2>1, SeenFacts
    <3>2. [jl.queue[k] EXCEPT !.cb = cb].id = jl.queue[k].id
      BY <3>1 DEF Job
    <3>3. s.queue[j] = IF j = k THEN [jl.queue[k] EXCEPT !.cb = cb] ELSE jl.queue[j]
      BY <2>5
    <3> QED
      BY <3>2, <3>3
  <2>7. Seen(s) = Seen(jl)
    BY <2>4, <2>5, <2>6 DEF Seen
  <2> QED
    BY <2>2, <2>3, <2>7
<1>3. CASE ~IsCurrent(jl, id) /\ ~Queued(jl, id)
  <2> DEFINE a == [jl EXCEPT !.queue = Append(@, new)]
             w == [v EXCEPT !.line = Append(@, id)]
  <2>1. AddJob(jl, id, cb) = StartNextJobIfNeed(a)
    BY <1>3 DEF AddJob
  <2>2. Promised!Ask(v, id) = Promised!Serve(w)
    BY <1>3, SeenHas DEF Promised!Ask, HasJob
  <2>3. /\ a.queue = Append(jl.queue, new)
        /\ a.current = jl.current
        /\ a = [queue |-> a.queue, current |-> a.current]
        /\ w.line = Append(v.line, id)
        /\ w.serving = v.serving
        /\ w = [line |-> w.line, serving |-> w.serving]
    <3>1. jl = [queue |-> jl.queue, current |-> jl.current]
      BY SeenFacts
    <3>2. v = [line |-> v.line, serving |-> v.serving]
      BY SeenFacts
    <3> HIDE DEF v, new
    <3>3. a = [queue |-> Append(jl.queue, new), current |-> jl.current]
      BY <3>1, QueueReplaced
    <3>4. w = [line |-> Append(v.line, id), serving |-> v.serving]
      BY <3>2
    <3> HIDE DEF a, w
    <3> QED
      BY <3>3, <3>4
  <2>4. new \in Job /\ new.id = id
    BY DEF Job
  <2>5. WellFormed(a)
    <3>1. /\ a.queue \in Seq(Job)
          /\ DOMAIN a.queue = 1..(Len(jl.queue) + 1)
          /\ \A i \in DOMAIN jl.queue : a.queue[i] = jl.queue[i]
          /\ a.queue[Len(jl.queue) + 1] = new
          /\ \A i \in DOMAIN a.queue :
               i \in DOMAIN jl.queue \/ i = Len(jl.queue) + 1
      BY <2>3, <2>4, SeenFacts
    <3> HIDE DEF a
    <3>2. \A i \in DOMAIN jl.queue : jl.queue[i].id # id /\ jl.queue[i].n # cb
      BY <1>3 DEF Queued, NumbersOf
    <3>3. jl.current # NoJob => jl.current.id # id /\ jl.current.n # cb
      BY <1>3 DEF IsCurrent, NumbersOf
    <3>4. DistinctIds(a)
      BY <2>3, <3>1, <3>2, <3>3 DEF DistinctIds, WellFormed
    <3>5. DistinctNumbers(a)
      BY <2>3, <3>1, <3>2, <3>3 DEF DistinctNumbers, WellFormed
    <3> QED
      BY <2>3, <3>1, <3>4, <3>5 DEF WellFormed, JobListType
  <2> HIDE DEF a, w, v, new
  <2>6. Seen(a).serving = w.serving
    BY <2>3, <2>5, SeenFacts DEF v, Seen
  <2>7. Seen(a).line = w.line
    <3>1. /\ v.line \in Seq(Ids) /\ Len(v.line) = Len(jl.queue)
          /\ Len(v.line) \in Nat
          /\ Seen(a).line \in Seq(Ids)
          /\ Len(Seen(a).line) = Len(a.queue)
      BY <2>5, SeenFacts DEF v
    <3>2. /\ w.line \in Seq(Ids) /\ Len(w.line) = Len(v.line) + 1
          /\ Len(a.queue) = Len(v.line) + 1
      BY <2>3, <2>4, <3>1, SeenFacts
    <3>3. ASSUME NEW i \in 1..(Len(v.line) + 1)
          PROVE  Seen(a).line[i] = w.line[i]
      <4>1. Seen(a).line[i] = a.queue[i].id
        BY <2>5, <3>1, <3>2, SeenFacts
      <4>2. CASE i = Len(v.line) + 1
        <5>1. a.queue[i] = new /\ w.line[i] = id
          BY <2>3, <2>4, <3>1, <4>2, SeenFacts
        <5> QED
          BY <2>4, <4>1, <5>1
      <4>3. CASE i # Len(v.line) + 1
        <5>1. i \in 1..Len(v.line) /\ i \in DOMAIN jl.queue
          BY <3>1, <4>3, SeenFacts
        <5>2. a.queue[i] = jl.queue[i] /\ w.line[i] = v.line[i]
          BY <2>3, <2>4, <3>1, <5>1, SeenFacts
        <5>3. v.line[i] = jl.queue[i].id
          BY <5>1, SeenFacts DEF v
        <5> QED
          BY <4>1, <5>2, <5>3
      <4> QED
        BY <4>2, <4>3
    <3> QED
      BY <3>1, <3>2, <3>3, SeqEqual
  <2>8. Seen(a) = w
    BY <2>3, <2>5, <2>6, <2>7, SeenFacts
  <2> QED
    BY <2>1, <2>2, <2>5, <2>8, SeenServed DEF v
<1> QED
  BY <1>1, <1>2, <1>3

LEMMA SeenWithdrawn ==
  ASSUME NEW jl, WellFormed(jl), NEW id \in Ids
  PROVE  Seen(RemoveJobFromQueue(jl, id)) = Promised!Withdraw(Seen(jl), id)
<1> DEFINE s == RemoveJobFromQueue(jl, id)
           v == Seen(jl)
<1>1. CASE ~Queued(jl, id)
  BY <1>1, SeenHas DEF RemoveJobFromQueue, Promised!Withdraw
<1>2. CASE Queued(jl, id)
  <2> DEFINE k == GetJobIndex(jl, id)
  <2>1. k \in DOMAIN jl.queue /\ jl.queue[k].id = id
    BY <1>2, JobIndex
  <2>2. \A i \in DOMAIN jl.queue : jl.queue[i].id = id => i = k
    BY <2>1 DEF WellFormed, DistinctIds
  <2>3. s.queue = RemoveAt(jl.queue, k) /\ s.current = jl.current
    BY <1>2, SeenFacts DEF RemoveJobFromQueue
  <2>4. WellFormed(s)
    BY RemoveKeeps
  <2> HIDE DEF k, s, v
  <2>5. Promised!Place(v, id) = k
    <3>1. k \in DOMAIN v.line /\ v.line[k] = id
      BY <2>1, SeenFacts DEF v
    <3>2. \A i \in DOMAIN v.line : v.line[i] = id => i = k
      BY <2>2, SeenFacts DEF v
    <3> QED
      BY <3>1, <3>2 DEF Promised!Place
  <2>6. /\ Promised!Withdraw(v, id).line = RemoveAt(v.line, k)
        /\ Promised!Withdraw(v, id) =
             [line |-> RemoveAt(v.line, k), serving |-> v.serving]
    <3>1. Promised!Withdraw(v, id) = [v EXCEPT !.line = RemoveAt(@, k)]
      BY <1>2, <2>5, SeenHas DEF Promised!Withdraw, v, Promised!RemoveAt, RemoveAt
    <3>2. v = [line |-> v.line, serving |-> v.serving]
      BY SeenFacts DEF v
    <3> QED
      BY <3>1, <3>2
  <2>7. Seen(s).serving = v.serving
    BY <2>3 DEF Seen, v
  <2>8. Seen(s).line = RemoveAt(v.line, k)
    <3>1. /\ v.line \in Seq(Ids) /\ Len(v.line) = Len(jl.queue)
          /\ Len(v.line) \in Nat /\ k \in DOMAIN v.line
          /\ Seen(s).line \in Seq(Ids)
          /\ Len(Seen(s).line) = Len(s.queue)
      BY <2>1, <2>4, SeenFacts DEF v
    <3>2. /\ RemoveAt(v.line, k) \in Seq(Ids)
          /\ DOMAIN RemoveAt(v.line, k) = 1..(Len(v.line) - 1)
          /\ \A i \in DOMAIN RemoveAt(v.line, k) :
               RemoveAt(v.line, k)[i] = v.line[IF i < k THEN i ELSE i + 1]
      BY <3>1, RemoveAtKeeps
    <3>3. /\ s.queue \in Seq(Job)
          /\ DOMAIN s.queue = 1..(Len(v.line) - 1)
          /\ \A i \in DOMAIN s.queue :
               s.queue[i] = jl.queue[IF i < k THEN i ELSE i + 1]
      BY <2>1, <2>3, <3>1, SeenFacts, RemoveAtKeeps
    <3>4. k \in 1..Len(v.line)
      BY <3>1
    <3>5. Len(RemoveAt(v.line, k)) = Len(v.line) - 1 /\ Len(s.queue) = Len(v.line) - 1
      <4> DEFINE m == Len(v.line) - 1
                 r == RemoveAt(v.line, k)
      <4>1. m \in Nat
        BY <3>1, <3>4
      <4>2. r \in Seq(Ids) /\ DOMAIN r = 1..m
        BY <3>2
      <4>3. s.queue \in Seq(Job) /\ DOMAIN s.queue = 1..m
        BY <3>3
      <4> HIDE DEF m, r
      <4>4. Len(r) = m /\ Len(s.queue) = m
        BY <4>1, <4>2, <4>3, LenOfDomain
      <4> QED
        BY <4>4 DEF m, r
    <3>6. ASSUME NEW i \in 1..(Len(v.line) - 1)
          PROVE  Seen(s).line[i] = RemoveAt(v.line, k)[i]
      <4> DEFINE j == IF i < k THEN i ELSE i + 1
      <4>1. j \in DOMAIN jl.queue
        BY <3>1, <3>4, SeenFacts
      <4>2. Seen(s).line[i] = s.queue[i].id
        BY <2>4, <3>3, SeenFacts
      <4>3. v.line[j] = jl.queue[j].id
        BY <4>1, SeenFacts DEF v
      <4>4. s.queue[i] = jl.queue[j] /\ RemoveAt(v.line, k)[i] = v.line[j]
        BY <3>2, <3>3
      <4> HIDE DEF j
      <4> QED
        BY <4>2, <4>3, <4>4
    <3> DEFINE l == Seen(s).line
               r == RemoveAt(v.line, k)
    <3>7. l \in Seq(Ids) /\ r \in Seq(Ids) /\ Len(l) = Len(r)
      BY <3>1, <3>2, <3>5
    <3>8. \A i \in 1..Len(l) : l[i] = r[i]
      <4>1. Len(l) = Len(v.line) - 1
        BY <3>1, <3>5
      <4> QED
        BY <3>6, <4>1
    <3> HIDE DEF l, r
    <3>9. l = r
      BY <3>7, <3>8, SeqEqual
    <3> QED
      BY <3>9 DEF l, r
  <2> QED
    BY <2>4, <2>6, <2>7, <2>8, SeenFacts DEF s, v
<1> QED
  BY <1>1, <1>2

-----------------------------------------------------------------------------
(* Each step of Queue is one of SerialQueue, or nothing its users see.     *)

LEMMA SeenFinalized ==
  ASSUME Inv, currentJob # NoJob
  PROVE  /\ WellFormed(Finalized)
         /\ Seen(Finalized) = Promised!Release(Seen(JobList))
         /\ Seen(JobList).serving = currentJob.id
         /\ currentJob.id \in Ids
         /\ currentJob.id # NoJob
<1>1. WellFormed(JobList) /\ JobList = [queue |-> queue, current |-> currentJob]
  BY InvJobList DEF JobList
<1>2. Finalized = [queue |-> queue, current |-> NoJob]
  BY <1>1 DEF Finalized
<1>3. WellFormed(Finalized)
  BY <1>1, <1>2 DEF WellFormed, JobListType, DistinctIds, DistinctNumbers
<1>4. Seen(Finalized) = Promised!Release(Seen(JobList))
  <2>1. Promised!Release(Seen(JobList)) = [line |-> Seen(JobList).line, serving |-> NoJob]
    <3>1. Seen(JobList) =
            [line |-> Seen(JobList).line, serving |-> Seen(JobList).serving]
      BY <1>1, SeenFacts
    <3> QED
      BY <3>1 DEF Promised!Release
  <2>2. /\ JobList.queue = queue
        /\ Finalized.queue = queue /\ Finalized.current = NoJob
    BY <1>1, <1>2
  <2> QED
    BY <2>1, <2>2 DEF Seen
<1>5. Seen(JobList).serving = currentJob.id /\ currentJob.id \in Ids
  BY <1>1, SeenFacts
<1> QED
  BY <1>3, <1>4, <1>5, NoJobAssumption

(* Whether the handler of the end adds a job is up to its user.            *)
LEMMA SeenEndEmitted ==
  ASSUME Inv, currentJob # NoJob
  PROVE  LET e == EmitEndJob(Finalized, currentJob.id)
             v == Promised!Release(Seen(JobList))
         IN  WellFormed(e) /\ Seen(e) \in {v, Promised!Ask(v, currentJob.id)}
<1> DEFINE H == endHandler[currentJob.id]
<1>1. /\ WellFormed(Finalized)
      /\ Seen(Finalized) = Promised!Release(Seen(JobList))
      /\ currentJob.id \in Ids
  BY SeenFinalized
<1>2. CASE H = NoJob
  BY <1>1, <1>2 DEF EmitEndJob
<1>3. CASE H # NoJob
  <2>1. H \in Numbers /\ Fresh(H)
    BY <1>1, <1>3 DEF Inv, TypeOK, NumbersTellJobsApart
  <2>2. NumbersOf(Finalized) \subseteq Listed
    BY DEF NumbersOf, Finalized, JobList, Listed
  <2>3. EmitEndJob(Finalized, currentJob.id) = AddJob(Finalized, currentJob.id, H)
    BY <1>3 DEF EmitEndJob
  <2> HIDE DEF H
  <2>4. H \notin NumbersOf(Finalized)
    BY <2>1, <2>2 DEF Fresh
  <2> QED
    BY <1>1, <2>1, <2>3, <2>4, AddKeeps, SeenAsked
<1> QED
  BY <1>2, <1>3

SeenNext == Seen([queue |-> queue', current |-> currentJob'])

(* The job being served ends, is cancelled, or another thing happens.      *)
Ends(v, w) ==
  /\ v.serving # NoJob
  /\ w \in {Promised!Serve(Promised!Release(v)),
           Promised!Serve(Promised!Ask(Promised!Release(v), v.serving))}

Cancelled(v, w) ==
  /\ v.serving # NoJob
  /\ w \in {Promised!Serve(Promised!Release(v)),
           Promised!Serve(Promised!Withdraw(
             Promised!Ask(Promised!Release(v), v.serving), v.serving))}

Serves(v, w) ==
  \/ w = v
  \/ \E id \in Ids : w = Promised!Ask(v, id)
  \/ \E id \in Ids : id # v.serving /\ w = Promised!Serve(Promised!Withdraw(v, id))
  \/ Ends(v, w)
  \/ Cancelled(v, w)
  \/ w = Promised!Idle

LEMMA AddServes ==
  ASSUME Inv, NEW id \in Ids, AddWithId(id)
  PROVE  Serves(Seen(JobList), SeenNext)
<1> DEFINE jl == AddJob(JobList, id, made + 1)
<1>1. /\ made + 1 \in Numbers /\ made + 1 \notin NumbersOf(JobList)
      /\ WellFormed(JobList)
  BY NextNumberIsFresh, InvJobList DEF AddWithId, Fresh
<1>2. WellFormed(jl) /\ Seen(jl) = Promised!Ask(Seen(JobList), id)
  BY <1>1, AddKeeps, SeenAsked
<1>3. queue' = jl.queue /\ currentJob' = jl.current
  BY DEF AddWithId, Proceed
<1> HIDE DEF jl
<1>4. SeenNext = Seen(jl)
  BY <1>3 DEF SeenNext, Seen
<1> QED
  BY <1>2, <1>4 DEF Serves

LEMMA EndServes ==
  ASSUME Inv, currentJob # NoJob, NEW err, NEW fired, NEW reacted,
         HandleCbFinished(currentJob, err, fired, reacted)
  PROVE  Ends(Seen(JobList), SeenNext)
<1> DEFINE e == EmitEndJob(Finalized, currentJob.id)
           jl == StartNextJobIfNeed(e)
           v == Promised!Release(Seen(JobList))
<1>1. ProceedAfterEnd(jl, err, fired, reacted)
  BY DEF HandleCbFinished, NextAfterEnd, IsCurrent, JobList
<1>2. WellFormed(e) /\ Seen(e) \in {v, Promised!Ask(v, currentJob.id)}
  BY SeenEndEmitted
<1> HIDE DEF e
<1>3. Seen(jl) = Promised!Serve(Seen(e))
  BY <1>2, SeenServed
<1> HIDE DEF jl
<1>4. SeenNext = Seen(jl)
  BY <1>1 DEF SeenNext, Seen, ProceedAfterEnd
<1>5. Seen(JobList).serving = currentJob.id /\ currentJob.id # NoJob
  BY SeenFinalized
<1> QED
  BY <1>2, <1>3, <1>4, <1>5 DEF Ends

LEMMA CancelServes ==
  ASSUME Inv, NEW id \in Ids, CancelJob(id)
  PROVE  Serves(Seen(JobList), SeenNext)
<1>1. CASE IsCurrent(JobList, id)
  <2>1. currentJob # NoJob /\ id = currentJob.id
    BY <1>1 DEF IsCurrent, JobList
  <2> DEFINE e == EmitEndJob(Finalized, currentJob.id)
             r == RemoveJobFromQueue(e, id)
             jl == StartNextJobIfNeed(r)
             v == Promised!Release(Seen(JobList))
  <2>2. ProceedAfterEnd(jl, FALSE, NoJob, NoJob)
    BY <1>1, <2>1 DEF CancelJob
  <2>3. WellFormed(e) /\ Seen(e) \in {v, Promised!Ask(v, id)}
    BY <2>1, SeenEndEmitted
  <2> HIDE DEF e
  <2>4. WellFormed(r) /\ Seen(r) = Promised!Withdraw(Seen(e), id)
    BY <2>3, RemoveKeeps, SeenWithdrawn
  <2> HIDE DEF r
  <2>5. Seen(jl) = Promised!Serve(Seen(r))
    BY <2>4, SeenServed
  <2> HIDE DEF jl
  <2>6. SeenNext = Seen(jl)
    BY <2>2 DEF SeenNext, Seen, ProceedAfterEnd
  <2>7. Promised!Withdraw(v, id) = v
    <3>1. ~Queued(Finalized, id)
      BY <2>1 DEF Inv, UniqueIds, Queued, JobList, Finalized
    <3>2. id \notin Promised!Waiting(v)
      BY <2>1, <3>1, SeenFinalized, SeenHas
    <3> HIDE DEF v
    <3> QED
      BY <3>2 DEF Promised!Withdraw
  <2>8. Seen(JobList).serving = id /\ id # NoJob
    BY <2>1, SeenFinalized
  <2>9. Cancelled(Seen(JobList), SeenNext)
    BY <2>3, <2>4, <2>5, <2>6, <2>7, <2>8 DEF Cancelled
  <2> QED
    BY <2>9 DEF Serves
<1>2. CASE ~IsCurrent(JobList, id)
  <2> DEFINE r == RemoveJobFromQueue(JobList, id)
             jl == StartNextJobIfNeed(r)
  <2>1. Proceed(jl)
    BY <1>2 DEF CancelJob
  <2>2. WellFormed(r) /\ Seen(r) = Promised!Withdraw(Seen(JobList), id)
    BY InvJobList, RemoveKeeps, SeenWithdrawn
  <2> HIDE DEF r
  <2>3. Seen(jl) = Promised!Serve(Seen(r))
    BY <2>2, SeenServed
  <2> HIDE DEF jl
  <2>4. SeenNext = Seen(jl)
    BY <2>1 DEF SeenNext, Seen, Proceed
  <2>5. id # Seen(JobList).serving
    BY <1>2, InvJobList, SeenFacts, NoJobAssumption DEF IsCurrent
  <2> QED
    BY <2>2, <2>3, <2>4, <2>5 DEF Serves
<1> QED
  BY <1>1, <1>2

LEMMA StepServes ==
  ASSUME Inv, [Next]_vars
  PROVE  Serves(Seen(JobList), SeenNext)
<1>1. ASSUME NEW id \in NamedIds, Add(id)
      PROVE  Serves(Seen(JobList), SeenNext)
  BY <1>1, AddServes DEF Add, Ids
<1>2. CASE AddUnnamed
  <2>1. unnamedJobIdCounter + 1 \in 0..(MaxUnnamed - 1)
    BY <1>2, BoundsAssumption DEF AddUnnamed, Inv, TypeOK
  <2> QED
    BY <1>2, <2>1, AddServes DEF AddUnnamed, Ids
<1>3. ASSUME NEW id \in Ids, CancelJob(id)
      PROVE  Serves(Seen(JobList), SeenNext)
  BY <1>3, CancelServes
<1>4. CASE Destroy
  <2>1. queue' = <<>> /\ currentJob' = NoJob
    BY <1>4 DEF Destroy
  <2>2. SeenNext = Promised!Idle
    <3>1. [i \in DOMAIN queue' |-> queue'[i].id] = <<>>
      BY <2>1
    <3> QED
      BY <2>1, <3>1 DEF SeenNext, Seen, Promised!Idle
  <2> QED
    BY <2>2 DEF Serves
<1>5. ASSUME NEW call \in calls, ReactToCb(call)
      PROVE  Serves(Seen(JobList), SeenNext)
  <2>1. CASE call.job.n \in canceled
    BY <1>5, <2>1 DEF ReactToCb, Serves, SeenNext, JobList
  <2>2. CASE call.job.n \notin canceled
    <3>1. call.job = currentJob /\ currentJob # NoJob
      BY <2>2, NoJobIsNotAJob DEF Inv, OneLiveCallback, TypeOK, Call
    <3>2. \E err : HandleCbFinished(currentJob, err, NoJob, call)
      BY <1>5, <2>2, <3>1 DEF ReactToCb
    <3> QED
      BY <3>1, <3>2, EndServes DEF Serves
  <2> QED
    BY <2>1, <2>2
<1>6. ASSUME NEW job \in armed, Timeout(job)
      PROVE  Serves(Seen(JobList), SeenNext)
  <2>1. currentJob # NoJob /\ job = currentJob
    BY DEF Inv, TimerOfCurrentJob
  <2>2. HandleCbFinished(currentJob, TRUE, currentJob, NoJob)
    BY <1>6, <2>1 DEF Timeout
  <2> QED
    BY <2>1, <2>2, EndServes DEF Serves
<1>7. CASE UNCHANGED <<queue, currentJob>>
  BY <1>7 DEF Serves, SeenNext, JobList
<1> QED
  BY <1>1, <1>2, <1>3, <1>4, <1>5, <1>6, <1>7
  DEF Next, vars, OnJobEndOnce, WaitJobStart, WaitJobFinished,
      WaitCurrentJobFinished, Await, SettleCb, ResumeClient

(* The queue serves its users in the order that SerialQueue promises them, *)
(* on which ConsistentState is built.                                      *)
THEOREM QueueServesInOrder == Spec => ServesInOrder
<1>1. Init => Promised!Init
  BY DEF Init, serialView, Promised!Init, Promised!Idle
<1>2. Inv /\ [Next]_vars => [Promised!Next]_serialView
  <2> SUFFICES ASSUME Inv, [Next]_vars, serialView' # serialView
               PROVE  Promised!Next
    OBVIOUS
  <2> DEFINE v == serialView
             w == serialView'
  <2>1. Seen(JobList) = v /\ SeenNext = w
    BY DEF Seen, SeenNext, JobList, serialView
  <2>2. Serves(v, w) /\ w # v
    BY <2>1, StepServes
  <2> HIDE DEF v, w
  <2>3. CASE \E id \in Ids : w = Promised!Ask(v, id)
    BY <2>3 DEF v, w, Promised!Next, Promised!Request
  <2>4. CASE \E id \in Ids : /\ id # v.serving
                            /\ w = Promised!Serve(Promised!Withdraw(v, id))
    BY <2>4 DEF v, w, Promised!Next, Promised!CancelWaiting
  <2>5. CASE Ends(v, w)
    BY <2>5 DEF v, w, Ends, Promised!Next, Promised!End
  <2>6. CASE Cancelled(v, w)
    BY <2>6 DEF v, w, Cancelled, Promised!Next, Promised!CancelServed
  <2>7. CASE w = Promised!Idle
    BY <2>7 DEF v, w, Promised!Next, Promised!Close
  <2> QED
    BY <2>2, <2>3, <2>4, <2>5, <2>6, <2>7 DEF Serves
<1> QED
  BY <1>1, <1>2, QueueInvariant, PTL DEF Spec, ServesInOrder, Promised!Spec
=============================================================================
