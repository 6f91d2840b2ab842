------------------------ MODULE ConsistentStateProofs ------------------------
(***************************************************************************)
(* Safety of ConsistentState for any parameters, values and users, with or *)
(* without timeouts: the fields of a write cycle match the queue, and the  *)
(* promise of a write() waits for the very job that saves its parameters.  *)
(*                                                                         *)
(* The invariant is about four things that must go together: the queue     *)
(* (one of five shapes, as each of two jobs is listed at most once), the   *)
(* fields of the cycle, the promises, and the answers on their way: only   *)
(* an answer of the kind of the current job has its number (Fits).         *)
(*                                                                         *)
(* The last part is about what the state says, when no job times out and   *)
(* nobody calls before init() has ended: the local state follows the       *)
(* server's (HeardIsConsistent), and a write() that resolves was saved     *)
(* (ResolvedIsSaved). At most one request or answer is under way then, and *)
(* it belongs to the current job (OneRequest, OneReply); what would be left*)
(* if the cycle were given up is what the last message on its way says of  *)
(* a parameter, or else what the server holds (Latest, Settled).           *)
(***************************************************************************)
EXTENDS ConsistentState, SequenceTheorems, TLAPS

(* The queue is in one of these.                                           *)
Q(line, serving) == [line |-> line, serving |-> serving]
Queues == {Q(<<>>, None), Q(<<>>, READ), Q(<<>>, WRITE), Q(<<READ>>, WRITE), Q(<<WRITE>>, READ)}

-----------------------------------------------------------------------------
(* The queue.                                                              *)
LEMMA QueueFacts ==
  /\ None # READ /\ None # WRITE /\ READ # WRITE
  /\ \A x \in Queues :
       /\ x.serving \in {None, READ, WRITE}
       /\ \A id \in {READ, WRITE} :
            SQ!Has(x, id) <=> x.serving = id \/ x.line = <<id>>
       /\ x.line \in {<<>>, <<READ>>, <<WRITE>>}
       /\ x.serving = None => x.line = <<>>
       /\ x.line = <<READ>> => x.serving = WRITE
       /\ x.line = <<WRITE>> => x.serving = READ
<1>1. None # READ /\ None # WRITE /\ READ # WRITE
  BY NoneAssumption DEF READ, WRITE
<1>2. \A id : SQ!ToSet(<<id>>) = {id} /\ SQ!ToSet(<<>>) = {}
  BY DEF SQ!ToSet
<1>3. \A id1, id2 : <<id1>> = <<id2>> <=> id1 = id2
  OBVIOUS
<1> QED
  BY <1>1, <1>2, <1>3 DEF Queues, Q, SQ!Has, SQ!Waiting

LEMMA WaitingIs ==
  \A x \in Queues : WRITE \in SQ!Waiting(x) <=> x.line = <<WRITE>>
<1>1. \A id : SQ!ToSet(<<id>>) = {id} /\ SQ!ToSet(<<>>) = {}
  BY DEF SQ!ToSet
<1> QED
  BY <1>1, QueueFacts DEF SQ!Waiting, Queues, Q

LEMMA AskIs ==
  ASSUME NEW x \in Queues, NEW id \in {READ, WRITE}
  PROVE  SQ!Ask(x, id) = IF SQ!Has(x, id) THEN x
                         ELSE IF x.serving = None THEN Q(<<>>, id)
                         ELSE Q(<<id>>, x.serving)
<1>1. CASE SQ!Has(x, id)
  BY <1>1 DEF SQ!Ask
<1>2. CASE ~SQ!Has(x, id)
  <2>1. x = Q(<<>>, x.serving)
    BY <1>2, QueueFacts DEF Queues, Q
  <2>2. SQ!Ask(x, id) = SQ!Serve([x EXCEPT !.line = Append(@, id)])
    BY <1>2 DEF SQ!Ask
  <2>3. [x EXCEPT !.line = Append(@, id)] = Q(<<id>>, x.serving)
    BY <2>1 DEF Q
  <2>4. SQ!Serve(Q(<<id>>, x.serving)) = IF x.serving = None THEN Q(<<>>, id) ELSE Q(<<id>>, x.serving)
    BY DEF SQ!Serve, Q
  <2> QED
    BY <1>2, <2>2, <2>3, <2>4
<1> QED
  BY <1>1, <1>2

LEMMA EndIs ==
  ASSUME NEW x \in Queues, x.serving # None
  PROVE  /\ SQ!Serve(SQ!Release(x)) =
              IF x.line = <<>> THEN Q(<<>>, None) ELSE Q(<<>>, Head(x.line))
         /\ x.serving = WRITE =>
              SQ!Ask(SQ!Release(x), WRITE) =
                IF x.line = <<>> THEN Q(<<>>, WRITE) ELSE Q(<<WRITE>>, READ)
<1>1. SQ!Release(x) = Q(x.line, None)
  BY DEF SQ!Release, Queues, Q
<1>2. SQ!Serve(Q(<<>>, None)) = Q(<<>>, None)
  BY DEF SQ!Serve, Q
<1>3. \A id : SQ!Serve(Q(<<id>>, None)) = Q(<<>>, id)
  BY DEF SQ!Serve, Q
<1>4. SQ!Serve(SQ!Release(x)) = IF x.line = <<>> THEN Q(<<>>, None) ELSE Q(<<>>, Head(x.line))
  BY <1>1, <1>2, <1>3, QueueFacts
<1>5. ASSUME x.serving = WRITE, x.line = <<>>
      PROVE  SQ!Ask(SQ!Release(x), WRITE) = Q(<<>>, WRITE)
  <2>1. SQ!Release(x) = Q(<<>>, None) /\ Q(<<>>, None) \in Queues
    BY <1>1, <1>5 DEF Queues
  <2>2. ~SQ!Has(Q(<<>>, None), WRITE) /\ Q(<<>>, None).serving = None
    BY <2>1, QueueFacts DEF Q
  <2> QED
    BY <2>1, <2>2, AskIs
<1>6. ASSUME x.serving = WRITE, x.line # <<>>
      PROVE  SQ!Ask(SQ!Release(x), WRITE) = Q(<<WRITE>>, READ)
  <2>1. x.line = <<READ>>
    BY <1>6, QueueFacts
  <2>2. SQ!ToSet(<<READ>>) = {READ}
    BY DEF SQ!ToSet
  <2>3. ~SQ!Has(Q(<<READ>>, None), WRITE)
    BY <2>2, QueueFacts DEF SQ!Has, SQ!Waiting, Q
  <2>4. SQ!Ask(Q(<<READ>>, None), WRITE) = SQ!Serve(Q(<<READ, WRITE>>, None))
    BY <2>3 DEF SQ!Ask, Q
  <2>5. SQ!Serve(Q(<<READ, WRITE>>, None)) = Q(<<WRITE>>, READ)
    BY DEF SQ!Serve, Q
  <2> QED
    BY <1>1, <2>1, <2>4, <2>5
<1> QED
  BY <1>4, <1>5, <1>6

(* What the ends of jobs and requests for jobs come down to.               *)
LEMMA AfterEnd ==
  ASSUME NEW x \in Queues, x.serving # None
  PROVE  LET y == SQ!Serve(SQ!Release(x)) IN
         /\ y \in Queues
         /\ y.serving # x.serving
         /\ SQ!Has(y, WRITE) <=> x.serving = READ /\ SQ!Has(x, WRITE)
         /\ y.serving \in {None, READ, WRITE}
BY EndIs, QueueFacts DEF Queues, Q

LEMMA AfterRewrite ==
  ASSUME NEW x \in Queues, x.serving = WRITE
  PROVE  LET y == SQ!Ask(SQ!Release(x), WRITE) IN
         /\ y \in Queues
         /\ y.serving \in {READ, WRITE}
         /\ SQ!Has(y, WRITE)
BY EndIs, QueueFacts DEF Queues, Q

LEMMA AfterAsk ==
  ASSUME NEW x \in Queues, NEW id \in {READ, WRITE}
  PROVE  LET y == SQ!Ask(x, id) IN
         /\ y \in Queues
         /\ x.serving # None => y.serving = x.serving
         /\ x.serving = None => y.serving = id
         /\ SQ!Has(y, WRITE) <=> SQ!Has(x, WRITE) \/ id = WRITE
BY AskIs, QueueFacts DEF Queues, Q

-----------------------------------------------------------------------------
(* Dictionaries.                                                           *)
LEMMA DictionaryIs ==
  \A d : d \in Dictionaries <=> DOMAIN d \in SUBSET Params /\ d \in [DOMAIN d -> Values]
BY DEF Dictionaries

LEMMA NoneIsApart ==
  /\ None \notin Dictionaries
  /\ None \notin SUBSET Params
BY NoneAssumption DEF Dictionaries

LEMMA KnownIs ==
  ASSUME NEW s \in States
  PROVE  Known(s) \in Dictionaries
<1> DEFINE ps == {p \in DOMAIN s : s[p] # Undef}
<1>1. ps \in SUBSET Params /\ \A p \in ps : s[p] \in Values
  BY DEF States
<1>2. Known(s) = [p \in ps |-> s[p]]
  BY DEF Known, Restrict
<1>3. Known(s) \in [ps -> Values] /\ DOMAIN Known(s) = ps
  BY <1>1, <1>2
<1> QED
  BY <1>1, <1>3, DictionaryIs

LEMMA MergeIs ==
  ASSUME NEW top \in Dictionaries, NEW bottom \in Dictionaries
  PROVE  /\ Merge(top, bottom) \in Dictionaries
         /\ DOMAIN Merge(top, bottom) = DOMAIN top \cup DOMAIN bottom
<1>1. /\ DOMAIN top \in SUBSET Params /\ top \in [DOMAIN top -> Values]
      /\ DOMAIN bottom \in SUBSET Params /\ bottom \in [DOMAIN bottom -> Values]
  BY DictionaryIs
<1>2. DOMAIN Merge(top, bottom) = DOMAIN top \cup DOMAIN bottom
  BY DEF Merge
<1>3. Merge(top, bottom) \in [DOMAIN top \cup DOMAIN bottom -> Values]
  BY <1>1 DEF Merge
<1> QED
  BY <1>1, <1>2, <1>3, DictionaryIs

LEMMA UpdatedIs ==
  ASSUME NEW s \in States, NEW ps \in SUBSET Params, NEW d \in [ps -> Values \cup {Undef}]
  PROVE  /\ Updated(s, d) \in States
         /\ \A p \in Params : Updated(s, d)[p] = IF p \in ps THEN d[p] ELSE s[p]
<1>1. DOMAIN d = ps /\ DOMAIN s = Params
  BY DEF States
<1>2. Updated(s, d) = [p \in Params |-> IF p \in ps THEN d[p] ELSE s[p]]
  BY <1>1 DEF Updated, Merge
<1> QED
  BY <1>2 DEF States

(* A dictionary has values only.                                           *)
LEMMA UpdatedByIs ==
  ASSUME NEW s \in States, NEW d \in Dictionaries
  PROVE  /\ Updated(s, d) \in States
         /\ \A p \in DOMAIN d : Updated(s, d)[p] \in Values
         /\ \A p \in Params : s[p] \in Values => Updated(s, d)[p] \in Values
<1>1. DOMAIN d \in SUBSET Params /\ d \in [DOMAIN d -> Values]
  BY DictionaryIs
<1>2. d \in [DOMAIN d -> Values \cup {Undef}]
  BY <1>1
<1> QED
  BY <1>1, <1>2, UpdatedIs

LEMMA SafeIs ==
  ASSUME NEW s \in States, NEW d \in Dictionaries, NEW saving \in SUBSET Params
  PROVE  /\ Safe(s, d, saving) \in States
         /\ \A p \in saving : Safe(s, d, saving)[p] = s[p]
<1> DEFINE ps == DOMAIN d \ saving
           e == Without(d, saving)
<1>1. DOMAIN d \in SUBSET Params /\ d \in [DOMAIN d -> Values]
  BY DictionaryIs
<1>2. e = [p \in ps |-> d[p]]
  BY DEF Without, Restrict
<1>3. e \in [ps -> Values \cup {Undef}] /\ ps \in SUBSET Params
  BY <1>1, <1>2
<1>4. Safe(s, d, saving) = Updated(s, e)
  BY DEF Safe
<1> HIDE DEF e
<1>5. /\ Updated(s, e) \in States
      /\ \A p \in Params : Updated(s, e)[p] = IF p \in ps THEN e[p] ELSE s[p]
  BY <1>3, UpdatedIs
<1> QED
  BY <1>4, <1>5

LEMMA RestoredIs ==
  ASSUME NEW s \in States, NEW actual \in Dictionaries, NEW saving \in SUBSET Params
  PROVE  Restored(s, actual, saving) \in States
<1> DEFINE d == Merge(actual, [p \in saving |-> Undef])
<1>1. DOMAIN actual \in SUBSET Params /\ actual \in [DOMAIN actual -> Values]
  BY DictionaryIs
<1>2. d \in [DOMAIN actual \cup saving -> Values \cup {Undef}]
  BY <1>1 DEF Merge
<1> HIDE DEF d
<1>3. Updated(s, d) \in States
  BY <1>1, <1>2, UpdatedIs
<1> QED
  BY <1>3 DEF Restored, d

LEMMA ChangedIs ==
  ASSUME NEW s \in States, NEW actual, NEW saving \in SUBSET Params,
         \A p \in saving : s[p] \in Values
  PROVE  Changed(s, actual, saving) \in Dictionaries
<1> DEFINE ps == {p \in saving : p \notin DOMAIN actual \/ s[p] # actual[p]}
<1>1. Changed(s, actual, saving) = [p \in ps |-> s[p]] /\ ps \in SUBSET Params
  BY DEF Changed, Restrict
<1>2. [p \in ps |-> s[p]] \in [ps -> Values]
  OBVIOUS
<1> QED
  BY <1>1, <1>2, DictionaryIs

-----------------------------------------------------------------------------
(* The invariant.                                                          *)

OutMessage ==
  [kind : {"get"}, job : Nat, cb : {"init", "load"}] \cup
  [kind : {"set"}, job : Nat, data : Dictionaries]

InMessage ==
  [kind : {"got"}, job : Nat, cb : {"init", "load"}, data : Dictionaries] \cup
  [kind : {"saved", "refused"}, job : Nat, params : SUBSET Params] \cup
  [kind : {"event"}, data : Dictionaries]

(* A message with the number of the last job is one for a job of the kind  *)
(* that is being served, if any is.                                        *)
Fits(m, j, s) ==
  /\ m.job <= j
  /\ (m.job = j /\ s # None) =>
       /\ m.kind \in {"get", "got"} => s = READ
       /\ m.kind \in {"set", "saved"} => s = WRITE

Sent(j, s) == {m \in OutMessage : Fits(m, j, s)}
Received(j, s) == {m \in InMessage : m.kind # "event" => Fits(m, j, s)}

Wires ==
  /\ q \in Queues
  /\ job \in Nat
  /\ ready \in BOOLEAN
  /\ ready => q.serving = WRITE
  /\ outbox \in Seq(Sent(job, q.serving))
  /\ inbox \in Seq(Received(job, q.serving))

(* What is being saved has values: undefined is never sent.                *)
Cycle ==
  /\ state \in States
  /\ actualRemoteState \in Dictionaries \cup {None}
  /\ paramsListToSave \in (SUBSET Params) \cup {None}
  /\ nextWritePartialState \in Partials \cup {None}
  /\ CycleMatchesQueue
  /\ paramsListToSave # None => \A p \in paramsListToSave : state[p] \in Values

Rest ==
  /\ mode \in Modes
  /\ readCb \in {"init", "load"}
  /\ initStep \in {"no", "reading", "continues", "done", "failed"}
  /\ initResult \in Dictionaries \cup {None}
  /\ server \in [Params -> Values]
  /\ writeNo \in Nat
  /\ writes \in Nat

Promise == [on : {"idle", READ, WRITE, "postponed", "next", "resolved", "rejected"},
            no : Nat, params : SUBSET Params]

WaitsForThis(u) ==
  user[u].on \in {WRITE, "next"} =>
    /\ Listed(WRITE)
    /\ user[u].no = writeNo
    /\ user[u].params \subseteq paramsListToSave

WaitsForNext(u) ==
  user[u].on = "postponed" =>
    /\ q.serving = WRITE
    /\ user[u].no = writeNo + 1
    /\ nextWritePartialState # None
    /\ user[u].params \subseteq DOMAIN nextWritePartialState

Waiters ==
  /\ user \in [Users -> Promise]
  /\ ~destroyed => \A u \in Users : WaitsForThis(u) /\ WaitsForNext(u)

IInv == Wires /\ Cycle /\ Rest /\ Waiters

(* What a job is started with.                                             *)
Sendable(s, actual, saving) ==
  /\ saving \in SUBSET Params
  /\ \A p \in saving : s[p] \in Values

(* A message stays where it fits.                                          *)
LEMMA MessagesStay ==
  ASSUME NEW j \in Nat, NEW k \in Nat, NEW s, NEW t,
         (k = j /\ (t = s \/ t = None)) \/ k = j + 1
  PROVE  /\ \A x \in Seq(Sent(j, s)) : x \in Seq(Sent(k, t))
         /\ \A x \in Seq(Received(j, s)) : x \in Seq(Received(k, t))
<1>1. \A m : m.job \in Nat /\ Fits(m, j, s) => Fits(m, k, t)
  BY DEF Fits
<1>2. \A m \in OutMessage : m.job \in Nat
  BY DEF OutMessage
<1>3. \A m \in InMessage : m.kind # "event" => m.job \in Nat
  BY DEF InMessage
<1>4. Sent(j, s) \subseteq Sent(k, t)
  BY <1>1, <1>2 DEF Sent
<1>5. Received(j, s) \subseteq Received(k, t)
  BY <1>1, <1>3 DEF Received
<1> HIDE DEF Sent, Received
<1>6. \A S, T : S \subseteq T => \A x \in Seq(S) : x \in Seq(T)
  BY SeqDef
<1> QED
  BY <1>4, <1>5, <1>6

LEMMA Launched ==
  ASSUME Wires, NEW q2 \in Queues, NEW starts \in BOOLEAN,
         NEW cb \in {"init", "load"}, NEW s \in States, NEW actual, NEW saving,
         starts => q2.serving # None,
         ~starts => q2.serving \in {q.serving, None},
         starts /\ q2.serving = WRITE => Sendable(s, actual, saving),
         Launch(q2, starts, cb, s, actual, saving)
  PROVE  /\ q' = q2
         /\ job' \in Nat
         /\ ready' \in BOOLEAN
         /\ ready' => q2.serving = WRITE
         /\ outbox' \in Seq(Sent(job', q2.serving))
         /\ \A x \in Seq(Received(job, q.serving)) : x \in Seq(Received(job', q2.serving))
<1>1. q' = q2 /\ job \in Nat /\ job' = (IF starts THEN job + 1 ELSE job)
  BY DEF Launch, Wires
<1>2. CASE ~starts
  <2>1. job' = job /\ ready' = (ready /\ q2.serving # None) /\ outbox' = outbox
    BY <1>1, <1>2 DEF Launch
  <2>2. ready' \in BOOLEAN /\ (ready' => q2.serving = WRITE)
    BY <1>2, <2>1 DEF Wires
  <2>3. /\ \A x \in Seq(Sent(job, q.serving)) : x \in Seq(Sent(job', q2.serving))
        /\ \A x \in Seq(Received(job, q.serving)) : x \in Seq(Received(job', q2.serving))
    BY <1>1, <1>2, <2>1, MessagesStay
  <2> QED
    BY <1>1, <2>1, <2>2, <2>3 DEF Wires
<1>3. CASE starts
  <2>1. job' = job + 1 /\ job' \in Nat
    BY <1>1, <1>3
  <2>2. /\ \A x \in Seq(Sent(job, q.serving)) : x \in Seq(Sent(job', q2.serving))
        /\ \A x \in Seq(Received(job, q.serving)) : x \in Seq(Received(job', q2.serving))
    BY <1>1, <2>1, MessagesStay
  <2>3. outbox \in Seq(Sent(job', q2.serving))
    BY <2>2 DEF Wires
  <2>4. CASE q2.serving = READ
    <3> DEFINE m == [kind |-> "get", job |-> job', cb |-> cb]
    <3>1. ready' = FALSE /\ outbox' = Append(outbox, m)
      BY <1>3, <2>4 DEF Launch
    <3>2. m \in Sent(job', q2.serving)
      BY <2>1, <2>4, QueueFacts DEF Sent, OutMessage, Fits
    <3> HIDE DEF m
    <3>3. outbox' \in Seq(Sent(job', q2.serving))
      BY <2>3, <3>1, <3>2, AppendProperties
    <3>4. ready' \in BOOLEAN
      BY <3>1, Zenon
    <3> QED
      BY <1>1, <2>1, <2>2, <3>1, <3>3, <3>4
  <2>5. CASE q2.serving = WRITE
    <3> DEFINE data == Changed(s, actual, saving)
               m == [kind |-> "set", job |-> job', data |-> data]
    <3>1. /\ ready' = (DOMAIN data = {})
          /\ outbox' = IF ready' THEN outbox ELSE Append(outbox, m)
      BY <1>3, <2>5, QueueFacts DEF Launch
    <3>2. data \in Dictionaries
      BY <1>3, <2>5, ChangedIs DEF Sendable
    <3> HIDE DEF data
    <3>3. m \in Sent(job', q2.serving)
      BY <2>1, <2>5, <3>2, QueueFacts DEF Sent, OutMessage, Fits
    <3> HIDE DEF m
    <3>4. outbox' \in Seq(Sent(job', q2.serving))
      BY <2>3, <3>1, <3>3, AppendProperties
    <3>5. ready' \in BOOLEAN
      BY <3>1, Zenon
    <3> QED
      BY <1>1, <2>1, <2>2, <2>5, <3>4, <3>5
  <2> QED
    BY <1>3, <2>4, <2>5, QueueFacts
<1> QED
  BY <1>2, <1>3

-----------------------------------------------------------------------------
(* The ends of jobs.                                                       *)

LEMMA SettleIs ==
  ASSUME user \in [Users -> Promise], NEW on, NEW err \in BOOLEAN
  PROVE  /\ Settle(on, err) \in [Users -> Promise]
         /\ \A u \in Users :
              /\ Settle(on, err)[u].no = user[u].no
              /\ Settle(on, err)[u].params = user[u].params
              /\ Settle(on, err)[u].on =
                   IF user[u].on \notin on THEN user[u].on
                   ELSE IF err THEN "rejected"
                   ELSE IF user[u].on = "postponed" THEN "next" ELSE "resolved"
<1> DEFINE how(u) == IF err THEN "rejected"
                     ELSE IF user[u].on = "postponed" THEN "next" ELSE "resolved"
           new(u) == IF user[u].on \notin on THEN user[u]
                     ELSE [user[u] EXCEPT !.on = how(u)]
<1>1. Settle(on, err) = [u \in Users |-> new(u)]
  BY DEF Settle
<1>2. ASSUME NEW u \in Users
      PROVE  /\ new(u) \in Promise
             /\ new(u).no = user[u].no
             /\ new(u).params = user[u].params
             /\ new(u).on = IF user[u].on \notin on THEN user[u].on ELSE how(u)
  <2>1. user[u] \in Promise
    OBVIOUS
  <2>2. how(u) \in {"rejected", "next", "resolved"}
    OBVIOUS
  <2> HIDE DEF how
  <2>3. CASE user[u].on \notin on
    BY <2>1, <2>3
  <2>4. CASE user[u].on \in on
    BY <2>1, <2>2, <2>4 DEF Promise
  <2> QED
    BY <2>3, <2>4
<1> HIDE DEF new
<1>3. \A u \in Users : Settle(on, err)[u] = new(u)
  BY <1>1
<1>4. Settle(on, err) \in [Users -> Promise]
  BY <1>1, <1>2
<1> QED
  BY <1>2, <1>3, <1>4

LEMMA ReadEnds ==
  ASSUME IInv, q.serving = READ,
         NEW s \in States, NEW actual, NEW err \in BOOLEAN,
         paramsListToSave # None => \A p \in paramsListToSave : s[p] \in Values,
         EndReadJob(s, actual, err),
         inbox' \in Seq(Received(job, q.serving)),
         UNCHANGED <<paramsListToSave, nextWritePartialState, writeNo, destroyed>>
  PROVE  /\ Wires' /\ Waiters'
         /\ initStep' \in {"no", "reading", "continues", "done", "failed"}
         /\ Listed(WRITE)' <=> Listed(WRITE)
         /\ nextWritePartialState = None
<1> DEFINE q2 == SQ!Serve(SQ!Release(q))
<1>0. Wires /\ Cycle /\ Rest /\ Waiters
  BY DEF IInv
<1>1. /\ Launch(q2, q2.serving # None, readCb, s, actual, paramsListToSave)
      /\ user' = Settle({READ}, err)
      /\ initStep' = IF initStep # "reading" THEN initStep
                     ELSE IF err THEN "failed" ELSE "continues"
  BY DEF EndReadJob
<1>2. /\ q2 \in Queues
      /\ q2.serving \in {None, READ, WRITE} /\ q2.serving # READ
      /\ SQ!Has(q2, WRITE) <=> SQ!Has(q, WRITE)
  BY <1>0, AfterEnd, QueueFacts DEF Wires
<1> HIDE DEF q2
<1>3. q2.serving = WRITE => SQ!Has(q, WRITE)
  BY <1>2, QueueFacts
<1>4. q2.serving = WRITE => Sendable(s, actual, paramsListToSave)
  BY <1>0, <1>3 DEF Cycle, CycleMatchesQueue, Listed, Sendable
<1>5. readCb \in {"init", "load"}
  BY <1>0 DEF Rest
<1>6. /\ q' = q2
      /\ job' \in Nat
      /\ ready' \in BOOLEAN
      /\ ready' => q2.serving = WRITE
      /\ outbox' \in Seq(Sent(job', q2.serving))
      /\ inbox' \in Seq(Received(job', q2.serving))
  BY <1>0, <1>1, <1>2, <1>4, <1>5, Launched
<1>7. Wires'
  BY <1>2, <1>6 DEF Wires
<1>8. nextWritePartialState = None
  BY <1>0, QueueFacts DEF Cycle, CycleMatchesQueue
<1>9. Listed(WRITE)' <=> Listed(WRITE)
  BY <1>2, <1>6 DEF Listed
<1>10. Waiters'
  <2>1. /\ user' \in [Users -> Promise]
        /\ \A u \in Users :
              /\ user'[u].no = user[u].no
              /\ user'[u].params = user[u].params
              /\ user'[u].on \in {user[u].on, "rejected", "resolved"}
    BY <1>0, <1>1, SettleIs, QueueFacts DEF Waiters, READ
  <2>2. ASSUME ~destroyed', NEW u \in Users
        PROVE  WaitsForThis(u)' /\ WaitsForNext(u)'
    <3>1. WaitsForThis(u) /\ WaitsForNext(u)
      BY <1>0, <2>2 DEF Waiters
    <3>2. user[u].on # "postponed"
      BY <1>8, <3>1 DEF WaitsForNext
    <3> QED
      BY <1>9, <2>1, <3>1, <3>2 DEF WaitsForThis, WaitsForNext, WRITE
  <2> QED
    BY <2>1, <2>2 DEF Waiters
<1>11. initStep' \in {"no", "reading", "continues", "done", "failed"}
  BY <1>0, <1>1 DEF Rest
<1> QED
  BY <1>7, <1>8, <1>9, <1>10, <1>11

LEMMA WriteEnds ==
  ASSUME IInv, q.serving = WRITE, NEW err \in BOOLEAN,
         EndWriteJob(err),
         inbox' \in Seq(Received(job, q.serving)),
         destroyed' = destroyed
  PROVE  /\ Wires' /\ Cycle' /\ Waiters'
         /\ writeNo' \in Nat
         /\ UNCHANGED <<readCb, initStep, initResult>>
         /\ paramsListToSave # None
         /\ paramsListToSave' # None => writeNo' # writeNo
<1> DEFINE q2 == SQ!Serve(SQ!Release(q))
           q3 == SQ!Ask(SQ!Release(q), WRITE)
<1>0. Wires /\ Cycle /\ Rest /\ Waiters
  BY DEF IInv
<1>1. /\ user' = Settle({WRITE, "postponed", "next"}, err)
      /\ IF err THEN WriteError ELSE WriteSuccess
      /\ UNCHANGED <<readCb, initStep, initResult>>
  BY DEF EndWriteJob, initVars
<1>2. /\ q2 \in Queues /\ ~SQ!Has(q2, WRITE)
      /\ q2.serving \in {None, READ, WRITE} /\ q2.serving # WRITE
      /\ q3 \in Queues /\ SQ!Has(q3, WRITE) /\ q3.serving \in {READ, WRITE}
  BY <1>0, AfterEnd, AfterRewrite, QueueFacts DEF Wires
<1> HIDE DEF q2, q3
<1>3. readCb \in {"init", "load"} /\ writeNo \in Nat
  BY <1>0 DEF Rest
<1>4. /\ state \in States
      /\ actualRemoteState \in Dictionaries
      /\ paramsListToSave \in SUBSET Params
      /\ paramsListToSave # None
      /\ \A p \in paramsListToSave : state[p] \in Values
  <2>1. Listed(WRITE)
    BY <1>0, QueueFacts DEF Listed, Wires
  <2> QED
    BY <1>0, <2>1 DEF Cycle, CycleMatchesQueue
<1>5. /\ user' \in [Users -> Promise]
      /\ \A u \in Users :
            /\ user'[u].no = user[u].no
            /\ user'[u].params = user[u].params
            /\ user'[u].on = IF user[u].on \notin {WRITE, "postponed", "next"} THEN user[u].on
                             ELSE IF err THEN "rejected"
                             ELSE IF user[u].on = "postponed" THEN "next" ELSE "resolved"
  BY <1>0, <1>1, SettleIs DEF Waiters
<1>6. ASSUME ~destroyed', NEW u \in Users
      PROVE  WaitsForThis(u) /\ WaitsForNext(u)
  BY <1>0, <1>6 DEF Waiters
<1>7. ASSUME NEW s \in States, NEW actual, NEW saving,
             Launch(q2, q2.serving # None, readCb, s, actual, saving)
      PROVE  Wires' /\ ~Listed(WRITE)' /\ q'.serving # WRITE
  <2>1. /\ q' = q2
        /\ job' \in Nat
        /\ ready' \in BOOLEAN
        /\ ready' => q2.serving = WRITE
        /\ outbox' \in Seq(Sent(job', q2.serving))
        /\ inbox' \in Seq(Received(job', q2.serving))
    BY <1>0, <1>2, <1>3, <1>7, Launched
  <2> QED
    BY <1>2, <2>1 DEF Wires, Listed
<1>8. CASE err
  <2>1. /\ state' = Restored(state, actualRemoteState, paramsListToSave)
        /\ actualRemoteState' = None
        /\ paramsListToSave' = None
        /\ nextWritePartialState' = None
        /\ writeNo' = writeNo
        /\ Launch(q2, q2.serving # None, readCb, state', None, None)
    BY <1>1, <1>8 DEF WriteError, q2
  <2>2. state' \in States
    BY <1>4, <2>1, RestoredIs
  <2>3. Wires' /\ ~Listed(WRITE)' /\ q'.serving # WRITE
    BY <1>7, <2>1, <2>2
  <2>4. Cycle'
    BY <2>1, <2>2, <2>3 DEF Cycle, CycleMatchesQueue
  <2>5. Waiters'
    BY <1>5, <1>8 DEF Waiters, WaitsForThis, WaitsForNext, WRITE
  <2> QED
    BY <1>1, <1>3, <1>4, <2>1, <2>3, <2>4, <2>5
<1>9. CASE ~err /\ nextWritePartialState = None
  <2>1. /\ actualRemoteState' = None
        /\ paramsListToSave' = None
        /\ UNCHANGED <<state, nextWritePartialState, writeNo>>
        /\ Launch(q2, q2.serving # None, readCb, state, None, None)
    BY <1>1, <1>9 DEF WriteSuccess, q2
  <2>2. Wires' /\ ~Listed(WRITE)' /\ q'.serving # WRITE
    BY <1>4, <1>7, <2>1
  <2>3. Cycle'
    BY <1>4, <1>9, <2>1, <2>2 DEF Cycle, CycleMatchesQueue
  <2>4. ASSUME ~destroyed', NEW u \in Users
        PROVE  WaitsForThis(u)' /\ WaitsForNext(u)'
    BY <1>5, <1>6, <1>9, <2>4 DEF WaitsForThis, WaitsForNext, WRITE
  <2>5. Waiters'
    BY <1>5, <2>4 DEF Waiters
  <2> QED
    BY <1>1, <1>3, <1>4, <2>1, <2>2, <2>3, <2>5
<1>10. CASE ~err /\ nextWritePartialState # None
  <2> DEFINE data == nextWritePartialState
  <2>1. /\ actualRemoteState' = Known(state)
        /\ paramsListToSave' = DOMAIN data
        /\ nextWritePartialState' = None
        /\ state' = Updated(state, data)
        /\ writeNo' = writeNo + 1
        /\ Launch(q3, q3.serving # None, readCb, state', Known(state), DOMAIN data)
    BY <1>1, <1>10 DEF WriteSuccess, q3
  <2>2. data \in Dictionaries /\ DOMAIN data \in SUBSET Params
    BY <1>0, <1>10, DictionaryIs DEF Cycle, Partials
  <2>3. state' \in States /\ \A p \in DOMAIN data : state'[p] \in Values
    BY <1>4, <2>1, <2>2, UpdatedByIs
  <2>4. Known(state) \in Dictionaries
    BY <1>4, KnownIs
  <2>5. /\ q' = q3
        /\ job' \in Nat
        /\ ready' \in BOOLEAN
        /\ ready' => q3.serving = WRITE
        /\ outbox' \in Seq(Sent(job', q3.serving))
        /\ inbox' \in Seq(Received(job', q3.serving))
    <3>1. Sendable(state', Known(state), DOMAIN data)
      BY <2>2, <2>3 DEF Sendable
    <3>2. q3.serving # None
      BY <1>2, QueueFacts
    <3> QED
      BY <1>0, <1>2, <1>3, <2>1, <2>3, <3>1, <3>2, Launched
  <2>6. Wires' /\ Listed(WRITE)'
    BY <1>2, <2>5 DEF Wires, Listed
  <2>7. Cycle'
    BY <2>1, <2>2, <2>3, <2>4, <2>6, NoneIsApart DEF Cycle, CycleMatchesQueue
  <2>8. ASSUME ~destroyed', NEW u \in Users
        PROVE  WaitsForThis(u)' /\ WaitsForNext(u)'
    BY <1>5, <1>6, <1>10, <2>1, <2>6, <2>8 DEF WaitsForThis, WaitsForNext, WRITE
  <2>9. Waiters'
    BY <1>5, <2>8 DEF Waiters
  <2> QED
    BY <1>1, <1>3, <1>4, <2>1, <2>6, <2>7, <2>9
<1> QED
  BY <1>8, <1>9, <1>10

-----------------------------------------------------------------------------
(* What actions have in common.                                            *)

LEMMA Asked ==
  ASSUME Wires, NEW id \in {READ, WRITE}, NEW cb \in {"init", "load"},
         NEW s \in States, NEW actual, NEW saving,
         id = WRITE => Sendable(s, actual, saving),
         Ask(id, cb, s, actual, saving),
         inbox' = inbox
  PROVE  /\ Wires'
         /\ Listed(WRITE)' <=> Listed(WRITE) \/ id = WRITE
         /\ q.serving = WRITE => q'.serving = WRITE
<1> DEFINE q2 == SQ!Ask(q, id)
<1>1. Launch(q2, q.serving = None, cb, s, actual, saving)
  BY DEF Ask
<1>2. /\ q \in Queues /\ q2 \in Queues
      /\ q.serving # None => q2.serving = q.serving
      /\ q.serving = None => q2.serving = id
      /\ SQ!Has(q2, WRITE) <=> SQ!Has(q, WRITE) \/ id = WRITE
  BY AfterAsk DEF Wires
<1> HIDE DEF q2
<1>3. q.serving = None /\ q2.serving = WRITE => Sendable(s, actual, saving)
  BY <1>2
<1>4. q.serving = None => q2.serving # None
  BY <1>2, QueueFacts
<1>5. /\ q' = q2
      /\ job' \in Nat
      /\ ready' \in BOOLEAN
      /\ ready' => q2.serving = WRITE
      /\ outbox' \in Seq(Sent(job', q2.serving))
      /\ \A x \in Seq(Received(job, q.serving)) : x \in Seq(Received(job', q2.serving))
  BY <1>1, <1>2, <1>3, <1>4, Launched
<1>6. Wires'
  BY <1>2, <1>5 DEF Wires
<1> QED
  BY <1>2, <1>5, <1>6, QueueFacts DEF Listed

LEMMA CycleStays ==
  ASSUME Cycle, UNCHANGED bookkeeping, state' \in States,
         \A p \in Params : state[p] \in Values => state'[p] \in Values,
         Listed(WRITE)' <=> Listed(WRITE),
         q.serving = WRITE => q'.serving = WRITE
  PROVE  Cycle'
<1>1. /\ paramsListToSave' = paramsListToSave
      /\ actualRemoteState' = actualRemoteState
      /\ nextWritePartialState' = nextWritePartialState
  BY DEF bookkeeping
<1>2. paramsListToSave # None => \A p \in paramsListToSave : state'[p] \in Values
  BY DEF Cycle
<1> QED
  BY <1>1, <1>2 DEF Cycle, CycleMatchesQueue

LEMMA WaitersStay ==
  ASSUME Waiters,
         UNCHANGED <<user, writeNo, destroyed, paramsListToSave, nextWritePartialState>>,
         Listed(WRITE)' <=> Listed(WRITE),
         q.serving = WRITE => q'.serving = WRITE
  PROVE  Waiters'
<1>1. ASSUME ~destroyed', NEW u \in Users
      PROVE  WaitsForThis(u)' /\ WaitsForNext(u)'
  BY <1>1 DEF Waiters, WaitsForThis, WaitsForNext
<1> QED
  BY <1>1 DEF Waiters

LEMMA PendsIs ==
  ASSUME user \in [Users -> Promise], NEW u \in Users, NEW no \in Nat, NEW ps \in SUBSET Params,
         NEW on \in {"idle", READ, WRITE, "postponed", "next", "resolved", "rejected"},
         Pends(u, on, no, ps)
  PROVE  /\ user' \in [Users -> Promise]
         /\ user'[u].on = on /\ user'[u].no = no /\ user'[u].params = ps
         /\ \A v \in Users \ {u} : user'[v] = user[v]
<1> DEFINE r == [on |-> on, no |-> no, params |-> ps]
<1>1. r \in Promise
  BY DEF Promise
<1>2. r.on = on /\ r.no = no /\ r.params = ps
  OBVIOUS
<1>3. user' = [user EXCEPT ![u] = r]
  BY DEF Pends
<1> HIDE DEF r
<1> QED
  BY <1>1, <1>2, <1>3

(* The promise of u, and nothing else, is settled or waits for a reading.  *)
LEMMA OnlyPends ==
  ASSUME Waiters, NEW u \in Users, NEW on \in {"idle", READ, "resolved", "rejected"},
         Pends(u, on, 0, {}),
         UNCHANGED <<writeNo, destroyed, paramsListToSave, nextWritePartialState>>,
         Listed(WRITE)' <=> Listed(WRITE),
         q.serving = WRITE => q'.serving = WRITE
  PROVE  Waiters'
<1>1. /\ user' \in [Users -> Promise]
      /\ user'[u].on = on
      /\ \A v \in Users \ {u} : user'[v] = user[v]
  BY PendsIs DEF Waiters
<1>2. ASSUME ~destroyed', NEW v \in Users
      PROVE  WaitsForThis(v)' /\ WaitsForNext(v)'
  <2>1. CASE v = u
    BY <1>1, <2>1, QueueFacts DEF WaitsForThis, WaitsForNext, READ, WRITE
  <2>2. CASE v # u
    BY <1>1, <1>2, <2>2 DEF Waiters, WaitsForThis, WaitsForNext
  <2> QED
    BY <2>1, <2>2
<1> QED
  BY <1>1, <1>2 DEF Waiters

LEMMA HeadIs ==
  ASSUME Wires, NEW kind, Arrives(kind)
  PROVE  /\ Head(inbox) \in InMessage
         /\ Head(inbox).kind = kind
         /\ kind # "event" => Fits(Head(inbox), job, q.serving)
         /\ inbox' \in Seq(Received(job, q.serving))
         /\ ~ready /\ initStep # "continues"
<1>1. /\ inbox # <<>> /\ Head(inbox).kind = kind /\ inbox' = Tail(inbox)
      /\ ~ready /\ initStep # "continues"
  BY DEF Arrives, NoReactionWaits
<1> DEFINE S == Received(job, q.serving)
<1>2. inbox \in Seq(S)
  BY DEF Wires
<1>3. Head(inbox) \in S /\ Tail(inbox) \in Seq(S)
  <2> HIDE DEF S
  <2> QED
    BY <1>1, <1>2, HeadTailProperties
<1> QED
  BY <1>1, <1>3 DEF Received

(* The server takes a request and sends an answer that fits.               *)
LEMMA RequestIs ==
  ASSUME Wires, outbox # <<>>
  PROVE  /\ Head(outbox) \in OutMessage
         /\ Fits(Head(outbox), job, q.serving)
         /\ Tail(outbox) \in Seq(Sent(job, q.serving))
<1> DEFINE S == Sent(job, q.serving)
<1>1. outbox \in Seq(S)
  BY DEF Wires
<1>2. Head(outbox) \in S /\ Tail(outbox) \in Seq(S)
  <2> HIDE DEF S
  <2> QED
    BY <1>1, HeadTailProperties
<1> QED
  BY <1>2 DEF Sent

LEMMA SaysIs ==
  ASSUME Wires, NEW m \in InMessage, Says(m), outbox' \in Seq(Sent(job, q.serving)),
         m.kind # "event" => Fits(m, job, q.serving),
         UNCHANGED <<q, job, ready>>
  PROVE  Wires'
<1> DEFINE S == Received(job, q.serving)
<1>1. inbox \in Seq(S) /\ inbox' = Append(inbox, m)
  BY DEF Wires, Says
<1>2. m \in S
  BY DEF Received
<1>3. Append(inbox, m) \in Seq(S)
  <2> HIDE DEF S
  <2> QED
    BY <1>1, <1>2, AppendProperties
<1> QED
  BY <1>1, <1>3 DEF Wires

-----------------------------------------------------------------------------
(* Every step preserves the invariant.                                     *)

LEMMA InitHolds == Init => IInv
<1> SUFFICES ASSUME Init
             PROVE  IInv
  OBVIOUS
<1>1. q = Q(<<>>, None) /\ q \in Queues /\ q.serving = None
  BY DEF Init, SQ!Idle, Q, Queues
<1>2. ~Listed(WRITE)
  BY <1>1, QueueFacts DEF Listed, Q
<1>3. Wires
  <2>1. /\ job = 0 /\ ready = FALSE /\ outbox = <<>> /\ inbox = <<>>
    BY DEF Init
  <2>2. ready \in BOOLEAN
    BY <2>1, Zenon
  <2>3. \A S : <<>> \in Seq(S)
    BY EmptySeq
  <2> QED
    BY <1>1, <2>1, <2>2, <2>3 DEF Wires
<1>4. Cycle
  BY <1>2 DEF Init, Cycle, CycleMatchesQueue, States
<1>5. Rest
  BY DEF Init, Rest
<1>6. Waiters
  <2> DEFINE r == [on |-> "idle", no |-> 0, params |-> {}]
  <2>1. user = [u \in Users |-> r]
    BY DEF Init
  <2>2. r \in Promise /\ r.on = "idle"
    BY DEF Promise
  <2> HIDE DEF r
  <2>3. user \in [Users -> Promise] /\ \A u \in Users : user[u].on = "idle"
    BY <2>1, <2>2
  <2> QED
    BY <2>3 DEF Waiters, WaitsForThis, WaitsForNext, WRITE
<1> QED
  BY <1>3, <1>4, <1>5, <1>6 DEF IInv

LEMMA StutterHolds == IInv /\ UNCHANGED vars => IInv'
BY DEF IInv, vars, Wires, Cycle, CycleMatchesQueue, Rest, Waiters, WaitsForThis, WaitsForNext, Listed

LEMMA StartInitHolds ==
  ASSUME IInv, StartInit
  PROVE  IInv'
<1>0. Wires /\ Cycle /\ Rest /\ Waiters
  BY DEF IInv
<1>1. /\ Ask(READ, "init", state, actualRemoteState, paramsListToSave)
      /\ readCb' = IF q.serving = READ THEN readCb ELSE "init"
      /\ initStep' = "reading"
      /\ UNCHANGED <<mode, state, bookkeeping, initResult, inbox, server, user, writeNo,
                     writes, destroyed>>
  BY DEF StartInit, AddReading, bounds
<1>2. /\ Wires'
      /\ Listed(WRITE)' <=> Listed(WRITE)
      /\ q.serving = WRITE => q'.serving = WRITE
  BY <1>0, <1>1, Asked, QueueFacts DEF Cycle
<1>3. Cycle'
  BY <1>0, <1>1, <1>2, CycleStays DEF Cycle
<1>4. Rest'
  BY <1>0, <1>1 DEF Rest
<1>5. Waiters'
  BY <1>0, <1>1, <1>2, WaitersStay DEF bookkeeping
<1> QED
  BY <1>2, <1>3, <1>4, <1>5 DEF IInv

LEMMA ContinueInitHolds ==
  ASSUME IInv, ContinueInit
  PROVE  IInv'
<1>0. Wires /\ Cycle /\ Rest /\ Waiters
  BY DEF IInv
<1>1. /\ initStep' \in {"failed", "done"}
      /\ \/ state' = state
         \/ initResult # None /\ state' = Updated(state, initResult)
      /\ UNCHANGED <<mode, bookkeeping, q, readCb, initResult, job, ready, outbox,
                     inbox, server, user, writeNo, writes, destroyed>>
  BY DEF ContinueInit, bounds
<1>2. state' \in States /\ \A p \in Params : state[p] \in Values => state'[p] \in Values
  BY <1>0, <1>1, UpdatedByIs DEF Cycle, Rest
<1>3. Wires' /\ (Listed(WRITE)' <=> Listed(WRITE))
  BY <1>0, <1>1 DEF Wires, Listed
<1>4. Cycle'
  BY <1>0, <1>1, <1>2, <1>3, CycleStays
<1>5. Rest'
  BY <1>0, <1>1 DEF Rest
<1>6. Waiters'
  BY <1>0, <1>1, <1>3, WaitersStay DEF bookkeeping
<1> QED
  BY <1>3, <1>4, <1>5, <1>6 DEF IInv

LEMMA StartNewWriteJobHolds ==
  ASSUME IInv, NEW u \in Users, NEW partial \in Partials,
         StartNewWriteJob(u, partial), ~Listed(WRITE),
         UNCHANGED <<mode, initVars, inbox, server, destroyed>>
  PROVE  /\ Wires' /\ Cycle' /\ Waiters' /\ writeNo' \in Nat
<1>0. Wires /\ Cycle /\ Rest /\ Waiters
  BY DEF IInv
<1>1. /\ nextWritePartialState = None
      /\ actualRemoteState = None
      /\ paramsListToSave = None
  BY <1>0, QueueFacts DEF Cycle, CycleMatchesQueue, Listed, Wires
<1>2. /\ actualRemoteState' = Known(state)
      /\ paramsListToSave' = DOMAIN partial
      /\ state' = Updated(state, partial)
      /\ writeNo' = writeNo + 1
      /\ Ask(WRITE, readCb, state', actualRemoteState', paramsListToSave')
      /\ Pends(u, WRITE, writeNo', DOMAIN partial)
      /\ nextWritePartialState' = nextWritePartialState
      /\ inbox' = inbox /\ destroyed' = destroyed
  BY <1>1 DEF StartNewWriteJob
<1>3. partial \in Dictionaries /\ DOMAIN partial \in SUBSET Params
  BY DictionaryIs DEF Partials
<1>4. /\ state' \in States /\ \A p \in DOMAIN partial : state'[p] \in Values
      /\ Known(state) \in Dictionaries
  BY <1>0, <1>2, <1>3, UpdatedByIs, KnownIs DEF Cycle
<1>5. writeNo' \in Nat /\ readCb \in {"init", "load"}
  BY <1>0, <1>2 DEF Rest
<1>6. Sendable(state', actualRemoteState', paramsListToSave')
  BY <1>2, <1>3, <1>4 DEF Sendable
<1>7. Wires' /\ Listed(WRITE)'
  BY <1>0, <1>2, <1>4, <1>5, <1>6, Asked
<1>8. Cycle'
  BY <1>1, <1>2, <1>3, <1>4, <1>7, NoneIsApart DEF Cycle, CycleMatchesQueue
<1>9. Waiters'
  <2>1. /\ user' \in [Users -> Promise]
        /\ user'[u].on = WRITE /\ user'[u].no = writeNo' /\ user'[u].params = DOMAIN partial
        /\ \A v \in Users \ {u} : user'[v] = user[v]
    BY <1>0, <1>2, <1>3, <1>5, PendsIs DEF Waiters
  <2>2. ASSUME ~destroyed', NEW v \in Users
        PROVE  WaitsForThis(v)' /\ WaitsForNext(v)'
    <3>1. CASE v = u
      BY <1>2, <1>7, <2>1, <3>1 DEF WaitsForThis, WaitsForNext, WRITE
    <3>2. CASE v # u
      <4>1. WaitsForThis(v) /\ WaitsForNext(v)
        BY <1>0, <1>2, <2>2 DEF Waiters
      <4>2. user[v].on \notin {WRITE, "next", "postponed"}
        BY <1>1, <4>1 DEF WaitsForThis, WaitsForNext
      <4> QED
        BY <2>1, <3>2, <4>2 DEF WaitsForThis, WaitsForNext
    <3> QED
      BY <3>1, <3>2
  <2> QED
    BY <2>1, <2>2 DEF Waiters
<1> QED
  BY <1>5, <1>7, <1>8, <1>9

LEMMA WriteHolds ==
  ASSUME IInv, NEW u \in Users, NEW partial \in Partials, Write(u, partial)
  PROVE  IInv'
<1>0. Wires /\ Cycle /\ Rest /\ Waiters
  BY DEF IInv
<1>1. UNCHANGED <<mode, readCb, initStep, initResult, inbox, server, destroyed>>
  BY DEF Write, initVars
<1>2. partial \in Dictionaries /\ DOMAIN partial \in SUBSET Params /\ DOMAIN partial # {}
  BY DictionaryIs DEF Partials
<1>3. writes' \in Nat /\ writeNo \in Nat
  BY <1>0 DEF Write, Rest
<1>4. /\ Updated(state, partial) \in States
      /\ \A p \in DOMAIN partial : Updated(state, partial)[p] \in Values
      /\ \A p \in Params : state[p] \in Values => Updated(state, partial)[p] \in Values
  BY <1>0, <1>2, UpdatedByIs DEF Cycle
<1>5. SUFFICES Wires' /\ Cycle' /\ Waiters' /\ writeNo' \in Nat
  BY <1>0, <1>1, <1>3 DEF IInv, Rest
<1>6. CASE ~mode.setter
  <2>1. /\ state' = Updated(state, partial)
        /\ Pends(u, "resolved", 0, {})
        /\ UNCHANGED <<bookkeeping, q, job, ready, outbox, writeNo>>
    BY <1>6 DEF Write
  <2>2. Wires' /\ (Listed(WRITE)' <=> Listed(WRITE))
    BY <1>0, <1>1, <2>1 DEF Wires, Listed
  <2>3. Cycle'
    BY <1>0, <1>4, <2>1, <2>2, CycleStays
  <2>4. Waiters'
    BY <1>0, <1>1, <2>1, <2>2, OnlyPends DEF bookkeeping
  <2> QED
    BY <1>3, <2>1, <2>2, <2>3, <2>4
<1>7. CASE mode.setter /\ q.serving = WRITE
  <2>0. WRITE \notin SQ!Waiting(q)
    BY <1>0, <1>7, WaitingIs, QueueFacts DEF Wires
  <2>1. /\ nextWritePartialState' = NextWriteOr(partial)
        /\ Pends(u, "postponed", writeNo + 1, DOMAIN partial)
        /\ UNCHANGED <<state, actualRemoteState, paramsListToSave, q, job,
                       ready, outbox, writeNo>>
    BY <1>7, <2>0 DEF Write
  <2>2. Wires' /\ (Listed(WRITE)' <=> Listed(WRITE))
    BY <1>0, <1>1, <2>1 DEF Wires, Listed
  <2>3. /\ nextWritePartialState' \in Partials /\ nextWritePartialState' # None
        /\ DOMAIN partial \subseteq DOMAIN nextWritePartialState'
        /\ nextWritePartialState # None =>
             DOMAIN nextWritePartialState \subseteq DOMAIN nextWritePartialState'
    <3>1. CASE nextWritePartialState = None
      BY <1>2, <2>1, <3>1, NoneIsApart DEF NextWriteOr, Partials
    <3>2. CASE nextWritePartialState # None
      <4>1. nextWritePartialState \in Dictionaries
        BY <1>0, <3>2 DEF Cycle, Partials
      <4>2. nextWritePartialState' = Merge(partial, nextWritePartialState)
        BY <2>1, <3>2 DEF NextWriteOr
      <4>3. /\ nextWritePartialState' \in Dictionaries
            /\ DOMAIN nextWritePartialState' = DOMAIN partial \cup DOMAIN nextWritePartialState
        BY <1>2, <4>1, <4>2, MergeIs
      <4> QED
        BY <1>2, <4>3, NoneIsApart DEF Partials
    <3> QED
      BY <3>1, <3>2
  <2>4. Cycle'
    BY <1>0, <1>7, <2>1, <2>2, <2>3 DEF Cycle, CycleMatchesQueue
  <2>5. /\ user' \in [Users -> Promise]
        /\ user'[u].on = "postponed" /\ user'[u].no = writeNo + 1
        /\ user'[u].params = DOMAIN partial
        /\ \A v \in Users \ {u} : user'[v] = user[v]
    BY <1>0, <1>2, <1>3, <2>1, PendsIs DEF Waiters
  <2>6. ASSUME ~destroyed', NEW v \in Users
        PROVE  WaitsForThis(v)' /\ WaitsForNext(v)'
    <3>1. CASE v = u
      BY <1>7, <2>1, <2>3, <2>5, <3>1 DEF WaitsForThis, WaitsForNext, WRITE
    <3>2. CASE v # u
      <4>1. WaitsForThis(v) /\ WaitsForNext(v) /\ user'[v] = user[v]
        BY <1>0, <1>1, <2>5, <2>6, <3>2 DEF Waiters
      <4> QED
        BY <2>1, <2>2, <2>3, <4>1 DEF WaitsForThis, WaitsForNext
    <3> QED
      BY <3>1, <3>2
  <2> QED
    BY <1>3, <2>1, <2>2, <2>4, <2>5, <2>6 DEF Waiters
<1>8. CASE mode.setter /\ WRITE \in SQ!Waiting(q)
  <2>0. q.serving # WRITE /\ Listed(WRITE)
    BY <1>0, <1>8, WaitingIs, QueueFacts DEF Wires, Listed
  <2>1. /\ paramsListToSave' = paramsListToSave \cup DOMAIN partial
        /\ state' = Updated(state, partial)
        /\ Pends(u, WRITE, writeNo, DOMAIN partial)
        /\ UNCHANGED <<actualRemoteState, nextWritePartialState, q, job,
                       ready, outbox, writeNo>>
    BY <1>8, <2>0 DEF Write
  <2>2. Wires' /\ Listed(WRITE)'
    BY <1>0, <1>1, <2>0, <2>1 DEF Wires, Listed
  <2>3. paramsListToSave \in SUBSET Params /\ paramsListToSave # None
    BY <1>0, <2>0 DEF Cycle, CycleMatchesQueue
  <2>4. Cycle'
    <3>1. paramsListToSave' \in SUBSET Params /\ paramsListToSave' # None
      BY <1>2, <2>1, <2>3, NoneIsApart
    <3>2. \A p \in paramsListToSave' : state'[p] \in Values
      BY <1>0, <1>4, <2>1, <2>3 DEF Cycle
    <3> QED
      BY <1>0, <1>4, <2>0, <2>1, <2>2, <3>1, <3>2 DEF Cycle, CycleMatchesQueue
  <2>5. /\ user' \in [Users -> Promise]
        /\ user'[u].on = WRITE /\ user'[u].no = writeNo
        /\ user'[u].params = DOMAIN partial
        /\ \A v \in Users \ {u} : user'[v] = user[v]
    BY <1>0, <1>2, <1>3, <2>1, PendsIs DEF Waiters
  <2>6. ASSUME ~destroyed', NEW v \in Users
        PROVE  WaitsForThis(v)' /\ WaitsForNext(v)'
    <3>1. CASE v = u
      BY <2>1, <2>2, <2>5, <3>1 DEF WaitsForThis, WaitsForNext, WRITE
    <3>2. CASE v # u
      <4>1. WaitsForThis(v) /\ WaitsForNext(v) /\ user'[v] = user[v]
        BY <1>0, <1>1, <2>5, <2>6, <3>2 DEF Waiters
      <4> QED
        BY <2>1, <2>2, <4>1 DEF WaitsForThis, WaitsForNext
    <3> QED
      BY <3>1, <3>2
  <2> QED
    BY <1>3, <2>1, <2>2, <2>4, <2>5, <2>6 DEF Waiters
<1>9. CASE mode.setter /\ q.serving # WRITE /\ WRITE \notin SQ!Waiting(q)
  <2>1. StartNewWriteJob(u, partial)
    BY <1>9 DEF Write
  <2>2. ~Listed(WRITE)
    BY <1>9, QueueFacts DEF Listed, SQ!Has
  <2> QED
    BY <1>1, <2>1, <2>2, StartNewWriteJobHolds DEF initVars
<1> QED
  BY <1>6, <1>7, <1>8, <1>9

LEMMA LoadHolds ==
  ASSUME IInv, NEW u \in Users, Load(u)
  PROVE  IInv'
<1>0. Wires /\ Cycle /\ Rest /\ Waiters
  BY DEF IInv
<1>1. UNCHANGED <<mode, state, bookkeeping, initStep, initResult, inbox, server,
                  writeNo, writes, destroyed>>
  BY DEF Load
<1>2. /\ Wires'
      /\ Listed(WRITE)' <=> Listed(WRITE)
      /\ q.serving = WRITE => q'.serving = WRITE
      /\ readCb' \in {"init", "load"}
      /\ \E on \in {READ, "resolved"} : Pends(u, on, 0, {})
  <2>1. CASE mode.getter
    <3>1. /\ Ask(READ, "load", state, actualRemoteState, paramsListToSave)
          /\ readCb' = IF q.serving = READ THEN readCb ELSE "load"
          /\ Pends(u, READ, 0, {})
      BY <2>1 DEF Load, AddReading
    <3> QED
      BY <1>0, <1>1, <3>1, Asked, QueueFacts DEF Cycle, Rest
  <2>2. CASE ~mode.getter
    <3>1. Pends(u, "resolved", 0, {}) /\ UNCHANGED <<readCb, q, job, ready, outbox>>
      BY <2>2 DEF Load
    <3> QED
      BY <1>0, <1>1, <3>1 DEF Wires, Listed, Rest
  <2> QED
    BY <2>1, <2>2
<1>3. Cycle'
  BY <1>0, <1>1, <1>2, CycleStays DEF Cycle
<1>4. Rest'
  BY <1>0, <1>1, <1>2 DEF Rest
<1>5. Waiters'
  BY <1>0, <1>1, <1>2, OnlyPends DEF bookkeeping
<1> QED
  BY <1>2, <1>3, <1>4, <1>5 DEF IInv

LEMMA DestroyHolds ==
  ASSUME IInv, Destroy
  PROVE  IInv'
<1>0. Wires /\ Cycle /\ Rest /\ Waiters
  BY DEF IInv
<1>1. /\ destroyed' = TRUE
      /\ q' = SQ!Idle
      /\ ready' = FALSE
      /\ actualRemoteState' = None
      /\ paramsListToSave' = None
      /\ nextWritePartialState' = None
      /\ UNCHANGED <<mode, state, readCb, initStep, initResult, job, outbox, inbox, server,
                     user, writeNo, writes>>
  BY DEF Destroy, initVars, bounds
<1>2. q' = Q(<<>>, None) /\ q' \in Queues /\ q'.serving = None
  BY <1>1 DEF SQ!Idle, Q, Queues
<1>3. ~Listed(WRITE)'
  BY <1>2, QueueFacts DEF Listed, Q
<1>4. Wires'
  <2>1. ready' \in BOOLEAN
    BY <1>1, Zenon
  <2>2. /\ outbox' \in Seq(Sent(job, q'.serving))
        /\ inbox' \in Seq(Received(job, q'.serving))
    BY <1>0, <1>1, <1>2, MessagesStay DEF Wires
  <2> QED
    BY <1>0, <1>1, <1>2, <2>1, <2>2 DEF Wires
<1>5. Cycle'
  BY <1>0, <1>1, <1>3 DEF Cycle, CycleMatchesQueue
<1>6. Rest'
  BY <1>0, <1>1 DEF Rest
<1>7. Waiters'
  BY <1>0, <1>1 DEF Waiters
<1> QED
  BY <1>4, <1>5, <1>6, <1>7 DEF IInv

(* A job that ends with an error: it was refused, or its time is over.     *)
LEMMA ErrorHolds ==
  ASSUME IInv, q.serving # None,
         IF q.serving = READ THEN ReadFails ELSE EndWriteJob(TRUE),
         inbox' \in Seq(Received(job, q.serving)),
         UNCHANGED <<mode, server, writes, destroyed>>
  PROVE  IInv'
<1>0. Wires /\ Cycle /\ Rest /\ Waiters
  BY DEF IInv
<1>1. CASE q.serving = READ
  <2>1. /\ EndReadJob(state, actualRemoteState, TRUE)
        /\ UNCHANGED <<state, bookkeeping, readCb, initResult, writeNo>>
    BY <1>1 DEF ReadFails
  <2>2. /\ Wires' /\ Waiters'
        /\ initStep' \in {"no", "reading", "continues", "done", "failed"}
        /\ Listed(WRITE)' <=> Listed(WRITE)
    BY <1>0, <1>1, <2>1, ReadEnds DEF Cycle, bookkeeping
  <2>3. Cycle'
    BY <1>0, <1>1, <2>1, <2>2, CycleStays, QueueFacts DEF Cycle
  <2>4. Rest'
    BY <1>0, <2>1, <2>2 DEF Rest
  <2> QED
    BY <2>2, <2>3, <2>4 DEF IInv
<1>2. CASE q.serving # READ
  <2>1. q.serving = WRITE /\ EndWriteJob(TRUE)
    BY <1>0, <1>2, QueueFacts DEF Wires
  <2>2. /\ Wires' /\ Cycle' /\ Waiters'
        /\ writeNo' \in Nat
        /\ UNCHANGED <<readCb, initStep, initResult>>
    BY <2>1, WriteEnds
  <2>3. Rest'
    BY <1>0, <2>2 DEF Rest
  <2> QED
    BY <2>2, <2>3 DEF IInv
<1> QED
  BY <1>1, <1>2

(* A writing job that ends well.                                           *)
LEMMA SuccessHolds ==
  ASSUME IInv, q.serving = WRITE, EndWriteJob(FALSE),
         inbox' \in Seq(Received(job, q.serving)),
         UNCHANGED <<mode, server, writes, destroyed>>
  PROVE  IInv'
<1>1. /\ Wires' /\ Cycle' /\ Waiters'
      /\ writeNo' \in Nat
      /\ UNCHANGED <<readCb, initStep, initResult>>
  BY WriteEnds
<1>2. Rest'
  BY <1>1 DEF IInv, Rest
<1> QED
  BY <1>1, <1>2 DEF IInv

(* A message that nobody waits for any more is only taken away.            *)
LEMMA IgnoredHolds ==
  ASSUME IInv, inbox' \in Seq(Received(job, q.serving)),
         UNCHANGED <<mode, state, bookkeeping, q, initVars, job, ready, outbox, server, user,
                     writeNo, writes, destroyed>>
  PROVE  IInv'
<1>1. UNCHANGED <<actualRemoteState, paramsListToSave, nextWritePartialState,
                  readCb, initStep, initResult>>
  BY DEF bookkeeping, initVars
<1> QED
  BY <1>1 DEF IInv, Wires, Cycle, CycleMatchesQueue, Rest, Waiters, WaitsForThis, WaitsForNext,
           Listed

(* What is loaded leaves alone what is being saved.                        *)
LEMMA LoadedIs ==
  ASSUME IInv, StateArrives
  PROVE  /\ Head(inbox).kind = "got" /\ Fits(Head(inbox), job, q.serving)
         /\ inbox' \in Seq(Received(job, q.serving))
         /\ state' \in States
         /\ actualRemoteState' \in Dictionaries \cup {None}
         /\ actualRemoteState' = None <=> actualRemoteState = None
         /\ initResult' \in Dictionaries \cup {None}
         /\ paramsListToSave # None => \A p \in paramsListToSave : state'[p] = state[p]
<1> DEFINE m == Head(inbox)
<1>0. Wires /\ Cycle /\ Rest
  BY DEF IInv
<1>1. IF m.cb = "load"
      THEN ApplyLoaded(m.data) /\ UNCHANGED initResult
      ELSE initResult' = m.data /\ UNCHANGED <<state, actualRemoteState>>
  BY DEF StateArrives
<1>2. /\ m \in InMessage /\ m.kind = "got" /\ Fits(m, job, q.serving)
      /\ inbox' \in Seq(Received(job, q.serving))
  BY <1>0, HeadIs DEF StateArrives
<1>3. m.data \in Dictionaries
  BY <1>2 DEF InMessage
<1>4. CASE m.cb = "load" /\ actualRemoteState = None
  <2>1. state' = Updated(state, m.data) /\ UNCHANGED <<actualRemoteState, initResult>>
    BY <1>1, <1>4 DEF ApplyLoaded
  <2>2. paramsListToSave = None
    BY <1>0, <1>4 DEF Cycle, CycleMatchesQueue
  <2> QED
    BY <1>0, <1>2, <1>3, <2>1, <2>2, UpdatedByIs DEF Cycle, Rest
<1>5. CASE m.cb = "load" /\ actualRemoteState # None
  <2>1. /\ state' = Safe(state, m.data, paramsListToSave)
        /\ actualRemoteState' = m.data /\ UNCHANGED initResult
    BY <1>1, <1>5 DEF ApplyLoaded
  <2>2. paramsListToSave \in SUBSET Params
    BY <1>0, <1>5 DEF Cycle, CycleMatchesQueue
  <2> QED
    BY <1>0, <1>2, <1>3, <1>5, <2>1, <2>2, SafeIs, NoneIsApart DEF Cycle, Rest
<1>6. CASE m.cb # "load"
  BY <1>0, <1>1, <1>2, <1>3, <1>6 DEF Cycle
<1> QED
  BY <1>4, <1>5, <1>6

LEMMA StateArrivesHolds ==
  ASSUME IInv, StateArrives
  PROVE  IInv'
<1> DEFINE m == Head(inbox)
<1>0. Wires /\ Cycle /\ Rest /\ Waiters
  BY DEF IInv
<1>1. /\ IF IsLive(m)
         THEN EndReadJob(state', actualRemoteState', FALSE)
         ELSE UNCHANGED <<q, job, ready, outbox, user, initStep>>
      /\ UNCHANGED <<mode, paramsListToSave, nextWritePartialState, readCb, server,
                     writeNo, writes, destroyed>>
  BY DEF StateArrives, bounds
<1>2. /\ m.kind = "got" /\ Fits(m, job, q.serving)
      /\ inbox' \in Seq(Received(job, q.serving))
      /\ state' \in States
      /\ actualRemoteState' \in Dictionaries \cup {None}
      /\ actualRemoteState' = None <=> actualRemoteState = None
      /\ initResult' \in Dictionaries \cup {None}
      /\ paramsListToSave # None => \A p \in paramsListToSave : state'[p] = state[p]
  BY LoadedIs
<1>3. paramsListToSave # None => \A p \in paramsListToSave : state'[p] \in Values
  BY <1>0, <1>2 DEF Cycle
<1>4. CASE IsLive(m)
  <2>1. q.serving = READ
    BY <1>0, <1>2, <1>4, QueueFacts DEF IsLive, Fits
  <2>2. /\ Wires' /\ Waiters'
        /\ initStep' \in {"no", "reading", "continues", "done", "failed"}
        /\ Listed(WRITE)' <=> Listed(WRITE)
        /\ nextWritePartialState = None
    BY <1>1, <1>2, <1>3, <1>4, <2>1, ReadEnds
  <2>3. Cycle'
    BY <1>0, <1>1, <1>2, <1>3, <2>2 DEF Cycle, CycleMatchesQueue
  <2>4. Rest'
    BY <1>0, <1>1, <1>2, <2>2 DEF Rest
  <2> QED
    BY <2>2, <2>3, <2>4 DEF IInv
<1>5. CASE ~IsLive(m)
  <2>1. UNCHANGED <<q, job, ready, outbox, user, initStep>>
    BY <1>1, <1>5
  <2>2. Wires' /\ (Listed(WRITE)' <=> Listed(WRITE))
    BY <1>0, <1>2, <2>1 DEF Wires, Listed
  <2>3. Cycle'
    BY <1>0, <1>1, <1>2, <1>3, <2>1, <2>2 DEF Cycle, CycleMatchesQueue
  <2>4. Rest'
    BY <1>0, <1>1, <1>2, <2>1 DEF Rest
  <2>5. Waiters'
    BY <1>0, <1>1, <2>1, <2>2, WaitersStay
  <2> QED
    BY <2>2, <2>3, <2>4, <2>5 DEF IInv
<1> QED
  BY <1>4, <1>5

LEMMA RefusalArrivesHolds ==
  ASSUME IInv, RefusalArrives
  PROVE  IInv'
<1> DEFINE m == Head(inbox)
<1>1. UNCHANGED <<mode, server, writes, destroyed>>
  BY DEF RefusalArrives, bounds
<1>2. inbox' \in Seq(Received(job, q.serving))
  BY HeadIs DEF RefusalArrives, IInv
<1>3. CASE ~IsLive(m)
  <2>1. UNCHANGED <<state, bookkeeping, initVars, q, job, ready, outbox, user, writeNo>>
    BY <1>3 DEF RefusalArrives
  <2> QED
    BY <1>1, <1>2, <2>1, IgnoredHolds
<1>4. CASE IsLive(m)
  <2>1. q.serving # None
    BY <1>4 DEF IsLive
  <2>2. IF q.serving = READ THEN ReadFails ELSE EndWriteJob(TRUE)
    BY <1>4 DEF RefusalArrives
  <2> QED
    BY <1>1, <1>2, <2>1, <2>2, ErrorHolds
<1> QED
  BY <1>3, <1>4

LEMMA SavedArrivesHolds ==
  ASSUME IInv, SavedArrives
  PROVE  IInv'
<1> DEFINE m == Head(inbox)
<1>1. UNCHANGED <<mode, server, writes, destroyed>>
  BY DEF SavedArrives, bounds
<1>2. /\ inbox' \in Seq(Received(job, q.serving))
      /\ m.kind = "saved" /\ Fits(m, job, q.serving)
  BY HeadIs DEF SavedArrives, IInv
<1>3. CASE ~IsLive(m)
  <2>1. UNCHANGED <<state, bookkeeping, initVars, q, job, ready, outbox, user, writeNo>>
    BY <1>3 DEF SavedArrives
  <2> QED
    BY <1>1, <1>2, <2>1, IgnoredHolds
<1>4. CASE IsLive(m)
  <2>1. q.serving = WRITE
    BY <1>2, <1>4, QueueFacts DEF IsLive, Fits
  <2>2. EndWriteJob(FALSE)
    BY <1>4 DEF SavedArrives
  <2> QED
    BY <1>1, <1>2, <2>1, <2>2, SuccessHolds
<1> QED
  BY <1>3, <1>4

LEMMA EmptyWriteEndsHolds ==
  ASSUME IInv, EmptyWriteEnds
  PROVE  IInv'
<1>1. q.serving = WRITE /\ inbox \in Seq(Received(job, q.serving))
  BY DEF IInv, Wires, EmptyWriteEnds
<1>2. EndWriteJob(FALSE) /\ UNCHANGED <<mode, inbox, server, writes, destroyed>>
  BY DEF EmptyWriteEnds, bounds
<1> QED
  BY <1>1, <1>2, SuccessHolds

LEMMA TimeoutHolds ==
  ASSUME IInv, Timeout
  PROVE  IInv'
<1>1. inbox \in Seq(Received(job, q.serving))
  BY DEF IInv, Wires
<1>2. /\ q.serving # None
      /\ IF q.serving = READ THEN ReadFails ELSE EndWriteJob(TRUE)
      /\ UNCHANGED <<mode, inbox, server, writes, destroyed>>
  BY DEF Timeout, bounds
<1> QED
  BY <1>1, <1>2, ErrorHolds

(* An event leaves alone what is being saved.                              *)
LEMMA EventIs ==
  ASSUME IInv, SetIncomeState
  PROVE  /\ inbox' \in Seq(Received(job, q.serving))
         /\ state' \in States
         /\ actualRemoteState' \in Dictionaries \cup {None}
         /\ actualRemoteState' = None <=> actualRemoteState = None
         /\ paramsListToSave # None => \A p \in paramsListToSave : state'[p] = state[p]
<1> DEFINE partial == Head(inbox).data
<1>0. Wires /\ Cycle /\ Rest
  BY DEF IInv
<1>1. partial \in Dictionaries /\ inbox' \in Seq(Received(job, q.serving))
  <2>1. /\ Head(inbox) \in InMessage /\ Head(inbox).kind = "event"
        /\ inbox' \in Seq(Received(job, q.serving))
    BY <1>0, HeadIs DEF SetIncomeState
  <2> QED
    BY <2>1 DEF InMessage
<1>2. CASE destroyed \/ q.serving = READ
  <2>1. UNCHANGED <<state, actualRemoteState>>
    BY <1>2, QueueFacts DEF SetIncomeState
  <2> QED
    BY <1>0, <1>1, <2>1 DEF Cycle
<1>3. CASE ~destroyed /\ q.serving = WRITE
  <2>1. /\ state' = Safe(state, partial, paramsListToSave)
        /\ actualRemoteState' = Merge(partial, actualRemoteState)
    BY <1>3, QueueFacts DEF SetIncomeState
  <2>2. Listed(WRITE)
    BY <1>0, <1>3, QueueFacts DEF Wires, Listed
  <2>3. actualRemoteState \in Dictionaries /\ paramsListToSave \in SUBSET Params
    BY <1>0, <2>2 DEF Cycle, CycleMatchesQueue
  <2>4. actualRemoteState' \in Dictionaries /\ actualRemoteState' # None
    BY <1>1, <2>1, <2>3, MergeIs, NoneIsApart
  <2>5. /\ state' \in States
        /\ \A p \in paramsListToSave : state'[p] = state[p]
    BY <1>0, <1>1, <2>1, <2>3, SafeIs DEF Cycle
  <2> QED
    BY <1>1, <2>3, <2>4, <2>5, NoneIsApart
<1>4. CASE ~destroyed /\ q.serving # READ /\ q.serving # WRITE
  <2>1. state' = Updated(state, partial) /\ UNCHANGED actualRemoteState
    BY <1>4 DEF SetIncomeState
  <2>2. ~Listed(WRITE)
    BY <1>0, <1>4, QueueFacts DEF Wires, Listed
  <2>3. paramsListToSave = None
    BY <1>0, <2>2 DEF Cycle, CycleMatchesQueue
  <2> QED
    BY <1>0, <1>1, <2>1, <2>3, UpdatedByIs DEF Cycle
<1> QED
  BY <1>2, <1>3, <1>4

LEMMA SetIncomeStateHolds ==
  ASSUME IInv, SetIncomeState
  PROVE  IInv'
<1>0. Wires /\ Cycle /\ Rest /\ Waiters
  BY DEF IInv
<1>1. UNCHANGED <<mode, paramsListToSave, nextWritePartialState, q, readCb, initStep, initResult,
                  job, ready, outbox, server, user, writeNo, writes, destroyed>>
  BY DEF SetIncomeState, initVars, bounds
<1>2. /\ inbox' \in Seq(Received(job, q.serving))
      /\ state' \in States
      /\ actualRemoteState' \in Dictionaries \cup {None}
      /\ actualRemoteState' = None <=> actualRemoteState = None
      /\ paramsListToSave # None => \A p \in paramsListToSave : state'[p] = state[p]
  BY EventIs
<1>3. Wires' /\ (Listed(WRITE)' <=> Listed(WRITE))
  BY <1>0, <1>1, <1>2 DEF Wires, Listed
<1>4. Cycle'
  BY <1>0, <1>1, <1>2, <1>3 DEF Cycle, CycleMatchesQueue
<1>5. Rest'
  BY <1>0, <1>1 DEF Rest
<1>6. Waiters'
  BY <1>0, <1>1, <1>3, WaitersStay
<1> QED
  BY <1>3, <1>4, <1>5, <1>6 DEF IInv

(* What the server does leaves the fields of the class alone.              *)
LEMMA OutsideHolds ==
  ASSUME IInv, Wires', server' \in [Params -> Values], writes' \in Nat, q' = q,
         UNCHANGED <<mode, state, bookkeeping, initVars, user, writeNo, destroyed>>
  PROVE  IInv'
<1>1. UNCHANGED <<actualRemoteState, paramsListToSave, nextWritePartialState,
                  readCb, initStep, initResult>>
  BY DEF bookkeeping, initVars
<1> QED
  BY <1>1 DEF IInv, Cycle, CycleMatchesQueue, Rest, Waiters, WaitsForThis, WaitsForNext, Listed

LEMMA ServerIs ==
  ASSUME Rest
  PROVE  /\ server \in Dictionaries /\ server \in States
         /\ \A d \in Dictionaries : Updated(server, d) \in [Params -> Values]
<1>1. server \in [Params -> Values]
  BY DEF Rest
<1>2. server \in Dictionaries /\ server \in States
  BY <1>1, DictionaryIs DEF States
<1>3. ASSUME NEW d \in Dictionaries
      PROVE  Updated(server, d) \in [Params -> Values]
  <2>1. Updated(server, d) \in States /\ \A p \in Params : Updated(server, d)[p] \in Values
    BY <1>1, <1>2, UpdatedByIs
  <2> QED
    BY <2>1 DEF States
<1> QED
  BY <1>2, <1>3

LEMMA ServerDoesHolds ==
  ASSUME IInv, ServerDoes
  PROVE  IInv'
<1> DEFINE r == Head(outbox)
<1>0. Wires /\ Rest /\ server \in [Params -> Values]
  BY DEF IInv, Rest
<1>1. /\ r \in OutMessage /\ Fits(r, job, q.serving)
      /\ outbox' \in Seq(Sent(job, q.serving))
  BY <1>0, RequestIs DEF ServerDoes
<1>2. UNCHANGED <<mode, state, bookkeeping, q, initVars, job, ready, user, writeNo, writes,
                  destroyed>>
  BY DEF ServerDoes, bounds
<1>3. CASE r.kind = "get"
  <2> DEFINE m == [kind |-> "got", job |-> r.job, cb |-> r.cb, data |-> server]
  <2>1. Says(m) /\ server' = server
    BY <1>3 DEF ServerDoes
  <2>2. m \in InMessage /\ Fits(m, job, q.serving)
    BY <1>0, <1>1, <1>3, ServerIs DEF OutMessage, InMessage, Fits
  <2> HIDE DEF m
  <2>3. Wires'
    BY <1>0, <1>1, <1>2, <2>1, <2>2, SaysIs
  <2> QED
    BY <1>0, <1>2, <2>1, <2>3, OutsideHolds DEF Rest
<1>4. CASE r.kind # "get"
  <2> DEFINE m == [kind |-> "saved", job |-> r.job, params |-> DOMAIN r.data]
  <2>1. Says(m) /\ server' = Updated(server, r.data)
    BY <1>4 DEF ServerDoes
  <2>2. r.kind = "set" /\ r.job \in Nat /\ r.data \in Dictionaries
    BY <1>1, <1>4 DEF OutMessage
  <2>3. DOMAIN r.data \in SUBSET Params
    BY <2>2, DictionaryIs
  <2>4. m \in InMessage /\ Fits(m, job, q.serving)
    BY <1>1, <2>2, <2>3 DEF InMessage, Fits
  <2> HIDE DEF m
  <2>5. Wires'
    BY <1>0, <1>1, <1>2, <2>1, <2>4, SaysIs
  <2>6. server' \in [Params -> Values]
    BY <1>0, <2>1, <2>2, ServerIs
  <2> QED
    BY <1>0, <1>2, <2>5, <2>6, OutsideHolds DEF Rest
<1> QED
  BY <1>3, <1>4

LEMMA ServerRefusesHolds ==
  ASSUME IInv, ServerRefuses
  PROVE  IInv'
<1> DEFINE r == Head(outbox)
           ps == IF r.kind = "get" THEN {} ELSE DOMAIN r.data
           m == [kind |-> "refused", job |-> r.job, params |-> ps]
<1>0. Wires /\ Rest
  BY DEF IInv
<1>1. /\ r \in OutMessage /\ Fits(r, job, q.serving)
      /\ outbox' \in Seq(Sent(job, q.serving))
  BY <1>0, RequestIs DEF ServerRefuses
<1>2. Says(m) /\ UNCHANGED <<mode, state, bookkeeping, q, initVars, job, ready, server, user,
                             writeNo, writes, destroyed>>
  BY DEF ServerRefuses, bounds
<1>3. ps \in SUBSET Params
  <2>1. r.kind # "get" => r.data \in Dictionaries
    BY <1>1 DEF OutMessage
  <2> QED
    BY <2>1, DictionaryIs
<1>4. m \in InMessage /\ Fits(m, job, q.serving)
  <2>1. r.job \in Nat
    BY <1>1 DEF OutMessage
  <2> HIDE DEF ps
  <2> QED
    BY <1>1, <1>3, <2>1 DEF InMessage, Fits
<1> HIDE DEF m
<1>5. Wires'
  BY <1>0, <1>1, <1>2, <1>4, SaysIs
<1> QED
  BY <1>0, <1>2, <1>5, OutsideHolds DEF Rest

LEMMA ServerChangesHolds ==
  ASSUME IInv, NEW p \in Params, NEW v \in Values, ServerChanges(p, v)
  PROVE  IInv'
<1> DEFINE d == [x \in {p} |-> v]
           m == [kind |-> "event", data |-> d]
<1>0. Wires /\ Rest /\ server \in [Params -> Values]
  BY DEF IInv, Rest
<1>1. /\ server' = [server EXCEPT ![p] = v]
      /\ Says(m)
      /\ UNCHANGED <<mode, state, bookkeeping, q, initVars, job, ready, outbox, user, writeNo,
                     writes, destroyed>>
  BY DEF ServerChanges
<1>2. d \in Dictionaries
  BY DictionaryIs
<1> HIDE DEF d
<1>3. m \in InMessage /\ m.kind = "event"
  BY <1>2 DEF InMessage
<1> HIDE DEF m
<1>4. outbox' \in Seq(Sent(job, q.serving))
  BY <1>0, <1>1 DEF Wires
<1>5. Wires'
  BY <1>0, <1>1, <1>3, <1>4, SaysIs
<1>6. server' \in [Params -> Values]
  BY <1>0, <1>1
<1> QED
  BY <1>0, <1>1, <1>5, <1>6, OutsideHolds DEF Rest

LEMMA ResumeHolds ==
  ASSUME IInv, NEW u \in Users, Resume(u)
  PROVE  IInv'
<1>0. Wires /\ Cycle /\ Rest /\ Waiters
  BY DEF IInv
<1>1. /\ Pends(u, "idle", 0, {})
      /\ UNCHANGED <<mode, state, actualRemoteState, paramsListToSave, nextWritePartialState, q,
                     readCb, initStep, initResult, job, ready, outbox, inbox, server, writeNo,
                     writes, destroyed>>
  BY DEF Resume, Pends, bookkeeping, initVars, bounds
<1>2. Wires' /\ Cycle' /\ Rest' /\ (Listed(WRITE)' <=> Listed(WRITE))
  BY <1>0, <1>1 DEF Wires, Cycle, CycleMatchesQueue, Rest, Listed
<1>3. Waiters'
  BY <1>0, <1>1, <1>2, OnlyPends
<1> QED
  BY <1>2, <1>3 DEF IInv

LEMMA StepHolds == IInv /\ [Next]_vars => IInv'
<1> SUFFICES ASSUME IInv, [Next]_vars
             PROVE  IInv'
  OBVIOUS
<1>1. CASE StartInit
  BY <1>1, StartInitHolds
<1>2. CASE ContinueInit
  BY <1>2, ContinueInitHolds
<1>3. CASE \E u \in Users, partial \in Partials : Write(u, partial)
  BY <1>3, WriteHolds
<1>4. CASE \E u \in Users : Load(u)
  BY <1>4, LoadHolds
<1>5. CASE Destroy
  BY <1>5, DestroyHolds
<1>6. CASE StateArrives
  BY <1>6, StateArrivesHolds
<1>7. CASE RefusalArrives
  BY <1>7, RefusalArrivesHolds
<1>8. CASE SavedArrives
  BY <1>8, SavedArrivesHolds
<1>9. CASE EmptyWriteEnds
  BY <1>9, EmptyWriteEndsHolds
<1>10. CASE SetIncomeState
  BY <1>10, SetIncomeStateHolds
<1>11. CASE Timeout
  BY <1>11, TimeoutHolds
<1>12. CASE ServerDoes
  BY <1>12, ServerDoesHolds
<1>13. CASE ServerRefuses
  BY <1>13, ServerRefusesHolds
<1>14. CASE \E p \in Params, v \in Values : ServerChanges(p, v)
  BY <1>14, ServerChangesHolds
<1>15. CASE \E u \in Users : Resume(u)
  BY <1>15, ResumeHolds
<1>16. CASE UNCHANGED vars
  BY <1>16, StutterHolds
<1> QED
  BY <1>1, <1>2, <1>3, <1>4, <1>5, <1>6, <1>7, <1>8, <1>9, <1>10, <1>11, <1>12, <1>13, <1>14,
     <1>15, <1>16 DEF Next

LEMMA Inductive == Spec => []IInv
BY InitHolds, StepHolds, PTL DEF Spec

(* The fields and the wires keep their types.                              *)
THEOREM TypeCorrect == Spec => []TypeOK
<1>1. IInv => TypeOK
  <2> SUFFICES ASSUME IInv
               PROVE  TypeOK
    OBVIOUS
  <2>1. q.serving \in {READ, WRITE, None} /\ q.line \in {<<>>, <<READ>>, <<WRITE>>}
    BY QueueFacts DEF IInv, Wires
  <2>2. user \in [Users -> [on : {"idle", READ, WRITE, "postponed", "next",
                                  "resolved", "rejected"},
                            no : Nat, params : SUBSET Params]]
    BY DEF IInv, Waiters, Promise
  <2> QED
    BY <2>1, <2>2 DEF IInv, Cycle, Rest, TypeOK
<1> QED
  BY <1>1, Inductive, PTL

(* The errors of a write cycle that does not match the queue are out of    *)
(* reach, also for jobs that were given up on and calls during init().     *)
THEOREM CyclesMatch == Spec => []CycleMatchesQueue
<1>1. IInv => CycleMatchesQueue
  BY DEF IInv, Cycle
<1> QED
  BY <1>1, Inductive, PTL

(* The promise of write() waits for the job that saves its parameters.     *)
THEOREM PromisesFollow == Spec => []PromiseFollowsItsWrite
<1>1. IInv => PromiseFollowsItsWrite
  <2> SUFFICES ASSUME IInv, ~destroyed, NEW u \in Users
               PROVE  CASE user[u].on \in {WRITE, "next"} ->
                             /\ Listed(WRITE)
                             /\ user[u].no = writeNo
                             /\ user[u].params \subseteq paramsListToSave
                        [] user[u].on = "postponed" ->
                             /\ q.serving = WRITE
                             /\ user[u].no = writeNo + 1
                             /\ nextWritePartialState # None
                             /\ user[u].params \subseteq DOMAIN nextWritePartialState
                        [] OTHER -> TRUE
    BY DEF PromiseFollowsItsWrite
  <2>1. WaitsForThis(u) /\ WaitsForNext(u)
    BY DEF IInv, Waiters
  <2> QED
    BY <2>1 DEF WaitsForThis, WaitsForNext, WRITE
<1> QED
  BY <1>1, Inductive, PTL

-----------------------------------------------------------------------------
(* If callers wait for init(), what is being saved is not overwritten.     *)

(* No cycle begins before init() is done.                                  *)
Early ==
  /\ CanInit => initStep = "done" \/ paramsListToSave = None
  /\ ~CanInit => initStep = "no"

Kept ==
  (/\ paramsListToSave # None /\ paramsListToSave' # None
   /\ writeNo' = writeNo /\ writes' = writes)
  => \A p \in paramsListToSave : state'[p] = state[p]

(* A step that leaves init() and the parameters being saved alone.         *)
LEMMA EarlyStays ==
  ASSUME Early, mode' = mode, initStep' = initStep,
         paramsListToSave' # None => paramsListToSave # None
  PROVE  Early'
BY DEF Early, CanInit

(* The end of a reading job, which init() may have waited for.             *)
LEMMA ReadKeeps ==
  ASSUME Early, mode' = mode, paramsListToSave' = paramsListToSave,
         NEW s, NEW actual, NEW err, EndReadJob(s, actual, err)
  PROVE  Early'
<1>1. initStep' = initStep \/ initStep = "reading"
  BY DEF EndReadJob
<1> QED
  BY <1>1 DEF Early, CanInit

(* The end of a writing job, which ends its cycle.                         *)
LEMMA WriteKeeps ==
  ASSUME IInv, Early, mode' = mode, q.serving = WRITE, NEW err \in BOOLEAN,
         EndWriteJob(err), inbox' \in Seq(Received(job, q.serving)), destroyed' = destroyed
  PROVE  Kept /\ Early'
<1>1. /\ initStep' = initStep
      /\ paramsListToSave # None
      /\ paramsListToSave' # None => writeNo' # writeNo
  BY WriteEnds
<1> QED
  BY <1>1, EarlyStays DEF Kept

LEMMA ErrorKeeps ==
  ASSUME IInv, Early, q.serving # None,
         IF q.serving = READ THEN ReadFails ELSE EndWriteJob(TRUE),
         inbox' \in Seq(Received(job, q.serving)),
         mode' = mode, destroyed' = destroyed
  PROVE  Kept /\ Early'
<1>1. CASE q.serving = READ
  <2>1. EndReadJob(state, actualRemoteState, TRUE) /\ UNCHANGED <<state, paramsListToSave>>
    BY <1>1 DEF ReadFails, bookkeeping
  <2> QED
    BY <2>1, ReadKeeps DEF Kept
<1>2. CASE q.serving # READ
  <2>1. q.serving = WRITE /\ EndWriteJob(TRUE)
    BY <1>2, QueueFacts DEF IInv, Wires
  <2> QED
    BY <2>1, WriteKeeps
<1> QED
  BY <1>1, <1>2

LEMMA StepKeeps ==
  ASSUME ~CallsDuringInit
  PROVE  IInv /\ Early /\ [Next]_vars => Kept /\ Early'
<1> SUFFICES ASSUME IInv, Early, [Next]_vars
             PROVE  Kept /\ Early'
  OBVIOUS
<1>1. CASE StartInit
  <2>1. CanInit /\ initStep = "no" /\ UNCHANGED <<mode, state, paramsListToSave>>
    BY <1>1 DEF StartInit, bookkeeping
  <2> QED
    BY <2>1 DEF Early, Kept, CanInit
<1>2. CASE ContinueInit
  <2>1. initStep = "continues" /\ UNCHANGED <<mode, paramsListToSave>>
    BY <1>2 DEF ContinueInit, bookkeeping
  <2> QED
    BY <2>1 DEF Early, Kept, CanInit
<1>3. ASSUME NEW u \in Users, NEW partial \in Partials, Write(u, partial)
      PROVE  Kept /\ Early'
  <2>1. /\ MayCall(u) /\ writes' = writes + 1
        /\ UNCHANGED <<mode, initStep>>
    BY <1>3 DEF Write, initVars
  <2>2. CanInit => initStep = "done"
    BY <2>1 DEF MayCall
  <2>3. writes' # writes
    BY <2>1 DEF IInv, Rest
  <2> QED
    BY <2>1, <2>2, <2>3 DEF Early, Kept, CanInit
<1>4. CASE StateArrives
  <2>1. /\ paramsListToSave # None => \A p \in paramsListToSave : state'[p] = state[p]
        /\ UNCHANGED <<mode, paramsListToSave>>
    BY <1>4, LoadedIs DEF StateArrives
  <2>2. initStep' = initStep \/ EndReadJob(state', actualRemoteState', FALSE)
    BY <1>4 DEF StateArrives
  <2> QED
    BY <2>1, <2>2, ReadKeeps, EarlyStays DEF Kept
<1>5. CASE RefusalArrives
  <2>1. UNCHANGED <<mode, destroyed>> /\ inbox' \in Seq(Received(job, q.serving))
    BY <1>5, HeadIs DEF RefusalArrives, IInv
  <2>2. CASE IsLive(Head(inbox))
    <3>1. q.serving # None /\ IF q.serving = READ THEN ReadFails ELSE EndWriteJob(TRUE)
      BY <1>5, <2>2 DEF RefusalArrives, IsLive
    <3> QED
      BY <2>1, <3>1, ErrorKeeps
  <2>3. CASE ~IsLive(Head(inbox))
    <3>1. UNCHANGED <<state, paramsListToSave, initStep>>
      BY <1>5, <2>3 DEF RefusalArrives, bookkeeping, initVars
    <3> QED
      BY <2>1, <3>1, EarlyStays DEF Kept
  <2> QED
    BY <2>2, <2>3
<1>6. CASE SavedArrives
  <2>1. /\ UNCHANGED <<mode, destroyed>> /\ inbox' \in Seq(Received(job, q.serving))
        /\ Head(inbox).kind = "saved" /\ Fits(Head(inbox), job, q.serving)
    BY <1>6, HeadIs DEF SavedArrives, IInv
  <2>2. CASE IsLive(Head(inbox))
    <3>1. q.serving = WRITE /\ EndWriteJob(FALSE)
      BY <1>6, <2>1, <2>2, QueueFacts DEF SavedArrives, IsLive, Fits
    <3> QED
      BY <2>1, <3>1, WriteKeeps
  <2>3. CASE ~IsLive(Head(inbox))
    <3>1. UNCHANGED <<state, paramsListToSave, initStep>>
      BY <1>6, <2>3 DEF SavedArrives, bookkeeping, initVars
    <3> QED
      BY <2>1, <3>1, EarlyStays DEF Kept
  <2> QED
    BY <2>2, <2>3
<1>7. CASE EmptyWriteEnds
  <2>1. q.serving = WRITE /\ EndWriteJob(FALSE) /\ UNCHANGED <<mode, inbox, destroyed>>
    BY <1>7 DEF EmptyWriteEnds, IInv, Wires
  <2>2. inbox' \in Seq(Received(job, q.serving))
    BY <2>1 DEF IInv, Wires
  <2> QED
    BY <2>1, <2>2, WriteKeeps
<1>8. CASE SetIncomeState
  <2>1. /\ paramsListToSave # None => \A p \in paramsListToSave : state'[p] = state[p]
        /\ UNCHANGED <<mode, initStep, paramsListToSave>>
    BY <1>8, EventIs DEF SetIncomeState, initVars
  <2> QED
    BY <2>1, EarlyStays DEF Kept
<1>9. CASE Timeout
  <2>1. /\ q.serving # None
        /\ IF q.serving = READ THEN ReadFails ELSE EndWriteJob(TRUE)
        /\ UNCHANGED <<mode, inbox, destroyed>>
    BY <1>9 DEF Timeout
  <2>2. inbox' \in Seq(Received(job, q.serving))
    BY <2>1 DEF IInv, Wires
  <2> QED
    BY <2>1, <2>2, ErrorKeeps
<1>10. CASE Destroy
  <2>1. paramsListToSave' = None /\ UNCHANGED <<mode, initStep>>
    BY <1>10 DEF Destroy, initVars
  <2> QED
    BY <2>1, EarlyStays DEF Kept
<1>11. CASE \/ \E u \in Users : Load(u) \/ Resume(u)
            \/ ServerDoes \/ ServerRefuses
            \/ \E p \in Params, v \in Values : ServerChanges(p, v)
            \/ UNCHANGED vars
  <2>1. UNCHANGED <<mode, state, initStep, paramsListToSave>>
    BY <1>11 DEF Load, Resume, ServerDoes, ServerRefuses, ServerChanges, vars, bookkeeping,
                 initVars
  <2> QED
    BY <2>1, EarlyStays DEF Kept
<1> QED
  BY <1>1, <1>2, <1>3, <1>4, <1>5, <1>6, <1>7, <1>8, <1>9, <1>10, <1>11 DEF Next

(* While a cycle lasts, only another write() changes its parameters: what  *)
(* is loaded or told meanwhile is applied to the others.                   *)
THEOREM SavedAsWritten ==
  ASSUME ~CallsDuringInit
  PROVE  Spec => SavingIsNotOverwritten
<1>1. Init => Early
  BY DEF Init, Early
<1>2. IInv /\ Early /\ [Next]_vars => Early'
  BY StepKeeps
<1>3. IInv /\ Early /\ [Next]_vars => [Kept]_vars
  BY StepKeeps
<1> QED
  BY <1>1, <1>2, <1>3, Inductive, PTL DEF Spec, SavingIsNotOverwritten, Kept

-----------------------------------------------------------------------------
(* If no timer fires before its job is done and callers wait for init(),   *)
(* the local state follows the server.  What we would hold if the write in *)
(* progress were given up (Base) is what the last message on its way says, *)
(* or, if none is, what the server holds.                                  *)

(* Who asked for the reading job.                                          *)
Reader == IF initStep = "reading" THEN "init" ELSE "load"

(* init() has the queue to itself.                                         *)
InitAlone ==
  /\ initStep = "reading" => q = Q(<<>>, READ)
  /\ initStep \in {"no", "continues", "failed"} /\ CanInit => q = Q(<<>>, None)
  /\ ~CanInit => initStep = "no"
  /\ initStep = "continues" => initResult \in [Params -> Values]
  /\ q.line = <<READ>> => readCb = "load"

(* At most one request or answer is on its way, the one of the current     *)
(* job; what is sent is what is being saved.                               *)
OneReply ==
  /\ \A i \in 1 .. Len(inbox) : inbox[i].kind # "event" =>
       /\ inbox[i].job = job /\ q.serving # None /\ ~ready /\ outbox = <<>>
       /\ inbox[i].kind = "got" => inbox[i].cb = Reader /\ inbox[i].data \in [Params -> Values]
       /\ inbox[i].kind = "saved" => inbox[i].params \subseteq paramsListToSave
  /\ \A i, j \in 1 .. Len(inbox) :
       inbox[i].kind # "event" /\ inbox[j].kind # "event" => i = j

OneRequest ==
  outbox # <<>> =>
    /\ Len(outbox) = 1
    /\ outbox[1].job = job /\ q.serving # None /\ ~ready
    /\ outbox[1].kind = "get" => outbox[1].cb = Reader
    /\ outbox[1].kind = "set" =>
         /\ DOMAIN outbox[1].data \subseteq paramsListToSave
         /\ \A p \in DOMAIN outbox[1].data : outbox[1].data[p] = state[p]

(* The current writing job has sent p.                                     *)
Sending(p) ==
  \/ outbox # <<>> /\ outbox[1].kind = "set" /\ p \in DOMAIN outbox[1].data
  \/ \E i \in 1 .. Len(inbox) :
       inbox[i].kind \in {"saved", "refused"} /\ p \in inbox[i].params

(* The value in a dictionary, undefined if there is none.                  *)
Held(d, p) == IF p \in DOMAIN d THEN d[p] ELSE Undef

Remote(p) == Held(actualRemoteState, p)

(* The other parameters are as on the server.                              *)
Spared ==
  actualRemoteState # None =>
    \A p \in Params \ paramsListToSave : state[p] = Remote(p)

(* So are those that there was no need to send, but for dropped events.    *)
Unsent ==
  q.serving = WRITE =>
    \A p \in paramsListToSave : Sending(p) \/ p \in unheard \/ state[p] = Remote(p)

Base(p) ==
  IF initStep = "continues" THEN initResult[p]
  ELSE IF actualRemoteState = None THEN state[p] ELSE Remote(p)

Excused(p) == initStep # "continues" /\ p \in unheard

(* What a message says of p: one that tells of a success says that the     *)
(* server has what is being saved.                                         *)
Informs(m, p) ==
  \/ m.kind = "got"
  \/ m.kind = "event" /\ p \in DOMAIN m.data
  \/ m.kind = "saved" /\ p \in m.params

Tells(m, p, s) == IF m.kind = "saved" THEN s[p] ELSE m.data[p]

Latest ==
  \A p \in Params : \A i \in 1 .. Len(inbox) :
    Informs(inbox[i], p) /\ (\A j \in 1 .. Len(inbox) : j > i => ~Informs(inbox[j], p))
    => Tells(inbox[i], p, state) = server[p]

Settled ==
  \A p \in Params :
    (\A i \in 1 .. Len(inbox) : ~Informs(inbox[i], p))
    => Excused(p) \/ Base(p) \in {Undef, server[p]}

Follows ==
  InitAlone /\ OneReply /\ OneRequest /\ Spared /\ Unsent /\ Latest /\ Settled

(* A destroyed state has nothing in its queue, and only one with a setter  *)
(* writes.                                                                 *)
Closed == destroyed => q = Q(<<>>, None) /\ ~ready
OnlySetters == Listed(WRITE) => mode.setter

HInv == IInv /\ Closed /\ OnlySetters /\ (~destroyed /\ mode.setter => Follows)

-----------------------------------------------------------------------------
(* Messages.                                                               *)
LEMMA LatestNext ==
  ASSUME \A p \in Params : \A i \in 1 .. Len(inbox') :
           Informs(inbox'[i], p) /\ (\A j \in 1 .. Len(inbox') : j > i => ~Informs(inbox'[j], p))
           => Tells(inbox'[i], p, state') = server'[p]
  PROVE  Latest'
BY DEF Latest, Informs, Tells

LEMMA SettledNext ==
  ASSUME \A p \in Params :
           (\A i \in 1 .. Len(inbox') : ~Informs(inbox'[i], p))
           => Excused(p)' \/ Base(p)' \in {Undef, server'[p]}
  PROVE  Settled'
BY DEF Settled, Informs

(* The type of the messages, and which kind of job they belong to.         *)
LEMMA MessagesAre ==
  ASSUME Wires
  PROVE  /\ Len(inbox) \in Nat
         /\ \A i \in 1 .. Len(inbox) : /\ inbox[i] \in InMessage
                                       /\ inbox[i].kind # "event" => Fits(inbox[i], job, q.serving)
         /\ outbox # <<>> => outbox[1] \in OutMessage /\ Fits(outbox[1], job, q.serving)
<1> DEFINE S == Received(job, q.serving)
           T == Sent(job, q.serving)
<1>1. inbox \in Seq(S) /\ outbox \in Seq(T)
  BY DEF Wires
<1>2. \A m \in S : m \in InMessage /\ (m.kind # "event" => Fits(m, job, q.serving))
  BY DEF Received
<1>3. \A m \in T : m \in OutMessage /\ Fits(m, job, q.serving)
  BY DEF Sent
<1> HIDE DEF S, T
<1>4. Len(inbox) \in Nat /\ \A i \in 1 .. Len(inbox) : inbox[i] \in S
  BY <1>1, ElementOfSeq, LenProperties
<1>5. outbox # <<>> => outbox[1] \in T
  BY <1>1, HeadTailProperties
<1> QED
  BY <1>2, <1>3, <1>4, <1>5

LEMMA KindsMatch ==
  ASSUME Wires, OneReply, OneRequest
  PROVE  /\ \A i \in 1 .. Len(inbox) :
              /\ inbox[i].kind \in {"got", "saved", "refused", "event"}
              /\ inbox[i].kind = "got" => q.serving = READ
              /\ inbox[i].kind = "saved" => q.serving = WRITE
         /\ outbox # <<>> =>
              /\ outbox[1].kind \in {"get", "set"}
              /\ outbox[1].kind = "get" => q.serving = READ
              /\ outbox[1].kind = "set" => q.serving = WRITE
<1>1. ASSUME NEW i \in 1 .. Len(inbox)
      PROVE  /\ inbox[i].kind \in {"got", "saved", "refused", "event"}
             /\ inbox[i].kind = "got" => q.serving = READ
             /\ inbox[i].kind = "saved" => q.serving = WRITE
  <2>1. inbox[i].kind \in {"got", "saved", "refused", "event"}
    BY MessagesAre DEF InMessage
  <2>2. inbox[i].kind # "event" =>
          Fits(inbox[i], job, q.serving) /\ inbox[i].job = job /\ q.serving # None
    BY MessagesAre DEF OneReply
  <2> QED
    BY <2>1, <2>2 DEF Fits
<1>2. ASSUME outbox # <<>>
      PROVE  /\ outbox[1].kind \in {"get", "set"}
             /\ outbox[1].kind = "get" => q.serving = READ
             /\ outbox[1].kind = "set" => q.serving = WRITE
  <2>1. outbox[1] \in OutMessage /\ Fits(outbox[1], job, q.serving)
    BY <1>2, MessagesAre
  <2>2. outbox[1].kind \in {"get", "set"}
    BY <2>1 DEF OutMessage
  <2>3. outbox[1].job = job /\ q.serving # None
    BY <1>2 DEF OneRequest
  <2> QED
    BY <2>1, <2>2, <2>3 DEF Fits
<1> QED
  BY <1>1, <1>2

LEMMA TailIs ==
  ASSUME Wires, inbox # <<>>, inbox' = Tail(inbox)
  PROVE  /\ Len(inbox) \in Nat /\ Len(inbox) >= 1
         /\ Len(inbox') = Len(inbox) - 1
         /\ Head(inbox) = inbox[1]
         /\ \A i \in 1 .. Len(inbox') : inbox'[i] = inbox[i + 1] /\ i + 1 \in 1 .. Len(inbox)
<1> DEFINE S == Received(job, q.serving)
<1>1. inbox \in Seq(S)
  BY DEF Wires
<1> HIDE DEF S
<1> QED
  BY <1>1, HeadTailProperties, LenProperties

LEMMA AppendIs ==
  ASSUME Wires, NEW m, inbox' = Append(inbox, m)
  PROVE  /\ Len(inbox) \in Nat
         /\ Len(inbox') = Len(inbox) + 1
         /\ inbox'[Len(inbox) + 1] = m
         /\ \A i \in 1 .. Len(inbox) : inbox'[i] = inbox[i] /\ i \in 1 .. Len(inbox')
<1> DEFINE S == Received(job, q.serving)
<1>1. inbox \in Seq(S \cup {m}) /\ m \in S \cup {m}
  BY SeqDef DEF Wires
<1> HIDE DEF S
<1>2. /\ Len(inbox) \in Nat
      /\ Len(Append(inbox, m)) = Len(inbox) + 1
      /\ Append(inbox, m)[Len(inbox) + 1] = m
      /\ \A i \in 1 .. Len(inbox) : Append(inbox, m)[i] = inbox[i]
  BY <1>1, AppendProperties, LenProperties
<1> QED
  BY <1>2

(* The first message is taken: what it says, if it is the last to say it,  *)
(* must be known by now.                                                   *)
LEMMA HeadTaken ==
  ASSUME Wires, Latest, Settled, inbox # <<>>, inbox' = Tail(inbox), server' = server,
         \A i \in 1 .. Len(inbox') : inbox'[i].kind = "saved" =>
            \A p \in inbox'[i].params : state'[p] = state[p],
         \A p \in Params :
            IF Informs(inbox[1], p)
            THEN Excused(p)' \/ Base(p)' = Tells(inbox[1], p, state)
            ELSE Excused(p)' \/ (~Excused(p) /\ Base(p)' = Base(p))
  PROVE  Latest' /\ Settled'
<1>0. /\ Len(inbox) \in Nat /\ Len(inbox) >= 1
      /\ Len(inbox') = Len(inbox) - 1
      /\ \A i \in 1 .. Len(inbox') : inbox'[i] = inbox[i + 1] /\ i + 1 \in 1 .. Len(inbox)
  BY TailIs
<1>1. ASSUME NEW p \in Params, NEW i \in 1 .. Len(inbox'), Informs(inbox'[i], p),
             \A j \in 1 .. Len(inbox') : j > i => ~Informs(inbox'[j], p)
      PROVE  Tells(inbox'[i], p, state') = server'[p]
  <2>1. i + 1 \in 1 .. Len(inbox) /\ Informs(inbox[i + 1], p)
    BY <1>0, <1>1
  <2>2. ASSUME NEW j \in 1 .. Len(inbox), j > i + 1
        PROVE  ~Informs(inbox[j], p)
    <3>1. j - 1 \in 1 .. Len(inbox') /\ j - 1 > i /\ (j - 1) + 1 = j
      BY <1>0, <2>2
    <3> QED
      BY <1>0, <1>1, <3>1
  <2>3. Tells(inbox[i + 1], p, state) = server[p]
    BY <2>1, <2>2 DEF Latest
  <2>4. Tells(inbox'[i], p, state') = Tells(inbox[i + 1], p, state)
    BY <1>0, <1>1 DEF Tells, Informs
  <2> QED
    BY <2>3, <2>4
<1>2. ASSUME NEW p \in Params, \A i \in 1 .. Len(inbox') : ~Informs(inbox'[i], p)
      PROVE  Excused(p)' \/ Base(p)' \in {Undef, server'[p]}
  <2>1. ASSUME NEW j \in 1 .. Len(inbox), j > 1
        PROVE  ~Informs(inbox[j], p)
    <3>1. j - 1 \in 1 .. Len(inbox') /\ (j - 1) + 1 = j
      BY <1>0, <2>1
    <3> QED
      BY <1>0, <1>2, <3>1
  <2>2. CASE Informs(inbox[1], p)
    <3>1. 1 \in 1 .. Len(inbox)
      BY <1>0
    <3>2. Tells(inbox[1], p, state) = server[p]
      BY <2>1, <2>2, <3>1 DEF Latest
    <3> QED
      BY <2>2, <3>2
  <2>3. CASE ~Informs(inbox[1], p)
    <3>1. \A j \in 1 .. Len(inbox) : ~Informs(inbox[j], p)
      BY <2>1, <2>3
    <3>2. Excused(p) \/ Base(p) \in {Undef, server[p]}
      BY <3>1 DEF Settled
    <3> QED
      BY <2>3, <3>2
  <2> QED
    BY <2>2, <2>3
<1> QED
  BY <1>1, <1>2, LatestNext, SettledNext

(* The server says something, of what it holds then.                       *)
LEMMA TellsMore ==
  ASSUME Wires, Latest, Settled, NEW m, inbox' = Append(inbox, m),
         UNCHANGED <<state, actualRemoteState, initStep, initResult, unheard>>,
         \A p \in Params : IF Informs(m, p) THEN Tells(m, p, state) = server'[p]
                                            ELSE server'[p] = server[p]
  PROVE  Latest' /\ Settled'
<1> DEFINE n == Len(inbox)
<1>0. /\ n \in Nat /\ Len(inbox') = n + 1 /\ inbox'[n + 1] = m
      /\ \A i \in 1 .. n : inbox'[i] = inbox[i] /\ i \in 1 .. Len(inbox')
  BY AppendIs
<1>1. ASSUME NEW p \in Params, NEW i \in 1 .. Len(inbox'), Informs(inbox'[i], p),
             \A j \in 1 .. Len(inbox') : j > i => ~Informs(inbox'[j], p)
      PROVE  Tells(inbox'[i], p, state') = server'[p]
  <2>1. CASE i = n + 1
    BY <1>0, <1>1, <2>1
  <2>2. CASE i # n + 1
    <3>1. i \in 1 .. n /\ n + 1 > i /\ n + 1 \in 1 .. Len(inbox')
      BY <1>0, <2>2
    <3>2. ~Informs(m, p)
      BY <1>0, <1>1, <3>1
    <3>3. Tells(inbox[i], p, state) = server[p]
      BY <1>0, <1>1, <3>1 DEF Latest
    <3> QED
      BY <1>0, <3>1, <3>2, <3>3
  <2> QED
    BY <2>1, <2>2
<1>2. ASSUME NEW p \in Params, \A i \in 1 .. Len(inbox') : ~Informs(inbox'[i], p)
      PROVE  Excused(p)' \/ Base(p)' \in {Undef, server'[p]}
  <2>1. ~Informs(m, p)
    <3>1. n + 1 \in 1 .. Len(inbox')
      BY <1>0
    <3> QED
      BY <1>0, <1>2, <3>1
  <2>2. \A i \in 1 .. n : ~Informs(inbox[i], p)
    BY <1>0, <1>2
  <2>3. Excused(p) \/ Base(p) \in {Undef, server[p]}
    BY <2>2 DEF Settled
  <2>4. Excused(p)' = Excused(p) /\ Base(p)' = Base(p)
    BY DEF Excused, Base, Remote
  <2> QED
    BY <2>1, <2>3, <2>4
<1> QED
  BY <1>1, <1>2, LatestNext, SettledNext

(* Nothing is said.                                                        *)
LEMMA TellsNothing ==
  ASSUME Wires, Latest, Settled, UNCHANGED <<inbox, server>>,
         \A i \in 1 .. Len(inbox) : inbox[i].kind = "saved" =>
            \A p \in inbox[i].params : state'[p] = state[p],
         \A p \in Params : Excused(p)' \/ (~Excused(p) /\ Base(p)' = Base(p))
  PROVE  Latest' /\ Settled'
<1>1. ASSUME NEW p \in Params, NEW i \in 1 .. Len(inbox'), Informs(inbox'[i], p),
             \A j \in 1 .. Len(inbox') : j > i => ~Informs(inbox'[j], p)
      PROVE  Tells(inbox'[i], p, state') = server'[p]
  <2>1. Tells(inbox[i], p, state) = server[p]
    BY <1>1 DEF Latest
  <2> QED
    BY <1>1, <2>1 DEF Tells, Informs
<1>2. ASSUME NEW p \in Params, \A i \in 1 .. Len(inbox') : ~Informs(inbox'[i], p)
      PROVE  Excused(p)' \/ Base(p)' \in {Undef, server'[p]}
  <2>1. Excused(p) \/ Base(p) \in {Undef, server[p]}
    BY <1>2 DEF Settled
  <2> QED
    BY <2>1
<1> QED
  BY <1>1, <1>2, LatestNext, SettledNext

-----------------------------------------------------------------------------
(* What dictionaries hold after the operations on them.                    *)

LEMMA UpdatedAt ==
  ASSUME NEW s \in States, NEW d \in Dictionaries, NEW p \in Params
  PROVE  Updated(s, d)[p] = IF p \in DOMAIN d THEN d[p] ELSE s[p]
<1>1. DOMAIN d \in SUBSET Params /\ d \in [DOMAIN d -> Values \cup {Undef}]
  BY DictionaryIs
<1> QED
  BY <1>1, UpdatedIs

LEMMA SafeAt ==
  ASSUME NEW s \in States, NEW d \in Dictionaries, NEW saving \in SUBSET Params, NEW p \in Params
  PROVE  Safe(s, d, saving)[p] = IF p \in DOMAIN d \ saving THEN d[p] ELSE s[p]
<1> DEFINE ps == DOMAIN d \ saving
           e == Without(d, saving)
<1>1. DOMAIN d \in SUBSET Params /\ d \in [DOMAIN d -> Values]
  BY DictionaryIs
<1>2. e = [x \in ps |-> d[x]]
  BY DEF Without, Restrict
<1>3. e \in [ps -> Values \cup {Undef}] /\ ps \in SUBSET Params /\ \A x \in ps : e[x] = d[x]
  BY <1>1, <1>2
<1>4. Safe(s, d, saving) = Updated(s, e)
  BY DEF Safe
<1> HIDE DEF e
<1>5. Updated(s, e)[p] = IF p \in ps THEN e[p] ELSE s[p]
  BY <1>3, UpdatedIs
<1> QED
  BY <1>3, <1>4, <1>5

LEMMA RestoredAt ==
  ASSUME NEW s \in States, NEW actual \in Dictionaries, NEW saving \in SUBSET Params,
         NEW p \in Params
  PROVE  Restored(s, actual, saving)[p] =
           IF p \in DOMAIN actual \cup saving THEN Held(actual, p) ELSE s[p]
<1> DEFINE ps == DOMAIN actual \cup saving
           d == Merge(actual, [x \in saving |-> Undef])
<1>1. DOMAIN actual \in SUBSET Params /\ actual \in [DOMAIN actual -> Values]
  BY DictionaryIs
<1>2. d = [x \in ps |-> Held(actual, x)]
  BY DEF Merge, Held
<1>3. /\ d \in [ps -> Values \cup {Undef}] /\ ps \in SUBSET Params
      /\ \A x \in ps : d[x] = Held(actual, x)
  BY <1>1, <1>2 DEF Held
<1> HIDE DEF d
<1>4. Updated(s, d)[p] = IF p \in ps THEN d[p] ELSE s[p]
  BY <1>3, UpdatedIs
<1>5. Restored(s, actual, saving) = Updated(s, d)
  BY DEF Restored, d
<1> QED
  BY <1>3, <1>4, <1>5

LEMMA KnownAt ==
  ASSUME NEW s \in States, NEW p \in Params
  PROVE  Held(Known(s), p) = s[p]
<1>1. Known(s) = [x \in {x \in Params : s[x] # Undef} |-> s[x]]
  BY DEF Known, Restrict, States
<1> QED
  BY <1>1 DEF Held

LEMMA MergeAt ==
  ASSUME NEW top, NEW bottom, NEW p
  PROVE  Held(Merge(top, bottom), p) = IF p \in DOMAIN top THEN top[p] ELSE Held(bottom, p)
BY DEF Held, Merge

LEMMA ChangedAt ==
  ASSUME NEW s \in States, NEW actual, NEW saving \in SUBSET Params
  PROVE  /\ DOMAIN Changed(s, actual, saving) \subseteq saving
         /\ \A p \in DOMAIN Changed(s, actual, saving) : Changed(s, actual, saving)[p] = s[p]
         /\ \A p \in saving \ DOMAIN Changed(s, actual, saving) : s[p] = Held(actual, p)
<1>1. Changed(s, actual, saving) =
        [x \in {x \in saving : x \notin DOMAIN actual \/ s[x] # actual[x]} |-> s[x]]
  BY DEF Changed, Restrict
<1> QED
  BY <1>1 DEF Held

LEMMA RemoteIs == \A p : Remote(p) = Held(actualRemoteState, p)
BY DEF Remote, Held

LEMMA RemoteNext == \A p : Remote(p)' = Held(actualRemoteState', p)
BY DEF Remote, Held

-----------------------------------------------------------------------------
(* Jobs and replies.                                                       *)

(* Nothing but events is on its way to us, nothing on its way from us.     *)
Silent == outbox = <<>> /\ \A i \in 1 .. Len(inbox) : inbox[i].kind = "event"

LEMMA IdleIsSilent ==
  ASSUME OneReply, OneRequest, q.serving = None \/ ready
  PROVE  Silent
BY DEF OneReply, OneRequest, Silent

LEMMA SilentSendsNothing ==
  ASSUME Silent
  PROVE  \A p : ~Sending(p)
BY DEF Silent, Sending

LEMMA ReplyTaken ==
  ASSUME Wires, OneReply, inbox # <<>>, Head(inbox).kind # "event", inbox' = Tail(inbox)
  PROVE  /\ IsLive(inbox[1]) /\ outbox = <<>> /\ ~ready
         /\ Head(inbox) = inbox[1] /\ 1 \in 1 .. Len(inbox)
         /\ \A i \in 1 .. Len(inbox') : inbox'[i].kind = "event"
         /\ \A i \in 1 .. Len(inbox) : inbox[i].kind # "event" => i = 1
<1>0. /\ Len(inbox) \in Nat /\ Len(inbox) >= 1
      /\ Head(inbox) = inbox[1]
      /\ \A i \in 1 .. Len(inbox') : inbox'[i] = inbox[i + 1] /\ i + 1 \in 1 .. Len(inbox)
  BY TailIs
<1>1. 1 \in 1 .. Len(inbox) /\ inbox[1].kind # "event"
  BY <1>0
<1>2. inbox[1].job = job /\ q.serving # None /\ ~ready /\ outbox = <<>>
  BY <1>1 DEF OneReply
<1>3. \A i \in 1 .. Len(inbox) : inbox[i].kind # "event" => i = 1
  BY <1>1 DEF OneReply
<1>4. ASSUME NEW i \in 1 .. Len(inbox')
      PROVE  inbox'[i].kind = "event"
  <2>1. inbox'[i] = inbox[i + 1] /\ i + 1 \in 1 .. Len(inbox) /\ i + 1 # 1
    BY <1>0
  <2> QED
    BY <1>3, <2>1
<1> QED
  BY <1>0, <1>1, <1>2, <1>3, <1>4 DEF IsLive

(* What a job begins with.                                                 *)
LEMMA JobBegins ==
  ASSUME outbox = <<>>, \A i \in 1 .. Len(inbox') : inbox'[i].kind = "event",
         NEW q2, q2.serving = None \/ q2.serving = READ \/ q2.serving = WRITE,
         NEW starts \in BOOLEAN, starts <=> q2.serving # None,
         NEW cb, NEW s \in States, NEW actual, NEW saving,
         Launch(q2, starts, cb, s, actual, saving),
         q2.serving = READ => cb = Reader',
         q2.serving = WRITE => /\ saving \in SUBSET Params /\ saving = paramsListToSave'
                               /\ s = state' /\ actual = actualRemoteState'
  PROVE  OneReply' /\ OneRequest' /\ Unsent'
<1>0. q' = q2 /\ OneReply'
  BY DEF Launch, OneReply
<1>1. CASE q2.serving = None
  <2>1. outbox' = <<>>
    BY <1>1 DEF Launch
  <2> QED
    BY <1>0, <1>1, <2>1, QueueFacts DEF OneRequest, Unsent
<1>2. CASE q2.serving = READ
  <2> DEFINE m == [kind |-> "get", job |-> job', cb |-> cb]
  <2>1. ready' = FALSE /\ outbox' = Append(outbox, m)
    BY <1>2, QueueFacts DEF Launch
  <2>2. outbox' = <<m>>
    BY <2>1
  <2>3. m.kind = "get" /\ m.job = job' /\ m.cb = cb
    OBVIOUS
  <2> HIDE DEF m
  <2>4. Len(outbox') = 1 /\ outbox'[1] = m
    BY <2>2
  <2>5. OneRequest'
    BY <1>0, <1>2, <2>1, <2>3, <2>4, QueueFacts DEF OneRequest
  <2> QED
    BY <1>0, <1>2, <2>5, QueueFacts DEF Unsent
<1>3. CASE q2.serving = WRITE
  <2> DEFINE data == Changed(s, actual, saving)
             m == [kind |-> "set", job |-> job', data |-> data]
  <2>1. ready' = (DOMAIN data = {}) /\ outbox' = IF ready' THEN outbox ELSE Append(outbox, m)
    BY <1>3, QueueFacts DEF Launch
  <2>2. /\ DOMAIN data \subseteq saving
        /\ \A p \in DOMAIN data : data[p] = s[p]
        /\ \A p \in saving \ DOMAIN data : s[p] = Held(actual, p)
    BY <1>3, ChangedAt
  <2> HIDE DEF data
  <2>3. m.kind = "set" /\ m.job = job' /\ m.data = data
    OBVIOUS
  <2>4. CASE DOMAIN data = {}
    <3>1. outbox' = <<>>
      BY <2>1, <2>4
    <3>2. OneRequest'
      BY <3>1 DEF OneRequest
    <3>3. Unsent'
      BY <1>3, <2>2, <2>4, RemoteNext DEF Unsent
    <3> QED
      BY <1>0, <3>2, <3>3
  <2>5. CASE DOMAIN data # {}
    <3>1. ~ready' /\ outbox' = Append(outbox, m)
      BY <2>1, <2>5
    <3>2. outbox' = <<m>>
      BY <3>1
    <3> HIDE DEF m
    <3>3. outbox' # <<>> /\ Len(outbox') = 1 /\ outbox'[1] = m
      BY <3>2
    <3>4. OneRequest'
      BY <1>0, <1>3, <2>2, <2>3, <3>1, <3>3, QueueFacts DEF OneRequest
    <3>5. \A p \in DOMAIN data : Sending(p)'
      BY <2>3, <3>3 DEF Sending
    <3>6. Unsent'
      BY <1>3, <2>2, <3>5, RemoteNext DEF Unsent
    <3> QED
      BY <1>0, <3>4, <3>6
  <2> QED
    BY <2>4, <2>5
<1> QED
  BY <1>1, <1>2, <1>3

LEMMA CycleIs ==
  ASSUME IInv
  PROVE  /\ q.serving = WRITE => Listed(WRITE)
         /\ Listed(WRITE) => /\ actualRemoteState \in Dictionaries /\ actualRemoteState # None
                             /\ paramsListToSave \in SUBSET Params /\ paramsListToSave # None
         /\ ~Listed(WRITE) => /\ actualRemoteState = None /\ paramsListToSave = None
                              /\ nextWritePartialState = None
         /\ nextWritePartialState # None => nextWritePartialState \in Dictionaries
         /\ state \in States /\ q \in Queues
<1>1. /\ q.serving = WRITE => Listed(WRITE)
      /\ q \in Queues
  BY QueueFacts DEF Listed, IInv, Wires
<1>2. Cycle /\ CycleMatchesQueue
  BY DEF IInv, Cycle
<1> QED
  BY <1>1, <1>2 DEF Cycle, CycleMatchesQueue, Partials

(* The queue after the end of a job.                                       *)
LEMMA NextJob ==
  ASSUME q \in Queues, q.serving # None
  PROVE  LET y == SQ!Serve(SQ!Release(q)) IN
         /\ y.line = <<>> /\ (y.serving = None \/ y.serving = READ \/ y.serving = WRITE)
         /\ q.line = <<>> => y = Q(<<>>, None)
         /\ y.serving = WRITE => q.serving = READ /\ Listed(WRITE)
         /\ y.serving = READ => q.line = <<READ>>
<1> DEFINE y == SQ!Serve(SQ!Release(q))
<1>1. y = IF q.line = <<>> THEN Q(<<>>, None) ELSE Q(<<>>, Head(q.line))
  BY EndIs
<1>2. q.line \in {<<>>, <<READ>>, <<WRITE>>}
  BY QueueFacts
<1> HIDE DEF y
<1>3. /\ q.line = <<>> => y = Q(<<>>, None)
      /\ q.line = <<READ>> => y = Q(<<>>, READ)
      /\ q.line = <<WRITE>> => y = Q(<<>>, WRITE)
  BY <1>1
<1>4. \A s : Q(<<>>, s).line = <<>> /\ Q(<<>>, s).serving = s
  BY DEF Q
<1>5. q.line = <<WRITE>> => q.serving = READ /\ Listed(WRITE)
  BY QueueFacts DEF Listed
<1>6. y.line = <<>> /\ (y.serving = None \/ y.serving = READ \/ y.serving = WRITE)
  BY <1>2, <1>3, <1>4
<1>7. y.serving = WRITE => q.serving = READ /\ Listed(WRITE)
  BY <1>2, <1>3, <1>4, <1>5, QueueFacts
<1>8. y.serving = READ => q.line = <<READ>>
  BY <1>2, <1>3, <1>4, QueueFacts
<1> QED
  BY <1>3, <1>6, <1>7, <1>8 DEF y

LEMMA NextWriteJob ==
  ASSUME q \in Queues, q.serving = WRITE
  PROVE  LET y == SQ!Ask(SQ!Release(q), WRITE) IN
         /\ y.line \in {<<>>, <<WRITE>>} /\ (y.serving = READ \/ y.serving = WRITE)
         /\ y.serving = READ => q.line = <<READ>>
<1> DEFINE y == SQ!Ask(SQ!Release(q), WRITE)
<1>1. y = IF q.line = <<>> THEN Q(<<>>, WRITE) ELSE Q(<<WRITE>>, READ)
  BY EndIs, QueueFacts
<1>2. q.line # <<>> => q.line = <<READ>>
  BY QueueFacts
<1>3. \A l, s : Q(l, s).line = l /\ Q(l, s).serving = s
  BY DEF Q
<1> HIDE DEF y
<1>4. CASE q.line = <<>>
  <2>1. y.line = <<>> /\ y.serving = WRITE
    BY <1>1, <1>3, <1>4
  <2> QED
    BY <2>1, QueueFacts DEF y
<1>5. CASE q.line # <<>>
  <2>1. y.line = <<WRITE>> /\ y.serving = READ /\ q.line = <<READ>>
    BY <1>1, <1>2, <1>3, <1>5
  <2> QED
    BY <2>1 DEF y
<1> QED
  BY <1>4, <1>5

(* One message fewer or more.                                              *)
LEMMA OneReplyLess ==
  ASSUME Wires, OneReply, inbox # <<>>, inbox' = Tail(inbox),
         UNCHANGED <<job, q, ready, outbox, initStep, paramsListToSave>>
  PROVE  OneReply'
<1>1. \A i \in 1 .. Len(inbox') : inbox'[i] = inbox[i + 1] /\ i + 1 \in 1 .. Len(inbox)
  BY TailIs
<1>2. ASSUME NEW i \in 1 .. Len(inbox'), inbox'[i].kind # "event"
      PROVE  /\ inbox'[i].job = job /\ q.serving # None /\ ~ready /\ outbox = <<>>
             /\ inbox'[i].kind = "got" =>
                  inbox'[i].cb = Reader /\ inbox'[i].data \in [Params -> Values]
             /\ inbox'[i].kind = "saved" => inbox'[i].params \subseteq paramsListToSave
  BY <1>1, <1>2 DEF OneReply
<1>3. ASSUME NEW i \in 1 .. Len(inbox'), NEW j \in 1 .. Len(inbox'),
             inbox'[i].kind # "event", inbox'[j].kind # "event"
      PROVE  i = j
  <2>1. i + 1 = j + 1
    BY <1>1, <1>3 DEF OneReply
  <2> QED
    BY <2>1
<1>4. Reader' = Reader
  BY DEF Reader
<1> QED
  BY <1>2, <1>3, <1>4 DEF OneReply

LEMMA SendingLess ==
  ASSUME Wires, inbox # <<>>, Head(inbox).kind = "event", inbox' = Tail(inbox), outbox' = outbox
  PROVE  \A p : Sending(p)' <=> Sending(p)
<1>0. /\ Len(inbox) \in Nat /\ Len(inbox) >= 1
      /\ Len(inbox') = Len(inbox) - 1
      /\ Head(inbox) = inbox[1]
      /\ \A i \in 1 .. Len(inbox') : inbox'[i] = inbox[i + 1] /\ i + 1 \in 1 .. Len(inbox)
  BY TailIs
<1>1. ASSUME NEW p, NEW i \in 1 .. Len(inbox), inbox[i].kind \in {"saved", "refused"},
             p \in inbox[i].params
      PROVE  Sending(p)'
  <2>1. i # 1
    BY <1>0, <1>1
  <2>2. i - 1 \in 1 .. Len(inbox') /\ (i - 1) + 1 = i
    BY <1>0, <2>1
  <2>3. inbox'[i - 1] = inbox[i]
    BY <1>0, <2>2
  <2> QED
    BY <1>1, <2>2, <2>3 DEF Sending
<1>2. \A p : Sending(p)' => Sending(p)
  BY <1>0 DEF Sending
<1>3. \A p : Sending(p) => Sending(p)'
  BY <1>1 DEF Sending
<1> QED
  BY <1>2, <1>3

LEMMA EventComes ==
  ASSUME Wires, OneReply, NEW m, m.kind = "event", inbox' = Append(inbox, m),
         UNCHANGED <<job, q, ready, outbox, initStep, paramsListToSave>>
  PROVE  OneReply' /\ \A p : Sending(p) => Sending(p)'
<1>0. /\ Len(inbox) \in Nat /\ Len(inbox') = Len(inbox) + 1 /\ inbox'[Len(inbox) + 1] = m
      /\ \A i \in 1 .. Len(inbox) : inbox'[i] = inbox[i] /\ i \in 1 .. Len(inbox')
  BY AppendIs
<1>1. \A i \in 1 .. Len(inbox') : inbox'[i].kind # "event" =>
        i \in 1 .. Len(inbox) /\ inbox'[i] = inbox[i]
  BY <1>0
<1>2. Reader' = Reader
  BY DEF Reader
<1>3. OneReply'
  BY <1>1, <1>2 DEF OneReply
<1>4. \A p : Sending(p) => Sending(p)'
  BY <1>0 DEF Sending
<1> QED
  BY <1>3, <1>4

LEMMA ReplyComes ==
  ASSUME Wires, OneReply, outbox # <<>>, outbox' = <<>>,
         NEW m, m.kind # "event", inbox' = Append(inbox, m),
         m.job = job, q.serving # None, ~ready,
         m.kind = "got" => m.cb = Reader /\ m.data \in [Params -> Values],
         m.kind = "saved" => m.params \subseteq paramsListToSave,
         UNCHANGED <<job, q, ready, initStep, paramsListToSave>>
  PROVE  /\ OneReply'
         /\ m.kind \in {"saved", "refused"} => \A p \in m.params : Sending(p)'
<1>0. /\ Len(inbox) \in Nat /\ Len(inbox') = Len(inbox) + 1 /\ inbox'[Len(inbox) + 1] = m
      /\ \A i \in 1 .. Len(inbox) : inbox'[i] = inbox[i] /\ i \in 1 .. Len(inbox')
  BY AppendIs
<1>1. \A i \in 1 .. Len(inbox) : inbox[i].kind = "event"
  BY DEF OneReply
<1>2. \A i \in 1 .. Len(inbox') : inbox'[i].kind # "event" =>
        i = Len(inbox) + 1 /\ inbox'[i] = m
  BY <1>0, <1>1
<1>3. Reader' = Reader
  BY DEF Reader
<1>4. OneReply'
  BY <1>2, <1>3 DEF OneReply
<1>5. Len(inbox) + 1 \in 1 .. Len(inbox')
  BY <1>0
<1> QED
  BY <1>0, <1>4, <1>5 DEF Sending

(* Nobody has sent what the current writing job holds as the server does.  *)
LEMMA NotSent ==
  ASSUME IInv, Spared, Unsent, q.serving = WRITE, initStep # "continues"
  PROVE  \A p \in Params : ~Sending(p) /\ p \notin unheard => state[p] = Base(p)
<1>1. actualRemoteState # None /\ paramsListToSave \in SUBSET Params
  BY CycleIs
<1>2. \A p \in Params : Base(p) = Remote(p)
  BY <1>1 DEF Base
<1> QED
  BY <1>1, <1>2 DEF Spared, Unsent

(* What Base is.                                                           *)
LEMMA BaseNext ==
  /\ \A p : Base(p)' = IF initStep' = "continues" THEN initResult'[p]
                       ELSE IF actualRemoteState' = None THEN state'[p]
                       ELSE Held(actualRemoteState', p)
  /\ \A p : Base(p) = IF initStep = "continues" THEN initResult[p]
                      ELSE IF actualRemoteState = None THEN state[p]
                      ELSE Held(actualRemoteState, p)
  /\ \A p : Excused(p) <=> initStep # "continues" /\ p \in unheard
  /\ \A p : Excused(p)' <=> initStep' # "continues" /\ p \in unheard'
BY DEF Base, Remote, Held, Excused

LEMMA SparedNext ==
  ASSUME actualRemoteState' # None =>
           \A p \in Params \ paramsListToSave' : state'[p] = Held(actualRemoteState', p)
  PROVE  Spared'
BY DEF Spared, Remote, Held

(* A step that touches nothing of all this.                                *)
LEMMA FollowsStays ==
  ASSUME Follows,
         UNCHANGED <<mode, state, actualRemoteState, paramsListToSave, q, initStep, initResult,
                     job, ready, outbox, inbox, server, unheard>>,
         q.line = <<READ>> => readCb' = readCb
  PROVE  Follows'
<1>1. CanInit' = CanInit /\ Reader' = Reader
  BY DEF CanInit, Reader
<1>2. \A p : Sending(p)' = Sending(p)
  BY DEF Sending
<1>3. \A p : Remote(p)' = Remote(p)
  BY DEF Remote
<1>4. \A p : Base(p)' = Base(p) /\ Excused(p)' = Excused(p)
  BY DEF Base, Remote, Excused
<1>5. \A m, p : Informs(m, p)' = Informs(m, p)
  OBVIOUS
<1>6. InitAlone'
  BY <1>1 DEF Follows, InitAlone
<1>7. OneReply' /\ OneRequest'
  BY <1>1 DEF Follows, OneReply, OneRequest
<1>8. Spared' /\ Unsent'
  BY <1>2, <1>3 DEF Follows, Spared, Unsent
<1>9. Latest'
  BY DEF Follows, Latest
<1>10. Settled'
  BY <1>4 DEF Follows, Settled
<1> QED
  BY <1>6, <1>7, <1>8, <1>9, <1>10 DEF Follows

LEMMA InitIs ==
  ASSUME Follows, mode' = mode
  PROVE  /\ CanInit' = CanInit
         /\ initStep # "no" => CanInit
BY DEF CanInit, Follows, InitAlone

(* An idle queue starts the job at once.                                   *)
LEMMA AskedNow ==
  ASSUME q \in Queues, q.serving = None, NEW id \in {READ, WRITE},
         NEW cb, NEW s, NEW actual, NEW saving,
         Ask(id, cb, s, actual, saving)
  PROVE  /\ q' = Q(<<>>, id) /\ q'.serving = id /\ q'.line = <<>>
         /\ Launch(q', TRUE, cb, s, actual, saving)
<1>1. Launch(SQ!Ask(q, id), TRUE, cb, s, actual, saving)
  BY DEF Ask
<1>2. ~SQ!Has(q, id)
  BY QueueFacts
<1>3. SQ!Ask(q, id) = Q(<<>>, id)
  BY <1>2, AskIs
<1>4. q' = Q(<<>>, id)
  BY <1>1, <1>3 DEF Launch
<1>5. q'.serving = id /\ q'.line = <<>> /\ q'.serving # None
  BY <1>4, QueueFacts DEF Q
<1> QED
  BY <1>1, <1>3, <1>4, <1>5

(* An idle queue starts to read.                                           *)
LEMMA ReadBegins ==
  ASSUME IInv, Silent, q.serving = None, inbox' = inbox,
         NEW cb, cb = Reader', NEW actual, NEW saving,
         Ask(READ, cb, state, actual, saving)
  PROVE  /\ OneReply' /\ OneRequest' /\ Unsent'
         /\ q' = Q(<<>>, READ) /\ q'.serving = READ /\ q'.line = <<>>
<1>1. q \in Queues /\ state \in States
  BY CycleIs
<1>2. /\ q' = Q(<<>>, READ) /\ q'.serving = READ /\ q'.line = <<>>
      /\ Launch(q', TRUE, cb, state, actual, saving)
  BY <1>1, AskedNow
<1>3. outbox = <<>> /\ \A i \in 1 .. Len(inbox') : inbox'[i].kind = "event"
  BY DEF Silent
<1>4. q'.serving = READ /\ q'.serving # WRITE /\ q'.serving # None
  BY <1>2, QueueFacts
<1>5. OneReply' /\ OneRequest' /\ Unsent'
  BY <1>1, <1>2, <1>3, <1>4, JobBegins
<1> QED
  BY <1>2, <1>5

LEMMA StartInitFollows ==
  ASSUME IInv, Follows, StartInit
  PROVE  Follows'
<1>0. /\ initStep = "no" /\ CanInit /\ initStep' = "reading"
      /\ Ask(READ, "init", state, actualRemoteState, paramsListToSave)
      /\ UNCHANGED <<mode, state, actualRemoteState, paramsListToSave, initResult, inbox, server,
                     unheard>>
  BY DEF StartInit, AddReading, bookkeeping
<1>1. q = Q(<<>>, None) /\ q.serving = None
  BY <1>0 DEF Follows, InitAlone, Q
<1>2. Wires /\ state \in States
  BY CycleIs DEF IInv
<1>3. Silent
  BY <1>1, IdleIsSilent DEF Follows
<1>4. "init" = Reader'
  BY <1>0 DEF Reader
<1>5. OneReply' /\ OneRequest' /\ Unsent' /\ q' = Q(<<>>, READ)
  BY <1>0, <1>1, <1>3, <1>4, ReadBegins
<1>6. InitAlone'
  BY <1>0, <1>5, InitIs, QueueFacts DEF InitAlone, Q
<1>7. Spared'
  BY <1>0, SparedNext, RemoteIs DEF Follows, Spared
<1>8. Latest' /\ Settled'
  <2>1. \A p \in Params : Excused(p)' \/ (~Excused(p) /\ Base(p)' = Base(p))
    BY <1>0, BaseNext
  <2> QED
    BY <1>0, <1>2, <2>1, TellsNothing DEF Follows
<1> QED
  BY <1>5, <1>6, <1>7, <1>8 DEF Follows

LEMMA ContinueInitFollows ==
  ASSUME IInv, Follows, ContinueInit
  PROVE  Follows'
<1>0. /\ initStep = "continues" /\ initResult \in [Params -> Values]
      /\ q = Q(<<>>, None) /\ q.serving = None
  BY InitIs DEF ContinueInit, Follows, InitAlone, Q, CanInit
<1>1. initResult \in Dictionaries /\ initResult # None /\ DOMAIN initResult = Params
  BY <1>0, DictionaryIs, NoneIsApart
<1>2. /\ initStep' = "done" /\ state' = Updated(state, initResult)
      /\ unheard' = unheard \ DOMAIN initResult
      /\ UNCHANGED <<mode, actualRemoteState, paramsListToSave, q, job, ready, outbox, inbox,
                     server, initResult>>
  BY <1>1 DEF ContinueInit, bookkeeping
<1>3. Wires /\ state \in States /\ ~Listed(WRITE)
  BY <1>0, CycleIs, QueueFacts DEF IInv, Listed, Q, Wires
<1>4. actualRemoteState = None
  BY <1>3, CycleIs
<1>5. Silent
  BY <1>0, IdleIsSilent DEF Follows
<1>6. \A p \in Params : state'[p] = initResult[p]
  BY <1>1, <1>2, <1>3, UpdatedAt
<1>7. InitAlone'
  BY <1>0, <1>2, InitIs DEF InitAlone, Q
<1>8. OneReply' /\ OneRequest' /\ Unsent'
  BY <1>0, <1>2, <1>5, QueueFacts DEF OneReply, OneRequest, Unsent, Silent
<1>9. Spared'
  BY <1>2, <1>4, SparedNext
<1>10. Latest' /\ Settled'
  <2>1. \A p \in Params : ~Excused(p) /\ Base(p)' = Base(p)
    BY <1>0, <1>2, <1>4, <1>6, BaseNext
  <2>2. \A i \in 1 .. Len(inbox) : inbox[i].kind # "saved"
    BY <1>5 DEF Silent
  <2> QED
    BY <1>2, <1>3, <2>1, <2>2, TellsNothing DEF Follows
<1> QED
  BY <1>7, <1>8, <1>9, <1>10 DEF Follows

(* Who may call, once init() is done.                                      *)
LEMMA CallerIs ==
  ASSUME ~CallsDuringInit, Follows, NEW u, MayCall(u)
  PROVE  /\ CanInit => initStep = "done"
         /\ ~CanInit => initStep = "no"
         /\ Reader = "load"
BY DEF MayCall, Follows, InitAlone, Reader

(* A queue that serves somebody only notes the request.                    *)
LEMMA AskedLater ==
  ASSUME q \in Queues, q.serving # None, NEW id \in {READ, WRITE},
         NEW cb, NEW s, NEW actual, NEW saving, ready \in BOOLEAN, ready => q.serving = WRITE,
         Ask(id, cb, s, actual, saving)
  PROVE  /\ q'.serving = q.serving
         /\ UNCHANGED <<job, ready, outbox>>
         /\ q'.line \in {q.line, <<id>>}
         /\ q.serving = READ /\ id = READ => q' = q
<1>1. /\ q' = SQ!Ask(q, id) /\ UNCHANGED <<job, outbox>>
      /\ ready' = (ready /\ SQ!Ask(q, id).serving # None)
  BY DEF Ask, Launch
<1>2. SQ!Ask(q, id) = IF SQ!Has(q, id) THEN q ELSE Q(<<id>>, q.serving)
  BY AskIs
<1>3. q.serving = READ /\ id = READ => SQ!Has(q, id)
  BY QueueFacts
<1>4. SQ!Ask(q, id).serving = q.serving /\ SQ!Ask(q, id).line \in {q.line, <<id>>}
  BY <1>2 DEF Q
<1>5. ready' = ready
  BY <1>1, <1>4, Zenon
<1> QED
  BY <1>1, <1>2, <1>3, <1>4, <1>5

LEMMA LoadFollows ==
  ASSUME ~CallsDuringInit, IInv, Follows, NEW u \in Users, Load(u)
  PROVE  Follows'
<1>0. /\ MayCall(u)
      /\ UNCHANGED <<mode, state, actualRemoteState, paramsListToSave, initStep, initResult,
                     inbox, server, unheard>>
  BY DEF Load, bookkeeping
<1>1. CASE ~mode.getter
  <2>1. UNCHANGED <<readCb, q, job, ready, outbox>>
    BY <1>1 DEF Load
  <2> QED
    BY <1>0, <2>1, FollowsStays
<1>2. CASE mode.getter
  <2>1. /\ readCb' = IF q.serving = READ THEN readCb ELSE "load"
        /\ Ask(READ, "load", state, actualRemoteState, paramsListToSave)
    BY <1>2 DEF Load, AddReading
  <2>2. CanInit /\ initStep = "done" /\ Reader = "load" /\ Reader' = "load"
    BY <1>0, <1>2, CallerIs DEF CanInit, Reader
  <2>3. Wires /\ q \in Queues /\ state \in States
    BY CycleIs DEF IInv
  <2>4. Spared'
    BY <1>0, SparedNext, RemoteIs DEF Follows, Spared
  <2>5. Latest' /\ Settled'
    <3>1. \A p \in Params : Excused(p)' \/ (~Excused(p) /\ Base(p)' = Base(p))
      BY <1>0, BaseNext
    <3> QED
      BY <1>0, <2>3, <3>1, TellsNothing DEF Follows
  <2>6. CASE q.serving = None
    <3>1. Silent
      BY <2>6, IdleIsSilent DEF Follows
    <3>2. OneReply' /\ OneRequest' /\ Unsent' /\ q'.line = <<>>
      BY <1>0, <2>1, <2>2, <2>6, <3>1, ReadBegins
    <3>3. InitAlone'
      BY <1>0, <2>2, <3>2, InitIs DEF InitAlone
    <3> QED
      BY <2>4, <2>5, <3>2, <3>3 DEF Follows
  <2>7. CASE q.serving = READ
    <3>1. q' = q /\ UNCHANGED <<job, ready, outbox, readCb>>
      BY <2>1, <2>3, <2>7, AskedLater, QueueFacts DEF Wires
    <3> QED
      BY <1>0, <3>1, FollowsStays
  <2>8. CASE q.serving = WRITE
    <3>1. q'.serving = q.serving /\ UNCHANGED <<job, ready, outbox>> /\ readCb' = "load"
      BY <2>1, <2>3, <2>8, AskedLater, QueueFacts DEF Wires
    <3>2. OneReply' /\ OneRequest'
      BY <1>0, <2>2, <3>1 DEF Follows, OneReply, OneRequest
    <3>3. Unsent'
      BY <1>0, <3>1 DEF Follows, Unsent, Sending, Remote
    <3>4. InitAlone'
      BY <1>0, <2>2, <3>1, InitIs DEF InitAlone
    <3> QED
      BY <2>4, <2>5, <3>2, <3>3, <3>4 DEF Follows
  <2> QED
    BY <2>3, <2>6, <2>7, <2>8, QueueFacts
<1> QED
  BY <1>1, <1>2

(* write() begins a cycle: what the state was until now is remembered.     *)
LEMMA NewCycleFollows ==
  ASSUME IInv, Follows, NEW u \in Users, NEW partial \in Partials,
         StartNewWriteJob(u, partial), ~Listed(WRITE), Reader = "load",
         initStep # "reading", initStep # "continues", CanInit => initStep = "done",
         UNCHANGED <<mode, readCb, initStep, initResult, inbox, server, unheard>>
  PROVE  Follows'
<1>0. /\ actualRemoteState = None /\ paramsListToSave = None /\ nextWritePartialState = None
      /\ state \in States /\ q \in Queues /\ Wires
  BY CycleIs DEF IInv
<1>1. /\ actualRemoteState' = Known(state)
      /\ paramsListToSave' = DOMAIN partial
      /\ state' = Updated(state, partial)
      /\ Ask(WRITE, readCb, state', actualRemoteState', paramsListToSave')
  BY <1>0 DEF StartNewWriteJob
<1>2. partial \in Dictionaries /\ DOMAIN partial \in SUBSET Params
  BY DictionaryIs DEF Partials
<1>3. state' \in States /\ actualRemoteState' # None
  BY <1>0, <1>1, <1>2, UpdatedByIs, KnownIs, NoneIsApart
<1>4. \A p \in Params : Held(actualRemoteState', p) = state[p]
  BY <1>0, <1>1, KnownAt
<1>5. \A p \in Params \ paramsListToSave' : state'[p] = state[p]
  BY <1>0, <1>1, <1>2, UpdatedAt
<1>6. Spared'
  BY <1>4, <1>5, SparedNext
<1>7. q.serving # WRITE
  BY CycleIs
<1>8. \A i \in 1 .. Len(inbox) : inbox[i].kind # "saved"
  BY <1>0, <1>7, KindsMatch DEF Follows
<1>9. Latest' /\ Settled'
  <2>1. \A p \in Params : Excused(p)' \/ (~Excused(p) /\ Base(p)' = Base(p))
    BY <1>0, <1>3, <1>4, BaseNext
  <2> QED
    BY <1>0, <1>8, <2>1, TellsNothing DEF Follows
<1>10. Reader' = "load"
  BY DEF Reader
<1>11. CASE q.serving = None
  <2>1. /\ q'.serving = WRITE /\ q'.line = <<>>
        /\ Launch(q', TRUE, readCb, state', actualRemoteState', paramsListToSave')
    BY <1>0, <1>1, <1>11, AskedNow
  <2>2. Silent
    BY <1>11, IdleIsSilent DEF Follows
  <2>3. outbox = <<>> /\ \A i \in 1 .. Len(inbox') : inbox'[i].kind = "event"
    BY <2>2 DEF Silent
  <2>4. q'.serving # READ /\ q'.serving # None
    BY <2>1, QueueFacts
  <2>5. OneReply' /\ OneRequest' /\ Unsent'
    BY <1>1, <1>2, <1>3, <2>1, <2>3, <2>4, JobBegins
  <2>6. InitAlone'
    BY <2>1, InitIs DEF Follows, InitAlone
  <2> QED
    BY <1>6, <1>9, <2>5, <2>6 DEF Follows
<1>12. CASE q.serving = READ
  <2>1. /\ q'.serving = q.serving /\ UNCHANGED <<job, ready, outbox>>
        /\ q'.line = q.line \/ q'.line = <<WRITE>>
    BY <1>0, <1>1, <1>12, AskedLater, QueueFacts DEF Wires
  <2>2. OneReply'
    BY <1>8, <1>10, <2>1 DEF Follows, OneReply
  <2>3. outbox # <<>> => outbox[1].kind # "set"
    BY <1>0, <1>7, KindsMatch DEF Follows
  <2>4. OneRequest'
    BY <1>10, <2>1, <2>3 DEF Follows, OneRequest
  <2>5. Unsent'
    BY <1>7, <2>1 DEF Unsent
  <2>6. <<WRITE>> # <<READ>>
    BY QueueFacts
  <2>7. InitAlone'
    BY <2>1, <2>6, InitIs DEF Follows, InitAlone
  <2> QED
    BY <1>6, <1>9, <2>2, <2>4, <2>5, <2>7 DEF Follows
<1> QED
  BY <1>0, <1>7, <1>11, <1>12, QueueFacts

LEMMA WriteFollows ==
  ASSUME ~CallsDuringInit, IInv, Follows, mode.setter,
         NEW u \in Users, NEW partial \in Partials, Write(u, partial)
  PROVE  Follows'
<1>0. /\ MayCall(u)
      /\ UNCHANGED <<mode, readCb, initStep, initResult, inbox, server, unheard>>
  BY DEF Write, initVars
<1>1. /\ CanInit => initStep = "done"
      /\ ~CanInit => initStep = "no"
      /\ Reader = "load"
  BY <1>0, CallerIs
<1>2. q \in Queues /\ state \in States /\ Wires
  BY CycleIs DEF IInv
<1>3. CASE q.serving = WRITE
  <2>1. UNCHANGED <<state, actualRemoteState, paramsListToSave, q, job, ready, outbox>>
    BY <1>2, <1>3, WaitingIs, QueueFacts DEF Write
  <2> QED
    BY <1>0, <2>1, FollowsStays
<1>4. CASE q.serving # WRITE /\ WRITE \in SQ!Waiting(q)
  <2>1. /\ paramsListToSave' = paramsListToSave \cup DOMAIN partial
        /\ state' = Updated(state, partial)
        /\ UNCHANGED <<actualRemoteState, q, job, ready, outbox>>
    BY <1>4 DEF Write
  <2>2. Listed(WRITE)
    BY <1>2, <1>4, WaitingIs, QueueFacts DEF Listed
  <2>3. actualRemoteState # None
    BY <2>2, CycleIs
  <2>4. partial \in Dictionaries
    BY DEF Partials
  <2>5. \A i \in 1 .. Len(inbox) : inbox[i].kind # "saved"
    BY <1>2, <1>4, KindsMatch DEF Follows
  <2>6. outbox # <<>> => outbox[1].kind # "set"
    BY <1>2, <1>4, KindsMatch DEF Follows
  <2>7. Reader' = Reader
    BY <1>0 DEF Reader
  <2>8. OneReply'
    BY <1>0, <2>1, <2>5, <2>7 DEF Follows, OneReply
  <2>9. OneRequest'
    BY <1>0, <2>1, <2>6, <2>7 DEF Follows, OneRequest
  <2>10. Unsent'
    BY <1>4, <2>1 DEF Unsent
  <2>11. Spared'
    <3>1. \A p \in Params \ paramsListToSave' : state'[p] = Remote(p)
      BY <1>2, <2>1, <2>3, <2>4, UpdatedAt DEF Follows, Spared
    <3> QED
      BY <2>1, <3>1, RemoteIs, SparedNext
  <2>12. Latest' /\ Settled'
    <3>1. \A p \in Params : Excused(p)' \/ (~Excused(p) /\ Base(p)' = Base(p))
      BY <1>0, <2>1, <2>3, BaseNext
    <3> QED
      BY <1>0, <1>2, <2>5, <3>1, TellsNothing DEF Follows
  <2>13. InitAlone'
    BY <1>0, <2>1, InitIs DEF Follows, InitAlone
  <2> QED
    BY <2>8, <2>9, <2>10, <2>11, <2>12, <2>13 DEF Follows
<1>5. CASE q.serving # WRITE /\ WRITE \notin SQ!Waiting(q)
  <2>1. StartNewWriteJob(u, partial)
    BY <1>5 DEF Write
  <2>2. ~Listed(WRITE)
    BY <1>5 DEF Listed, SQ!Has
  <2>3. initStep # "reading" /\ initStep # "continues"
    BY <1>1
  <2> QED
    BY <1>0, <1>1, <2>1, <2>2, <2>3, NewCycleFollows
<1> QED
  BY <1>3, <1>4, <1>5

(* Another job, or none, after the current one.                            *)
LEMMA OtherBegins ==
  ASSUME IInv, Follows, q.serving # None, outbox = <<>>,
         \A i \in 1 .. Len(inbox') : inbox'[i].kind = "event",
         NEW s \in States, NEW actual, NEW saving,
         LET y == SQ!Serve(SQ!Release(q))
         IN  Launch(y, y.serving # None, readCb, s, actual, saving),
         initStep' = initStep \/ initStep = "reading", initStep' # "reading",
         q.serving = READ => /\ saving = paramsListToSave /\ paramsListToSave' = paramsListToSave
                             /\ s = state' /\ actual = actualRemoteState'
  PROVE  /\ OneReply' /\ OneRequest' /\ Unsent'
         /\ q'.line = <<>>
         /\ q.line = <<>> => q' = Q(<<>>, None)
<1> DEFINE y == SQ!Serve(SQ!Release(q))
<1>0. /\ Launch(y, y.serving # None, readCb, s, actual, saving)
      /\ q' = y
  BY DEF Launch
<1>1. /\ y.line = <<>> /\ (y.serving = None \/ y.serving = READ \/ y.serving = WRITE)
      /\ q.line = <<>> => y = Q(<<>>, None)
      /\ y.serving = WRITE => q.serving = READ /\ Listed(WRITE)
      /\ y.serving = READ => q.line = <<READ>>
  BY CycleIs, NextJob
<1> HIDE DEF y
<1>2. y.serving = READ => readCb = Reader'
  BY <1>1 DEF Follows, InitAlone, Reader
<1>3. y.serving = WRITE => /\ saving \in SUBSET Params /\ saving = paramsListToSave'
                           /\ s = state' /\ actual = actualRemoteState'
  BY <1>1, CycleIs
<1>4. OneReply' /\ OneRequest' /\ Unsent'
  <2> DEFINE starts == y.serving # None
  <2>1. starts \in BOOLEAN /\ (starts <=> y.serving # None)
        /\ Launch(y, starts, readCb, s, actual, saving)
    BY <1>0
  <2> HIDE DEF starts
  <2> QED
    BY <1>1, <1>2, <1>3, <2>1, JobBegins
<1> QED
  BY <1>0, <1>1, <1>4

(* A reading job that failed changes nothing.                              *)
LEMMA ReadFailsFollows ==
  ASSUME IInv, Follows, q.serving = READ, ReadFails,
         inbox # <<>>, Head(inbox).kind = "refused", inbox' = Tail(inbox),
         UNCHANGED <<mode, server, unheard>>
  PROVE  Follows'
<1>0. /\ EndReadJob(state, actualRemoteState, TRUE)
      /\ UNCHANGED <<state, actualRemoteState, paramsListToSave, initResult>>
  BY DEF ReadFails, bookkeeping
<1>1. Wires /\ state \in States /\ q.serving # None
  BY CycleIs, QueueFacts DEF IInv
<1>2. /\ outbox = <<>> /\ Head(inbox) = inbox[1]
      /\ \A i \in 1 .. Len(inbox') : inbox'[i].kind = "event"
  BY <1>1, ReplyTaken DEF Follows
<1>3. /\ initStep' = (IF initStep # "reading" THEN initStep ELSE "failed")
      /\ LET y == SQ!Serve(SQ!Release(q))
         IN  Launch(y, y.serving # None, readCb, state, actualRemoteState, paramsListToSave)
  BY <1>0 DEF EndReadJob
<1>4. initStep' # "reading" /\ (initStep' = initStep \/ initStep = "reading")
  BY <1>3
<1>5. /\ OneReply' /\ OneRequest' /\ Unsent'
      /\ q'.line = <<>>
      /\ q.line = <<>> => q' = Q(<<>>, None)
  BY <1>0, <1>1, <1>2, <1>3, <1>4, OtherBegins
<1>6. /\ initStep = "reading" => q' = Q(<<>>, None)
      /\ CanInit => initStep \notin {"no", "continues", "failed"}
      /\ initStep # "continues"
  BY <1>1, <1>5, InitIs DEF Follows, InitAlone, Q
<1>7. InitAlone'
  BY <1>3, <1>5, <1>6, InitIs DEF Follows, InitAlone
<1>8. Spared'
  BY <1>0, SparedNext, RemoteIs DEF Follows, Spared
<1>9. Latest' /\ Settled'
  <2>1. \A p \in Params : ~Informs(inbox[1], p)
    BY <1>2 DEF Informs
  <2>2. \A p \in Params : Excused(p)' \/ (~Excused(p) /\ Base(p)' = Base(p))
    BY <1>0, <1>3, <1>6, BaseNext
  <2>3. \A i \in 1 .. Len(inbox') : inbox'[i].kind # "saved"
    BY <1>2
  <2> QED
    BY <1>1, <2>1, <2>2, <2>3, HeadTaken DEF Follows
<1> QED
  BY <1>5, <1>7, <1>8, <1>9 DEF Follows

(* A cycle that failed leaves what the server held.                        *)
LEMMA WriteFailsFollows ==
  ASSUME IInv, Follows, q.serving = WRITE, EndWriteJob(TRUE),
         inbox # <<>>, Head(inbox).kind = "refused", inbox' = Tail(inbox),
         UNCHANGED <<mode, server, unheard>>
  PROVE  Follows'
<1>0. /\ state' = Restored(state, actualRemoteState, paramsListToSave)
      /\ actualRemoteState' = None
      /\ LET y == SQ!Serve(SQ!Release(q))
         IN  Launch(y, y.serving # None, readCb, state', None, None)
      /\ UNCHANGED <<initStep, initResult>>
  BY DEF EndWriteJob, WriteError, initVars
<1>1. /\ Wires /\ state \in States /\ q.serving # None /\ q.serving # READ
      /\ actualRemoteState \in Dictionaries /\ actualRemoteState # None
      /\ paramsListToSave \in SUBSET Params
  BY CycleIs, QueueFacts DEF IInv
<1>2. /\ outbox = <<>> /\ Head(inbox) = inbox[1]
      /\ \A i \in 1 .. Len(inbox') : inbox'[i].kind = "event"
  BY <1>1, ReplyTaken DEF Follows
<1>3. /\ initStep # "reading" /\ initStep # "continues"
      /\ CanInit => initStep \notin {"no", "continues", "failed"}
  BY <1>1, InitIs DEF Follows, InitAlone, Q
<1>4. state' \in States
  BY <1>0, <1>1, RestoredIs
<1>5. OneReply' /\ OneRequest' /\ Unsent' /\ q'.line = <<>>
  BY <1>0, <1>1, <1>2, <1>3, <1>4, OtherBegins
<1>6. InitAlone'
  BY <1>0, <1>3, <1>5, InitIs DEF Follows, InitAlone
<1>7. Spared'
  BY <1>0, SparedNext
<1>8. ASSUME NEW p \in Params
      PROVE  state'[p] = Held(actualRemoteState, p)
  <2>1. state'[p] = IF p \in DOMAIN actualRemoteState \cup paramsListToSave
                    THEN Held(actualRemoteState, p) ELSE state[p]
    BY <1>0, <1>1, RestoredAt
  <2>2. p \notin paramsListToSave => state[p] = Held(actualRemoteState, p)
    BY <1>1, RemoteIs DEF Follows, Spared
  <2> QED
    BY <2>1, <2>2
<1>9. Latest' /\ Settled'
  <2>1. \A p \in Params : ~Informs(inbox[1], p)
    BY <1>2 DEF Informs
  <2>2. \A p \in Params : Excused(p)' \/ (~Excused(p) /\ Base(p)' = Base(p))
    BY <1>0, <1>1, <1>3, <1>8, BaseNext
  <2>3. \A i \in 1 .. Len(inbox') : inbox'[i].kind # "saved"
    BY <1>2
  <2> QED
    BY <1>1, <2>1, <2>2, <2>3, HeadTaken DEF Follows
<1> QED
  BY <1>5, <1>6, <1>7, <1>9 DEF Follows

LEMMA RefusalArrivesFollows ==
  ASSUME IInv, Follows, RefusalArrives
  PROVE  Follows'
<1>0. /\ inbox # <<>> /\ Head(inbox).kind = "refused" /\ inbox' = Tail(inbox)
      /\ UNCHANGED <<mode, server, unheard>>
  BY DEF RefusalArrives, Arrives
<1>1. IsLive(Head(inbox)) /\ q.serving # None
  BY <1>0, ReplyTaken DEF IInv, Follows, IsLive
<1>2. CASE q.serving = READ
  BY <1>0, <1>1, <1>2, ReadFailsFollows DEF RefusalArrives
<1>3. CASE q.serving # READ
  <2>1. q.serving = WRITE
    BY <1>1, <1>3, QueueFacts DEF IInv, Wires
  <2> QED
    BY <1>0, <1>1, <1>3, <2>1, WriteFailsFollows DEF RefusalArrives
<1> QED
  BY <1>2, <1>3

(* A cycle that succeeded: what was being saved is what the server held.   *)
LEMMA SuccessFollows ==
  ASSUME IInv, Follows, q.serving = WRITE, EndWriteJob(FALSE), outbox = <<>>,
         \A i \in 1 .. Len(inbox') : inbox'[i].kind = "event", mode' = mode
  PROVE  /\ InitAlone' /\ OneReply' /\ OneRequest' /\ Spared' /\ Unsent'
         /\ initStep' = initStep /\ initStep # "continues"
         /\ \A p \in Params : Base(p)' = state[p]
<1>0. WriteSuccess /\ UNCHANGED <<readCb, initStep, initResult>>
  BY DEF EndWriteJob, initVars
<1>1. Wires /\ state \in States /\ q \in Queues /\ q.serving # None /\ q.serving # READ
  BY CycleIs, QueueFacts DEF IInv
<1>2. /\ initStep # "reading" /\ initStep # "continues"
      /\ CanInit => initStep \notin {"no", "continues", "failed"}
  BY <1>1, InitIs DEF Follows, InitAlone, Q
<1>3. CASE nextWritePartialState = None
  <2>1. /\ actualRemoteState' = None /\ state' = state
        /\ LET y == SQ!Serve(SQ!Release(q))
           IN  Launch(y, y.serving # None, readCb, state, None, None)
    BY <1>0, <1>3 DEF WriteSuccess
  <2>2. OneReply' /\ OneRequest' /\ Unsent' /\ q'.line = <<>>
    BY <1>0, <1>1, <1>2, <2>1, OtherBegins
  <2>3. InitAlone'
    BY <1>0, <1>2, <2>2, InitIs DEF Follows, InitAlone
  <2>4. \A p \in Params : Base(p)' = state[p]
    BY <1>0, <1>2, <2>1, BaseNext
  <2> QED
    BY <1>0, <1>2, <2>1, <2>2, <2>3, <2>4, SparedNext
<1>4. CASE nextWritePartialState # None
  <2> DEFINE data == nextWritePartialState
             y == SQ!Ask(SQ!Release(q), WRITE)
  <2>1. /\ actualRemoteState' = Known(state)
        /\ paramsListToSave' = DOMAIN data
        /\ state' = Updated(state, data)
        /\ Launch(y, y.serving # None, readCb, state', Known(state), DOMAIN data)
        /\ q' = y
    BY <1>0, <1>4 DEF WriteSuccess, Launch
  <2>2. /\ y.line = <<>> \/ y.line = <<WRITE>>
        /\ y.serving = READ \/ y.serving = WRITE
        /\ y.serving = READ => q.line = <<READ>>
    BY <1>1, NextWriteJob
  <2>3. data \in Dictionaries /\ DOMAIN data \in SUBSET Params
    BY <1>4, CycleIs, DictionaryIs
  <2> HIDE DEF y, data
  <2>4. state' \in States /\ actualRemoteState' # None
    BY <1>1, <2>1, <2>3, UpdatedByIs, KnownIs, NoneIsApart
  <2>5. \A p \in Params : Held(actualRemoteState', p) = state[p]
    BY <1>1, <2>1, KnownAt
  <2>6. \A p \in Params \ paramsListToSave' : state'[p] = state[p]
    BY <1>1, <2>1, <2>3, UpdatedAt
  <2>7. Spared'
    BY <2>5, <2>6, SparedNext
  <2>8. \A p \in Params : Base(p)' = state[p]
    BY <1>0, <1>2, <2>4, <2>5, BaseNext
  <2>9. y.serving = READ => readCb = Reader'
    BY <1>0, <1>2, <2>2 DEF Follows, InitAlone, Reader
  <2>10. OneReply' /\ OneRequest' /\ Unsent'
    <3> DEFINE starts == y.serving # None
    <3>1. starts \in BOOLEAN /\ (starts <=> y.serving # None)
          /\ Launch(y, starts, readCb, state', Known(state), DOMAIN data)
      BY <2>1
    <3> HIDE DEF starts
    <3> QED
      BY <2>1, <2>2, <2>3, <2>4, <2>9, <3>1, JobBegins
  <2>11. <<WRITE>> # <<READ>> /\ <<>> # <<READ>>
    BY QueueFacts
  <2>12. InitAlone'
    BY <1>0, <1>2, <2>1, <2>2, <2>11, InitIs DEF Follows, InitAlone
  <2> QED
    BY <1>0, <1>2, <2>7, <2>8, <2>10, <2>12
<1> QED
  BY <1>3, <1>4

LEMMA SavedArrivesFollows ==
  ASSUME IInv, Follows, SavedArrives
  PROVE  Follows'
<1>0. /\ inbox # <<>> /\ Head(inbox).kind = "saved" /\ inbox' = Tail(inbox)
      /\ UNCHANGED <<mode, server>>
  BY DEF SavedArrives, Arrives
<1>1. /\ IsLive(Head(inbox)) /\ outbox = <<>>
      /\ Head(inbox) = inbox[1] /\ 1 \in 1 .. Len(inbox)
      /\ \A i \in 1 .. Len(inbox') : inbox'[i].kind = "event"
      /\ \A i \in 1 .. Len(inbox) : inbox[i].kind # "event" => i = 1
  BY <1>0, ReplyTaken DEF IInv, Follows
<1>2. EndWriteJob(FALSE) /\ unheard' = unheard \ inbox[1].params
  BY <1>1 DEF SavedArrives
<1>3. q.serving = WRITE
  BY <1>0, <1>1, KindsMatch DEF IInv, Follows
<1>4. /\ InitAlone' /\ OneReply' /\ OneRequest' /\ Spared' /\ Unsent'
      /\ initStep' = initStep /\ initStep # "continues"
      /\ \A p \in Params : Base(p)' = state[p]
  BY <1>0, <1>1, <1>2, <1>3, SuccessFollows
<1>5. ASSUME NEW p \in Params
      PROVE  IF Informs(inbox[1], p)
             THEN Excused(p)' \/ Base(p)' = Tells(inbox[1], p, state)
             ELSE Excused(p)' \/ (~Excused(p) /\ Base(p)' = Base(p))
  <2>1. CASE Informs(inbox[1], p)
    <3>1. Tells(inbox[1], p, state) = state[p]
      BY <1>0, <1>1 DEF Tells
    <3> QED
      BY <1>4, <2>1, <3>1
  <2>2. CASE ~Informs(inbox[1], p)
    <3>1. p \notin inbox[1].params
      BY <1>0, <1>1, <2>2 DEF Informs
    <3>2. ~Sending(p)
      BY <1>1, <3>1 DEF Sending
    <3>3. p \in unheard \/ state[p] = Base(p)
      BY <1>3, <1>4, <3>2, NotSent DEF Follows
    <3>4. p \in unheard' <=> p \in unheard
      BY <1>2, <3>1
    <3> QED
      BY <1>4, <2>2, <3>3, <3>4, BaseNext
  <2> QED
    BY <2>1, <2>2
<1>6. \A i \in 1 .. Len(inbox') : inbox'[i].kind # "saved"
  BY <1>1
<1>7. Latest' /\ Settled'
  BY <1>0, <1>5, <1>6, HeadTaken DEF IInv, Follows
<1> QED
  BY <1>4, <1>7 DEF Follows

LEMMA EmptyWriteEndsFollows ==
  ASSUME IInv, Follows, EmptyWriteEnds
  PROVE  Follows'
<1>0. /\ ready /\ EndWriteJob(FALSE) /\ UNCHANGED <<mode, inbox, server, unheard>>
      /\ q.serving = WRITE
  BY DEF EmptyWriteEnds, IInv, Wires
<1>1. Silent
  BY <1>0, IdleIsSilent DEF Follows
<1>2. outbox = <<>> /\ \A i \in 1 .. Len(inbox') : inbox'[i].kind = "event"
  BY <1>0, <1>1 DEF Silent
<1>3. /\ InitAlone' /\ OneReply' /\ OneRequest' /\ Spared' /\ Unsent'
      /\ initStep' = initStep /\ initStep # "continues"
      /\ \A p \in Params : Base(p)' = state[p]
  BY <1>0, <1>2, SuccessFollows
<1>4. \A p \in Params : p \in unheard \/ state[p] = Base(p)
  BY <1>0, <1>1, <1>3, NotSent, SilentSendsNothing DEF Follows
<1>5. \A p \in Params : Excused(p)' \/ (~Excused(p) /\ Base(p)' = Base(p))
  BY <1>0, <1>3, <1>4, BaseNext
<1>6. \A i \in 1 .. Len(inbox) : inbox[i].kind # "saved"
  BY <1>1 DEF Silent
<1>7. Latest' /\ Settled'
  BY <1>0, <1>5, <1>6, TellsNothing DEF IInv, Follows
<1> QED
  BY <1>3, <1>7 DEF Follows

(* What is loaded is what the server held when it was asked.               *)
LEMMA StateArrivesFollows ==
  ASSUME IInv, Follows, StateArrives
  PROVE  Follows'
<1> DEFINE data == inbox[1].data
<1>0. /\ inbox # <<>> /\ Head(inbox).kind = "got" /\ inbox' = Tail(inbox)
      /\ initStep # "continues"
      /\ UNCHANGED <<mode, server, paramsListToSave>>
  BY DEF StateArrives, Arrives, NoReactionWaits
<1>1. /\ IsLive(Head(inbox)) /\ outbox = <<>>
      /\ Head(inbox) = inbox[1] /\ 1 \in 1 .. Len(inbox)
      /\ \A i \in 1 .. Len(inbox') : inbox'[i].kind = "event"
  BY <1>0, ReplyTaken DEF IInv, Follows
<1>2. Wires /\ state \in States /\ q.serving # None /\ q.serving = READ
  BY <1>0, <1>1, CycleIs, KindsMatch, QueueFacts DEF IInv, Follows
<1>3. inbox[1].cb = Reader /\ data \in [Params -> Values]
  BY <1>0, <1>1 DEF Follows, OneReply
<1> HIDE DEF data
<1>4. data \in Dictionaries /\ DOMAIN data = Params
  BY <1>3, DictionaryIs
<1>5. /\ EndReadJob(state', actualRemoteState', FALSE)
      /\ IF initStep = "reading"
         THEN initResult' = data /\ UNCHANGED <<state, actualRemoteState, unheard>>
         ELSE /\ ApplyLoaded(data) /\ unheard' = unheard \ DOMAIN data
              /\ UNCHANGED initResult
  BY <1>1, <1>3 DEF StateArrives, Reader, data
<1>6. /\ initStep' = (IF initStep # "reading" THEN initStep ELSE "continues")
      /\ LET y == SQ!Serve(SQ!Release(q))
         IN  Launch(y, y.serving # None, readCb, state', actualRemoteState', paramsListToSave)
  BY <1>5 DEF EndReadJob
<1>7. initStep' # "reading" /\ (initStep' = initStep \/ initStep = "reading")
  BY <1>6
<1>8. state' \in States
  BY LoadedIs
<1>9. /\ OneReply' /\ OneRequest' /\ Unsent'
      /\ q'.line = <<>>
      /\ q.line = <<>> => q' = Q(<<>>, None)
  BY <1>0, <1>1, <1>2, <1>6, <1>7, <1>8, OtherBegins
<1>10. /\ initStep = "reading" => q' = Q(<<>>, None) /\ q = Q(<<>>, READ)
       /\ CanInit => initStep \notin {"no", "failed"}
  BY <1>2, <1>9, InitIs, QueueFacts DEF Follows, InitAlone, Q
<1>11. \A p \in Params : Tells(inbox[1], p, state) = data[p]
  BY <1>0, <1>1 DEF Tells, data
<1>12. \A i \in 1 .. Len(inbox') : inbox'[i].kind # "saved"
  BY <1>1
<1>13. CASE initStep = "reading"
  <2>1. initStep' = "continues" /\ initResult' = data
        /\ UNCHANGED <<state, actualRemoteState, unheard>>
    BY <1>5, <1>6, <1>13
  <2>2. InitAlone'
    BY <1>0, <1>3, <1>9, <1>10, <1>13, <2>1, InitIs DEF Follows, InitAlone
  <2>3. Spared'
    BY <1>0, <2>1, SparedNext, RemoteIs DEF Follows, Spared
  <2>4. \A p \in Params : Base(p)' = data[p]
    BY <2>1, BaseNext
  <2>5. \A p \in Params : Informs(inbox[1], p)
    BY <1>0, <1>1 DEF Informs
  <2>6. Latest' /\ Settled'
    BY <1>0, <1>2, <1>11, <1>12, <2>4, <2>5, HeadTaken DEF Follows
  <2> QED
    BY <1>9, <2>2, <2>3, <2>6 DEF Follows
<1>14. CASE initStep # "reading"
  <2>1. initStep' = initStep /\ ApplyLoaded(data)
    BY <1>5, <1>6, <1>14
  <2>2. InitAlone'
    BY <1>0, <1>9, <1>10, <1>14, <2>1, InitIs DEF Follows, InitAlone
  <2>3. /\ \A p \in Params : Base(p)' = data[p]
        /\ Spared'
    <3>1. CASE actualRemoteState = None
      <4>1. state' = Updated(state, data) /\ actualRemoteState' = None
        BY <2>1, <3>1 DEF ApplyLoaded
      <4>2. \A p \in Params : state'[p] = data[p]
        BY <1>2, <1>4, <4>1, UpdatedAt
      <4> QED
        BY <1>0, <2>1, <4>1, <4>2, BaseNext, SparedNext
    <3>2. CASE actualRemoteState # None
      <4>1. state' = Safe(state, data, paramsListToSave) /\ actualRemoteState' = data
        BY <2>1, <3>2 DEF ApplyLoaded
      <4>2. paramsListToSave \in SUBSET Params /\ data # None
        BY <1>4, <3>2, CycleIs, NoneIsApart
      <4>3. \A p \in Params : Held(actualRemoteState', p) = data[p]
        BY <1>4, <4>1 DEF Held
      <4>4. \A p \in Params \ paramsListToSave : state'[p] = data[p]
        BY <1>2, <1>4, <4>1, <4>2, SafeAt
      <4>5. Spared'
        BY <1>0, <4>3, <4>4, SparedNext
      <4> QED
        BY <1>0, <2>1, <4>1, <4>2, <4>3, <4>5, BaseNext
    <3> QED
      BY <3>1, <3>2
  <2>4. \A p \in Params : Informs(inbox[1], p)
    BY <1>0, <1>1 DEF Informs
  <2>5. Latest' /\ Settled'
    BY <1>0, <1>2, <1>11, <1>12, <2>3, <2>4, HeadTaken DEF Follows
  <2> QED
    BY <1>9, <2>2, <2>3, <2>5 DEF Follows
<1> QED
  BY <1>13, <1>14

(* What the current writing job has sent, seen in the wires.               *)
LEMMA BeingSentIs ==
  ASSUME IInv, Follows, q.serving = WRITE
  PROVE  \A p \in BeingSent : Sending(p)
<1>0. /\ Wires /\ OneReply /\ OneRequest
  BY DEF IInv, Follows
<1>1. ASSUME NEW x \in ToSet(outbox), x.kind = "set", NEW p \in DOMAIN x.data
      PROVE  Sending(p)
  <2>1. outbox # <<>> /\ Len(outbox) = 1 /\ x = outbox[1]
    <3>1. PICK i \in DOMAIN outbox : x = outbox[i]
      BY <1>1 DEF ToSet
    <3>2. outbox \in Seq(Sent(job, q.serving))
      BY <1>0 DEF Wires
    <3> HIDE DEF Sent
    <3>3. DOMAIN outbox = 1 .. Len(outbox) /\ Len(outbox) \in Nat
      BY <3>2, LenProperties
    <3>4. outbox # <<>>
      BY <3>1
    <3>5. Len(outbox) = 1
      BY <1>0, <3>4 DEF OneRequest
    <3> QED
      BY <3>1, <3>3, <3>4, <3>5
  <2> QED
    BY <1>1, <2>1 DEF Sending
<1>2. ASSUME NEW x \in ToSet(inbox), x.kind \in {"saved", "refused"}, NEW p \in x.params
      PROVE  Sending(p)
  <2>1. PICK i \in DOMAIN inbox : x = inbox[i]
    BY <1>2 DEF ToSet
  <2>2. inbox \in Seq(Received(job, q.serving))
    BY <1>0 DEF Wires
  <2> HIDE DEF Received
  <2>3. DOMAIN inbox = 1 .. Len(inbox)
    BY <2>2, LenProperties
  <2> QED
    BY <1>2, <2>1, <2>3 DEF Sending
<1>3. ASSUME NEW p \in BeingSent
      PROVE  \/ \E x \in ToSet(outbox) : x.kind = "set" /\ p \in DOMAIN x.data
             \/ \E x \in ToSet(inbox) : x.kind \in {"saved", "refused"} /\ p \in x.params
  BY DEF BeingSent
<1> QED
  BY <1>1, <1>2, <1>3

LEMMA SetIncomeStateFollows ==
  ASSUME IInv, Follows, ~destroyed, SetIncomeState
  PROVE  Follows'
<1> DEFINE partial == inbox[1].data
<1>0. /\ inbox # <<>> /\ Head(inbox).kind = "event" /\ inbox' = Tail(inbox)
      /\ initStep # "continues"
      /\ UNCHANGED <<mode, server, paramsListToSave, q, readCb, initStep, initResult, job, ready,
                     outbox>>
  BY DEF SetIncomeState, Arrives, NoReactionWaits, initVars
<1>1. Wires /\ state \in States
  BY CycleIs DEF IInv
<1>2. /\ Head(inbox) = inbox[1] /\ 1 \in 1 .. Len(inbox)
      /\ \A i \in 1 .. Len(inbox') : inbox'[i] = inbox[i + 1] /\ i + 1 \in 1 .. Len(inbox)
  BY <1>0, <1>1, TailIs
<1>3. partial \in Dictionaries
  <2>1. inbox[1] \in InMessage
    BY <1>1, <1>2, MessagesAre
  <2> QED
    BY <1>0, <1>2, <2>1 DEF InMessage
<1>4. /\ \A p : Informs(inbox[1], p) <=> p \in DOMAIN partial
      /\ \A p : Tells(inbox[1], p, state) = partial[p]
  BY <1>0, <1>2 DEF Informs, Tells
<1>5. OneReply'
  BY <1>0, <1>1, OneReplyLess DEF Follows
<1>6. \A p : Sending(p)' <=> Sending(p)
  BY <1>0, <1>1, SendingLess
<1>7. InitAlone'
  BY <1>0, InitIs DEF Follows, InitAlone
<1>8. Reader' = Reader
  BY <1>0 DEF Reader
<1>9. CASE q.serving = READ
  <2>1. unheard' = unheard \cup DOMAIN partial /\ UNCHANGED <<state, actualRemoteState>>
    BY <1>2, <1>9, QueueFacts DEF SetIncomeState
  <2>2. OneRequest'
    BY <1>0, <1>8, <2>1 DEF Follows, OneRequest
  <2>3. Unsent'
    BY <1>0, <1>9, QueueFacts DEF Unsent
  <2>4. Spared'
    BY <1>0, <2>1, SparedNext, RemoteIs DEF Follows, Spared
  <2>5. \A p \in Params : /\ p \in DOMAIN partial => Excused(p)'
                          /\ p \notin DOMAIN partial => (Excused(p)' <=> Excused(p))
                          /\ Base(p)' = Base(p)
    BY <1>0, <2>1, BaseNext
  <2>6. \A i \in 1 .. Len(inbox') : inbox'[i].kind = "saved" =>
          \A p \in inbox'[i].params : state'[p] = state[p]
    BY <2>1
  <2>7. Latest' /\ Settled'
    BY <1>0, <1>1, <1>4, <2>5, <2>6, HeadTaken DEF Follows
  <2> QED
    BY <1>5, <1>7, <2>2, <2>3, <2>4, <2>7 DEF Follows
<1>10. CASE q.serving = WRITE
  <2>1. /\ state' = Safe(state, partial, paramsListToSave)
        /\ actualRemoteState' = Merge(partial, actualRemoteState)
        /\ unheard' = (unheard \ DOMAIN partial) \cup
                      ((DOMAIN partial \cap paramsListToSave) \ BeingSent)
    BY <1>2, <1>10, QueueFacts DEF SetIncomeState
  <2>2. /\ paramsListToSave \in SUBSET Params
        /\ actualRemoteState \in Dictionaries /\ actualRemoteState # None
    BY <1>10, CycleIs
  <2>3. actualRemoteState' # None
    BY <1>3, <2>1, <2>2, MergeIs, NoneIsApart
  <2>4. \A p \in Params : Held(actualRemoteState', p) =
          IF p \in DOMAIN partial THEN partial[p] ELSE Held(actualRemoteState, p)
    BY <2>1, MergeAt
  <2>5. \A p \in Params : state'[p] =
          IF p \in DOMAIN partial \ paramsListToSave THEN partial[p] ELSE state[p]
    BY <1>1, <1>3, <2>1, <2>2, SafeAt
  <2>6. \A p \in paramsListToSave : state'[p] = state[p]
    BY <2>2, <2>5
  <2>7. OneRequest'
    BY <1>0, <1>8, <2>6 DEF Follows, OneRequest
  <2>8. ASSUME NEW p \in paramsListToSave
        PROVE  Sending(p)' \/ p \in unheard' \/ state'[p] = Remote(p)'
    <3>1. p \in Params /\ state'[p] = state[p]
      BY <2>2, <2>6
    <3>2. CASE p \in DOMAIN partial
      BY <1>6, <1>10, <2>1, <3>2, BeingSentIs
    <3>3. CASE p \notin DOMAIN partial
      <4>1. Remote(p)' = Remote(p)
        BY <2>4, <3>1, <3>3, RemoteIs, RemoteNext
      <4>2. p \in unheard => p \in unheard'
        BY <2>1, <3>3
      <4>3. Sending(p) \/ p \in unheard \/ state[p] = Remote(p)
        BY <1>10 DEF Follows, Unsent
      <4> QED
        BY <1>6, <3>1, <4>1, <4>2, <4>3
    <3> QED
      BY <3>2, <3>3
  <2>9. Unsent'
    BY <1>0, <2>8 DEF Unsent
  <2>10. Spared'
    <3>1. \A p \in Params \ paramsListToSave : state[p] = Held(actualRemoteState, p)
      BY <2>2, RemoteIs DEF Follows, Spared
    <3>2. \A p \in Params \ paramsListToSave : state'[p] = Held(actualRemoteState', p)
      BY <2>4, <2>5, <3>1
    <3> QED
      BY <1>0, <3>2, SparedNext
  <2>11. \A p \in Params : /\ p \in DOMAIN partial => Base(p)' = partial[p]
                           /\ p \notin DOMAIN partial =>
                                Base(p)' = Base(p) /\ (Excused(p)' <=> Excused(p))
    BY <1>0, <2>1, <2>2, <2>3, <2>4, BaseNext
  <2>12. ASSUME NEW i \in 1 .. Len(inbox'), inbox'[i].kind = "saved"
         PROVE  \A p \in inbox'[i].params : state'[p] = state[p]
    <3>1. inbox'[i].params \subseteq paramsListToSave
      BY <1>2, <2>12 DEF Follows, OneReply
    <3> QED
      BY <2>6, <3>1
  <2>13. Latest' /\ Settled'
    BY <1>0, <1>1, <1>4, <2>11, <2>12, HeadTaken DEF Follows
  <2> QED
    BY <1>5, <1>7, <2>7, <2>9, <2>10, <2>13 DEF Follows
<1>11. CASE q.serving = None
  <2>1. /\ state' = Updated(state, partial) /\ unheard' = unheard \ DOMAIN partial
        /\ UNCHANGED actualRemoteState
    BY <1>2, <1>11, QueueFacts DEF SetIncomeState
  <2>2. ~Listed(WRITE) /\ actualRemoteState = None
    BY <1>1, <1>11, CycleIs, QueueFacts DEF Listed, Wires
  <2>3. Silent
    BY <1>11, IdleIsSilent DEF Follows
  <2>4. OneRequest' /\ Unsent' /\ Spared'
    BY <1>0, <1>11, <2>1, <2>2, <2>3, SparedNext, QueueFacts DEF OneRequest, Unsent, Silent
  <2>5. \A p \in Params : state'[p] = IF p \in DOMAIN partial THEN partial[p] ELSE state[p]
    BY <1>1, <1>3, <2>1, UpdatedAt
  <2>6. \A p \in Params : /\ p \in DOMAIN partial => Base(p)' = partial[p]
                          /\ p \notin DOMAIN partial =>
                               Base(p)' = Base(p) /\ (Excused(p)' <=> Excused(p))
    BY <1>0, <2>1, <2>2, <2>5, BaseNext
  <2>7. \A i \in 1 .. Len(inbox') : inbox'[i].kind # "saved"
    BY <1>2, <2>3 DEF Silent
  <2>8. Latest' /\ Settled'
    BY <1>0, <1>1, <1>4, <2>6, <2>7, HeadTaken DEF Follows
  <2> QED
    BY <1>5, <1>7, <2>4, <2>8 DEF Follows
<1> QED
  BY <1>1, <1>9, <1>10, <1>11, QueueFacts DEF Wires

(* The only request there is.                                              *)
LEMMA TheRequest ==
  ASSUME Wires, Follows, outbox # <<>>, outbox' = Tail(outbox)
  PROVE  /\ outbox' = <<>> /\ Head(outbox) = outbox[1]
         /\ outbox[1] \in OutMessage /\ outbox[1].job = job /\ q.serving # None /\ ~ready
         /\ outbox[1].kind = "get" \/ outbox[1].kind = "set"
         /\ outbox[1].kind = "set" => outbox[1].data \in Dictionaries
<1> DEFINE S == Sent(job, q.serving)
<1>1. outbox \in Seq(S)
  BY DEF Wires
<1> HIDE DEF S
<1>2. /\ Len(outbox) = 1 /\ outbox[1].job = job /\ q.serving # None /\ ~ready
  BY DEF Follows, OneRequest
<1>3. Head(outbox) = outbox[1] /\ outbox' = <<>>
  <2>1. Tail(outbox) \in Seq(S) /\ Len(Tail(outbox)) = 0
    BY <1>1, <1>2, HeadTailProperties
  <2> QED
    BY <1>1, <2>1, EmptySeq, HeadTailProperties
<1>4. outbox[1] \in OutMessage
  BY MessagesAre
<1> QED
  BY <1>2, <1>3, <1>4 DEF OutMessage

(* What a step of the server leaves alone.                                 *)
LEMMA OutsideFollows ==
  ASSUME IInv, Follows, OneReply', Latest', Settled',
         UNCHANGED <<mode, state, actualRemoteState, paramsListToSave, q, readCb, initStep,
                     initResult, job, ready, unheard>>,
         outbox' = outbox \/ outbox' = <<>>,
         q.serving = WRITE => \A p \in Params : Sending(p) => Sending(p)'
  PROVE  Follows'
<1>1. Reader' = Reader /\ \A p : Remote(p)' = Remote(p)
  BY DEF Reader, Remote
<1>2. InitAlone'
  BY InitIs DEF Follows, InitAlone
<1>3. OneRequest'
  BY <1>1 DEF Follows, OneRequest
<1>4. Unsent'
  <2>1. q.serving = WRITE => paramsListToSave \in SUBSET Params
    BY CycleIs
  <2> QED
    BY <1>1, <2>1 DEF Follows, Unsent
<1>5. Spared'
  BY <1>1 DEF Follows, Spared
<1> QED
  BY <1>2, <1>3, <1>4, <1>5 DEF Follows

LEMMA ServerDoesFollows ==
  ASSUME IInv, Follows, ServerDoes
  PROVE  Follows'
<1> DEFINE r == outbox[1]
<1>0. /\ outbox # <<>> /\ outbox' = Tail(outbox)
      /\ UNCHANGED <<mode, state, actualRemoteState, paramsListToSave, q, readCb, initStep,
                     initResult, job, ready, unheard>>
  BY DEF ServerDoes, bookkeeping, initVars
<1>1. Wires /\ server \in [Params -> Values] /\ server \in States /\ q \in Queues
  BY ServerIs DEF IInv, Rest, Wires
<1>2. /\ outbox' = <<>> /\ Head(outbox) = r
      /\ r.job = job /\ q.serving # None /\ ~ready
      /\ r.kind = "get" \/ r.kind = "set"
      /\ r.kind = "set" => r.data \in Dictionaries
  BY <1>0, <1>1, TheRequest
<1>3. /\ r.kind = "get" => r.cb = Reader /\ q.serving = READ
      /\ r.kind = "set" => /\ DOMAIN r.data \subseteq paramsListToSave
                           /\ \A p \in DOMAIN r.data : r.data[p] = state[p]
  BY <1>0, <1>1, KindsMatch DEF Follows, OneRequest
<1>4. CASE r.kind = "get"
  <2> DEFINE m == [kind |-> "got", job |-> r.job, cb |-> r.cb, data |-> server]
  <2>1. inbox' = Append(inbox, m) /\ server' = server
    BY <1>2, <1>4 DEF ServerDoes, Says
  <2>2. m.kind = "got" /\ m.job = r.job /\ m.cb = r.cb /\ m.data = server
    OBVIOUS
  <2> HIDE DEF m
  <2>3. OneReply'
    BY <1>0, <1>1, <1>2, <1>3, <1>4, <2>1, <2>2, ReplyComes DEF Follows
  <2>4. \A p \in Params : Informs(m, p) /\ Tells(m, p, state) = server'[p]
    BY <2>1, <2>2 DEF Informs, Tells
  <2>5. Latest' /\ Settled'
    BY <1>0, <1>1, <2>1, <2>4, TellsMore DEF Follows
  <2>6. q.serving # WRITE
    BY <1>3, <1>4, QueueFacts
  <2> QED
    BY <1>0, <1>2, <2>3, <2>5, <2>6, OutsideFollows
<1>5. CASE r.kind = "set"
  <2> DEFINE m == [kind |-> "saved", job |-> r.job, params |-> DOMAIN r.data]
  <2>1. inbox' = Append(inbox, m) /\ server' = Updated(server, r.data)
    BY <1>2, <1>5 DEF ServerDoes, Says
  <2>2. m.kind = "saved" /\ m.job = r.job /\ m.params = DOMAIN r.data
    OBVIOUS
  <2> HIDE DEF m
  <2>3. OneReply' /\ \A p \in m.params : Sending(p)'
    BY <1>0, <1>1, <1>2, <1>3, <1>5, <2>1, <2>2, ReplyComes DEF Follows
  <2>4. \A p \in Params : server'[p] = IF p \in DOMAIN r.data THEN r.data[p] ELSE server[p]
    BY <1>1, <1>2, <1>5, <2>1, UpdatedAt
  <2>5. \A p \in Params : IF Informs(m, p) THEN Tells(m, p, state) = server'[p]
                                           ELSE server'[p] = server[p]
    BY <1>3, <1>5, <2>2, <2>4 DEF Informs, Tells
  <2>6. Latest' /\ Settled'
    BY <1>0, <1>1, <2>1, <2>5, TellsMore DEF Follows
  <2>7. \A p \in Params : Sending(p) => Sending(p)'
    <3>1. \A i \in 1 .. Len(inbox) : inbox[i].kind = "event"
      BY <1>0 DEF Follows, OneReply
    <3> QED
      BY <2>2, <2>3, <3>1 DEF Sending
  <2> QED
    BY <1>0, <1>2, <2>3, <2>6, <2>7, OutsideFollows
<1> QED
  BY <1>2, <1>4, <1>5

LEMMA ServerRefusesFollows ==
  ASSUME IInv, Follows, ServerRefuses
  PROVE  Follows'
<1> DEFINE r == outbox[1]
           ps == IF r.kind = "get" THEN {} ELSE DOMAIN r.data
           m == [kind |-> "refused", job |-> r.job, params |-> ps]
<1>0. /\ outbox # <<>> /\ outbox' = Tail(outbox)
      /\ UNCHANGED <<mode, state, actualRemoteState, paramsListToSave, q, readCb, initStep,
                     initResult, job, ready, unheard, server>>
  BY DEF ServerRefuses, bookkeeping, initVars
<1>1. Wires
  BY DEF IInv
<1>2. /\ outbox' = <<>> /\ Head(outbox) = r
      /\ r.job = job /\ q.serving # None /\ ~ready
  BY <1>0, <1>1, TheRequest
<1>3. inbox' = Append(inbox, m)
  BY <1>2 DEF ServerRefuses, Says
<1>4. m.kind = "refused" /\ m.job = r.job /\ m.params = ps
  OBVIOUS
<1> HIDE DEF m
<1>5. OneReply' /\ \A p \in m.params : Sending(p)'
  BY <1>0, <1>1, <1>2, <1>3, <1>4, ReplyComes DEF Follows
<1>6. \A p \in Params : ~Informs(m, p)
  BY <1>4 DEF Informs
<1>7. Latest' /\ Settled'
  BY <1>0, <1>1, <1>3, <1>6, TellsMore DEF Follows
<1>8. \A p \in Params : Sending(p) => Sending(p)'
  <2>1. \A i \in 1 .. Len(inbox) : inbox[i].kind = "event"
    BY <1>0 DEF Follows, OneReply
  <2> QED
    BY <1>4, <1>5, <2>1 DEF Sending
<1> QED
  BY <1>0, <1>2, <1>5, <1>7, <1>8, OutsideFollows

LEMMA ServerChangesFollows ==
  ASSUME IInv, Follows, NEW p \in Params, NEW v \in Values, ServerChanges(p, v)
  PROVE  Follows'
<1> DEFINE d == [x \in {p} |-> v]
           m == [kind |-> "event", data |-> d]
<1>0. /\ server' = [server EXCEPT ![p] = v] /\ inbox' = Append(inbox, m)
      /\ UNCHANGED <<mode, state, actualRemoteState, paramsListToSave, q, readCb, initStep,
                     initResult, job, ready, outbox, unheard>>
  BY DEF ServerChanges, Says, bookkeeping, initVars
<1>1. Wires /\ server \in [Params -> Values]
  BY DEF IInv, Rest
<1>2. m.kind = "event" /\ m.data = d /\ DOMAIN d = {p} /\ d[p] = v
  OBVIOUS
<1> HIDE DEF m, d
<1>3. OneReply' /\ \A x : Sending(x) => Sending(x)'
  BY <1>0, <1>1, <1>2, EventComes DEF Follows
<1>4. \A x \in Params : server'[x] = IF x = p THEN v ELSE server[x]
  BY <1>0, <1>1
<1>5. \A x \in Params : IF Informs(m, x) THEN Tells(m, x, state) = server'[x]
                                         ELSE server'[x] = server[x]
  BY <1>2, <1>4 DEF Informs, Tells
<1>6. Latest' /\ Settled'
  BY <1>0, <1>1, <1>5, TellsMore DEF Follows
<1> QED
  BY <1>0, <1>3, <1>6, OutsideFollows

(* As long as the state is not destroyed, it follows the server.           *)
LEMMA StepFollows ==
  ASSUME ~Timeouts, ~CallsDuringInit, IInv, Follows, mode.setter, ~destroyed, ~destroyed',
         [Next]_vars
  PROVE  Follows'
<1>1. CASE StartInit
  BY <1>1, StartInitFollows
<1>2. CASE ContinueInit
  BY <1>2, ContinueInitFollows
<1>3. CASE \E u \in Users, partial \in Partials : Write(u, partial)
  BY <1>3, WriteFollows
<1>4. CASE \E u \in Users : Load(u)
  BY <1>4, LoadFollows
<1>5. CASE Destroy
  BY <1>5 DEF Destroy
<1>6. CASE StateArrives
  BY <1>6, StateArrivesFollows
<1>7. CASE RefusalArrives
  BY <1>7, RefusalArrivesFollows
<1>8. CASE SavedArrives
  BY <1>8, SavedArrivesFollows
<1>9. CASE EmptyWriteEnds
  BY <1>9, EmptyWriteEndsFollows
<1>10. CASE SetIncomeState
  BY <1>10, SetIncomeStateFollows
<1>11. CASE Timeout
  BY <1>11 DEF Timeout
<1>12. CASE ServerDoes
  BY <1>12, ServerDoesFollows
<1>13. CASE ServerRefuses
  BY <1>13, ServerRefusesFollows
<1>14. CASE \E p \in Params, v \in Values : ServerChanges(p, v)
  BY <1>14, ServerChangesFollows
<1>15. CASE (\E u \in Users : Resume(u)) \/ UNCHANGED vars
  <2>1. UNCHANGED <<mode, state, actualRemoteState, paramsListToSave, q, initStep, initResult,
                    job, ready, outbox, inbox, server, unheard, readCb>>
    BY <1>15 DEF Resume, bookkeeping, initVars, vars
  <2> QED
    BY <2>1, FollowsStays
<1> QED
  BY <1>1, <1>2, <1>3, <1>4, <1>5, <1>6, <1>7, <1>8, <1>9, <1>10, <1>11, <1>12, <1>13, <1>14,
     <1>15 DEF Next

(* A destroyed state is left alone by the queue, and only one with a       *)
(* setter writes.                                                          *)
LEMMA ModeStays ==
  ASSUME [Next]_vars
  PROVE  mode' = mode /\ (Destroy \/ destroyed' = destroyed)
BY DEF Next, vars, StartInit, ContinueInit, Write, Load, Destroy, StateArrives, RefusalArrives,
       SavedArrives, EmptyWriteEnds, SetIncomeState, Timeout, ServerDoes, ServerRefuses,
       ServerChanges, Resume

LEMMA StepCloses == IInv /\ Closed /\ [Next]_vars => Closed'
<1> SUFFICES ASSUME IInv, Closed, [Next]_vars
             PROVE  Closed'
  OBVIOUS
<1>1. CASE ~destroyed
  <2>1. Destroy \/ destroyed' = destroyed
    BY ModeStays
  <2>2. Destroy => Closed'
    BY DEF Destroy, Closed, SQ!Idle, Q
  <2> QED
    BY <1>1, <2>1, <2>2 DEF Closed
<1>2. CASE destroyed
  <2>1. q.serving = None /\ ~ready
    BY <1>2 DEF Closed, Q
  <2>2. q' = q /\ ready' = ready
    BY <1>2, <2>1 DEF Next, vars, StartInit, ContinueInit, Write, Load, MayCall, Destroy,
                 StateArrives, RefusalArrives, SavedArrives, IsLive, EmptyWriteEnds,
                 SetIncomeState, Timeout, ServerDoes, ServerRefuses, ServerChanges, Resume
  <2> QED
    BY <1>2, <2>2 DEF Closed
<1> QED
  BY <1>1, <1>2

LEMMA StepWrites == IInv /\ OnlySetters /\ [Next]_vars => OnlySetters'
<1> SUFFICES ASSUME IInv, OnlySetters, [Next]_vars
             PROVE  OnlySetters'
  OBVIOUS
<1>0. /\ Listed(WRITE) <=> actualRemoteState # None
      /\ Listed(WRITE)' <=> actualRemoteState' # None
  BY StepHolds DEF IInv, Cycle, CycleMatchesQueue
<1>1. mode' = mode
  BY ModeStays
<1>2. q.serving = WRITE => mode.setter
  BY CycleIs DEF OnlySetters
<1>3. SUFFICES actualRemoteState' = None \/ actualRemoteState # None \/ mode.setter
  BY <1>0, <1>1 DEF OnlySetters
<1>4. ASSUME NEW err \in BOOLEAN, IF q.serving = READ THEN ReadFails ELSE EndWriteJob(err),
             q.serving # None
      PROVE  actualRemoteState' = actualRemoteState \/ mode.setter
  BY <1>2, <1>4, QueueFacts DEF ReadFails, bookkeeping, IInv, Wires
<1>5. CASE \E u \in Users, partial \in Partials : Write(u, partial)
  BY <1>5 DEF Write, bookkeeping
<1>6. CASE StateArrives
  BY <1>6, LoadedIs
<1>7. CASE SetIncomeState
  BY <1>7, EventIs
<1>8. CASE RefusalArrives
  BY <1>4, <1>8 DEF RefusalArrives, bookkeeping, IsLive
<1>9. CASE Timeout
  BY <1>4, <1>9 DEF Timeout
<1>10. CASE SavedArrives
  <2>1. Fits(Head(inbox), job, q.serving) /\ Head(inbox).kind = "saved"
    BY <1>10, HeadIs DEF SavedArrives, IInv
  <2>2. IsLive(Head(inbox)) => q.serving = WRITE
    BY <2>1 DEF IsLive, Fits
  <2> QED
    BY <1>2, <1>10, <2>2 DEF SavedArrives, bookkeeping
<1>11. CASE EmptyWriteEnds
  BY <1>2, <1>11 DEF EmptyWriteEnds, IInv, Wires
<1>12. CASE Destroy
  BY <1>12 DEF Destroy
<1>13. CASE \/ StartInit \/ ContinueInit \/ ServerDoes \/ ServerRefuses \/ UNCHANGED vars
            \/ \E u \in Users : Load(u) \/ Resume(u)
            \/ \E p \in Params, v \in Values : ServerChanges(p, v)
  BY <1>13 DEF StartInit, ContinueInit, ServerDoes, ServerRefuses, Load, Resume, ServerChanges,
               vars, bookkeeping
<1> QED
  BY <1>5, <1>6, <1>7, <1>8, <1>9, <1>10, <1>11, <1>12, <1>13 DEF Next

LEMMA InitFollows == Init => HInv
<1> SUFFICES ASSUME Init
             PROVE  HInv
  OBVIOUS
<1>0. IInv
  BY InitHolds
<1>1. q = Q(<<>>, None) /\ q.serving = None /\ q.line = <<>>
  BY DEF Init, SQ!Idle, Q
<1>2. ~Listed(WRITE)
  BY <1>1, QueueFacts DEF Listed, Q, Queues
<1>3. /\ inbox = <<>> /\ Len(inbox) = 0 /\ outbox = <<>>
      /\ initStep = "no" /\ actualRemoteState = None /\ ~destroyed
      /\ \A p \in Params : state[p] = Undef
  BY DEF Init
<1>4. InitAlone /\ OneReply /\ OneRequest /\ Spared /\ Unsent /\ Latest
  <2>1. <<>> # <<READ>>
    BY QueueFacts
  <2> QED
    BY <1>1, <1>3, <2>1, QueueFacts DEF InitAlone, OneReply, OneRequest, Spared, Unsent, Latest
<1>5. Settled
  BY <1>3, BaseNext DEF Settled
<1> QED
  BY <1>0, <1>2, <1>3, <1>4, <1>5 DEF HInv, Closed, OnlySetters, Follows

LEMMA HInvHolds ==
  ASSUME ~Timeouts, ~CallsDuringInit
  PROVE  HInv /\ [Next]_vars => HInv'
<1> SUFFICES ASSUME HInv, [Next]_vars
             PROVE  HInv'
  OBVIOUS
<1>1. IInv /\ Closed /\ OnlySetters
  BY DEF HInv
<1>2. IInv' /\ Closed' /\ OnlySetters'
  BY <1>1, StepHolds, StepCloses, StepWrites
<1>3. mode' = mode /\ (Destroy \/ destroyed' = destroyed)
  BY ModeStays
<1>4. ASSUME ~destroyed', mode'.setter
      PROVE  Follows'
  <2>1. ~destroyed
    BY <1>3, <1>4 DEF Destroy
  <2>2. mode.setter
    BY <1>3, <1>4
  <2>3. Follows
    BY <2>1, <2>2 DEF HInv
  <2> QED
    BY <1>1, <1>4, <2>1, <2>2, <2>3, StepFollows
<1> QED
  BY <1>2, <1>4 DEF HInv

LEMMA FollowsAlways ==
  ASSUME ~Timeouts, ~CallsDuringInit
  PROVE  Spec => []HInv
<1>1. HInv /\ [Next]_vars => HInv'
  BY HInvHolds
<1> QED
  BY <1>1, InitFollows, PTL DEF Spec

(* When nothing is on its way, the local state is the one of the server,   *)
(* but for parameters whose last event was not applied, for any server     *)
(* that refuses, changes and answers at any time.                          *)
THEOREM HeardIsConsistent ==
  ASSUME ~Timeouts, ~CallsDuringInit
  PROVE  Spec => []ConsistentIfHeard
<1>1. HInv => ConsistentIfHeard
  <2> SUFFICES ASSUME HInv, Quiet, mode.setter, NEW p \in Params \ unheard
               PROVE  state[p] \in {Undef, server[p]}
    BY DEF ConsistentIfHeard
  <2>1. /\ Follows /\ IInv /\ q.serving = None
        /\ inbox = <<>> /\ initStep # "continues"
    BY DEF HInv, Quiet, InitInProgress
  <2>2. actualRemoteState = None
    BY <2>1, CycleIs, QueueFacts DEF Listed, IInv, Wires
  <2>3. Excused(p) \/ Base(p) \in {Undef, server[p]}
    <3>1. Len(inbox) = 0
      BY <2>1
    <3> QED
      BY <2>1, <3>1 DEF Follows, Settled
  <2> QED
    BY <2>1, <2>2, <2>3, BaseNext
<1> QED
  BY <1>1, FollowsAlways, PTL

(* What a writing job leaves when it ends well.                            *)
LEMMA SavedOrTold ==
  ASSUME IInv, Follows, q.serving = WRITE, outbox = <<>>, NEW p \in paramsListToSave,
         \A i \in 1 .. Len(inbox) : inbox[i].kind # "refused"
  PROVE  \/ state[p] = server[p]
         \/ p \in unheard /\ \A i \in 1 .. Len(inbox) :
                               inbox[i].kind = "saved" => p \notin inbox[i].params
         \/ \E i \in 1 .. Len(inbox) : inbox[i].kind = "event" /\ p \in DOMAIN inbox[i].data
<1>1. SUFFICES ASSUME \A i \in 1 .. Len(inbox) :
                        inbox[i].kind = "event" => p \notin DOMAIN inbox[i].data
               PROVE  \/ state[p] = server[p]
                      \/ p \in unheard /\ \A i \in 1 .. Len(inbox) :
                                            inbox[i].kind = "saved" => p \notin inbox[i].params
  OBVIOUS
<1>2. p \in Params /\ state[p] \in Values /\ state[p] # Undef
  BY CycleIs, UndefAssumption DEF IInv, Cycle
<1>3. \A i \in 1 .. Len(inbox) :
        Informs(inbox[i], p) => inbox[i].kind = "saved" /\ p \in inbox[i].params
  BY <1>1, KindsMatch, QueueFacts DEF Informs, IInv, Follows
<1>4. ASSUME NEW i \in 1 .. Len(inbox), inbox[i].kind = "saved", p \in inbox[i].params
      PROVE  state[p] = server[p]
  <2>1. Informs(inbox[i], p) /\ Tells(inbox[i], p, state) = state[p]
    BY <1>4 DEF Informs, Tells
  <2>2. \A j \in 1 .. Len(inbox) : j > i => ~Informs(inbox[j], p)
    <3>1. \A j \in 1 .. Len(inbox) : inbox[j].kind # "event" => i = j
      BY <1>4 DEF Follows, OneReply
    <3>2. Len(inbox) \in Nat
      BY MessagesAre DEF IInv
    <3> QED
      BY <1>3, <3>1, <3>2
  <2> QED
    BY <1>2, <2>1, <2>2 DEF Follows, Latest
<1>5. ASSUME \A i \in 1 .. Len(inbox) : inbox[i].kind = "saved" => p \notin inbox[i].params
      PROVE  p \in unheard \/ state[p] = server[p]
  <2>1. initStep # "continues"
    BY InitIs, QueueFacts DEF Follows, InitAlone, Q, CanInit
  <2>2. ~Sending(p)
    BY <1>5 DEF Sending
  <2>3. p \in unheard \/ state[p] = Base(p)
    BY <1>2, <2>1, <2>2, NotSent DEF Follows
  <2>4. Excused(p) \/ Base(p) \in {Undef, server[p]}
    BY <1>2, <1>3, <1>5 DEF Follows, Settled
  <2> QED
    BY <1>2, <2>3, <2>4, BaseNext
<1> QED
  BY <1>4, <1>5

LEMMA EventIn ==
  ASSUME Wires, NEW i \in 1 .. Len(inbox)
  PROVE  inbox[i] \in ToSet(inbox)
<1> DEFINE S == Received(job, q.serving)
<1>1. inbox \in Seq(S)
  BY DEF Wires
<1> HIDE DEF S
<1>2. DOMAIN inbox = 1 .. Len(inbox)
  BY <1>1, LenProperties
<1> QED
  BY <1>2 DEF ToSet

(* A promise of write() is resolved only when a writing job ends well.     *)
Writing(u) == user[u].on \in {WRITE, "postponed", "next"}

LEMMA PendsKeeps ==
  ASSUME user \in [Users -> Promise], NEW u \in Users, NEW v \in Users,
         NEW on \in {"idle", READ, WRITE, "postponed", "next", "resolved", "rejected"},
         NEW no \in Nat, NEW ps \in SUBSET Params, Pends(v, on, no, ps),
         user[v].on \in {"idle", "resolved", "rejected"}, Writing(u)
  PROVE  user'[u].on # "resolved"
<1>1. u # v
  BY DEF Writing, WRITE
<1> QED
  BY <1>1, PendsIs DEF Writing, WRITE

LEMMA SettleKeeps ==
  ASSUME user \in [Users -> Promise], NEW u \in Users, Writing(u)
  PROVE  /\ \A err \in BOOLEAN : user' = Settle({READ}, err) => user'[u].on # "resolved"
         /\ user' = Settle({WRITE, "postponed", "next"}, TRUE) => user'[u].on # "resolved"
         /\ /\ user' = Settle({WRITE, "postponed", "next"}, FALSE)
            /\ user'[u].on = "resolved"
            => user[u].on # "postponed"
<1>1. ASSUME NEW err \in BOOLEAN, user' = Settle({READ}, err)
      PROVE  user'[u].on # "resolved"
  <2>1. user[u].on \notin {READ} /\ user[u].on # "resolved"
    BY DEF Writing, READ, WRITE
  <2>2. user'[u].on = user[u].on
    BY <1>1, <2>1, SettleIs
  <2> QED
    BY <2>1, <2>2
<1>2. ASSUME NEW err \in BOOLEAN, user' = Settle({WRITE, "postponed", "next"}, err)
      PROVE  user'[u].on = IF err THEN "rejected"
                           ELSE IF user[u].on = "postponed" THEN "next" ELSE "resolved"
  <2>1. user[u].on \in {WRITE, "postponed", "next"}
    BY DEF Writing
  <2> QED
    BY <1>2, <2>1, SettleIs
<1> QED
  BY <1>1, <1>2

LEMMA OnlySuccessResolves ==
  ASSUME IInv, [Next]_vars, NEW u \in Users, Writing(u), user'[u].on = "resolved"
  PROVE  /\ EndWriteJob(FALSE) /\ q.serving = WRITE /\ user[u].on # "postponed"
         /\ (SavedArrives /\ IsLive(Head(inbox))) \/ EmptyWriteEnds
<1>0. user \in [Users -> Promise] /\ 0 \in Nat /\ {} \in SUBSET Params /\ writeNo \in Nat
  BY DEF IInv, Waiters, Rest
<1>1. CASE user' = user
  BY <1>1 DEF Writing, WRITE
<1>2. ASSUME NEW v \in Users, NEW partial \in Partials, Write(v, partial)
      PROVE  FALSE
  <2>1. user[v].on = "idle" /\ DOMAIN partial \in SUBSET Params
    BY <1>2, DictionaryIs DEF Write, MayCall, Partials
  <2>2. \E on \in {WRITE, "postponed", "resolved", "rejected"},
           no \in {0, writeNo, writeNo + 1}, ps \in {{}, DOMAIN partial} : Pends(v, on, no, ps)
    BY <1>2 DEF Write, StartNewWriteJob
  <2> QED
    BY <1>0, <2>1, <2>2, PendsKeeps
<1>3. ASSUME NEW v \in Users, Load(v)
      PROVE  FALSE
  <2>1. user[v].on = "idle" /\ \E on \in {READ, "resolved"} : Pends(v, on, 0, {})
    BY <1>3 DEF Load, MayCall
  <2> QED
    BY <1>0, <2>1, PendsKeeps
<1>4. ASSUME NEW v \in Users, Resume(v)
      PROVE  FALSE
  <2>1. user[v].on \in {"idle", "resolved", "rejected"} /\ Pends(v, "idle", 0, {})
    BY <1>4 DEF Resume, Pends
  <2> QED
    BY <1>0, <2>1, PendsKeeps
<1>5. ASSUME NEW s, NEW actual, NEW err \in BOOLEAN, EndReadJob(s, actual, err)
      PROVE  FALSE
  BY <1>0, <1>5, SettleKeeps DEF EndReadJob
<1>6. ~EndWriteJob(TRUE)
  BY <1>0, SettleKeeps DEF EndWriteJob
<1>7. EndWriteJob(FALSE) => user[u].on # "postponed"
  BY <1>0, SettleKeeps DEF EndWriteJob
<1>8. ~ReadFails
  BY <1>5 DEF ReadFails
<1>9. CASE SavedArrives
  <2>1. IsLive(Head(inbox)) \/ user' = user
    BY <1>9 DEF SavedArrives
  <2>2. Fits(Head(inbox), job, q.serving) /\ Head(inbox).kind = "saved"
    BY <1>9, HeadIs DEF SavedArrives, IInv
  <2>3. IsLive(Head(inbox)) => q.serving = WRITE
    BY <2>2 DEF IsLive, Fits
  <2> QED
    BY <1>1, <1>7, <1>9, <2>1, <2>3 DEF SavedArrives
<1>10. CASE EmptyWriteEnds
  BY <1>7, <1>10 DEF EmptyWriteEnds, IInv, Wires
<1>11. CASE StateArrives
  BY <1>1, <1>5, <1>11 DEF StateArrives
<1>12. CASE RefusalArrives
  BY <1>1, <1>6, <1>8, <1>12 DEF RefusalArrives
<1>13. CASE Timeout
  BY <1>6, <1>8, <1>13 DEF Timeout
<1>14. CASE \/ StartInit \/ ContinueInit \/ Destroy \/ SetIncomeState \/ ServerDoes
            \/ ServerRefuses \/ UNCHANGED vars
            \/ \E p \in Params, v \in Values : ServerChanges(p, v)
  <2>1. user' = user
    BY <1>14 DEF StartInit, ContinueInit, Destroy, SetIncomeState, ServerDoes, ServerRefuses,
                 ServerChanges, vars
  <2> QED
    BY <1>1, <2>1
<1> QED
  BY <1>2, <1>3, <1>4, <1>9, <1>10, <1>11, <1>12, <1>13, <1>14 DEF Next

SavedNow(p) ==
  \/ server[p] = state[p]
  \/ p \in unheard'
  \/ \E m \in ToSet(inbox') : m.kind = "event" /\ p \in DOMAIN m.data

LEMMA EmptyWriteSaved ==
  ASSUME IInv, Follows, EmptyWriteEnds, NEW p \in paramsListToSave
  PROVE  SavedNow(p)
<1>0. ready /\ UNCHANGED <<inbox, unheard>> /\ q.serving = WRITE /\ Wires
  BY DEF EmptyWriteEnds, IInv, Wires
<1>1. Silent
  BY <1>0, IdleIsSilent DEF Follows
<1>2. outbox = <<>> /\ \A i \in 1 .. Len(inbox) : inbox[i].kind # "refused"
  BY <1>1 DEF Silent
<1>3. \/ state[p] = server[p]
      \/ p \in unheard
      \/ \E i \in 1 .. Len(inbox) : inbox[i].kind = "event" /\ p \in DOMAIN inbox[i].data
  BY <1>0, <1>2, SavedOrTold
<1> QED
  BY <1>0, <1>3, EventIn DEF SavedNow

LEMMA ArrivedSaved ==
  ASSUME IInv, IInv', Follows, SavedArrives, IsLive(Head(inbox)), q.serving = WRITE,
         NEW p \in paramsListToSave
  PROVE  SavedNow(p)
<1>0. /\ inbox # <<>> /\ Head(inbox).kind = "saved" /\ inbox' = Tail(inbox)
      /\ Wires /\ Wires'
  BY DEF SavedArrives, Arrives, IInv
<1>1. /\ outbox = <<>> /\ Head(inbox) = inbox[1] /\ 1 \in 1 .. Len(inbox)
      /\ \A i \in 1 .. Len(inbox) : inbox[i].kind # "event" => i = 1
  BY <1>0, ReplyTaken DEF Follows
<1>2. \A i \in 1 .. Len(inbox) : inbox[i].kind # "refused"
  BY <1>0, <1>1
<1>3. unheard' = unheard \ inbox[1].params
  BY <1>1 DEF SavedArrives
<1>4. \/ state[p] = server[p]
      \/ p \in unheard /\ p \notin inbox[1].params
      \/ \E i \in 1 .. Len(inbox) : inbox[i].kind = "event" /\ p \in DOMAIN inbox[i].data
  BY <1>0, <1>1, <1>2, SavedOrTold
<1>5. ASSUME NEW i \in 1 .. Len(inbox), inbox[i].kind = "event"
      PROVE  inbox[i] \in ToSet(inbox')
  <2>1. /\ Len(inbox) \in Nat /\ Len(inbox') = Len(inbox) - 1
        /\ \A j \in 1 .. Len(inbox') : inbox'[j] = inbox[j + 1]
    BY <1>0, TailIs
  <2>2. i # 1
    BY <1>0, <1>1, <1>5
  <2>3. i - 1 \in 1 .. Len(inbox') /\ (i - 1) + 1 = i
    BY <2>1, <2>2
  <2>4. inbox'[i - 1] = inbox[i]
    BY <2>1, <2>3
  <2>5. inbox'[i - 1] \in ToSet(inbox')
    <3> DEFINE S == Received(job', q'.serving)
    <3>1. inbox' \in Seq(S)
      BY <1>0 DEF Wires
    <3> HIDE DEF S
    <3>2. DOMAIN inbox' = 1 .. Len(inbox')
      BY <3>1, LenProperties
    <3> QED
      BY <2>3, <3>2 DEF ToSet
  <2> QED
    BY <2>4, <2>5
<1> QED
  BY <1>3, <1>4, <1>5 DEF SavedNow

(* When the promise of write() is resolved, the server holds what was      *)
(* written or has changed it since, and then either the event that tells   *)
(* of it is yet to be handled or it was dropped.                           *)
THEOREM ResolvedIsSaved ==
  ASSUME ~Timeouts, ~CallsDuringInit
  PROVE  Spec => ResolvedMeansSaved
<1> DEFINE Saves ==
      \A u \in Users :
        (user[u].on \in {WRITE, "postponed", "next"} /\ user'[u].on = "resolved")
        => \A p \in user[u].params :
             LET written == IF user[u].on = "postponed"
                            THEN nextWritePartialState[p] ELSE state[p]
             IN  \/ server[p] = written
                 \/ p \in unheard'
                 \/ \E m \in ToSet(inbox') : m.kind = "event" /\ p \in DOMAIN m.data
<1>1. HInv /\ [Next]_vars => Saves
  <2> SUFFICES ASSUME HInv, [Next]_vars, NEW u \in Users, Writing(u), user'[u].on = "resolved",
                      NEW p \in user[u].params
               PROVE  user[u].on # "postponed" /\ SavedNow(p)
    BY DEF Writing, SavedNow
  <2>1. IInv /\ IInv'
    BY StepHolds DEF HInv
  <2>2. /\ q.serving = WRITE /\ user[u].on # "postponed"
        /\ (SavedArrives /\ IsLive(Head(inbox))) \/ EmptyWriteEnds
    BY <2>1, OnlySuccessResolves
  <2>3. Follows
    <3>1. ~destroyed
      BY <2>2, QueueFacts DEF HInv, Closed, Q
    <3>2. mode.setter
      BY <2>1, <2>2, CycleIs DEF HInv, OnlySetters
    <3> QED
      BY <3>1, <3>2 DEF HInv
  <2>4. p \in paramsListToSave
    <3>1. WaitsForThis(u)
      BY <2>1, <2>2, QueueFacts DEF HInv, Closed, IInv, Waiters, Q
    <3> QED
      BY <2>2, <3>1 DEF WaitsForThis, Writing
  <2> QED
    BY <2>1, <2>2, <2>3, <2>4, EmptyWriteSaved, ArrivedSaved
<1>2. HInv /\ [Next]_vars => [Saves]_vars
  BY <1>1
<1> QED
  BY <1>2, FollowsAlways, PTL DEF Spec, ResolvedMeansSaved
=============================================================================
