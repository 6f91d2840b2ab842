--------------------------- MODULE RemoteCallProofs ---------------------------
(***************************************************************************)
(* The safety properties of RemoteCall hold for all sets of methods and    *)
(* all bounds.                                                             *)
(*                                                                         *)
(* The order of the messages does not matter to them, nor whether they     *)
(* have left: the proofs see the set of what is to come to a side.  What makes them go through   *)
(* is Located (where the request and the response of an ask may be) and    *)
(* RivalsKnown (whatever is under way while an ask waits was counted as    *)
(* its rival, at the start of one or of the other).                        *)
(***************************************************************************)
EXTENDS RemoteCall, TLAPS

Travelling(s) ==
    {channel[s][n] : n \in DOMAIN channel[s]} \cup {unsent[s][n] : n \in DOMAIN unsent[s]}

\* Requests go to the other side, responses come back.
Placed(s, msg) ==
    /\ msg.ask \in 1 .. made
    /\ asks[msg.ask].from = IF msg.type = "result" THEN s ELSE Peer(s)

Located ==
    \A s \in Sides :
        /\ \A msg \in Travelling(s) : Placed(s, msg)
        /\ \A i \in running[s] : i \in 1 .. made /\ asks[i].from = Peer(s)

\* Nobody waits for an ask that is not made.
OnlyMadeWait == \A i \in Asks : asks[i].wait = "waiting" => i \in 1 .. made

RivalsKnown ==
    \A i, j \in 1 .. made :
        (SameName(i, j) /\ asks[j].wait = "waiting" /\ Underway(i))
            => i \in {j} \cup asks[j].rivals

\* destroy() has cleared the callbacks, and no method is called any more.
DestroyedHaveNone == \A s \in destroyed : callBacks[s] = {}

IInv ==
    /\ TypeOK
    /\ Located
    /\ OnlyMadeWait
    /\ HandlersAreWaits
    /\ RivalsKnown
    /\ OwnOrRivalsAnswer
    /\ DestroyedHaveNone

-----------------------------------------------------------------------------
(* Sides and channels *)

LEMMA PeerIsOther ==
  ASSUME NEW s \in Sides
  PROVE  Peer(s) \in Sides /\ Peer(s) # s /\ Peer(Peer(s)) = s
BY SidesAssumption DEF Peer, Sides

LEMMA MadeAreAsks ==
  ASSUME TypeOK
  PROVE  /\ 1 .. made \subseteq Asks
         /\ made \in Nat
         /\ made < MaxAsks => made + 1 \in Asks /\ made + 1 \in 0 .. MaxAsks
BY BoundsAssumption DEF TypeOK, Asks

LEMMA AppendElements ==
  ASSUME NEW S, NEW q \in Seq(S), NEW m \in S
  PROVE  /\ Append(q, m) \in Seq(S)
         /\ \A n \in DOMAIN Append(q, m) :
               Append(q, m)[n] = m \/ \E k \in DOMAIN q : Append(q, m)[n] = q[k]
OBVIOUS

LEMMA TailElements ==
  ASSUME NEW S, NEW q \in Seq(S), q # <<>>
  PROVE  /\ Tail(q) \in Seq(S)
         /\ Head(q) \in S
         /\ \E k \in DOMAIN q : Head(q) = q[k]
         /\ \A n \in DOMAIN Tail(q) : \E k \in DOMAIN q : Tail(q)[n] = q[k]
<1>1. /\ Len(q) \in Nat /\ Len(q) > 0 /\ DOMAIN q = 1 .. Len(q)
      /\ \A k \in 1 .. Len(q) : q[k] \in S
  OBVIOUS
<1>2. /\ Tail(q) \in Seq(S) /\ DOMAIN Tail(q) = 1 .. (Len(q) - 1)
      /\ \A n \in 1 .. (Len(q) - 1) : Tail(q)[n] = q[n + 1]
  BY <1>1
<1>3. Head(q) = q[1] /\ 1 \in DOMAIN q
  BY <1>1
<1>4. \A n \in 1 .. (Len(q) - 1) : n + 1 \in 1 .. Len(q)
  BY <1>1
<1> QED
  BY <1>1, <1>2, <1>3, <1>4

\* A message that is posted is added to what travels to s.
LEMMA PostedAdds ==
  ASSUME TypeOK, NEW s \in Sides, NEW msg \in MessageType, Posted(s, msg)
  PROVE  /\ unsent' \in [Sides -> Seq(MessageType)]
         /\ \A t \in Sides : \A n \in DOMAIN unsent'[t] :
               unsent'[t][n] \in Travelling(t) \/ (t = s /\ unsent'[t][n] = msg)
<1> USE DEF TypeOK, Travelling
<1>1. unsent' = [unsent EXCEPT ![s] = Append(@, msg)] /\ unsent[s] \in Seq(MessageType)
  BY DEF Posted
<1>2. unsent' \in [Sides -> Seq(MessageType)]
  BY <1>1, AppendElements
<1>3. ASSUME NEW t \in Sides, NEW n \in DOMAIN unsent'[t]
      PROVE  unsent'[t][n] \in Travelling(t) \/ (t = s /\ unsent'[t][n] = msg)
  <2>1. CASE t = s
    BY <1>1, <2>1, AppendElements
  <2>2. CASE t # s
    BY <1>1, <2>2
  <2> QED
    BY <2>1, <2>2
<1> QED
  BY <1>2, <1>3

\* A message that is received was travelling, and no other one comes by the
\* channel.
LEMMA ReceivedWasTravelling ==
  ASSUME TypeOK, NEW s \in Sides, NEW msg, Receives(s, msg)
  PROVE  /\ msg \in Travelling(s) /\ msg \in MessageType
         /\ channel' = [channel EXCEPT ![s] = Tail(@)] =>
               /\ channel' \in [Sides -> Seq(MessageType)]
               /\ \A t \in Sides : \A n \in DOMAIN channel'[t] : channel'[t][n] \in Travelling(t)
<1> USE DEF TypeOK, Travelling, Receives
<1>1. channel[s] \in Seq(MessageType) /\ channel[s] # <<>>
  OBVIOUS
<1>2. msg \in Travelling(s) /\ msg \in MessageType
  BY <1>1, TailElements
<1>3. ASSUME channel' = [channel EXCEPT ![s] = Tail(@)]
      PROVE  /\ channel' \in [Sides -> Seq(MessageType)]
             /\ \A t \in Sides : \A n \in DOMAIN channel'[t] : channel'[t][n] \in Travelling(t)
  <2>1. channel' \in [Sides -> Seq(MessageType)]
    BY <1>1, <1>3, TailElements
  <2>2. ASSUME NEW t \in Sides, NEW n \in DOMAIN channel'[t]
        PROVE  channel'[t][n] \in Travelling(t)
    <3>1. CASE t = s
      BY <1>1, <1>3, <3>1, TailElements
    <3>2. CASE t # s
      BY <1>3, <3>2
    <3> QED
      BY <3>1, <3>2
  <2> QED
    BY <2>1, <2>2
<1> QED
  BY <1>2, <1>3

\* What is to come after a step.
LEMMA TravellingNext ==
  ASSUME NEW t, NEW m \in Travelling(t)'
  PROVE  \/ \E n \in DOMAIN channel'[t] : m = channel'[t][n]
         \/ \E n \in DOMAIN unsent'[t] : m = unsent'[t][n]
BY DEF Travelling

\* Messages that are received leave, those that wait to be sent stay.
LEMMA ReceivedAlone ==
  ASSUME UNCHANGED unsent,
         \A t \in Sides : \A n \in DOMAIN channel'[t] : channel'[t][n] \in Travelling(t)
  PROVE  \A t \in Sides : Travelling(t)' \subseteq Travelling(t)
BY DEF Travelling

LEMMA UnderwayIs ==
  ASSUME NEW i
  PROVE  Underway(i) <=>
           \E s \in Sides : i \in running[s] \/ \E m \in Travelling(s) : m.ask = i
BY DEF Underway, Carries, Travelling

LEMMA Messages ==
  ASSUME NEW i \in Asks
  PROVE  /\ Call(i) \in MessageType /\ Call(i).ask = i /\ Call(i).type = "call"
         /\ Result(i) \in MessageType /\ Result(i).ask = i /\ Result(i).type = "result"
BY DEF Call, Result, MessageType

-----------------------------------------------------------------------------
(* Steps that make no ask and settle none *)

\* Only promises of send() may settle.
SameAsks ==
    \A i \in Asks : /\ asks'[i].from = asks[i].from
                    /\ asks'[i].kind = asks[i].kind
                    /\ asks'[i].key = asks[i].key
                    /\ asks'[i].wait = asks[i].wait
                    /\ asks'[i].answer = asks[i].answer
                    /\ asks'[i].rivals = asks[i].rivals

\* Nothing new is under way after such a step, and what is has moved to a
\* place of its own.
LEMMA QuietKeeps ==
  ASSUME IInv, TypeOK', SameAsks, UNCHANGED <<made, handlers, callBacks, destroyed>>,
         \A s \in Sides : \A m \in Travelling(s)' :
            m \in Travelling(s) \/ (Placed(s, m) /\ Underway(m.ask)),
         \A s \in Sides : \A i \in running'[s] :
            i \in running[s] \/ (i \in 1 .. made /\ asks[i].from = Peer(s) /\ Underway(i))
  PROVE  IInv'
<1> USE DEF IInv, SameAsks
<1>0. 1 .. made \subseteq Asks
  BY MadeAreAsks
<1>1. Located'
  BY <1>0 DEF Located, Placed
<1>2. \A i : Underway(i)' => Underway(i)
  <2> TAKE i
  <2>1. Underway(i)' <=> \E s \in Sides : i \in running'[s] \/ \E m \in Travelling(s)' : m.ask = i
    BY DEF Underway, Carries, Travelling
  <2> QED
    BY <2>1, UnderwayIs
<1>3. RivalsKnown'
  BY <1>0, <1>2 DEF RivalsKnown, SameName
<1>4. OnlyMadeWait' /\ HandlersAreWaits' /\ OwnOrRivalsAnswer' /\ DestroyedHaveNone'
  BY <1>0 DEF OnlyMadeWait, HandlersAreWaits, OwnOrRivalsAnswer, DestroyedHaveNone
<1> QED
  BY <1>1, <1>3, <1>4

LEMMA ReceiveCallKeeps ==
  ASSUME IInv, NEW s \in Sides, ReceiveCallMethod(s) \/ ReceiveCbCall(s)
  PROVE  IInv'
<1>1. PICK i \in Asks :
        /\ Receives(s, Call(i))
        /\ channel' = [channel EXCEPT ![s] = Tail(@)]
        /\ \/ running' = [running EXCEPT ![s] = @ \cup {i}]
           \/ UNCHANGED running
        /\ \/ fakes' = [fakes EXCEPT ![s] = @ \cup {i}]
           \/ UNCHANGED fakes
        /\ UNCHANGED <<asks, made, handlers, unsent, callBacks, destroyed, losses>>
  BY DEF ReceiveCallMethod, ReceiveCbCall
<1>2. /\ Call(i) \in Travelling(s)
      /\ channel' \in [Sides -> Seq(MessageType)]
      /\ \A t \in Sides : Travelling(t)' \subseteq Travelling(t)
  BY <1>1, ReceivedWasTravelling, ReceivedAlone DEF IInv
<1>3. /\ i \in 1 .. made /\ asks[i].from = Peer(s)
      /\ Underway(i)
  BY <1>2, Messages, UnderwayIs DEF IInv, Located, Placed
<1>4. TypeOK'
  <2>1. running' \in [Sides -> SUBSET Asks]
    <3>1. CASE running' = [running EXCEPT ![s] = @ \cup {i}]
      BY <3>1 DEF IInv, TypeOK
    <3>2. CASE UNCHANGED running
      BY <3>2 DEF IInv, TypeOK
    <3> QED
      BY <1>1, <3>1, <3>2
  <2>2. fakes' \in [Sides -> SUBSET Asks]
    <3>1. CASE fakes' = [fakes EXCEPT ![s] = @ \cup {i}]
      BY <3>1 DEF IInv, TypeOK
    <3>2. CASE UNCHANGED fakes
      BY <3>2 DEF IInv, TypeOK
    <3> QED
      BY <1>1, <3>1, <3>2
  <2>3. UNCHANGED <<asks, made, handlers, unsent, callBacks, destroyed, losses>>
    BY <1>1
  <2> QED
    BY <1>2, <2>1, <2>2, <2>3 DEF IInv, TypeOK
<1>5. \A t \in Sides : \A j \in running'[t] : j \in running[t] \/ (t = s /\ j = i)
  BY <1>1 DEF IInv, TypeOK
<1> QED
  BY <1>1, <1>2, <1>3, <1>4, <1>5, QuietKeeps DEF SameAsks

\* What a step that posts the response of i, and receives a message or
\* none, leaves to be shown.
LEMMA ResponseKeeps ==
  ASSUME IInv, NEW s \in Sides, NEW i \in 1 .. made, asks[i].from = Peer(s), Underway(i),
         Posted(Peer(s), Result(i)),
         channel' \in [Sides -> Seq(MessageType)],
         \A t \in Sides : \A n \in DOMAIN channel'[t] : channel'[t][n] \in Travelling(t),
         running' \in [Sides -> SUBSET Asks],
         \A t \in Sides : running'[t] \subseteq running[t],
         UNCHANGED <<asks, made, handlers, callBacks, fakes, destroyed, losses>>
  PROVE  IInv'
<1>1. i \in Asks /\ Peer(s) \in Sides
  BY MadeAreAsks, PeerIsOther DEF IInv
<1>2. Placed(Peer(s), Result(i)) /\ Result(i).ask = i
  BY <1>1, PeerIsOther, Messages DEF Placed
<1>3. /\ unsent' \in [Sides -> Seq(MessageType)]
      /\ \A t \in Sides : \A n \in DOMAIN unsent'[t] :
            unsent'[t][n] \in Travelling(t) \/ (t = Peer(s) /\ unsent'[t][n] = Result(i))
  BY <1>1, Messages, PostedAdds DEF IInv
<1>4. \A t \in Sides : \A m \in Travelling(t)' :
         m \in Travelling(t) \/ (t = Peer(s) /\ m = Result(i))
  <2> SUFFICES ASSUME NEW t \in Sides, NEW m \in Travelling(t)'
               PROVE  m \in Travelling(t) \/ (t = Peer(s) /\ m = Result(i))
    OBVIOUS
  <2>1. CASE \E n \in DOMAIN channel'[t] : m = channel'[t][n]
    BY <2>1
  <2>2. CASE \E n \in DOMAIN unsent'[t] : m = unsent'[t][n]
    BY <1>3, <2>2
  <2> QED
    BY <2>1, <2>2, TravellingNext
<1>5. TypeOK'
  BY <1>3 DEF IInv, TypeOK
<1> QED
  BY <1>2, <1>4, <1>5, QuietKeeps DEF SameAsks

LEMMA RefuseKeeps ==
  ASSUME IInv, NEW s \in Sides, RefuseCbCall(s)
  PROVE  IInv'
<1>1. PICK i \in Asks :
        /\ Receives(s, Call(i))
        /\ channel' = [channel EXCEPT ![s] = Tail(@)]
        /\ Posted(Peer(s), Result(i))
        /\ UNCHANGED <<asks, made, handlers, running, callBacks, fakes, destroyed, losses>>
  BY DEF RefuseCbCall
<1>2. /\ Call(i) \in Travelling(s)
      /\ channel' \in [Sides -> Seq(MessageType)]
      /\ \A t \in Sides : \A n \in DOMAIN channel'[t] : channel'[t][n] \in Travelling(t)
  BY <1>1, ReceivedWasTravelling DEF IInv
<1>3. /\ i \in 1 .. made /\ asks[i].from = Peer(s)
      /\ Underway(i)
  BY <1>2, Messages, UnderwayIs DEF IInv, Located, Placed
<1>4. running' \in [Sides -> SUBSET Asks] /\ \A t \in Sides : running'[t] \subseteq running[t]
  BY <1>1 DEF IInv, TypeOK
<1> QED
  BY <1>1, <1>2, <1>3, <1>4, ResponseKeeps

LEMMA FinishKeeps ==
  ASSUME IInv, NEW s \in Sides, NEW i \in Asks, Finish(s, i)
  PROVE  IInv'
<1>1. i \in 1 .. made /\ asks[i].from = Peer(s) /\ Underway(i)
  BY UnderwayIs DEF Finish, IInv, Located
<1>2. /\ channel' \in [Sides -> Seq(MessageType)]
      /\ \A t \in Sides : \A n \in DOMAIN channel'[t] : channel'[t][n] \in Travelling(t)
  BY DEF Finish, IInv, TypeOK, Travelling
<1>3. running' \in [Sides -> SUBSET Asks] /\ \A t \in Sides : running'[t] \subseteq running[t]
  BY DEF Finish, IInv, TypeOK
<1> QED
  BY <1>1, <1>2, <1>3, ResponseKeeps DEF Finish

\* The oldest message moves to the channel or is gone, and its promise settles.
LEMMA SendSettlesKeeps ==
  ASSUME IInv, NEW s \in Sides, NEW how \in SendOutcomes, SendSettles(s, how)
  PROVE  IInv'
<1> DEFINE msg == Head(unsent[s])
           told == IF how = "fails" THEN "failed" ELSE "done"
<1>1. /\ unsent[s] # <<>>
      /\ unsent' = [unsent EXCEPT ![s] = Tail(@)]
      /\ \/ channel' = [channel EXCEPT ![s] = Append(@, msg)] /\ UNCHANGED losses
         \/ losses < MaxLosses /\ losses' = losses + 1 /\ UNCHANGED channel
      /\ \/ UNCHANGED asks
         \/ asks' = [asks EXCEPT ![msg.ask].send = told]
      /\ UNCHANGED <<made, handlers, running, callBacks, fakes, destroyed>>
  BY DEF SendSettles
<1>2. unsent[s] \in Seq(MessageType) /\ channel[s] \in Seq(MessageType)
  BY DEF IInv, TypeOK
<1>3. /\ msg \in MessageType /\ msg \in Travelling(s)
      /\ Tail(unsent[s]) \in Seq(MessageType)
      /\ \A n \in DOMAIN Tail(unsent[s]) : Tail(unsent[s])[n] \in Travelling(s)
  BY <1>1, <1>2, TailElements DEF Travelling
<1> HIDE DEF msg
<1>4. /\ unsent' \in [Sides -> Seq(MessageType)]
      /\ \A t \in Sides : \A n \in DOMAIN unsent'[t] : unsent'[t][n] \in Travelling(t)
  <2>1. \A t \in Sides : unsent'[t] = IF t = s THEN Tail(unsent[s]) ELSE unsent[t]
    BY <1>1 DEF IInv, TypeOK
  <2>2. \A t \in Sides : \A n \in DOMAIN unsent[t] : unsent[t][n] \in Travelling(t)
    BY DEF Travelling
  <2>3. unsent' \in [Sides -> Seq(MessageType)]
    BY <1>1, <1>3 DEF IInv, TypeOK
  <2> QED
    BY <1>3, <2>1, <2>2, <2>3
<1>5. /\ channel' \in [Sides -> Seq(MessageType)]
      /\ \A t \in Sides : \A n \in DOMAIN channel'[t] : channel'[t][n] \in Travelling(t)
  <2>1. CASE UNCHANGED channel
    BY <2>1 DEF IInv, TypeOK, Travelling
  <2>2. CASE channel' = [channel EXCEPT ![s] = Append(@, msg)]
    <3>1. \A t \in Sides : channel'[t] = IF t = s THEN Append(channel[s], msg) ELSE channel[t]
      BY <2>2 DEF IInv, TypeOK
    <3>2. \A t \in Sides : \A n \in DOMAIN channel[t] : channel[t][n] \in Travelling(t)
      BY DEF Travelling
    <3>3. channel' \in [Sides -> Seq(MessageType)]
      BY <1>2, <1>3, <2>2, AppendElements DEF IInv, TypeOK
    <3>4. \A n \in DOMAIN Append(channel[s], msg) : Append(channel[s], msg)[n] \in Travelling(s)
      BY <1>2, <1>3, <3>2, AppendElements
    <3> QED
      BY <3>1, <3>2, <3>3, <3>4
  <2> QED
    BY <1>1, <2>1, <2>2
<1>6. \A t \in Sides : Travelling(t)' \subseteq Travelling(t)
  BY <1>4, <1>5, TravellingNext
<1>7. SameAsks /\ asks' \in [Asks -> AskType]
  <2>1. asks \in [Asks -> AskType] /\ msg.ask \in Asks
    BY <1>3 DEF IInv, TypeOK, MessageType
  <2>2. CASE UNCHANGED asks
    BY <2>1, <2>2 DEF SameAsks
  <2>3. CASE asks' = [asks EXCEPT ![msg.ask].send = told]
    <3>1. told \in {"waits", "done", "failed"}
      OBVIOUS
    <3> DEFINE new == [asks[msg.ask] EXCEPT !.send = told]
    <3> HIDE DEF told
    <3>2. /\ new \in AskType
          /\ new.from = asks[msg.ask].from /\ new.kind = asks[msg.ask].kind
          /\ new.key = asks[msg.ask].key /\ new.wait = asks[msg.ask].wait
          /\ new.answer = asks[msg.ask].answer /\ new.rivals = asks[msg.ask].rivals
      BY <2>1, <3>1 DEF AskType
    <3>3. asks' = [asks EXCEPT ![msg.ask] = new]
      BY <2>3
    <3> HIDE DEF new
    <3>4. asks' \in [Asks -> AskType]
      BY <2>1, <3>2, <3>3
    <3>5. \A i \in Asks : asks'[i] = IF i = msg.ask THEN new ELSE asks[i]
      BY <2>1, <3>3
    <3> QED
      BY <3>2, <3>4, <3>5 DEF SameAsks
  <2> QED
    BY <1>1, <2>2, <2>3
<1>8. TypeOK'
  <2>1. losses' \in 0 .. MaxLosses
    BY <1>1, BoundsAssumption DEF IInv, TypeOK
  <2> QED
    BY <1>1, <1>4, <1>5, <1>7, <2>1 DEF IInv, TypeOK
<1> QED
  BY <1>1, <1>6, <1>7, <1>8, QuietKeeps

LEMMA ConnectionLostKeeps ==
  ASSUME IInv, ConnectionLost
  PROVE  IInv'
<1>1. TypeOK'
  BY BoundsAssumption DEF ConnectionLost, IInv, TypeOK
<1>2. \A s \in Sides : Travelling(s)' \subseteq Travelling(s)
  BY DEF ConnectionLost, Travelling
<1>3. UNCHANGED <<asks, made, handlers, callBacks, destroyed, running>>
  BY DEF ConnectionLost
<1> QED
  BY <1>1, <1>2, <1>3, QuietKeeps DEF SameAsks

-----------------------------------------------------------------------------
(* Asks and their ends *)

\* An ask is its own, and counts what could answer it; those that wait under
\* its name count it.
LEMMA AskKeeps ==
  ASSUME IInv, NEW s \in Sides, NEW kind \in Kinds, NEW key \in Methods \cup Asks,
         Ask(s, kind, key), UNCHANGED <<channel, running, destroyed, losses>>,
         callBacks' \in [Sides -> SUBSET Asks],
         \A t \in destroyed : callBacks'[t] = callBacks[t],
         fakes' = fakes
  PROVE  IInv'
<1> DEFINE i == made + 1
           new == [from |-> s, kind |-> kind, key |-> key, send |-> "waits",
                   wait |-> IF s \in destroyed THEN "refused" ELSE "waiting",
                   answer |-> 0, rivals |-> RivalsOf(s, kind, key)]
           Hit(j) == /\ asks[j].from = s /\ asks[j].kind = kind
                     /\ asks[j].key = key /\ asks[j].wait = "waiting"
<1>1. /\ made < MaxAsks
      /\ made' = i
      /\ asks' = [j \in Asks |-> IF j = i THEN new
                                 ELSE IF Hit(j) THEN [asks[j] EXCEPT !.rivals = @ \cup {i}]
                                 ELSE asks[j]]
      /\ handlers' = IF s \in destroyed THEN handlers
                     ELSE [handlers EXCEPT ![s] = @ \cup {i}]
      /\ Posted(Peer(s), Call(i))
  BY DEF Ask
<1>2. /\ TypeOK /\ asks \in [Asks -> AskType]
      /\ i \in Asks /\ i \in 0 .. MaxAsks /\ made \in Nat
      /\ 1 .. made \subseteq Asks /\ i \notin 1 .. made
      /\ 1 .. i = (1 .. made) \cup {i}
  BY <1>1, MadeAreAsks DEF IInv, TypeOK
<1>3. new \in AskType
  BY <1>2 DEF AskType, WaitStates, RivalsOf
<1>4. /\ unsent' \in [Sides -> Seq(MessageType)]
      /\ \A t \in Sides : \A m \in Travelling(t)' :
            m \in Travelling(t) \/ (t = Peer(s) /\ m = Call(i))
  <2> HIDE DEF i
  <2>1. /\ unsent' \in [Sides -> Seq(MessageType)]
        /\ \A t \in Sides : \A n \in DOMAIN unsent'[t] :
              unsent'[t][n] \in Travelling(t) \/ (t = Peer(s) /\ unsent'[t][n] = Call(i))
    BY <1>1, <1>2, PeerIsOther, Messages, PostedAdds
  <2> QED
    BY <2>1 DEF Travelling
<1>5. asks' \in [Asks -> AskType]
  <2>1. ASSUME NEW j \in Asks
        PROVE  [asks[j] EXCEPT !.rivals = @ \cup {i}] \in AskType
    BY <1>2 DEF AskType
  <2> HIDE DEF new, Hit
  <2> QED
    BY <1>1, <1>2, <1>3, <2>1
<1>6. handlers' \in [Sides -> SUBSET Asks]
  BY <1>1, <1>2 DEF IInv, TypeOK
<1>7. TypeOK'
  BY <1>1, <1>2, <1>4, <1>5, <1>6 DEF IInv, TypeOK
<1>8. /\ asks'[i] = new
      /\ \A j \in Asks \ {i} : /\ asks'[j].from = asks[j].from
                               /\ asks'[j].kind = asks[j].kind
                               /\ asks'[j].key = asks[j].key
                               /\ asks'[j].wait = asks[j].wait
                               /\ asks'[j].answer = asks[j].answer
                               /\ asks[j].rivals \subseteq asks'[j].rivals
                               /\ Hit(j) => i \in asks'[j].rivals
  <2>1. ASSUME NEW j \in Asks \ {i}, Hit(j)
        PROVE  asks'[j] = [asks[j] EXCEPT !.rivals = @ \cup {i}]
    BY <1>1, <2>1
  <2>2. ASSUME NEW j \in Asks \ {i}, ~Hit(j)
        PROVE  asks'[j] = asks[j]
    BY <1>1, <2>2
  <2>3. asks'[i] = new
    BY <1>1, <1>2
  <2> HIDE DEF new
  <2>4. ASSUME NEW j \in Asks \ {i}, Hit(j)
        PROVE  /\ asks'[j].from = asks[j].from
               /\ asks'[j].kind = asks[j].kind
               /\ asks'[j].key = asks[j].key
               /\ asks'[j].wait = asks[j].wait
               /\ asks'[j].answer = asks[j].answer
               /\ asks'[j].rivals = asks[j].rivals \cup {i}
    <3>1. asks[j] \in AskType
      BY <1>2
    <3> HIDE DEF i, Hit
    <3> QED
      BY <2>1, <2>4, <3>1 DEF AskType
  <2> HIDE DEF Hit, i
  <2> QED
    BY <2>2, <2>3, <2>4
<1>9. /\ new.from = s /\ new.kind = kind /\ new.key = key /\ new.answer = 0
      /\ new.rivals = RivalsOf(s, kind, key)
      /\ new.wait = IF s \in destroyed THEN "refused" ELSE "waiting"
  OBVIOUS
<1> HIDE DEF new, i
<1>10. Located'
  <2>1. ASSUME NEW t \in Sides, NEW m \in Travelling(t)'
        PROVE  Placed(t, m)'
    <3>1. CASE m \in Travelling(t)
      <4>1. Placed(t, m)
        BY <3>1 DEF IInv, Located
      <4> QED
        BY <1>1, <1>2, <1>8, <4>1 DEF Placed
    <3>2. CASE t = Peer(s) /\ m = Call(i)
      <4>1. m.ask = i /\ m.type = "call" /\ Peer(t) = s
        BY <1>2, <3>2, PeerIsOther, Messages
      <4> QED
        BY <1>1, <1>2, <1>8, <1>9, <4>1 DEF Placed
    <3> QED
      BY <1>4, <3>1, <3>2
  <2>2. \A t \in Sides : \A j \in running'[t] : j \in 1 .. made' /\ asks'[j].from = Peer(t)
    BY <1>1, <1>2, <1>8 DEF IInv, Located
  <2> QED
    BY <2>1, <2>2 DEF Located
<1>11. OnlyMadeWait'
  BY <1>1, <1>2, <1>8 DEF IInv, OnlyMadeWait
<1>12. HandlersAreWaits'
  <2> SUFFICES ASSUME NEW t \in Sides \ destroyed
               PROVE  handlers'[t] = {j \in Asks : asks'[j].from = t /\ asks'[j].wait = "waiting"}
    BY DEF HandlersAreWaits
  <2>1. handlers[t] = {j \in Asks : asks[j].from = t /\ asks[j].wait = "waiting"}
    BY DEF IInv, HandlersAreWaits
  <2>2. ~(asks[i].wait = "waiting")
    BY <1>2 DEF IInv, OnlyMadeWait
  <2>3. CASE t = s
    <3>1. handlers'[t] = handlers[t] \cup {i}
      BY <1>1, <2>3 DEF IInv, TypeOK
    <3>2. s \notin destroyed /\ asks'[i].from = s /\ asks'[i].wait = "waiting"
      BY <1>8, <1>9, <2>3
    <3>3. \A j \in Asks \ {i} : /\ asks'[j].from = asks[j].from
                                /\ asks'[j].wait = asks[j].wait
      BY <1>8
    <3>4. i \in Asks
      BY <1>2
    <3> QED
      BY <2>1, <2>2, <2>3, <3>1, <3>2, <3>3, <3>4
  <2>4. CASE t # s
    <3>1. handlers'[t] = handlers[t]
      BY <1>1, <2>4 DEF IInv, TypeOK
    <3>2. ~(asks'[i].from = t)
      BY <1>8, <1>9, <2>4
    <3>3. \A j \in Asks \ {i} : /\ asks'[j].from = asks[j].from
                                /\ asks'[j].wait = asks[j].wait
      BY <1>8
    <3> QED
      BY <2>1, <2>2, <3>1, <3>2, <3>3
  <2> QED
    BY <2>3, <2>4
<1>13. \A j \in 1 .. made : Underway(j)' => Underway(j)
  <2> TAKE j \in 1 .. made
  <2>1. Underway(j)' <=> \E t \in Sides : j \in running'[t] \/ \E m \in Travelling(t)' : m.ask = j
    BY DEF Underway, Carries, Travelling
  <2>2. Call(i).ask # j
    BY <1>2, Messages
  <2> QED
    BY <1>4, <2>1, <2>2, UnderwayIs
<1>14. RivalsKnown'
  <2> SUFFICES ASSUME NEW j \in 1 .. made', NEW k \in 1 .. made',
                      SameName(j, k)', asks'[k].wait = "waiting", Underway(j)', j # k
               PROVE  j \in asks'[k].rivals
    BY DEF RivalsKnown
  <2>1. CASE j \in 1 .. made /\ k \in 1 .. made
    <3>1. SameName(j, k) /\ asks[k].wait = "waiting" /\ Underway(j)
      BY <1>2, <1>8, <1>13, <2>1 DEF SameName
    <3> QED
      BY <1>2, <1>8, <2>1, <3>1 DEF IInv, RivalsKnown
  <2>2. CASE j \in 1 .. made /\ k = i
    BY <1>2, <1>8, <1>9, <1>13, <2>2 DEF SameName, RivalsOf
  <2>3. CASE j = i /\ k \in 1 .. made
    BY <1>2, <1>8, <1>9, <2>3 DEF SameName
  <2> QED
    BY <1>1, <1>2, <2>1, <2>2, <2>3
<1>15. OwnOrRivalsAnswer'
  BY <1>1, <1>2, <1>8, <1>9 DEF IInv, OwnOrRivalsAnswer
<1>16. DestroyedHaveNone'
  BY DEF IInv, DestroyedHaveNone
<1> QED
  BY <1>7, <1>10, <1>11, <1>12, <1>14, <1>15, <1>16 DEF IInv

LEMMA CallsKeep ==
  ASSUME IInv, NEW s \in Sides, NEW m,
         (m \in Methods /\ CallMethod(s, m)) \/ (m \in Asks /\ CallFake(s, m))
  PROVE  IInv'
<1>1. CASE m \in Methods /\ CallMethod(s, m)
  <2>1. made + 1 \in Asks
    BY <1>1, MadeAreAsks DEF CallMethod, Ask, IInv
  <2>2. callBacks' \in [Sides -> SUBSET Asks] /\ \A t \in destroyed : callBacks'[t] = callBacks[t]
    BY <1>1, <2>1 DEF CallMethod, IInv, TypeOK
  <2> QED
    BY <1>1, <2>2, AskKeeps DEF CallMethod, Kinds
<1>2. CASE m \in Asks /\ CallFake(s, m)
  <2>1. callBacks' \in [Sides -> SUBSET Asks] /\ \A t \in destroyed : callBacks'[t] = callBacks[t]
    BY <1>2 DEF CallFake, IInv, TypeOK
  <2> QED
    BY <1>2, <2>1, AskKeeps DEF CallFake, Kinds
<1> QED
  BY <1>1, <1>2

LEMMA ReceiveResultKeeps ==
  ASSUME IInv, NEW s \in Sides, ReceiveResult(s)
  PROVE  IInv'
<1>1. PICK i \in Asks :
        LET heard == IF s \in destroyed THEN {} ELSE Hears(s, i)
        IN  /\ Receives(s, Result(i))
            /\ channel' = [channel EXCEPT ![s] = Tail(@)]
            /\ asks' = [j \in Asks |-> IF j \in heard
                                       THEN [asks[j] EXCEPT !.wait = "result", !.answer = i]
                                       ELSE asks[j]]
            /\ handlers' = [handlers EXCEPT ![s] = @ \ heard]
            /\ UNCHANGED <<made, unsent, running, callBacks, fakes, destroyed, losses>>
  BY DEF ReceiveResult
<1> DEFINE heard == IF s \in destroyed THEN {} ELSE Hears(s, i)
<1>2. /\ Receives(s, Result(i))
      /\ channel' = [channel EXCEPT ![s] = Tail(@)]
      /\ asks' = [j \in Asks |-> IF j \in heard
                                 THEN [asks[j] EXCEPT !.wait = "result", !.answer = i]
                                 ELSE asks[j]]
      /\ handlers' = [handlers EXCEPT ![s] = @ \ heard]
      /\ UNCHANGED <<made, unsent, running, callBacks, fakes, destroyed, losses>>
  BY <1>1
<1>3. /\ Result(i) \in Travelling(s)
      /\ channel' \in [Sides -> Seq(MessageType)]
      /\ \A t \in Sides : Travelling(t)' \subseteq Travelling(t)
  BY <1>2, ReceivedWasTravelling, ReceivedAlone DEF IInv
<1>4. i \in 1 .. made /\ asks[i].from = s /\ Underway(i)
  BY <1>3, Messages, UnderwayIs DEF IInv, Located, Placed
<1>5. /\ 1 .. made \subseteq Asks /\ asks \in [Asks -> AskType]
      /\ \A j \in Asks : asks[j] \in AskType
  BY MadeAreAsks DEF IInv, TypeOK
<1>6. \A j \in heard : /\ j \in 1 .. made
                       /\ asks[j].from = s /\ asks[j].wait = "waiting"
                       /\ SameName(i, j)
  <2>1. CASE s \in destroyed
    BY <2>1
  <2>2. CASE s \notin destroyed
    <3>1. handlers[s] = {j \in Asks : asks[j].from = s /\ asks[j].wait = "waiting"}
      BY <2>2 DEF IInv, HandlersAreWaits
    <3>2. heard = {j \in handlers[s] : asks[j].kind = asks[i].kind /\ asks[j].key = asks[i].key}
      BY <2>2 DEF Hears
    <3> HIDE DEF heard
    <3>3. \A j \in heard : j \in 1 .. made
      BY <3>1, <3>2 DEF IInv, OnlyMadeWait
    <3> QED
      BY <1>4, <3>1, <3>2, <3>3 DEF SameName
  <2> QED
    BY <2>1, <2>2
<1> HIDE DEF heard
<1>7. /\ \A j \in Asks \ heard : asks'[j] = asks[j]
      /\ \A j \in heard : /\ asks'[j] \in AskType
                          /\ asks'[j].from = asks[j].from
                          /\ asks'[j].kind = asks[j].kind
                          /\ asks'[j].key = asks[j].key
                          /\ asks'[j].rivals = asks[j].rivals
                          /\ asks'[j].wait = "result"
                          /\ asks'[j].answer = i
  <2>1. \A j \in Asks \ heard : asks'[j] = asks[j]
    BY <1>2
  <2>2. ASSUME NEW j \in heard
        PROVE  asks'[j] = [asks[j] EXCEPT !.wait = "result", !.answer = i] /\ asks[j] \in AskType
    BY <1>2, <1>5, <1>6
  <2>3. ASSUME NEW j \in heard
        PROVE  /\ asks'[j] \in AskType
               /\ asks'[j].from = asks[j].from
               /\ asks'[j].kind = asks[j].kind
               /\ asks'[j].key = asks[j].key
               /\ asks'[j].rivals = asks[j].rivals
               /\ asks'[j].wait = "result"
               /\ asks'[j].answer = i
    <3>1. asks'[j] = [asks[j] EXCEPT !.wait = "result", !.answer = i] /\ asks[j] \in AskType
      BY <2>2
    <3> QED
      BY <3>1 DEF AskType, WaitStates
  <2> QED
    BY <2>1, <2>3
<1>8. asks' \in [Asks -> AskType]
  BY <1>2, <1>5, <1>7
<1>9. TypeOK'
  <2>1. handlers' \in [Sides -> SUBSET Asks]
    BY <1>2 DEF IInv, TypeOK
  <2> QED
    BY <1>2, <1>3, <1>8, <2>1 DEF IInv, TypeOK
<1>10. \A j \in Asks : /\ asks'[j].from = asks[j].from
                       /\ asks'[j].kind = asks[j].kind
                       /\ asks'[j].key = asks[j].key
                       /\ asks'[j].rivals = asks[j].rivals
                       /\ asks'[j].wait = "waiting" <=> asks[j].wait = "waiting" /\ j \notin heard
  BY <1>7
<1>11. Located'
  <2>1. ASSUME NEW t \in Sides, NEW m \in Travelling(t)'
        PROVE  Placed(t, m)'
    <3>1. Placed(t, m)
      BY <1>3, <2>1 DEF IInv, Located
    <3>2. m.ask \in Asks
      BY <1>5, <3>1 DEF Placed
    <3> QED
      BY <1>2, <1>10, <3>1, <3>2 DEF Placed
  <2>2. ASSUME NEW t \in Sides, NEW j \in running'[t]
        PROVE  j \in 1 .. made' /\ asks'[j].from = Peer(t)
    <3>1. j \in 1 .. made /\ asks[j].from = Peer(t)
      BY <1>2, <2>2 DEF IInv, Located
    <3>2. j \in Asks
      BY <1>5, <3>1
    <3> QED
      BY <1>2, <1>10, <3>1, <3>2
  <2> QED
    BY <2>1, <2>2 DEF Located
<1>12. OnlyMadeWait'
  BY <1>2, <1>10 DEF IInv, OnlyMadeWait
<1>13. HandlersAreWaits'
  <2> SUFFICES ASSUME NEW t \in Sides \ destroyed
               PROVE  handlers'[t] = {j \in Asks : asks'[j].from = t /\ asks'[j].wait = "waiting"}
    BY <1>2 DEF HandlersAreWaits
  <2>1. handlers[t] = {j \in Asks : asks[j].from = t /\ asks[j].wait = "waiting"}
    BY DEF IInv, HandlersAreWaits
  <2>2. handlers'[t] = IF t = s THEN handlers[t] \ heard ELSE handlers[t]
    BY <1>2 DEF IInv, TypeOK
  <2> QED
    BY <1>6, <1>10, <2>1, <2>2
<1>14. \A j : Underway(j)' => Underway(j)
  <2> TAKE j
  <2>1. Underway(j)' <=> \E t \in Sides : j \in running'[t] \/ \E m \in Travelling(t)' : m.ask = j
    BY DEF Underway, Carries, Travelling
  <2> QED
    BY <1>2, <1>3, <2>1, UnderwayIs
<1>15. RivalsKnown'
  <2> SUFFICES ASSUME NEW j \in 1 .. made, NEW k \in 1 .. made,
                      SameName(j, k)', asks'[k].wait = "waiting", Underway(j)'
               PROVE  j \in {k} \cup asks'[k].rivals
    BY <1>2 DEF RivalsKnown
  <2>1. SameName(j, k) /\ asks[k].wait = "waiting" /\ Underway(j)
    BY <1>5, <1>10, <1>14 DEF SameName
  <2> QED
    BY <1>5, <1>10, <2>1 DEF IInv, RivalsKnown
<1>16. OwnOrRivalsAnswer'
  <2> SUFFICES ASSUME NEW j \in 1 .. made
               PROVE  asks'[j].answer \in {0, j} \cup asks'[j].rivals
    BY <1>2 DEF OwnOrRivalsAnswer
  <2>1. CASE j \in heard
    BY <1>4, <1>6, <1>7, <2>1 DEF IInv, RivalsKnown
  <2>2. CASE j \notin heard
    BY <1>5, <1>7, <2>2 DEF IInv, OwnOrRivalsAnswer
  <2> QED
    BY <2>1, <2>2
<1>17. DestroyedHaveNone'
  BY <1>2 DEF IInv, DestroyedHaveNone
<1> QED
  BY <1>9, <1>11, <1>12, <1>13, <1>15, <1>16, <1>17 DEF IInv

LEMMA TimeOutKeeps ==
  ASSUME IInv, NEW i \in Asks, TimeOut(i)
  PROVE  IInv'
<1> DEFINE s == asks[i].from
<1>1. /\ asks[i].wait = "waiting"
      /\ \E w \in {"stuck", "timeout"} : asks' = [asks EXCEPT ![i].wait = w]
      /\ s \in destroyed => UNCHANGED handlers
      /\ s \notin destroyed => handlers' = [handlers EXCEPT ![s] = @ \ {i}]
      /\ UNCHANGED <<made, unsent, channel, running, callBacks, fakes, destroyed, losses>>
  BY DEF TimeOut
<1>2. /\ 1 .. made \subseteq Asks /\ asks \in [Asks -> AskType]
      /\ \A j \in Asks : asks[j] \in AskType
  BY MadeAreAsks DEF IInv, TypeOK
<1>3. s \in Sides
  BY <1>2 DEF AskType
<1>4. /\ \A j \in Asks : /\ asks'[j] \in AskType
                         /\ asks'[j].from = asks[j].from
                         /\ asks'[j].kind = asks[j].kind
                         /\ asks'[j].key = asks[j].key
                         /\ asks'[j].rivals = asks[j].rivals
                         /\ asks'[j].answer = asks[j].answer
                         /\ asks'[j].wait = "waiting" <=> asks[j].wait = "waiting" /\ j # i
      /\ asks' \in [Asks -> AskType]
  BY <1>1, <1>2 DEF AskType, WaitStates
<1>5. TypeOK'
  <2> HIDE DEF s
  <2>1. CASE s \in destroyed
    BY <1>1, <1>4, <2>1 DEF IInv, TypeOK
  <2>2. CASE s \notin destroyed
    <3>1. handlers' \in [Sides -> SUBSET Asks]
      <4>1. handlers' = [handlers EXCEPT ![s] = @ \ {i}]
        BY <1>1, <2>2
      <4>2. handlers \in [Sides -> SUBSET Asks]
        BY DEF IInv, TypeOK
      <4> QED
        BY <1>3, <4>1, <4>2
    <3> QED
      BY <1>1, <1>4, <3>1 DEF IInv, TypeOK
  <2> QED
    BY <2>1, <2>2
<1>6. \A t \in Sides : Travelling(t)' = Travelling(t)
  BY <1>1 DEF Travelling
<1>7. Located'
  BY <1>1, <1>2, <1>4, <1>6 DEF IInv, Located, Placed
<1>8. OnlyMadeWait'
  BY <1>1, <1>4 DEF IInv, OnlyMadeWait
<1>9. HandlersAreWaits'
  <2> SUFFICES ASSUME NEW t \in Sides \ destroyed
               PROVE  handlers'[t] = {j \in Asks : asks'[j].from = t /\ asks'[j].wait = "waiting"}
    BY <1>1 DEF HandlersAreWaits
  <2>1. handlers[t] = {j \in Asks : asks[j].from = t /\ asks[j].wait = "waiting"}
    BY DEF IInv, HandlersAreWaits
  <2>2. handlers'[t] = IF t = s THEN handlers[t] \ {i} ELSE handlers[t]
    BY <1>1, <1>3 DEF IInv, TypeOK
  <2> QED
    BY <1>4, <2>1, <2>2
<1>10. RivalsKnown'
  <2> SUFFICES ASSUME NEW j \in 1 .. made, NEW k \in 1 .. made,
                      SameName(j, k)', asks'[k].wait = "waiting", Underway(j)'
               PROVE  j \in {k} \cup asks'[k].rivals
    BY <1>1 DEF RivalsKnown
  <2>1. SameName(j, k) /\ asks[k].wait = "waiting"
    BY <1>2, <1>4 DEF SameName
  <2>2. Underway(j)
    BY <1>1 DEF Underway, Carries
  <2> QED
    BY <1>2, <1>4, <2>1, <2>2 DEF IInv, RivalsKnown
<1>11. OwnOrRivalsAnswer'
  BY <1>1, <1>2, <1>4 DEF IInv, OwnOrRivalsAnswer
<1>12. DestroyedHaveNone'
  BY <1>1 DEF IInv, DestroyedHaveNone
<1> QED
  BY <1>5, <1>7, <1>8, <1>9, <1>10, <1>11, <1>12 DEF IInv

LEMMA DestroyKeeps ==
  ASSUME IInv, NEW s \in Sides, Destroy(s)
  PROVE  IInv'
<1> USE DEF Destroy, IInv
<1>1. TypeOK'
  BY DEF TypeOK
<1>2. Located'
  BY DEF Located, Travelling, Placed
<1>3. OnlyMadeWait' /\ OwnOrRivalsAnswer'
  BY DEF OnlyMadeWait, OwnOrRivalsAnswer
<1>4. HandlersAreWaits'
  BY DEF HandlersAreWaits, TypeOK
<1>5. RivalsKnown'
  BY DEF RivalsKnown, SameName, Underway, Carries
<1>6. DestroyedHaveNone'
  BY DEF DestroyedHaveNone, TypeOK
<1> QED
  BY <1>1, <1>2, <1>3, <1>4, <1>5, <1>6

-----------------------------------------------------------------------------
LEMMA InitIInv == Init => IInv
<1> SUFFICES ASSUME Init
             PROVE  IInv
  OBVIOUS
<1>1. \A i \in Asks : NoAsk \in AskType /\ NoAsk.wait = "none" /\ NoAsk.answer = 0
  <2> TAKE i \in Asks
  <2>1. (CHOOSE m \in Methods \cup Asks : TRUE) \in Methods \cup Asks
    OBVIOUS
  <2> QED
    BY <2>1 DEF NoAsk, AskType, Sides, Kinds, WaitStates
<1>2. asks \in [Asks -> AskType]
  BY <1>1 DEF Init
<1>3. \A s \in Sides : <<>> \in Seq(MessageType) /\ channel[s] = <<>> /\ unsent[s] = <<>>
  BY DEF Init
<1>4. TypeOK
  BY <1>2, <1>3, BoundsAssumption DEF Init, TypeOK
<1>5. \A s \in Sides : Travelling(s) = {}
  BY <1>3 DEF Travelling
<1>6. Located
  BY <1>5 DEF Init, Located
<1>7. OnlyMadeWait /\ HandlersAreWaits
  BY <1>1 DEF Init, OnlyMadeWait, HandlersAreWaits
<1>8. 1 .. made = {}
  BY DEF Init
<1>9. RivalsKnown /\ OwnOrRivalsAnswer /\ DestroyedHaveNone
  BY <1>8 DEF Init, RivalsKnown, OwnOrRivalsAnswer, DestroyedHaveNone
<1> QED
  BY <1>4, <1>6, <1>7, <1>9 DEF IInv

LEMMA Inductive == IInv /\ [Next]_vars => IInv'
<1> SUFFICES ASSUME IInv, [Next]_vars
             PROVE  IInv'
  OBVIOUS
<1>1. ASSUME NEW s \in Sides, NEW m \in Methods, CallMethod(s, m)
      PROVE  IInv'
  BY <1>1, CallsKeep
<1>2. ASSUME NEW s \in Sides, NEW c \in Asks, CallFake(s, c)
      PROVE  IInv'
  BY <1>2, CallsKeep
<1>3. ASSUME NEW s \in Sides, Deliver(s)
      PROVE  IInv'
  BY <1>3, ReceiveCallKeeps, RefuseKeeps, ReceiveResultKeeps DEF Deliver
<1>4. ASSUME NEW s \in Sides, NEW i \in Asks, Finish(s, i)
      PROVE  IInv'
  BY <1>4, FinishKeeps
<1>9. ASSUME NEW s \in Sides, NEW how \in SendOutcomes, SendSettles(s, how)
      PROVE  IInv'
  BY <1>9, SendSettlesKeeps
<1>5. ASSUME NEW i \in Asks, TimeOut(i)
      PROVE  IInv'
  BY <1>5, TimeOutKeeps
<1>6. CASE ConnectionLost
  BY <1>6, ConnectionLostKeeps
<1>7. ASSUME NEW s \in Sides, Destroy(s)
      PROVE  IInv'
  BY <1>7, DestroyKeeps
<1>8. CASE UNCHANGED vars
  BY <1>8 DEF vars, IInv, TypeOK, Located, Placed, Travelling, OnlyMadeWait, HandlersAreWaits,
     RivalsKnown, SameName, Underway, Carries, OwnOrRivalsAnswer, DestroyedHaveNone
<1> QED
  BY <1>1, <1>2, <1>3, <1>4, <1>5, <1>6, <1>7, <1>8, <1>9 DEF Next

LEMMA Invariance == Spec => []IInv
BY InitIInv, Inductive, PTL DEF Spec

\* The variables have their types.
THEOREM TypeCorrect == Spec => []TypeOK
BY Invariance, PTL DEF IInv

\* No handler stays behind a wait that is over, and no wait is without one.
THEOREM WaitsAreHeard == Spec => []HandlersAreWaits
BY Invariance, PTL DEF IInv

\* A caller gets its own response, or one of an ask of the same name that
\* was under way while it waited.
THEOREM AnswersAreOwn == Spec => []OwnOrRivalsAnswer
BY Invariance, PTL DEF IInv

\* No real callback starts on a side that was destroyed.
THEOREM DestroyedIsSilent == Spec => NoCallbackAfterDestroy
<1>1. ASSUME IInv, [Next]_vars, NEW s \in destroyed, NEW j \in Asks, j \in running'[s] \ running[s]
      PROVE  asks[j].kind = "method"
  <2>1. s \in Sides /\ callBacks[s] = {}
    BY <1>1 DEF IInv, TypeOK, DestroyedHaveNone
  <2>2. PICK t \in Sides : ReceiveCallMethod(t) \/ ReceiveCbCall(t)
    BY <1>1, <2>1 DEF Next, vars, CallMethod, CallFake, SendSettles, Deliver, RefuseCbCall, ReceiveResult, Finish,
       TimeOut, ConnectionLost, Destroy, IInv, TypeOK
  <2>3. CASE ReceiveCallMethod(t)
    <3>1. PICK i \in Asks : /\ asks[i].kind = "method"
                            /\ \/ running' = [running EXCEPT ![t] = @ \cup {i}]
                               \/ UNCHANGED running
      BY <2>3 DEF ReceiveCallMethod
    <3>2. running \in [Sides -> SUBSET Asks]
      BY <1>1 DEF IInv, TypeOK
    <3>3. j = i
      <4>1. CASE UNCHANGED running
        BY <1>1, <4>1
      <4>2. CASE running' = [running EXCEPT ![t] = @ \cup {i}]
        <5>1. running'[s] = IF s = t THEN running[s] \cup {i} ELSE running[s]
          BY <2>1, <3>2, <4>2
        <5> QED
          BY <1>1, <5>1
      <4> QED
        BY <3>1, <4>1, <4>2
    <3> QED
      BY <3>1, <3>3
  <2>4. CASE ReceiveCbCall(t)
    <3>1. PICK i \in Asks : /\ asks[i].key \in callBacks[t]
                            /\ running' = [running EXCEPT ![t] = @ \cup {i}]
      BY <2>4 DEF ReceiveCbCall
    <3>2. running \in [Sides -> SUBSET Asks]
      BY <1>1 DEF IInv, TypeOK
    <3>3. t # s
      BY <2>1, <3>1
    <3>4. running'[s] = running[s]
      BY <2>1, <3>1, <3>2, <3>3
    <3> QED
      BY <1>1, <3>4
  <2> QED
    BY <2>2, <2>3, <2>4
<1>2. IInv /\ [Next]_vars =>
        [\A s \in destroyed, i \in Asks :
            (i \in running'[s] \ running[s]) => asks[i].kind = "method"]_vars
  BY <1>1
<1> QED
  BY Invariance, <1>2, PTL DEF Spec, NoCallbackAfterDestroy
=============================================================================
