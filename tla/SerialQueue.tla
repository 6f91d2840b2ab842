----------------------------- MODULE SerialQueue -----------------------------
(***************************************************************************)
(* What system/lib/Queue.ts promises its users: named jobs are served one  *)
(* at a time and in the order they were asked for; a job that is already   *)
(* waiting or being served is not asked for twice; and a job is waiting    *)
(* only behind a job that is being served.                                 *)
(*                                                                         *)
(* The operators act on a record [line, serving]: the ids that wait and    *)
(* the id being served.  ConsistentState is built on them; Queue is shown  *)
(* to implement the specification at the end of this module.               *)
(***************************************************************************)
EXTENDS Sequences, SequencesExt

CONSTANTS
  JobIds,   \* the ids of jobs
  Nobody    \* no job is being served; not one of JobIds

Idle == [line |-> <<>>, serving |-> Nobody]

Waiting(q) == ToSet(q.line)

Has(q, id) == id = q.serving \/ id \in Waiting(q)

(* The head of the line is served as soon as nobody else is.               *)
Serve(q) ==
  IF q.serving # Nobody \/ q.line = <<>>
  THEN q
  ELSE [line |-> Tail(q.line), serving |-> Head(q.line)]

Ask(q, id) ==
  IF Has(q, id) THEN q ELSE Serve([q EXCEPT !.line = Append(@, id)])

Release(q) == [q EXCEPT !.serving = Nobody]

(* The others keep their order.  An id waits at one place.                 *)
Place(q, id) == CHOOSE i \in DOMAIN q.line : q.line[i] = id

Withdraw(q, id) ==
  IF id \in Waiting(q) THEN [q EXCEPT !.line = RemoveAt(@, Place(q, id))] ELSE q

-----------------------------------------------------------------------------
VARIABLE serial

(* Somebody asks for the job id.                                           *)
Request(id) == serial' = Ask(serial, id)

(* The job being served ends.  Whoever listens to its end may ask for it   *)
(* again before the next one in the line is served.                        *)
End ==
  /\ serial.serving # Nobody
  /\ serial' \in { Serve(Release(serial)), Serve(Ask(Release(serial), serial.serving)) }

(* The job being served is cancelled.  If it was asked for again by a      *)
(* listener of its end and has to wait, that request is withdrawn as well. *)
CancelServed ==
  /\ serial.serving # Nobody
  /\ serial' \in { Serve(Release(serial)),
              Serve(Withdraw(Ask(Release(serial), serial.serving), serial.serving)) }

(* A job that waits is cancelled.                                          *)
CancelWaiting(id) == id # serial.serving /\ serial' = Serve(Withdraw(serial, id))

Close == serial' = Idle

Init == serial = Idle

Next ==
  \/ \E id \in JobIds : Request(id) \/ CancelWaiting(id)
  \/ End
  \/ CancelServed
  \/ Close

Spec == Init /\ [][Next]_serial
=============================================================================
