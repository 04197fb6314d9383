----------------------------- MODULE ProveService -----------------------------
(***************************************************************************)
(* What the Request Service promises (spec 4.6), with the handler's stages *)
(* hidden: requests wait in arrival order; the oldest waiter is either     *)
(* rejected or becomes the one request being served; the request being    *)
(* served is answered; a client may cancel while it waits or is served.    *)
(* Every request is answered at most once, and every one that arrives is   *)
(* eventually answered.  Service is checked to implement this spec.        *)
(***************************************************************************)
EXTENDS Sequences, SequencesExt

CONSTANTS
  Requests,   \* the /prove requests
  NoRequest   \* model value: no request is being served

VARIABLES
  waiting,    \* requests waiting to be served, oldest first
  current,    \* the request being served, or NoRequest
  answer      \* r -> "none" until r is answered, then what it got

vars == <<waiting, current, answer>>

Pending(r) == answer[r] = "none" /\ ~Contains(waiting, r) /\ current # r

Init ==
  /\ waiting = <<>>
  /\ current = NoRequest
  /\ answer = [r \in Requests |-> "none"]

Arrive(r) ==
  /\ Pending(r)
  /\ waiting' = Append(waiting, r)
  /\ UNCHANGED <<current, answer>>

\* The oldest waiter is turned away without being served.
Reject(r) ==
  /\ current = NoRequest
  /\ waiting # <<>> /\ Head(waiting) = r
  /\ waiting' = Tail(waiting)
  /\ \E a \in {"400", "500"} : answer' = [answer EXCEPT ![r] = a]
  /\ UNCHANGED current

Begin(r) ==
  /\ current = NoRequest
  /\ waiting # <<>> /\ Head(waiting) = r
  /\ waiting' = Tail(waiting)
  /\ current' = r
  /\ UNCHANGED answer

Complete(r) ==
  /\ current = r
  /\ current' = NoRequest
  /\ \E a \in {"200", "500"} : answer' = [answer EXCEPT ![r] = a]
  /\ UNCHANGED waiting

Cancel(r) ==
  /\ Contains(waiting, r) \/ current = r
  /\ waiting' = Remove(waiting, r)
  /\ current' = IF current = r THEN NoRequest ELSE current
  /\ answer' = [answer EXCEPT ![r] = "dropped"]

Next == \E r \in Requests :
          Arrive(r) \/ Reject(r) \/ Begin(r) \/ Complete(r) \/ Cancel(r)

\* The server keeps taking the oldest waiter and keeps serving; clients
\* are not obliged to arrive or cancel.
Spec ==
  /\ Init /\ [][Next]_vars
  /\ WF_vars(\E r \in Requests : Reject(r) \/ Begin(r))
  /\ \A r \in Requests : WF_vars(Complete(r))
=============================================================================
