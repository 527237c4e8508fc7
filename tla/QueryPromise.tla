---------------------------- MODULE QueryPromise ----------------------------
(***************************************************************************)
(* What the query service promises its clients about the workspace, the    *)
(* cache and the answer to a query, without saying how it is kept.         *)
(*                                                                         *)
(* A query runs, is over, and never runs again.  Only the query that owns  *)
(* the workspace writes cache entries.  An answer that reports an outcome  *)
(* (a result, an error, or a 504 with "cancelled": true) is given when the *)
(* query is over; a 504 with "cancelled": false promises nothing.          *)
(***************************************************************************)
EXTENDS Naturals

CONSTANTS Queries, NoQuery, MaxWrites

VARIABLES owner, phase, written, answer

promiseVars == <<owner, phase, written, answer>>

Outcomes == {"200", "400", "dropped", "504_cancelled"}

Init ==
    /\ owner = NoQuery
    /\ phase = [q \in Queries |-> "idle"]
    /\ written = [q \in Queries |-> 0]
    /\ answer = [q \in Queries |-> "none"]

Begin(q) ==
    /\ phase[q] = "idle" /\ answer[q] = "none"
    /\ phase' = [phase EXCEPT ![q] = "running"]
    /\ UNCHANGED <<owner, written, answer>>

Refuse(q) ==
    /\ phase[q] = "idle" /\ answer[q] = "none"
    /\ answer' = [answer EXCEPT ![q] = "refused"]
    /\ UNCHANGED <<owner, phase, written>>

Take(q) ==
    /\ phase[q] = "running" /\ owner = NoQuery
    /\ owner' = q
    /\ UNCHANGED <<phase, written, answer>>

Write(q) ==
    /\ owner = q /\ written[q] < MaxWrites
    /\ written' = [written EXCEPT ![q] = @ + 1]
    /\ UNCHANGED <<owner, phase, answer>>

Leave(q) ==
    /\ owner = q
    /\ owner' = NoQuery
    /\ UNCHANGED <<phase, written, answer>>

End(q) ==
    /\ phase[q] = "running" /\ owner # q
    /\ phase' = [phase EXCEPT ![q] = "over"]
    /\ UNCHANGED <<owner, written, answer>>

Answer(q) ==
    /\ answer[q] = "none"
    /\ \/ /\ phase[q] = "over"
          /\ \E a \in Outcomes : answer' = [answer EXCEPT ![q] = a]
       \/ /\ phase[q] # "idle"
          /\ answer' = [answer EXCEPT ![q] = "504_running"]
    /\ UNCHANGED <<owner, phase, written>>

Next ==
    \E q \in Queries :
        Begin(q) \/ Refuse(q) \/ Take(q) \/ Write(q) \/ Leave(q) \/ End(q) \/ Answer(q)

Spec == Init /\ [][Next]_promiseVars
=============================================================================
