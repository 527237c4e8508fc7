---------------------------- MODULE QueryService ----------------------------
(***************************************************************************)
(* The life of a query in src/src/server.rs: the request thread of route,  *)
(* the worker thread it spawns to run compute_query, the workspace lock    *)
(* the workers queue for, the timeout, the cancellation and the answer.    *)
(*                                                                         *)
(* A subprocess (git, bazel) may hang.  Cancelling the token ends it and   *)
(* fails the call that ran it, which is what module Cancellation shows.    *)
(***************************************************************************)
EXTENDS Naturals, FiniteSets

CONSTANTS
    Queries,      \* the requests clients make to the query endpoints
    NoQuery       \* the None of Workspace.holder

ASSUME QueriesAssumption ==
    /\ IsFiniteSet(Queries)
    /\ NoQuery \notin Queries

VARIABLES
    timed,        \* whether request_timeout is positive
    boot,         \* perform_initial_fetch runs before the server listens
    ready,        \* State.ready
    holder,       \* Workspace.holder
    active,       \* State.active_queries
    request,      \* where the request thread of each query is in route
    answer,       \* the response it sent
    token,        \* whether the query's Cancellation is cancelled
    worker,       \* where the worker thread is in compute_query
    target,       \* which revision get_hashes_locked is retrieving
    result,       \* what compute_query returned
    channel,      \* the sync_channel(1) from the worker to the request thread
    written       \* how many cache entries the query has written

requestVars == <<request, answer, token>>
workerVars  == <<worker, target, result, channel>>
vars == <<timed, boot, ready, holder, active, requestVars, workerVars, written>>

\* Steps of compute_query that run under the workspace guard.
Holding == {"resolve", "tree", "tiers", "generate", "check", "write",
            "checkout", "probe", "prune"}

Counted == Holding \cup {"queued", "released"}

WorkerSteps == Counted \cup {"none", "uncounted", "gone"}

\* from and to each write at most one entry, dependency_edges writes one.
MaxWrites == 2

Init ==
    /\ timed \in BOOLEAN
    /\ boot = "fetching"
    /\ ready = FALSE
    /\ holder = NoQuery
    /\ active = 0
    /\ request = [q \in Queries |-> "none"]
    /\ answer = [q \in Queries |-> "none"]
    /\ token = [q \in Queries |-> FALSE]
    /\ worker = [q \in Queries |-> "none"]
    /\ target = [q \in Queries |-> "none"]
    /\ result = [q \in Queries |-> "none"]
    /\ channel = [q \in Queries |-> "empty"]
    /\ written = [q \in Queries |-> 0]

-----------------------------------------------------------------------------
(* Startup: the fetch and the warmup finish before the port is bound.  A   *)
(* failed fetch leaves the server listening but never ready; a failed      *)
(* warmup is only logged.                                                  *)

PerformInitialFetch ==
    /\ boot = "fetching"
    /\ boot' = "listening"
    /\ ready' \in BOOLEAN
    /\ UNCHANGED <<timed, holder, active, requestVars, workerVars, written>>

-----------------------------------------------------------------------------
(* The request thread: route and cancel_query.                             *)

Respond(q, a) ==
    /\ request' = [request EXCEPT ![q] = "done"]
    /\ answer' = [answer EXCEPT ![q] = a]

\* 503 when not ready; 405 or 400 when the request is not a valid query.
Refuse(q) ==
    /\ boot = "listening"
    /\ request[q] = "none"
    /\ Respond(q, "refused")
    /\ UNCHANGED <<timed, boot, ready, holder, active, token, workerVars, written>>

Accept(q) ==
    /\ boot = "listening" /\ ready
    /\ request[q] = "none"
    /\ request' = [request EXCEPT ![q] = "waiting"]
    /\ active' = active + 1
    /\ worker' = [worker EXCEPT ![q] = "queued"]
    /\ UNCHANGED <<timed, boot, ready, holder, answer, token, target, result, channel, written>>

\* The worker's result, or its panic: with a timeout a closed channel is
\* answered 400, without one route returns an error and drops the request.
Receive(q) ==
    /\ request[q] = "waiting"
    /\ channel[q] # "empty"
    /\ Respond(q, CASE channel[q] = "ok" -> "200"
                    [] channel[q] = "err" -> "400"
                    [] OTHER -> IF timed THEN "400" ELSE "dropped")
    /\ UNCHANGED <<timed, boot, ready, holder, active, token, workerVars, written>>

MutantTimeoutAbandons(q) ==
    /\ timed
    /\ request[q] = "waiting"
    /\ channel[q] = "empty"
    /\ request' = [request EXCEPT ![q] = "cancelling"]
    /\ UNCHANGED <<timed, boot, ready, holder, active, answer, token, workerVars, written>>

\* recv_timeout expires: cancel_query cancels the token.
Timeout(q) ==
    /\ timed
    /\ request[q] = "waiting"
    /\ channel[q] = "empty"
    /\ request' = [request EXCEPT ![q] = "cancelling"]
    /\ token' = [token EXCEPT ![q] = TRUE]
    /\ UNCHANGED <<timed, boot, ready, holder, active, answer, workerVars, written>>

\* The worker stopped within CANCEL_GRACE, with any result or a panic.
WorkerStopped(q) ==
    /\ request[q] = "cancelling"
    /\ channel[q] # "empty"
    /\ Respond(q, "504_cancelled")
    /\ UNCHANGED <<timed, boot, ready, holder, active, token, workerVars, written>>

GraceExpires(q) ==
    /\ request[q] = "cancelling"
    /\ channel[q] = "empty"
    /\ Respond(q, "504_running")
    /\ UNCHANGED <<timed, boot, ready, holder, active, token, workerVars, written>>

-----------------------------------------------------------------------------
(* The worker thread: compute_query, then drop(active), then send.         *)

Goto(q, step) == worker' = [worker EXCEPT ![q] = step]

\* compute_query returns r: its guard, if it has one, is dropped.
Return(q, r) ==
    /\ Goto(q, "released")
    /\ result' = [result EXCEPT ![q] = r]
    /\ holder' = IF holder = q THEN NoQuery ELSE holder
    /\ UNCHANGED <<timed, boot, ready, active, requestVars, target, channel, written>>

\* A step under the guard that changes nothing another thread sees.
Advance(q, from, to) ==
    /\ worker[q] = from
    /\ Goto(q, to)
    /\ UNCHANGED <<timed, boot, ready, holder, active, requestVars, result, channel>>

MutantAcquireWithoutWaiting(q) ==
    /\ worker[q] = "queued"
    /\ holder' = q
    /\ Goto(q, "resolve")
    /\ UNCHANGED <<timed, boot, ready, active, requestVars, target, result, channel, written>>

\* A free workspace is taken without looking at the token.
Acquire(q) ==
    /\ worker[q] = "queued"
    /\ holder = NoQuery
    /\ holder' = q
    /\ Goto(q, "resolve")
    /\ UNCHANGED <<timed, boot, ready, active, requestVars, target, result, channel, written>>

\* A waiter polls its token every WORKSPACE_WAIT_POLL.
GiveUp(q) ==
    /\ worker[q] = "queued"
    /\ holder # NoQuery
    /\ token[q]
    /\ Return(q, "err")

\* resolve_both: rev-parse and fetch.  A dependency_edges query goes on with
\* its end revision alone.
ResolveBoth(q) ==
    /\ ~token[q]
    /\ Advance(q, "resolve", "tree")
    /\ \E t \in {"edges", "from"} : target' = [target EXCEPT ![q] = t]
    /\ UNCHANGED written

ResolveTree(q) ==
    /\ ~token[q]
    /\ Advance(q, "tree", "tiers")
    /\ UNCHANGED <<target, written>>

\* What follows the retrieval of a revision: `to` after `from`, then the
\* checkout for the diff, and nothing but the pruning for dependency_edges.
Retrieved(q, step) ==
    CASE target[q] = "from" ->
            Advance(q, step, "tree") /\ target' = [target EXCEPT ![q] = "to"]
      [] target[q] = "to" ->
            Advance(q, step, "checkout") /\ UNCHANGED target
      [] OTHER ->
            Advance(q, step, "prune") /\ UNCHANGED target

Wrote(q) == written' = [written EXCEPT ![q] = @ + 1]

\* A servable entry in some tier; one from the shared tier is copied to disk.
TierHit(q) ==
    /\ Retrieved(q, "tiers")
    /\ Wrote(q) \/ UNCHANGED written

TierMiss(q) ==
    /\ Advance(q, "tiers", "generate")
    /\ UNCHANGED <<target, written>>

Generate(q) ==
    /\ ~token[q]
    /\ Advance(q, "generate", "check")
    /\ UNCHANGED <<target, written>>

\* Workspace::check_cancelled looks at the token of whoever holds the workspace.
CheckCancelled(q) ==
    \/ /\ holder # NoQuery => ~token[holder]
       /\ Advance(q, "check", "write")
       /\ UNCHANGED <<target, written>>
    \/ /\ worker[q] = "check"
       /\ holder # NoQuery /\ token[holder]
       /\ Return(q, "err")

WriteEntry(q) ==
    /\ Retrieved(q, "write")
    /\ Wrote(q)

Checkout(q) ==
    /\ ~token[q]
    /\ Advance(q, "checkout", "probe")
    /\ UNCHANGED <<target, written>>

\* is_bzlmod_enabled turns a failed or cancelled probe into "no"; the diff
\* itself need not run a subprocess.
ProbeAndDiff(q) ==
    /\ Advance(q, "probe", "prune")
    /\ UNCHANGED <<target, written>>

PruneAndReturn(q) ==
    /\ worker[q] = "prune"
    /\ Return(q, "ok")

\* Any `?` of compute_query and of what it calls.
Fail(q) ==
    /\ worker[q] \in Holding
    /\ Return(q, "err")

\* A panic unwinds through the guard, then drops the active count and the sender.
Panic(q) ==
    /\ worker[q] \in Holding
    /\ Return(q, "panic")

MutantPanicStaysCounted(q) ==
    /\ worker[q] = "released"
    /\ Goto(q, "uncounted")
    /\ active' = IF result[q] = "panic" THEN active ELSE active - 1
    /\ UNCHANGED <<timed, boot, ready, holder, requestVars, target, result, channel, written>>

DropActive(q) ==
    /\ worker[q] = "released"
    /\ Goto(q, "uncounted")
    /\ active' = active - 1
    /\ UNCHANGED <<timed, boot, ready, holder, requestVars, target, result, channel, written>>

MutantSendBeforeDrop(q) ==
    /\ worker[q] = "released"
    /\ channel[q] = "empty"
    /\ channel' = [channel EXCEPT ![q] = result[q]]
    /\ UNCHANGED <<timed, boot, ready, holder, active, requestVars, worker, target, result, written>>

MutantSendLosesPanic(q) ==
    /\ worker[q] = "uncounted"
    /\ Goto(q, "gone")
    /\ channel' = IF result[q] = "panic" THEN channel ELSE [channel EXCEPT ![q] = result[q]]
    /\ UNCHANGED <<timed, boot, ready, holder, active, requestVars, target, result, written>>

Send(q) ==
    /\ worker[q] = "uncounted"
    /\ Goto(q, "gone")
    /\ channel' = [channel EXCEPT ![q] = result[q]]
    /\ UNCHANGED <<timed, boot, ready, holder, active, requestVars, target, result, written>>

-----------------------------------------------------------------------------

RequestStep(q) == Receive(q) \/ Timeout(q) \/ WorkerStopped(q) \/ GraceExpires(q)

\* Steps that wait for a subprocess or for the shared tier.
SubprocessStep(q) ==
    \/ ResolveBoth(q) \/ ResolveTree(q) \/ TierHit(q) \/ TierMiss(q)
    \/ Generate(q) \/ Checkout(q) \/ ProbeAndDiff(q) \/ Fail(q)

\* Steps the worker takes by itself.
LocalStep(q) ==
    \/ CheckCancelled(q) \/ WriteEntry(q) \/ PruneAndReturn(q)
    \/ DropActive(q) \/ Send(q)

Next ==
    \/ PerformInitialFetch
    \/ \E q \in Queries :
         \/ Refuse(q) \/ Accept(q) \/ RequestStep(q)
         \/ Acquire(q) \/ GiveUp(q)
         \/ SubprocessStep(q) \/ LocalStep(q) \/ Panic(q)

(* Threads run and deadlines pass.  A subprocess is sure to end only when  *)
(* its token is cancelled.                                                 *)
Fairness ==
    \A q \in Queries :
        /\ WF_vars(RequestStep(q))
        /\ WF_vars(Acquire(q) \/ GiveUp(q))
        /\ WF_vars(token[q] /\ SubprocessStep(q))
        /\ WF_vars(LocalStep(q))

Spec == Init /\ [][Next]_vars /\ Fairness

(* Without a timeout nothing cancels a query: its answer depends on every  *)
(* subprocess ending by itself.                                            *)
SubprocessesEnd == \A q \in Queries : WF_vars(SubprocessStep(q))

-----------------------------------------------------------------------------
(* Properties                                                              *)

TypeOK ==
    /\ timed \in BOOLEAN
    /\ boot \in {"fetching", "listening"}
    /\ ready \in BOOLEAN
    /\ holder \in Queries \cup {NoQuery}
    /\ active \in 0 .. Cardinality(Queries)
    /\ request \in [Queries -> {"none", "waiting", "cancelling", "done"}]
    /\ answer \in [Queries -> {"none", "refused", "200", "400", "dropped",
                               "504_cancelled", "504_running"}]
    /\ token \in [Queries -> BOOLEAN]
    /\ worker \in [Queries -> WorkerSteps]
    /\ target \in [Queries -> {"none", "edges", "from", "to"}]
    /\ result \in [Queries -> {"none", "ok", "err", "panic"}]
    /\ channel \in [Queries -> {"empty", "ok", "err", "panic"}]
    /\ written \in [Queries -> 0 .. MaxWrites]

\* The workers inside the guarded part of compute_query are exactly the
\* query Workspace.holder names, so at most one touches the checkout, and
\* check_cancelled always reads the token of the query that calls it.
ExclusiveWorkspace ==
    \A q \in Queries : worker[q] \in Holding <=> holder = q

\* /metrics activeQueries counts the queries accepted and not yet finished.
ActiveQueriesExact == active = Cardinality({q \in Queries : worker[q] \in Counted})

\* A query cancelled while it waits for the workspace retrieves nothing: it
\* gives up, or takes a free workspace and fails at its first subprocess.
CancelledWaiterDoesNothing ==
    \A q \in Queries :
        [](token[q] /\ worker[q] = "queued" => [](target[q] = "none"))

\* The service keeps the promise of module QueryPromise.
Phase(q) ==
    IF worker[q] = "none" THEN "idle"
    ELSE IF worker[q] \in Counted THEN "running" ELSE "over"

Promise == INSTANCE QueryPromise WITH
    owner <- holder, phase <- [q \in Queries |-> Phase(q)]

KeepsPromise == Promise!Spec

\* With a request timeout no query keeps the workspace for ever, even when it
\* hangs in a subprocess: it is cancelled, "not merely abandoned".
WorkspaceComesBack ==
    \A q \in Queries : timed /\ holder = q ~> holder # q

\* With a timeout, and without one as long as subprocesses end, every accepted
\* request is answered, whatever fails or panics in the queries it queues
\* behind.
EveryRequestAnswered ==
    timed \/ SubprocessesEnd =>
        \A q \in Queries : request[q] = "waiting" ~> request[q] = "done"

\* A cancelled query stops: it does nothing if it was still queued, and the
\* workspace comes back if it was not, also from a subprocess that hangs.
CancelledQueriesStop == CancelledWaiterDoesNothing /\ WorkspaceComesBack
=============================================================================
