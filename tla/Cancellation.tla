---------------------------- MODULE Cancellation ----------------------------
(***************************************************************************)
(* The cancellation token of src/src/cancel.rs.                            *)
(*                                                                         *)
(* One token is shared by the threads of a query, which run their git and  *)
(* bazel subprocesses through output_configured, and by the request        *)
(* thread, which may call cancel.  A call of output_configured is split at *)
(* every point where the other side can run: the check, the spawn, the     *)
(* insertion in the registry, the second check, the wait, the removal from *)
(* the registry, the last check and the join of the pipe readers.  cancel  *)
(* is split into the store of the flag, the copy of the registry and one   *)
(* kill per copied child.                                                  *)
(***************************************************************************)
EXTENDS FiniteSets

CONSTANT Calls    \* the calls of output_configured made with the token

ASSUME CallsAssumption == IsFiniteSet(Calls)

VARIABLES
    cancelled,    \* Cancellation.cancelled
    children,     \* Cancellation.children: the calls whose child is registered
    pc,           \* where each call is in output_configured
    child,        \* the operating system's view of each call's subprocess
    held,         \* calls whose exited child left a grandchild on its pipes
    canceller,    \* where the request thread is in cancel
    toKill        \* the registry copy that cancel has still to go through

vars == <<cancelled, children, pc, child, held, canceller, toKill>>

CallSteps == {"idle", "checked", "spawned", "registered", "waiting", "reaped",
              "removed", "joining", "ok", "failed"}

Ended == {"ok", "failed"}

Init ==
    /\ cancelled = FALSE
    /\ children = {}
    /\ pc = [c \in Calls |-> "idle"]
    /\ child = [c \in Calls |-> "none"]
    /\ held = {}
    /\ canceller = "idle"
    /\ toKill = {}

-----------------------------------------------------------------------------
(* output_configured, one action per step of the calling thread.           *)

Goto(c, step) == pc' = [pc EXCEPT ![c] = step]

\* kill delivers SIGKILL to a child that still runs and does nothing to one
\* that has exited.  A grandchild it does not reach may keep the pipes open.
Kill(c) ==
    \/ /\ child[c] = "running"
       /\ child' = [child EXCEPT ![c] = "exited"]
       /\ held' \in {held, held \cup {c}}
    \/ /\ child[c] # "running"
       /\ UNCHANGED <<child, held>>

Check(c) ==
    /\ pc[c] = "idle"
    /\ Goto(c, IF cancelled THEN "failed" ELSE "checked")
    /\ UNCHANGED <<cancelled, children, child, held, canceller, toKill>>

Spawn(c) ==
    /\ pc[c] = "checked"
    /\ \/ /\ Goto(c, "spawned")
          /\ child' = [child EXCEPT ![c] = "running"]
       \/ /\ Goto(c, "failed")
          /\ UNCHANGED child
    /\ UNCHANGED <<cancelled, children, held, canceller, toKill>>

Register(c) ==
    /\ pc[c] = "spawned"
    /\ Goto(c, "registered")
    /\ children' = children \cup {c}
    /\ UNCHANGED <<cancelled, child, held, canceller, toKill>>

MutantNoRecheck(c) ==
    /\ pc[c] = "registered"
    /\ Goto(c, "waiting")
    /\ UNCHANGED <<cancelled, children, child, held, canceller, toKill>>

\* "A cancel that landed between `check` and `register` saw an empty registry."
Recheck(c) ==
    /\ pc[c] = "registered"
    /\ Goto(c, "waiting")
    /\ \/ cancelled /\ Kill(c)
       \/ ~cancelled /\ UNCHANGED <<child, held>>
    /\ UNCHANGED <<cancelled, children, canceller, toKill>>

MutantWaitForPipes(c) ==
    /\ pc[c] = "waiting"
    /\ child[c] = "exited" /\ c \notin held
    /\ Goto(c, "reaped")
    /\ UNCHANGED <<cancelled, children, child, held, canceller, toKill>>

WaitForExit(c) ==
    /\ pc[c] = "waiting"
    /\ child[c] = "exited"
    /\ Goto(c, "reaped")
    /\ UNCHANGED <<cancelled, children, child, held, canceller, toKill>>

\* try_wait fails: the error leaves output_configured and the guard is dropped.
WaitFails(c) ==
    /\ pc[c] = "waiting"
    /\ Goto(c, "failed")
    /\ children' = children \ {c}
    /\ UNCHANGED <<cancelled, child, held, canceller, toKill>>

\* drop(registered)
Unregister(c) ==
    /\ pc[c] = "reaped"
    /\ Goto(c, "removed")
    /\ children' = children \ {c}
    /\ UNCHANGED <<cancelled, child, held, canceller, toKill>>

MutantNoFinalCheck(c) ==
    /\ pc[c] = "removed"
    /\ Goto(c, "joining")
    /\ UNCHANGED <<cancelled, children, child, held, canceller, toKill>>

FinalCheck(c) ==
    /\ pc[c] = "removed"
    /\ Goto(c, IF cancelled THEN "failed" ELSE "joining")
    /\ UNCHANGED <<cancelled, children, child, held, canceller, toKill>>

\* join_reader returns once every holder of the pipe has closed it.
JoinReaders(c) ==
    /\ pc[c] = "joining"
    /\ c \notin held
    /\ \E outcome \in Ended : Goto(c, outcome)
    /\ UNCHANGED <<cancelled, children, child, held, canceller, toKill>>

-----------------------------------------------------------------------------
(* cancel, run by the request thread.                                      *)

StoreFlag ==
    /\ canceller = "idle"
    /\ cancelled' = TRUE
    /\ canceller' = "stored"
    /\ UNCHANGED <<children, pc, child, held, toKill>>

CopyRegistry ==
    /\ canceller = "stored"
    /\ toKill' = children
    /\ canceller' = "killing"
    /\ UNCHANGED <<cancelled, children, pc, child, held>>

KillOne(c) ==
    /\ canceller = "killing"
    /\ c \in toKill
    /\ Kill(c)
    /\ toKill' = toKill \ {c}
    /\ UNCHANGED <<cancelled, children, pc, canceller>>

CancelReturns ==
    /\ canceller = "killing"
    /\ toKill = {}
    /\ canceller' = "done"
    /\ UNCHANGED <<cancelled, children, pc, child, held, toKill>>

-----------------------------------------------------------------------------
(* The subprocesses.  Nothing makes a bazel that hangs exit by itself.     *)

ChildExits(c) ==
    /\ child[c] = "running"
    /\ child' = [child EXCEPT ![c] = "exited"]
    /\ held' \in {held, held \cup {c}}
    /\ UNCHANGED <<cancelled, children, pc, canceller, toKill>>

GrandchildExits(c) ==
    /\ c \in held
    /\ held' = held \ {c}
    /\ UNCHANGED <<cancelled, children, pc, child, canceller, toKill>>

-----------------------------------------------------------------------------

CallStep(c) ==
    \/ Spawn(c) \/ Register(c) \/ Recheck(c) \/ WaitForExit(c)
    \/ Unregister(c) \/ FinalCheck(c) \/ JoinReaders(c)

CancelStep ==
    \/ CopyRegistry
    \/ \E c \in Calls : KillOne(c)
    \/ CancelReturns

Next ==
    \/ \E c \in Calls :
         Check(c) \/ WaitFails(c) \/ CallStep(c) \/ ChildExits(c) \/ GrandchildExits(c)
    \/ StoreFlag
    \/ CancelStep

(* A thread inside output_configured or cancel keeps running; a subprocess *)
(* need never exit and the token need never be cancelled.                  *)
Fairness ==
    /\ \A c \in Calls : WF_vars(CallStep(c))
    /\ WF_vars(CancelStep)

Spec == Init /\ [][Next]_vars /\ Fairness

-----------------------------------------------------------------------------
(* Properties                                                              *)

TypeOK ==
    /\ cancelled \in BOOLEAN
    /\ children \subseteq {c \in Calls : child[c] # "none"}
    /\ pc \in [Calls -> CallSteps]
    /\ child \in [Calls -> {"none", "running", "exited"}]
    /\ held \subseteq Calls
    /\ canceller \in {"idle", "stored", "killing", "done"}
    /\ toKill \subseteq Calls

\* Once cancel has returned no thread waits for a child that still runs,
\* wherever the cancel landed between the check, the spawn and the
\* registration of that child (output_configured, cancel).
NoChildOutlivesCancel ==
    canceller = "done" =>
        \A c \in Calls : pc[c] = "waiting" => child[c] # "running"

\* A call during which the token was cancelled before its child had been
\* waited for never returns that child's output: "fails with CANCELLED
\* instead of returning output the caller no longer wants".
NoOutputAfterCancel ==
    \A c \in Calls :
        [](cancelled /\ pc[c] \notin {"joining", "ok"} => [](pc[c] # "ok"))

\* A cancel ends every call that has started, even when its child would run
\* for ever.  The one exception is a call that had already seen its child
\* exit and waits for a grandchild to close the pipes.
CancelStopsCalls ==
    cancelled ~> \A c \in Calls :
                    \/ pc[c] \in Ended \cup {"idle"}
                    \/ pc[c] = "joining" /\ c \in held
=============================================================================
