------------------------------ MODULE Launcher ------------------------------
(***************************************************************************)
(* The launcher of the sandbox, sdk/cmd/tun2connect/run.go: runLauncher    *)
(* sets the network up and gives CAP_NET_ADMIN away before the agent       *)
(* starts, then runChild does the duties of PID 1: it reaps what           *)
(* re-parents to it, forwards the fatal signals and ends with the agent's  *)
(* status.                                                                 *)
(*                                                                         *)
(* The processes of the sandbox are the agent and the orphans it leaves.   *)
(* A signal reaches the launcher through the channel of signal.Notify,     *)
(* which drops it when it is not being notified yet or its buffer is full; *)
(* a fatal signal that comes before signal.Notify ends the launcher.       *)
(***************************************************************************)
EXTENDS Integers, Sequences, SequencesExt

CONSTANTS
    Orphans,    \* processes that may re-parent to the launcher
    Statuses,   \* how the agent may end: [signaled, number]
    SigBuffer,  \* the capacity of the signal channel
    MaxTerms    \* bound: SIGINT, SIGTERM and SIGQUIT from outside

ASSUME LauncherAssumption ==
    /\ Statuses \subseteq [signaled : BOOLEAN, number : Nat]
    /\ SigBuffer \in Nat \ {0} /\ MaxTerms \in Nat

\* The set-up, in order.  Only writing resolv.conf may fail without ending it.
Steps == <<"interfaces", "boundary", "ingress", "openTUN", "configureTUN",
           "resolvConf", "dropNetAdmin", "device", "engine">>

VARIABLES
    stage,      \* where the launcher is
    next,       \* the set-up step to take
    done,       \* the set-up steps that succeeded
    child,      \* the agent's process
    status,     \* how the agent ended
    orphan,     \* orphan[o]: a process of the sandbox
    queue,      \* the signal channel
    terms,      \* fatal signals sent so far
    forwarded,  \* the agent's process group has been signalled
    code        \* the launcher's exit code

launchVars == <<stage, next, done, child, status, orphan, queue, terms, forwarded, code>>

NoStatus == [signaled |-> FALSE, number |-> 0]

\* runLauncher once its command line has been accepted.
LaunchInit ==
    /\ stage = "setup" /\ next = 1 /\ done = {}
    /\ child = "none" /\ status = NoStatus
    /\ orphan = [o \in Orphans |-> "away"]
    /\ queue = <<>> /\ terms = 0 /\ forwarded = FALSE
    /\ code = 0

-----------------------------------------------------------------------------
(* runLauncher *)

\* Mutant: a set-up step that fails is logged and passed over.
SetupStepIgnoresErrors ==
    /\ stage = "setup" /\ next <= Len(Steps)
    /\ \/ done' = done \cup {Steps[next]}
       \/ UNCHANGED done
    /\ next' = next + 1
    /\ UNCHANGED <<stage, child, status, orphan, queue, terms, forwarded, code>>

SetupStep ==
    /\ stage = "setup" /\ next <= Len(Steps)
    /\ \/ done' = done \cup {Steps[next]} /\ next' = next + 1 /\ UNCHANGED <<stage, code>>
       \/ Steps[next] = "resolvConf" /\ next' = next + 1 /\ UNCHANGED <<stage, done, code>>
       \/ /\ Steps[next] # "resolvConf"
          /\ stage' = "exited" /\ code' = 1 /\ UNCHANGED <<next, done>>
    /\ UNCHANGED <<child, status, orphan, queue, terms, forwarded>>

\* Without an agent to run the launcher serves until a signal; the channel is set up
\* first.
ServeWithoutAgent ==
    /\ stage = "setup" /\ next > Len(Steps)
    /\ stage' = "serve"
    /\ UNCHANGED <<next, done, child, status, orphan, queue, terms, forwarded, code>>

StopServing ==
    /\ stage = "serve" /\ queue # <<>>
    /\ queue' = Tail(queue) /\ stage' = "exited" /\ code' = 0
    /\ UNCHANGED <<next, done, child, status, orphan, terms, forwarded>>

-----------------------------------------------------------------------------
(* runChild *)

\* cmd.Start, which may fail.
StartChild ==
    /\ stage = "setup" /\ next > Len(Steps)
    /\ \/ child' = "running" /\ stage' = "started" /\ UNCHANGED code
       \/ stage' = "exited" /\ code' = 1 /\ UNCHANGED child
    /\ UNCHANGED <<next, done, status, orphan, queue, terms, forwarded>>

\* signal.Notify.
NotifySignals ==
    /\ stage = "started"
    /\ stage' = "loop"
    /\ UNCHANGED <<next, done, child, status, orphan, queue, terms, forwarded, code>>

\* One signal from the channel: a fatal one is forwarded to the agent's
\* process group, SIGCHLD starts the reaping.
ReceiveSignal ==
    /\ stage = "loop" /\ queue # <<>>
    /\ queue' = Tail(queue)
    /\ IF Head(queue) = "CHLD"
       THEN stage' = "reap" /\ UNCHANGED forwarded
       ELSE forwarded' = (forwarded \/ child = "running") /\ UNCHANGED stage
    /\ UNCHANGED <<next, done, child, status, orphan, terms, code>>

\* The code of an agent that ended: 128 and the signal that killed it, or its
\* own exit status.
ExitCode(ws) == IF ws.signaled THEN 128 + ws.number ELSE ws.number

\* Wait4 returns some process that has ended; the agent ends the launcher.
ReapChild ==
    /\ stage = "reap" /\ child = "zombie"
    /\ child' = "reaped" /\ code' = ExitCode(status) /\ stage' = "exited"
    /\ UNCHANGED <<next, done, status, orphan, queue, terms, forwarded>>

\* Mutant: the launcher takes every process it reaps for the agent.
ReapOrphanAsAgent(o) ==
    /\ stage = "reap" /\ orphan[o] = "zombie"
    /\ orphan' = [orphan EXCEPT ![o] = "reaped"]
    /\ stage' = "exited"
    /\ UNCHANGED <<next, done, child, status, queue, terms, forwarded, code>>

\* Mutant: one process is reaped for each SIGCHLD.
ReapOrphanOnce(o) ==
    /\ stage = "reap" /\ orphan[o] = "zombie"
    /\ orphan' = [orphan EXCEPT ![o] = "reaped"]
    /\ stage' = "loop"
    /\ UNCHANGED <<next, done, child, status, queue, terms, forwarded, code>>

ReapOrphan(o) ==
    /\ stage = "reap" /\ orphan[o] = "zombie"
    /\ orphan' = [orphan EXCEPT ![o] = "reaped"]
    /\ UNCHANGED <<stage, next, done, child, status, queue, terms, forwarded, code>>

\* Wait4 finds nobody.
ReapNone ==
    /\ stage = "reap" /\ child # "zombie" /\ \A o \in Orphans : orphan[o] # "zombie"
    /\ stage' = "loop"
    /\ UNCHANGED <<next, done, child, status, orphan, queue, terms, forwarded, code>>

-----------------------------------------------------------------------------
(* The kernel and the sandbox *)

Running == stage \notin {"exited", "killed"}

\* The non-blocking send of the signal package.
Deliver(s) ==
    queue' = IF stage \in {"loop", "reap"} /\ Len(queue) < SigBuffer THEN Append(queue, s) ELSE queue

\* The agent ends.
ChildEnds(ws) ==
    /\ child = "running" /\ Running
    /\ child' = "zombie" /\ status' = ws
    /\ Deliver("CHLD")
    /\ UNCHANGED <<stage, next, done, orphan, terms, forwarded, code>>

\* A process of the agent's loses its parent, or an adopted one ends.
OrphanAdopted(o) ==
    /\ orphan[o] = "away" /\ child \in {"running", "zombie"} /\ Running
    /\ orphan' = [orphan EXCEPT ![o] = "running"]
    /\ UNCHANGED <<stage, next, done, child, status, queue, terms, forwarded, code>>

OrphanEnds(o) ==
    /\ orphan[o] = "running" /\ Running
    /\ orphan' = [orphan EXCEPT ![o] = "zombie"]
    /\ Deliver("CHLD")
    /\ UNCHANGED <<stage, next, done, child, status, terms, forwarded, code>>

\* A fatal signal.  Before signal.Notify the Go runtime ends the launcher with a
\* status of its own, and does not ask whether an agent is running.
Terminate ==
    /\ Running /\ terms < MaxTerms
    /\ terms' = terms + 1
    /\ \/ stage \in {"setup", "started"} /\ stage' = "killed" /\ UNCHANGED queue
       \/ stage = "serve" /\ queue' = <<"TERM">> /\ UNCHANGED stage
       \/ stage \in {"loop", "reap"} /\ Deliver("TERM") /\ UNCHANGED stage
    /\ UNCHANGED <<next, done, child, status, orphan, forwarded, code>>

-----------------------------------------------------------------------------
Reap == ReapChild \/ ReapNone \/ \E o \in Orphans : ReapOrphan(o)

Launch == SetupStep \/ ServeWithoutAgent \/ StopServing \/ StartChild
            \/ NotifySignals \/ ReceiveSignal \/ Reap

Sandbox ==
    \/ Terminate
    \/ \E ws \in Statuses : ChildEnds(ws)
    \/ \E o \in Orphans : OrphanAdopted(o) \/ OrphanEnds(o)

LaunchNext == Launch \/ Sandbox

\* The launcher runs; the agent and its processes need not end.
LaunchSpec == LaunchInit /\ [][LaunchNext]_launchVars /\ WF_launchVars(Launch)

-----------------------------------------------------------------------------
(* Properties *)

\* Types.
LaunchTypeOK ==
    /\ stage \in {"setup", "serve", "started", "loop", "reap", "exited", "killed"}
    /\ next \in 1 .. Len(Steps) + 1 /\ done \subseteq Range(Steps)
    /\ child \in {"none", "running", "zombie", "reaped"}
    /\ orphan \in [Orphans -> {"away", "running", "zombie", "reaped"}]
    /\ queue \in Seq({"CHLD", "TERM"}) /\ Len(queue) <= SigBuffer
    /\ terms \in 0 .. MaxTerms /\ forwarded \in BOOLEAN

\* The agent never runs in a sandbox that is half set up or whose launcher can
\* still reconfigure the network, whichever steps fail.
AgentIsConfined ==
    child # "none" => Range(Steps) \ {"resolvConf"} \subseteq done

\* A launcher that has started an agent ends with the status of the agent and of
\* no other process that it reaped, and only once the agent has ended, unless a
\* fatal signal ends it before signal.Notify: a launcher that has begun to
\* forward signals or to reap is not ended that way.
EndsWithAgentsStatus ==
    /\ LaunchTypeOK
    /\ stage = "exited" /\ child # "none" => child = "reaped" /\ code = ExitCode(status)
    /\ stage = "killed" => ~forwarded /\ child # "reaped" /\ \A o \in Orphans : orphan[o] # "reaped"

\* One pending SIGCHLD is enough for every process that has ended, the agent or
\* an orphan, even when their own signals were dropped: it is reaped, or the
\* agent is and the launcher ends.
PendingSignalSuffices ==
    /\ (child = "zombie" /\ "CHLD" \in Range(queue)) ~> (stage = "exited")
    /\ \A o \in Orphans :
        (orphan[o] = "zombie" /\ "CHLD" \in Range(queue)) ~>
            (orphan[o] = "reaped" \/ stage = "exited")

\* "return the child's exit status": the launcher ends once its agent has.
EndsAfterAgent == (child = "zombie") ~> ~Running
=============================================================================
