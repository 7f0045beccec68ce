------------------------------ MODULE Adapters ------------------------------
(***************************************************************************)
(* The two programs around the engine.  The daemon of                      *)
(* sdk/cmd/tun2connect/main.go reads packets from a TUN device inside the  *)
(* engine and closes it on a signal.  The QEMU stream adapter,             *)
(* sdk/pkg/qemuproxy, moves Ethernet frames between a virtual machine's    *)
(* stream and the engine's stack with a goroutine per direction, and       *)
(* closes the engine once both have ended.                                 *)
(*                                                                         *)
(* What was injected may still be queued in the stack, so a flow can reach *)
(* the engine until the stack is closed.  Frames have no contents, and     *)
(* errors no text.                                                         *)
(***************************************************************************)
EXTENDS Engine

VARIABLES
    adapter,    \* "tun" or "qemu"
    ended,      \* the context of the program has ended: it has been signaled
    main,       \* where the program is
    pump,       \* pump[d]: the goroutine that moves frames in direction d
    results,    \* results in the channel
    runCanceled,\* Run has called cancel
    stream      \* Run's end of the machine's stream is open

adapterVars == <<adapter, ended, main, pump, results, runCanceled, stream>>
allVars     == <<vars, adapterVars>>

AdapterInit ==
    /\ Init
    /\ adapter \in {"tun", "qemu"}
    /\ ended = FALSE /\ main = "serve"
    /\ pump = [d \in Copies |-> IF adapter = "qemu" THEN "frame" ELSE "ended"]
    /\ results = 0 /\ runCanceled = FALSE
    /\ stream = (adapter = "qemu")

\* SIGINT or SIGTERM; it changes nothing once Run has canceled.
Signal ==
    /\ ~ended /\ ~runCanceled
    /\ ended' = TRUE
    /\ UNCHANGED <<vars, adapter, main, pump, results, runCanceled, stream>>

-----------------------------------------------------------------------------
(* The goroutines of qemuproxy.Run *)

runCtxDone == ended \/ runCanceled

PumpEnds(d) ==
    /\ pump' = [pump EXCEPT ![d] = "ended"] /\ results' = results + 1
    /\ UNCHANGED <<vars, adapter, ended, main, runCanceled, stream>>

\* readFrame fails: the machine has ended, a frame is too short, too long or not
\* complete in time, or the stream is closed here.
ReadFrameFails == pump["in"] = "frame" /\ PumpEnds("in")

\* The stack has a packet for the machine.
TakeFrame ==
    /\ pump["out"] = "frame"
    /\ pump' = [pump EXCEPT !["out"] = "write"]
    /\ UNCHANGED <<vars, adapter, ended, main, results, runCanceled, stream>>

\* writeFrame blocks while the machine does not read, for frameTimeout at most.
WriteFrame ==
    /\ pump["out"] = "write" /\ stream
    /\ pump' = [pump EXCEPT !["out"] = "frame"]
    /\ UNCHANGED <<vars, adapter, ended, main, results, runCanceled, stream>>

WriteFrameFails == pump["out"] = "write" /\ PumpEnds("out")

\* ReadContext returns nil.
NoMoreFrames == pump["out"] = "frame" /\ runCtxDone /\ PumpEnds("out")

\* The function that the ended context runs closes the stream.
StreamHook ==
    /\ adapter = "qemu" /\ runCtxDone /\ stream
    /\ stream' = FALSE
    /\ UNCHANGED <<vars, adapter, ended, main, pump, results, runCanceled>>

-----------------------------------------------------------------------------
(* The main goroutine *)

\* Mutant: Run does not wait for the second goroutine.
DrainUnwaited ==
    /\ main = "drain"
    /\ main' = "close"
    /\ UNCHANGED <<vars, adapter, ended, pump, results, runCanceled, stream>>

\* The second receive.
Drain ==
    /\ main = "drain" /\ results > 0
    /\ results' = results - 1 /\ main' = "close"
    /\ UNCHANGED <<vars, adapter, ended, pump, runCanceled, stream>>

\* The first result ends Run: it cancels, then closes the stream under the
\* goroutine that is left.
RunStops ==
    \/ /\ adapter = "qemu" /\ main = "serve" /\ results > 0
       /\ results' = results - 1 /\ runCanceled' = TRUE /\ main' = "stop"
       /\ UNCHANGED <<vars, adapter, ended, pump, stream>>
    \/ /\ main = "stop"
       /\ stream' = FALSE /\ main' = "drain"
       /\ UNCHANGED <<vars, adapter, ended, pump, results, runCanceled>>
    \/ Drain

\* The daemon has received its signal.
DaemonStops ==
    /\ adapter = "tun" /\ main = "serve" /\ ended
    /\ main' = "close"
    /\ UNCHANGED <<vars, adapter, ended, pump, results, runCanceled, stream>>

\* engine.Close, which for Run is a deferred call, and the end of the program.
CloseEngine == main = "close" /\ Close /\ UNCHANGED adapterVars

Return ==
    /\ main = "close" /\ closer = "done"
    /\ main' = "returned"
    /\ UNCHANGED <<vars, adapter, ended, pump, results, runCanceled, stream>>

Main == RunStops \/ DaemonStops \/ CloseEngine \/ Return

-----------------------------------------------------------------------------
FlowStep(f) ==
    Accept(f) \/ Work(f) \/ CopyEnds(f) \/ ServeDNSReturns(f) \/ HookRuns(f)

PumpOut == WriteFrame \/ WriteFrameFails \/ NoMoreFrames

AdapterNext ==
    \/ \E f \in Flows : FlowStep(f) /\ UNCHANGED adapterVars
    \/ Main \/ PumpOut \/ StreamHook
    \/ Signal \/ TakeFrame \/ ReadFrameFails

\* The engine's fairness, and goroutines that are scheduled here: a write ends
\* by its deadline, a read when the stream is closed.
AdapterSpec ==
    /\ AdapterInit /\ [][AdapterNext]_allVars
    /\ \A f \in Flows : /\ WF_allVars(Work(f) /\ UNCHANGED adapterVars)
                        /\ WF_allVars(HookRuns(f) /\ UNCHANGED adapterVars)
    /\ WF_allVars(Main) /\ WF_allVars(PumpOut)
    /\ WF_allVars(~stream /\ ReadFrameFails) /\ WF_allVars(StreamHook)

-----------------------------------------------------------------------------
(* Properties *)

\* The stack is torn down under nobody who uses it: not under a session, and
\* not under a goroutine that injects frames or takes them.  When the program
\* returns, nothing of its own is left: no goroutine, and the stream is closed.
StackOutlivesUsers ==
    /\ NoSessionOnClosedStack
    /\ closer = "done" => \A d \in Copies : pump[d] = "ended"
    /\ main = "returned" => ~stream /\ results = 0

\* A signal, or the end of either goroutine, ends the program, whatever the
\* sessions, their peers and the machine are doing.
AdapterReturns ==
    (ended \/ (adapter = "qemu" /\ \E d \in Copies : pump[d] = "ended")) ~> (main = "returned")
=============================================================================
