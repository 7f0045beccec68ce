---------------------------- MODULE TunnelProofs ----------------------------
(***************************************************************************)
(* Theorems about a tunnel of the boundary (module Tunnel): whichever way  *)
(* the copies, the watcher and the peers interleave, what an end reads as  *)
(* a clean end of the other's data is all of that data.                    *)
(*                                                                         *)
(* Both properties are about the moment a copy ends and must survive every *)
(* later step, so the invariant says why a copy has ended: a direction     *)
(* that stopped with its connections alive has seen its source's EOF with  *)
(* nothing unread (UpIsDrained, DownIsDrained), and who may have closed a  *)
(* connection by then (ClosingIsOrdered).                                  *)
(***************************************************************************)
EXTENDS Tunnel, TLAPS

\* The types TypeOK leaves out.
StateOK ==
    /\ kind \in Kinds
    /\ fin \in BOOLEAN /\ canceled \in BOOLEAN

\* A copy holds at most one chunk, between its read and its write.
OneChunkAtATime ==
    \A d \in Directions :
        /\ pc[d] = "read" => flow[d].held = 0
        /\ pc[d] = "write" => flow[d].held = 1

\* The client's connection is never closed before the upstream's; a closed
\* connection has a closer, and the upstream is half-closed by "up" only.
ClosingIsOrdered ==
    /\ pc["up"] \notin {"closeUpstream", "closeClient"}
    /\ fin => pc["up"] = "done"
    /\ pc["down"] \in {"closeClient", "done"} \/ watch = "stopClient" => closed["upstream"]
    /\ closed["client"] => closed["upstream"] /\ (pc["down"] = "done" \/ watch = "done")
    /\ closed["upstream"] =>
        kind.network = "udp" \/ pc["down"] \in {"closeClient", "done"} \/ watch \in {"stopClient",
            "done"}

\* A UDP destination does not end its direction.
UDPHasNoEOF == kind.network = "udp" => peer["upstream"] # "eof"

\* "up" has stopped on a tunnel nobody cut: the client has ended and the
\* upstream has all it sent.
UpIsDrained ==
    pc["up"] \in {"end", "done"} /\ ~closed["upstream"]
        /\ peer["client"] # "gone" /\ peer["upstream"] # "gone"
    => peer["client"] = "eof" /\ AllWritten("up")

\* "down" has stopped on a TCP tunnel nobody cut: the upstream has ended, and
\* the client has all it sent.
DownIsDrained ==
    pc["down"] \notin {"read", "write"} /\ peer["client"] # "gone"
        /\ watch \in {"off", "on"} /\ kind.network = "tcp"
    => /\ peer["upstream"] \in {"eof", "gone"}
       /\ peer["upstream"] = "eof" => AllWritten("down")

TunnelInv ==
    /\ StateOK /\ TypeOK /\ OneChunkAtATime /\ ClosingIsOrdered /\ UDPHasNoEOF
    /\ UpIsDrained /\ DownIsDrained

-----------------------------------------------------------------------------
(* Lemmas *)

\* What the invariant needs of the kinds.
LEMMA KindHasANetwork ==
    ASSUME kind \in Kinds
    PROVE  kind.network \in {"tcp", "udp"}
  BY TunnelAssumption

\* The state of a direction.
Chunks == [unread : 0 .. Buffer, held : {0, 1}, untaken : 0 .. Buffer]

\* A step on one direction leaves the other alone.
LEMMA OneDirectionMoves ==
    ASSUME TypeOK, NEW d \in Directions, NEW g \in Chunks, flow' = [flow EXCEPT ![d] = g]
    PROVE  /\ flow' \in [Directions -> Chunks] /\ flow'[d] = g
           /\ \A c \in Directions \ {d} : flow'[c] = flow[c]
  <1>1. flow \in [Directions -> Chunks]
    BY DEF TypeOK, Chunks
  <1> QED  BY <1>1

\* A chunk is sent.
LEMMA UnreadGrows ==
    ASSUME TypeOK, NEW d \in Directions, flow[d].unread < Buffer,
           flow' = [flow EXCEPT ![d].unread = @ + 1]
    PROVE  /\ flow' \in [Directions -> Chunks]
           /\ flow'[d].unread = flow[d].unread + 1 /\ flow'[d].held = flow[d].held
           /\ \A c \in Directions \ {d} : flow'[c] = flow[c]
  <1> DEFINE g == [flow[d] EXCEPT !.unread = @ + 1]
  <1>1. flow[d] \in Chunks
    BY DEF TypeOK, Chunks
  <1>2. g \in Chunks /\ g.unread = flow[d].unread + 1 /\ g.held = flow[d].held
    BY <1>1, TunnelAssumption DEF Chunks
  <1>3. flow' = [flow EXCEPT ![d] = g]
    BY <1>1 DEF TypeOK
  <1> HIDE DEF g
  <1> QED  BY <1>2, <1>3, OneDirectionMoves

\* A chunk is taken.
LEMMA UntakenShrinks ==
    ASSUME TypeOK, NEW d \in Directions, flow[d].untaken > 0,
           flow' = [flow EXCEPT ![d].untaken = @ - 1]
    PROVE  /\ flow' \in [Directions -> Chunks]
           /\ flow'[d].unread = flow[d].unread /\ flow'[d].held = flow[d].held
           /\ \A c \in Directions \ {d} : flow'[c] = flow[c]
  <1> DEFINE g == [flow[d] EXCEPT !.untaken = @ - 1]
  <1>1. flow[d] \in Chunks
    BY DEF TypeOK, Chunks
  <1>2. g \in Chunks /\ g.unread = flow[d].unread /\ g.held = flow[d].held
    BY <1>1, TunnelAssumption DEF Chunks
  <1>3. flow' = [flow EXCEPT ![d] = g]
    BY <1>1 DEF TypeOK
  <1> HIDE DEF g
  <1> QED  BY <1>2, <1>3, OneDirectionMoves

\* A chunk is read.
LEMMA ReadMoves ==
    ASSUME TypeOK, NEW d \in Directions, flow[d].unread > 0,
           flow' = [flow EXCEPT ![d] = [unread |-> @.unread - 1, held |-> 1, untaken |-> @.untaken]]
    PROVE  /\ flow' \in [Directions -> Chunks]
           /\ flow'[d].unread = flow[d].unread - 1 /\ flow'[d].held = 1
           /\ \A c \in Directions \ {d} : flow'[c] = flow[c]
  <1> DEFINE g == [unread |-> flow[d].unread - 1, held |-> 1, untaken |-> flow[d].untaken]
  <1>1. flow[d] \in Chunks
    BY DEF TypeOK, Chunks
  <1>2. g \in Chunks /\ g.unread = flow[d].unread - 1 /\ g.held = 1
    BY <1>1, TunnelAssumption DEF Chunks
  <1>3. flow' = [flow EXCEPT ![d] = g]
    BY <1>1 DEF TypeOK
  <1> HIDE DEF g
  <1> QED  BY <1>2, <1>3, OneDirectionMoves

\* A chunk is written.
LEMMA WriteMoves ==
    ASSUME TypeOK, NEW d \in Directions,
           flow' = [flow EXCEPT ![d] =
               [unread |-> @.unread, held |-> 0,
                untaken |-> IF @.untaken < Buffer THEN @.untaken + 1 ELSE Buffer]]
    PROVE  /\ flow' \in [Directions -> Chunks]
           /\ flow'[d].unread = flow[d].unread /\ flow'[d].held = 0
           /\ \A c \in Directions \ {d} : flow'[c] = flow[c]
  <1> DEFINE g == [unread |-> flow[d].unread, held |-> 0,
                   untaken |-> IF flow[d].untaken < Buffer THEN flow[d].untaken + 1 ELSE Buffer]
  <1>1. flow[d] \in Chunks
    BY DEF TypeOK, Chunks
  <1>2. g \in Chunks /\ g.unread = flow[d].unread /\ g.held = 0
    BY <1>1, TunnelAssumption DEF Chunks
  <1>3. flow' = [flow EXCEPT ![d] = g]
    BY <1>1 DEF TypeOK
  <1> HIDE DEF g
  <1> QED  BY <1>2, <1>3, OneDirectionMoves

(* Every step keeps the invariant *)

\* A peer may send only while it is open, so no stopped copy falls behind.
LEMMA SendKeepsInv ==
    ASSUME TunnelInv, NEW d \in Directions, Send(d)
    PROVE  TunnelInv'
  <1> USE TunnelAssumption DEF TunnelInv, Directions, Ends, Source, Sink
  <1>1. /\ flow' \in [Directions -> Chunks]
        /\ flow'[d].unread = flow[d].unread + 1 /\ flow'[d].held = flow[d].held
        /\ \A c \in Directions \ {d} : flow'[c] = flow[c]
    BY UnreadGrows DEF Send
  <1>2. StateOK'
    BY <1>1 DEF StateOK, Send
  <1>3. TypeOK'
    BY <1>1 DEF StateOK, TypeOK, OneChunkAtATime, Send, Chunks
  <1>4. OneChunkAtATime'
    BY <1>1 DEF OneChunkAtATime, StateOK, TypeOK, Send
  <1>5. ClosingIsOrdered'
    BY <1>1 DEF ClosingIsOrdered, StateOK, TypeOK, Send
  <1>6. UDPHasNoEOF'
    BY <1>1 DEF UDPHasNoEOF, TypeOK, StateOK, Send
  <1>7. UpIsDrained'
    BY <1>1 DEF UpIsDrained, AllWritten, OneChunkAtATime, ClosingIsOrdered, TypeOK, StateOK, Send
  <1>8. DownIsDrained'
    BY <1>1 DEF DownIsDrained, AllWritten, OneChunkAtATime, ClosingIsOrdered, UDPHasNoEOF,
        TypeOK, StateOK, Send
  <1> QED  BY <1>2, <1>3, <1>4, <1>5, <1>6, <1>7, <1>8

\* What a peer takes was written.
LEMMA TakeKeepsInv ==
    ASSUME TunnelInv, NEW d \in Directions, Take(d)
    PROVE  TunnelInv'
  <1> USE TunnelAssumption DEF TunnelInv, Directions, Ends, Source, Sink
  <1>1. /\ flow' \in [Directions -> Chunks]
        /\ flow'[d].unread = flow[d].unread /\ flow'[d].held = flow[d].held
        /\ \A c \in Directions \ {d} : flow'[c] = flow[c]
    BY UntakenShrinks DEF Take
  <1>2. StateOK'
    BY <1>1 DEF StateOK, Take
  <1>3. TypeOK'
    BY <1>1 DEF StateOK, TypeOK, OneChunkAtATime, Take, Chunks
  <1>4. OneChunkAtATime'
    BY <1>1 DEF OneChunkAtATime, StateOK, TypeOK, Take
  <1>5. ClosingIsOrdered'
    BY <1>1 DEF ClosingIsOrdered, StateOK, TypeOK, Take
  <1>6. UDPHasNoEOF'
    BY <1>1 DEF UDPHasNoEOF, TypeOK, StateOK, Take
  <1>7. UpIsDrained'
    BY <1>1 DEF UpIsDrained, AllWritten, OneChunkAtATime, ClosingIsOrdered, TypeOK, StateOK, Take
  <1>8. DownIsDrained'
    BY <1>1 DEF DownIsDrained, AllWritten, OneChunkAtATime, ClosingIsOrdered, UDPHasNoEOF,
        TypeOK, StateOK, Take
  <1> QED  BY <1>2, <1>3, <1>4, <1>5, <1>6, <1>7, <1>8

\* A read leaves a chunk to be written.
LEMMA ReadKeepsInv ==
    ASSUME TunnelInv, NEW d \in Directions, Read(d)
    PROVE  TunnelInv'
  <1> USE TunnelAssumption DEF TunnelInv, Directions, Ends, Source, Sink
  <1>1. /\ flow' \in [Directions -> Chunks]
        /\ flow'[d].unread = flow[d].unread - 1 /\ flow'[d].held = 1
        /\ \A c \in Directions \ {d} : flow'[c] = flow[c]
    BY ReadMoves DEF Read
  <1>2. StateOK'
    BY <1>1 DEF StateOK, Read
  <1>3. TypeOK'
    BY <1>1 DEF StateOK, TypeOK, OneChunkAtATime, Read, Chunks
  <1>4. OneChunkAtATime'
    BY <1>1 DEF OneChunkAtATime, StateOK, TypeOK, Read
  <1>5. ClosingIsOrdered'
    BY <1>1 DEF ClosingIsOrdered, StateOK, TypeOK, Read
  <1>6. UDPHasNoEOF'
    BY <1>1 DEF UDPHasNoEOF, TypeOK, StateOK, Read
  <1>7. UpIsDrained'
    BY <1>1 DEF UpIsDrained, AllWritten, OneChunkAtATime, ClosingIsOrdered, TypeOK, StateOK, Read
  <1>8. DownIsDrained'
    BY <1>1 DEF DownIsDrained, AllWritten, OneChunkAtATime, ClosingIsOrdered, UDPHasNoEOF,
        TypeOK, StateOK, Read
  <1> QED  BY <1>2, <1>3, <1>4, <1>5, <1>6, <1>7, <1>8

\* A write passes on the chunk that was read.
LEMMA WriteKeepsInv ==
    ASSUME TunnelInv, NEW d \in Directions, Write(d)
    PROVE  TunnelInv'
  <1> USE TunnelAssumption DEF TunnelInv, Directions, Ends, Source, Sink
  <1>1. /\ flow' \in [Directions -> Chunks]
        /\ flow'[d].unread = flow[d].unread /\ flow'[d].held = 0
        /\ \A c \in Directions \ {d} : flow'[c] = flow[c]
    BY WriteMoves DEF Write
  <1>2. StateOK'
    BY <1>1 DEF StateOK, Write
  <1>3. TypeOK'
    BY <1>1 DEF StateOK, TypeOK, OneChunkAtATime, Write, Chunks
  <1>4. OneChunkAtATime'
    BY <1>1 DEF OneChunkAtATime, StateOK, TypeOK, Write
  <1>5. ClosingIsOrdered'
    BY <1>1 DEF ClosingIsOrdered, StateOK, TypeOK, Write
  <1>6. UDPHasNoEOF'
    BY <1>1 DEF UDPHasNoEOF, TypeOK, StateOK, Write
  <1>7. UpIsDrained'
    BY <1>1 DEF UpIsDrained, AllWritten, OneChunkAtATime, ClosingIsOrdered, TypeOK, StateOK, Write
  <1>8. DownIsDrained'
    BY <1>1 DEF DownIsDrained, AllWritten, OneChunkAtATime, ClosingIsOrdered, UDPHasNoEOF,
        TypeOK, StateOK, Write
  <1> QED  BY <1>2, <1>3, <1>4, <1>5, <1>6, <1>7, <1>8

\* A read ends on an EOF with nothing unread, unless the tunnel was cut.
LEMMA ReadEndsKeepsInv ==
    ASSUME TunnelInv, NEW d \in Directions, ReadEnds(d)
    PROVE  TunnelInv'
  <1> USE TunnelAssumption DEF TunnelInv, Directions, Ends, Source, Sink
  <1>2. StateOK'
    BY DEF StateOK, ReadEnds
  <1>3. TypeOK'
    BY DEF StateOK, TypeOK, OneChunkAtATime, ReadEnds
  <1>4. OneChunkAtATime'
    BY DEF OneChunkAtATime, StateOK, TypeOK, ReadEnds
  <1>5. ClosingIsOrdered'
    BY DEF ClosingIsOrdered, StateOK, TypeOK, ReadEnds
  <1>6. UDPHasNoEOF'
    BY DEF UDPHasNoEOF, TypeOK, StateOK, ReadEnds
  <1>7. UpIsDrained'
    BY DEF UpIsDrained, AllWritten, OneChunkAtATime, ClosingIsOrdered, TypeOK, StateOK, ReadEnds
  <1>8. DownIsDrained'
    BY DEF DownIsDrained, AllWritten, OneChunkAtATime, ClosingIsOrdered, UDPHasNoEOF,
        TypeOK, StateOK, ReadEnds
  <1> QED  BY <1>2, <1>3, <1>4, <1>5, <1>6, <1>7, <1>8

\* A write fails only when the tunnel was cut.
LEMMA WriteFailsKeepsInv ==
    ASSUME TunnelInv, NEW d \in Directions, WriteFails(d)
    PROVE  TunnelInv'
  <1> USE TunnelAssumption DEF TunnelInv, Directions, Ends, Source, Sink
  <1>2. StateOK'
    BY DEF StateOK, WriteFails
  <1>3. TypeOK'
    BY DEF StateOK, TypeOK, OneChunkAtATime, WriteFails
  <1>4. OneChunkAtATime'
    BY DEF OneChunkAtATime, StateOK, TypeOK, WriteFails
  <1>5. ClosingIsOrdered'
    BY DEF ClosingIsOrdered, StateOK, TypeOK, WriteFails
  <1>6. UDPHasNoEOF'
    BY DEF UDPHasNoEOF, TypeOK, StateOK, WriteFails
  <1>7. UpIsDrained'
    BY DEF UpIsDrained, AllWritten, OneChunkAtATime, ClosingIsOrdered, TypeOK, StateOK, WriteFails
  <1>8. DownIsDrained'
    BY DEF DownIsDrained, AllWritten, OneChunkAtATime, ClosingIsOrdered, UDPHasNoEOF,
        TypeOK, StateOK, WriteFails
  <1> QED  BY <1>2, <1>3, <1>4, <1>5, <1>6, <1>7, <1>8

\* A copy that has stopped on a live tunnel has seen the EOF already.
LEMMA FinishKeepsInv ==
    ASSUME TunnelInv, NEW e \in Ends, Finish(e)
    PROVE  TunnelInv'
  <1> USE TunnelAssumption DEF TunnelInv, Directions, Ends, Source, Sink
  <1>2. StateOK'
    BY DEF StateOK, Finish
  <1>3. TypeOK'
    BY DEF StateOK, TypeOK, OneChunkAtATime, Finish
  <1>4. OneChunkAtATime'
    BY DEF OneChunkAtATime, StateOK, TypeOK, Finish
  <1>5. ClosingIsOrdered'
    BY DEF ClosingIsOrdered, StateOK, TypeOK, Finish
  <1>6. UDPHasNoEOF'
    BY DEF UDPHasNoEOF, TypeOK, StateOK, Finish
  <1>7. UpIsDrained'
    BY DEF UpIsDrained, AllWritten, OneChunkAtATime, ClosingIsOrdered, TypeOK, StateOK, Finish
  <1>8. DownIsDrained'
    BY DEF DownIsDrained, AllWritten, OneChunkAtATime, ClosingIsOrdered, UDPHasNoEOF,
        TypeOK, StateOK, Finish
  <1> QED  BY <1>2, <1>3, <1>4, <1>5, <1>6, <1>7, <1>8

\* A lost peer releases the copies from their duty.
LEMMA VanishKeepsInv ==
    ASSUME TunnelInv, NEW e \in Ends, Vanish(e)
    PROVE  TunnelInv'
  <1> USE TunnelAssumption DEF TunnelInv, Directions, Ends, Source, Sink
  <1>2. StateOK'
    BY DEF StateOK, Vanish
  <1>3. TypeOK'
    BY DEF StateOK, TypeOK, OneChunkAtATime, Vanish
  <1>4. OneChunkAtATime'
    BY DEF OneChunkAtATime, StateOK, TypeOK, Vanish
  <1>5. ClosingIsOrdered'
    BY DEF ClosingIsOrdered, StateOK, TypeOK, Vanish
  <1>6. UDPHasNoEOF'
    BY DEF UDPHasNoEOF, TypeOK, StateOK, Vanish
  <1>7. UpIsDrained'
    BY DEF UpIsDrained, AllWritten, OneChunkAtATime, ClosingIsOrdered, TypeOK, StateOK, Vanish
  <1>8. DownIsDrained'
    BY DEF DownIsDrained, AllWritten, OneChunkAtATime, ClosingIsOrdered, UDPHasNoEOF,
        TypeOK, StateOK, Vanish
  <1> QED  BY <1>2, <1>3, <1>4, <1>5, <1>6, <1>7, <1>8

\* Time changes no count.
LEMMA TickKeepsInv ==
    ASSUME TunnelInv, Tick
    PROVE  TunnelInv'
  <1> USE TunnelAssumption DEF TunnelInv, Directions, Ends, Source, Sink
  <1>2. StateOK'
    BY DEF StateOK, Tick
  <1>3. TypeOK'
    BY DEF StateOK, TypeOK, OneChunkAtATime, Tick
  <1>4. OneChunkAtATime'
    BY DEF OneChunkAtATime, StateOK, TypeOK, Tick
  <1>5. ClosingIsOrdered'
    BY DEF ClosingIsOrdered, StateOK, TypeOK, Tick
  <1>6. UDPHasNoEOF'
    BY DEF UDPHasNoEOF, TypeOK, StateOK, Tick
  <1>7. UpIsDrained'
    BY DEF UpIsDrained, AllWritten, OneChunkAtATime, ClosingIsOrdered, TypeOK, StateOK, Tick
  <1>8. DownIsDrained'
    BY DEF DownIsDrained, AllWritten, OneChunkAtATime, ClosingIsOrdered, UDPHasNoEOF,
        TypeOK, StateOK, Tick
  <1> QED  BY <1>2, <1>3, <1>4, <1>5, <1>6, <1>7, <1>8

\* The half-close follows the drained copy; only a UDP upstream is closed.
LEMMA UpEndsKeepsInv ==
    ASSUME TunnelInv, UpEnds
    PROVE  TunnelInv'
  <1> USE TunnelAssumption DEF TunnelInv, Directions, Ends, Source, Sink
  <1>2. StateOK'
    BY DEF StateOK, UpEnds
  <1>3. TypeOK'
    BY DEF StateOK, TypeOK, OneChunkAtATime, UpEnds
  <1>4. OneChunkAtATime'
    BY DEF OneChunkAtATime, StateOK, TypeOK, UpEnds
  <1>5. ClosingIsOrdered'
    BY DEF ClosingIsOrdered, StateOK, TypeOK, UpEnds
  <1>6. UDPHasNoEOF'
    BY DEF UDPHasNoEOF, TypeOK, StateOK, UpEnds
  <1>7. UpIsDrained'
    BY DEF UpIsDrained, AllWritten, OneChunkAtATime, ClosingIsOrdered, TypeOK, StateOK, UpEnds
  <1>8. DownIsDrained'
    BY DEF DownIsDrained, AllWritten, OneChunkAtATime, ClosingIsOrdered, UDPHasNoEOF,
        TypeOK, StateOK, UpEnds
  <1> QED  BY <1>2, <1>3, <1>4, <1>5, <1>6, <1>7, <1>8

\* The handler closes the upstream before the client.
LEMMA DownEndsKeepsInv ==
    ASSUME TunnelInv, DownEnds
    PROVE  TunnelInv'
  <1> USE TunnelAssumption DEF TunnelInv, Directions, Ends, Source, Sink
  <1>2. StateOK'
    BY DEF StateOK, DownEnds
  <1>3. TypeOK'
    BY DEF StateOK, TypeOK, OneChunkAtATime, DownEnds
  <1>4. OneChunkAtATime'
    BY DEF OneChunkAtATime, StateOK, TypeOK, DownEnds
  <1>5. ClosingIsOrdered'
    BY DEF ClosingIsOrdered, StateOK, TypeOK, DownEnds
  <1>6. UDPHasNoEOF'
    BY DEF UDPHasNoEOF, TypeOK, StateOK, DownEnds
  <1>7. UpIsDrained'
    BY DEF UpIsDrained, AllWritten, OneChunkAtATime, ClosingIsOrdered, TypeOK, StateOK, DownEnds
  <1>8. DownIsDrained'
    BY DEF DownIsDrained, AllWritten, OneChunkAtATime, ClosingIsOrdered, UDPHasNoEOF,
        TypeOK, StateOK, DownEnds
  <1> QED  BY <1>2, <1>3, <1>4, <1>5, <1>6, <1>7, <1>8

\* So does the watcher.
LEMMA WatcherKeepsInv ==
    ASSUME TunnelInv, Watcher
    PROVE  TunnelInv'
  <1> USE TunnelAssumption DEF TunnelInv, Directions, Ends, Source, Sink
  <1>2. StateOK'
    BY DEF StateOK, Watcher, WatchFires, WatchCanceled, WatchStops
  <1>3. TypeOK'
    BY DEF StateOK, TypeOK, OneChunkAtATime, Watcher, WatchFires, WatchCanceled, WatchStops
  <1>4. OneChunkAtATime'
    BY DEF OneChunkAtATime, StateOK, TypeOK, Watcher, WatchFires, WatchCanceled, WatchStops
  <1>5. ClosingIsOrdered'
    BY DEF ClosingIsOrdered, StateOK, TypeOK, Watcher, WatchFires, WatchCanceled, WatchStops
  <1>6. UDPHasNoEOF'
    BY DEF UDPHasNoEOF, TypeOK, StateOK, Watcher, WatchFires, WatchCanceled, WatchStops
  <1>7. UpIsDrained'
    BY DEF UpIsDrained, AllWritten, OneChunkAtATime, ClosingIsOrdered,
        TypeOK, StateOK, Watcher, WatchFires,
        WatchCanceled, WatchStops
  <1>8. DownIsDrained'
    BY DEF DownIsDrained, AllWritten, OneChunkAtATime, ClosingIsOrdered, UDPHasNoEOF,
        TypeOK, StateOK, Watcher,
        WatchFires, WatchCanceled, WatchStops
  <1> QED  BY <1>2, <1>3, <1>4, <1>5, <1>6, <1>7, <1>8

-----------------------------------------------------------------------------
(* Theorems *)

\* The invariant holds in every state of every tunnel.
THEOREM TunnelInvariance == Spec => []TunnelInv
  <1>1. Init => TunnelInv
    <2> SUFFICES ASSUME Init PROVE TunnelInv
      OBVIOUS
    <2> USE TunnelAssumption DEF Init, Directions, Ends
    <2>1. PICK early \in {0, 1} : flow = [d \in Directions |->
            [unread |-> IF d = "up" THEN early ELSE 0, held |-> 0, untaken |-> 0]]
      OBVIOUS
    <2>2. flow \in [Directions -> [unread : 0 .. Buffer, held : {0, 1}, untaken : 0 .. Buffer]]
      BY <2>1
    <2>3. \A d \in Directions : flow[d].held = 0
      BY <2>1
    <2>4. StateOK
      BY DEF StateOK
    <2>5. TypeOK
      BY <2>2 DEF TypeOK
    <2>6. OneChunkAtATime
      BY <2>3 DEF OneChunkAtATime
    <2>7. ClosingIsOrdered /\ UDPHasNoEOF /\ UpIsDrained /\ DownIsDrained
      BY DEF ClosingIsOrdered, UDPHasNoEOF, UpIsDrained, DownIsDrained
    <2> QED  BY <2>4, <2>5, <2>6, <2>7 DEF TunnelInv
  <1>2. TunnelInv /\ [Next]_vars => TunnelInv'
    <2> SUFFICES ASSUME TunnelInv, [Next]_vars PROVE TunnelInv'
      OBVIOUS
    <2>1. CASE Up
      BY <2>1, ReadKeepsInv, ReadEndsKeepsInv, WriteKeepsInv, WriteFailsKeepsInv, UpEndsKeepsInv
      DEF Up, Copy, Directions
    <2>2. CASE Down
      BY <2>2, ReadKeepsInv, ReadEndsKeepsInv, WriteKeepsInv, WriteFailsKeepsInv, DownEndsKeepsInv
      DEF Down, Copy, Directions
    <2>3. CASE Watcher
      BY <2>3, WatcherKeepsInv
    <2>4. CASE Tick
      BY <2>4, TickKeepsInv
    <2>5. CASE Peers
      BY <2>5, SendKeepsInv, TakeKeepsInv, FinishKeepsInv, VanishKeepsInv DEF Peers
    <2>6. CASE UNCHANGED vars
      BY <2>6 DEF vars, TunnelInv, StateOK, TypeOK, OneChunkAtATime, ClosingIsOrdered,
        UDPHasNoEOF, UpIsDrained, DownIsDrained, AllWritten
    <2> QED  BY <2>1, <2>2, <2>3, <2>4, <2>5, <2>6 DEF Next
  <1> QED  BY <1>1, <1>2, PTL DEF Spec

\* relay: the half-close an upstream reads on an open connection comes after
\* everything the client sent, for every kind of tunnel, buffer and idle time.
THEOREM TunnelHalfCloseIsComplete == Spec => []HalfCloseIsComplete
  <1>1. TunnelInv => HalfCloseIsComplete
    BY DEF TunnelInv, UpIsDrained, ClosingIsOrdered, HalfCloseIsComplete
  <1> QED  BY <1>1, TunnelInvariance, PTL

\* relay: a handler that returns because the upstream ended has passed on the
\* tail of the response.
THEOREM TunnelResponseIsComplete == Spec => []ResponseIsComplete
  <1>1. TunnelInv => ResponseIsComplete
    BY KindHasANetwork DEF TunnelInv, StateOK, DownIsDrained, UDPHasNoEOF, ResponseIsComplete
  <1> QED  BY <1>1, TunnelInvariance, PTL
=============================================================================
