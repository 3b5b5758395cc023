---------------------------- MODULE OutputEvents ----------------------------
(***************************************************************************)
(* The event sender of one job (src/src/jobs/transfer.rs): the output task *)
(* of a running command and the drain before its terminal result take the  *)
(* same sender lock, journal the chunk they are about to send, send it and *)
(* journal its acknowledgement.  Journal writes run on a blocking thread   *)
(* that outlives the task which asked for them.  Byte i of a stream is its *)
(* position; every second byte of stdout ends a progress line.             *)
(***************************************************************************)
EXTENDS Integers, FiniteSets

CONSTANTS MaxBytes,     \* bound on the bytes of a stream
          MaxChunk,     \* bytes one read returns at most (32768 in the code)
          Faults        \* how often each kind of fault may strike

FaultKinds == {"crash", "loss", "disk"}

ASSUME OutputBoundsAssumption == MaxBytes \in Nat /\ MaxChunk \in Nat \ {0}
ASSUME OutputFaultsAssumption == Faults \in [FaultKinds -> Nat]

Streams == {"stdout", "stderr"}
Senders == {"live", "drain"}

VARIABLES
    made,       \* bytes in the spool file of each stream
    phase,      \* "running", "exited", "drained" or "lost" (a crash before)
    offset,     \* durable: bytes of each stream the backend acknowledged
    pending,    \* durable: size of the chunk being sent (0: none)
    decoded,    \* durable: bytes of stdout the progress decoder has consumed
    progress,   \* durable: progress lines that belong to the pending chunk
    task,       \* what each sender is doing
    io,         \* the journal write on the blocking thread
    senderLock, \* who keeps the sender lock: senders, and the write itself
    inTransit,  \* external: requests the backend has not yet received
    got,        \* external: requests the backend has received
    outputLeft  \* faults that may still strike

chunkJournal == <<offset, pending, decoded, progress>>
sink == <<inTransit, got>>
outputVars == <<made, phase, chunkJournal, task, io, senderLock, sink, outputLeft>>

PCs == {"idle", "look", "preparing", "send", "waiting", "acking", "stopped"}
Task == [pc : PCs, stream : Streams, off : Nat, size : Nat, sent : BOOLEAN]
Write == [op : {"none", "prepare", "ack"}, stream : Streams, off : Nat, size : Nat]
EventRequest == [stream : Streams, off : Nat, size : Nat \ {0}, lines : SUBSET Nat]

OutputTypeOK ==
    /\ made \in [Streams -> 0..MaxBytes]
    /\ phase \in {"running", "exited", "drained", "lost"}
    /\ offset \in [Streams -> Nat] /\ pending \in [Streams -> Nat]
    /\ decoded \in Nat /\ progress \in SUBSET Nat
    /\ task \in [Senders -> Task]
    /\ io \in Write
    /\ senderLock \in SUBSET (Senders \cup {"io"})
    /\ inTransit \in SUBSET EventRequest /\ got \in SUBSET EventRequest
    /\ outputLeft \in [FaultKinds -> Nat]

Resting == [pc |-> "idle", stream |-> "stdout", off |-> 0, size |-> 0, sent |-> FALSE]
NoWrite == [op |-> "none", stream |-> "stdout", off |-> 0, size |-> 0]

\* The command runs, or ran when an earlier daemon died.
OutputInit ==
    /\ made = [s \in Streams |-> 0] /\ phase \in {"running", "lost"}
    /\ offset = [s \in Streams |-> 0] /\ pending = [s \in Streams |-> 0]
    /\ decoded = 0 /\ progress = {}
    /\ task = [w \in Senders |-> IF phase = "lost" /\ w = "live"
                               THEN [Resting EXCEPT !.pc = "stopped"] ELSE Resting]
    /\ io = NoWrite /\ senderLock = {}
    /\ inTransit = {} /\ got = {}
    /\ outputLeft = Faults

OutputStrike(kind) ==
    /\ outputLeft[kind] > 0
    /\ outputLeft' = [outputLeft EXCEPT ![kind] = @ - 1]
-----------------------------------------------------------------------------
\* The process writes, and ends; its Exited record is on disk after that.
WriteOutput(s) ==
    /\ phase = "running" /\ made[s] < MaxBytes
    /\ made' = [made EXCEPT ![s] = @ + 1]
    /\ UNCHANGED <<phase, chunkJournal, task, io, senderLock, sink, outputLeft>>

ProcessExits ==
    /\ phase = "running" /\ phase' = "exited"
    /\ UNCHANGED <<made, chunkJournal, task, io, senderLock, sink, outputLeft>>

\* sender.lock_owned(); a batch of the output task may outlast the process.
LockSender(w) ==
    /\ task[w].pc = "idle" /\ senderLock = {}
    /\ w = "drain" => phase = "exited"
    /\ senderLock' = {w}
    /\ task' = [task EXCEPT ![w] = [Resting EXCEPT !.pc = "look"]]
    /\ UNCHANGED <<made, phase, chunkJournal, io, sink, outputLeft>>

\* Mutant of FreeSender: a failed send keeps the guard.
FreeNoSender(w) == UNCHANGED senderLock

\* The guard is dropped when the future ends; a write keeps its own share.
FreeSender(w) == senderLock' = senderLock \ {w}

\* The pass goes on with stderr, or ends; a drain repeats until it was idle.
PassOn(w, sent) ==
    IF task[w].stream = "stdout"
    THEN /\ task' = [task EXCEPT ![w] = [Resting EXCEPT !.pc = "look",
                                           !.stream = "stderr", !.sent = sent]]
         /\ senderLock' = senderLock \ {"io"} /\ UNCHANGED phase
    ELSE /\ task' = [task EXCEPT ![w] = Resting]
         /\ senderLock' = senderLock \ {w, "io"}
         /\ phase' = IF w = "drain" /\ ~sent THEN "drained" ELSE phase

Submitted(op, s, off, n) == [op |-> op, stream |-> s, off |-> off, size |-> n]

\* Mutant of Look: the size of a chunk is read again after a failed send.
LookAgain(w) ==
    /\ task[w].pc = "look"
    /\ LET s == task[w].stream IN
         /\ made[s] > offset[s]
         /\ \E n \in 1..(IF made[s] - offset[s] < MaxChunk
                         THEN made[s] - offset[s] ELSE MaxChunk) :
              /\ task' = [task EXCEPT ![w].pc = "preparing", ![w].off = offset[s],
                                      ![w].size = n]
              /\ io' = Submitted("prepare", s, offset[s], n)
         /\ senderLock' = senderLock \cup {"io"} /\ UNCHANGED phase
    /\ UNCHANGED <<made, chunkJournal, sink, outputLeft>>

\* Mutant of Look: the end of the spool is a chunk like any other.
LookEmpty(w) ==
    /\ task[w].pc = "look"
    /\ LET s == task[w].stream
           size == made[s] - offset[s]
       IN IF pending[s] > 0
          THEN /\ task' = [task EXCEPT ![w].pc = "send", ![w].off = offset[s],
                                       ![w].size = pending[s]]
               /\ UNCHANGED <<io, senderLock, phase>>
          ELSE /\ \E n \in 0..size :
                    /\ n <= MaxChunk
                    /\ task' = [task EXCEPT ![w].pc = "preparing",
                                            ![w].off = offset[s], ![w].size = n]
                    /\ io' = Submitted("prepare", s, offset[s], n)
               /\ senderLock' = senderLock \cup {"io"} /\ UNCHANGED phase
    /\ UNCHANGED <<made, chunkJournal, sink, outputLeft>>

\* A journaled chunk is repeated as it was, else up to MaxChunk bytes are read.
Look(w) ==
    /\ task[w].pc = "look"
    /\ LET s == task[w].stream
           size == made[s] - offset[s]
       IN \/ /\ pending[s] > 0
             /\ task' = [task EXCEPT ![w].pc = "send", ![w].off = offset[s],
                                     ![w].size = pending[s]]
             /\ UNCHANGED <<io, senderLock, phase>>
          \/ /\ pending[s] = 0 /\ size > 0
             /\ \E n \in 1..size :
                  /\ n <= MaxChunk
                  /\ task' = [task EXCEPT ![w].pc = "preparing",
                                          ![w].off = offset[s], ![w].size = n]
                  /\ io' = Submitted("prepare", s, offset[s], n)
             /\ senderLock' = senderLock \cup {"io"} /\ UNCHANGED phase
          \/ /\ pending[s] = 0 /\ size = 0
             /\ PassOn(w, task[w].sent) /\ UNCHANGED io
    /\ UNCHANGED <<made, chunkJournal, sink, outputLeft>>

Lines(from, to) == {l \in from + 1..to : l % 2 = 0}

\* The change a journal write makes, decoder and chunk in one record.
Apply(write) ==
    LET s == write.stream IN
    IF write.op = "prepare"
    THEN /\ pending' = [pending EXCEPT ![s] = write.size]
         /\ IF s = "stdout"
            THEN /\ decoded' = decoded + write.size
                 /\ progress' = Lines(decoded, decoded + write.size)
            ELSE UNCHANGED <<decoded, progress>>
         /\ UNCHANGED offset
    ELSE /\ pending' = [pending EXCEPT ![s] = 0]
         /\ progress' = IF s = "stdout" THEN {} ELSE progress
         /\ offset' = [offset EXCEPT ![s] = write.off + write.size]
         /\ UNCHANGED decoded

Waiting == {w \in Senders : task[w].pc \in {"preparing", "acking"}}

\* The write is durable: its share of the lock goes, its task goes on.
WriteEnds ==
    /\ io.op # "none" /\ Apply(io) /\ io' = NoWrite
    /\ IF Waiting = {}
       THEN senderLock' = senderLock \ {"io"} /\ UNCHANGED <<task, phase>>
       ELSE \E w \in Waiting :
              IF io.op = "prepare"
              THEN /\ task' = [task EXCEPT ![w].pc = "send"]
                   /\ senderLock' = senderLock \ {"io"} /\ UNCHANGED phase
              ELSE PassOn(w, TRUE)
    /\ UNCHANGED <<made, sink, outputLeft>>

\* persist() fails: neither the file nor the shared record has changed.
WriteFails ==
    /\ io.op # "none" /\ OutputStrike("disk") /\ io' = NoWrite
    /\ task' = [w \in Senders |-> IF w \in Waiting THEN Resting ELSE task[w]]
    /\ senderLock' = senderLock \ (Waiting \cup {"io"})
    /\ UNCHANGED <<made, phase, chunkJournal, sink>>

Body(w) == [stream |-> task[w].stream, off |-> task[w].off, size |-> task[w].size,
            lines |-> IF task[w].stream = "stdout" THEN progress ELSE {}]

SendChunk(w) ==
    /\ task[w].pc = "send"
    /\ task' = [task EXCEPT ![w].pc = "waiting"]
    /\ inTransit' = inTransit \cup {Body(w)}
    /\ UNCHANGED <<made, phase, chunkJournal, io, senderLock, got, outputLeft>>

\* Mutant of AcknowledgeChunk: the write no longer owns the lock, only its task.
AcknowledgeUnowned(w) ==
    /\ task[w].pc = "waiting" /\ Body(w) \in got
    /\ task' = [task EXCEPT ![w].pc = "acking"]
    /\ io' = Submitted("ack", task[w].stream, task[w].off, task[w].size)
    /\ UNCHANGED <<made, phase, chunkJournal, senderLock, sink, outputLeft>>

AcknowledgeChunk(w) ==
    /\ task[w].pc = "waiting" /\ Body(w) \in got
    /\ task' = [task EXCEPT ![w].pc = "acking"]
    /\ io' = Submitted("ack", task[w].stream, task[w].off, task[w].size)
    /\ senderLock' = senderLock \cup {"io"}
    /\ UNCHANGED <<made, phase, chunkJournal, sink, outputLeft>>

\* The send fails; what was sent may be lost, received, or still on its way.
SendFails(w) ==
    /\ task[w].pc = "waiting" /\ OutputStrike("loss")
    /\ task' = [task EXCEPT ![w] = Resting]
    /\ FreeSender(w)
    /\ inTransit' \in {inTransit, inTransit \ {Body(w)}}
    /\ UNCHANGED <<made, phase, chunkJournal, io, got>>

\* scope.stop() aborts the output task wherever it awaits.
AbortLive ==
    /\ task["live"].pc # "stopped"
    /\ task' = [task EXCEPT !["live"] = [Resting EXCEPT !.pc = "stopped"]]
    /\ FreeSender("live")
    /\ UNCHANGED <<made, phase, chunkJournal, io, sink, outputLeft>>

Arrives(r) == /\ r \in inTransit
              /\ inTransit' = inTransit \ {r} /\ got' = got \cup {r}
              /\ UNCHANGED <<made, phase, chunkJournal, task, io, senderLock, outputLeft>>

\* The daemon dies, with or without the write; recovery drains an exited job.
OutputCrash ==
    /\ OutputStrike("crash")
    /\ \/ UNCHANGED chunkJournal
       \/ io.op # "none" /\ Apply(io)
    /\ task' = [w \in Senders |-> IF w = "live" THEN [Resting EXCEPT !.pc = "stopped"]
                                               ELSE Resting]
    /\ io' = NoWrite /\ senderLock' = {}
    /\ phase' = IF phase = "running" THEN "lost" ELSE phase
    /\ UNCHANGED <<made, sink>>
-----------------------------------------------------------------------------
SenderStep(w) == LockSender(w) \/ Look(w) \/ SendChunk(w) \/ AcknowledgeChunk(w)

OutputNext ==
    \/ \E s \in Streams : WriteOutput(s)
    \/ ProcessExits \/ WriteEnds \/ WriteFails \/ AbortLive \/ OutputCrash
    \/ \E w \in Senders : SenderStep(w) \/ SendFails(w)
    \/ \E r \in inTransit : Arrives(r)

OutputSpec == OutputInit /\ [][OutputNext]_outputVars

\* The runtime polls a sender that has the lock, which is handed on in turn to a drain
\* that waits for it; blocking writes run, and requests are answered.
OutputFairness ==
    /\ SF_outputVars(LockSender("drain"))
    /\ \A w \in Senders : WF_outputVars(Look(w) \/ SendChunk(w) \/ AcknowledgeChunk(w))
    /\ WF_outputVars(WriteEnds)
    /\ WF_outputVars(\E r \in inTransit : Arrives(r))

OutputFairSpec == OutputSpec /\ OutputFairness
-----------------------------------------------------------------------------
Chunks(s) == {[off |-> r.off, size |-> r.size] : r \in {q \in got : q.stream = s}}

(***************************************************************************)
(* The backend sees a reliable stream: chunks end to end, none changed,    *)
(* through crashes, lost replies, aborted senders and failed writes.       *)
(***************************************************************************)
Reliable == INSTANCE OutputStream WITH chunks <- [s \in Streams |-> Chunks(s)]

ReliableSpec == Reliable!Spec

(***************************************************************************)
(* "The exact pending event": a chunk id (stream and offset) always names  *)
(* the same bytes, on the wire and at the backend, so that the backend can *)
(* drop a repeated one.  Progress events follow the output that carries    *)
(* them: what the backend was told are exactly the lines that end in the   *)
(* stdout it holds.  And "a terminal drain or replacement sender cannot    *)
(* overtake it": once the drain is over, all output is at the backend and  *)
(* acknowledged.                                                           *)
(***************************************************************************)
OutputArrivesExact ==
    /\ \A q, r \in inTransit \cup got : q.stream = r.stream /\ q.off = r.off => q = r
    /\ UNION {r.lines : r \in got} =
         UNION {Lines(c.off, c.off + c.size) : c \in Chunks("stdout")}
    /\ phase = "drained" =>
         \A s \in Streams : offset[s] = made[s] /\ Reliable!EndsAt(s, made[s])

\* A drain of an exited job ends: a held lock is always given back.
DrainEnds == phase = "exited" ~> phase = "drained"
=============================================================================
