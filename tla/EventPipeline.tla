---------------------------- MODULE EventPipeline ----------------------------
(***************************************************************************)
(* The event stream of a simulation with its recorder (internal/replay).    *)
(* The forwarder copies every event to the writer's queue, unless the queue *)
(* is full, before passing it on.  The writer collects batches and appends  *)
(* them to the store; a second goroutine saves a full snapshot every now    *)
(* and then; MarkShowcase saves one more and has the writer flush.          *)
(*                                                                          *)
(* A write to the store takes all of a batch or, when it fails, none of it. *)
(* One showcase request per run is modelled.  Connections are left to       *)
(* EventStream: they touch the hub only, and how far the hub has come says  *)
(* what viewers have been sent.                                             *)
(***************************************************************************)
EXTENDS EventStream

CONSTANTS QueueCap,      \* RecorderConfig.BufferSize
          BatchSize,
          SnapshotEvery

ASSUME PipelineAssumption ==
  /\ QueueCap \in Nat \ {0}
  /\ BatchSize \in Nat \ {0}
  /\ SnapshotEvery \in Nat \ {0}

VARIABLES
  queue,        \* the events waiting for the writer
  batch,        \* what the writer holds
  log,          \* the event log in the store, in the order of the appends
  lost,         \* the events dropped at a full queue or with a failed write
  writer,       \* "running", "draining" (serving a flush) or "done"
  sinceSnapshot,
  snapshotDue,  \* the one-slot signal to the snapshot goroutine
  snapper,      \* that goroutine: "idle", "asking" or "ended"
  saved,        \* the sequence numbers of the snapshots in the store
  mark,         \* MarkShowcase: "idle", "asking", "flushing", "waiting" (for
                \* the reply), "flushed", "stopped" (the writer was gone) or
                \* "gave_up" (timeout)
  markFanned    \* how far the hub had come when it began

writerVars   == <<queue, batch, log, lost, writer, sinceSnapshot, snapshotDue>>
snapshotVars == <<snapper, saved>>
markVars     == <<mark, markFanned>>
recorderVars == <<writerVars, snapshotVars, markVars>>
pipelineVars == <<streamVars, recorderVars>>

-----------------------------------------------------------------------------
(***************************************************************************)
(* The forwarder's copy, and the writer.                                    *)
(***************************************************************************)
\* mutant: nothing is queued once the context is cancelled.
EnqueueUntilCancel ==
  /\ IF cancelled THEN UNCHANGED <<queue, lost>>
     ELSE IF Len(queue) < QueueCap
     THEN queue' = Append(queue, received + 1) /\ UNCHANGED lost
     ELSE lost' = lost \union {received + 1} /\ UNCHANGED queue
  /\ UNCHANGED <<batch, log, writer, sinceSnapshot, snapshotDue>>

\* mutant: the forwarder waits for room in the queue.
EnqueueBlocking ==
  /\ Len(queue) < QueueCap
  /\ queue' = Append(queue, received + 1)
  /\ UNCHANGED <<batch, log, lost, writer, sinceSnapshot, snapshotDue>>

\* forwardAndQueue offers the event it has just taken to the queue.
Enqueue ==
  /\ IF Len(queue) < QueueCap
     THEN queue' = Append(queue, received + 1) /\ UNCHANGED lost
     ELSE lost' = lost \union {received + 1} /\ UNCHANGED queue
  /\ UNCHANGED <<batch, log, writer, sinceSnapshot, snapshotDue>>

\* flush: append the batch b to the log, or lose it, and ask for a snapshot
\* when enough has been persisted since the last request.
Flush(b) ==
  /\ batch' = <<>>
  /\ \/ /\ b # <<>>
        /\ log' = log \o b
        /\ UNCHANGED lost
        /\ LET since == sinceSnapshot + Len(b)
           IN  IF since >= SnapshotEvery
               THEN sinceSnapshot' = 0 /\ snapshotDue' = TRUE
               ELSE sinceSnapshot' = since /\ UNCHANGED snapshotDue
     \/ /\ b # <<>>
        /\ lost' = lost \union Elements(b)
        /\ UNCHANGED <<log, sinceSnapshot, snapshotDue>>
     \/ /\ b = <<>>
        /\ UNCHANGED <<log, lost, sinceSnapshot, snapshotDue>>

\* mutant: the batch grows past its size.
TakeUnbounded ==
  /\ writer \in {"running", "draining"}
  /\ queue # <<>>
  /\ queue' = Tail(queue)
  /\ batch' = Append(batch, Head(queue))
  /\ UNCHANGED <<log, lost, sinceSnapshot, snapshotDue, writer, streamVars, snapshotVars, markVars>>

\* enqueue, in the writer's loop or while it drains the queue for a flush.
Take ==
  /\ writer \in {"running", "draining"}
  /\ queue # <<>>
  /\ queue' = Tail(queue)
  /\ LET b == Append(batch, Head(queue))
     IN  IF Len(b) >= BatchSize THEN Flush(b)
         ELSE batch' = b /\ UNCHANGED <<log, lost, sinceSnapshot, snapshotDue>>
  /\ UNCHANGED <<writer, streamVars, snapshotVars, markVars>>

\* The flush interval has passed.
FlushTick ==
  /\ writer = "running"
  /\ batch # <<>>
  /\ Flush(batch)
  /\ UNCHANGED <<queue, writer, streamVars, snapshotVars, markVars>>

\* The queue is closed and empty: the last flush, and Done.
WriterClosed ==
  /\ writer = "running"
  /\ forwarder = "ended"
  /\ queue = <<>>
  /\ Flush(batch)
  /\ writer' = "done"
  /\ UNCHANGED <<queue, streamVars, snapshotVars, markVars>>

\* The context is cancelled: flush the batch and stop, whatever the queue holds.
WriterCancelled ==
  /\ writer = "running"
  /\ cancelled
  /\ Flush(batch)
  /\ writer' = "done"
  /\ UNCHANGED <<queue, streamVars, snapshotVars, markVars>>

\* The writer takes a flush request and starts to drain the queue.
FlushRequested ==
  /\ writer = "running"
  /\ mark = "flushing"
  /\ writer' = "draining"
  /\ mark' = "waiting"
  /\ UNCHANGED <<queue, batch, log, lost, sinceSnapshot, snapshotDue,
                 streamVars, snapshotVars, markFanned>>

\* mutant: the writer flushes its batch without draining the queue.
FlushUndrained ==
  /\ writer = "draining"
  /\ Flush(batch)
  /\ writer' = "running"
  /\ mark' = IF mark = "waiting" THEN "flushed" ELSE mark
  /\ UNCHANGED <<queue, streamVars, snapshotVars, markFanned>>

\* The queue is drained: flush, answer, and stop if the queue was closed.
FlushDrained ==
  /\ writer = "draining"
  /\ queue = <<>>
  /\ Flush(batch)
  /\ writer' = IF forwarder = "ended" THEN "done" ELSE "running"
  /\ mark' = IF mark = "waiting" THEN "flushed" ELSE mark
  /\ UNCHANGED <<queue, streamVars, snapshotVars, markFanned>>

Writer == Take \/ FlushTick \/ WriterClosed \/ WriterCancelled \/ FlushRequested \/ FlushDrained

-----------------------------------------------------------------------------
(***************************************************************************)
(* Snapshots and showcases.                                                 *)
(***************************************************************************)
\* snapshotLoop takes the signal and asks the actor.
SnapshotTake ==
  /\ snapper = "idle"
  /\ snapshotDue
  /\ snapper' = "asking"
  /\ snapshotDue' = FALSE
  /\ UNCHANGED <<queue, batch, log, lost, writer, sinceSnapshot, saved, streamVars, markVars>>

\* SaveSnapshot, which may fail.
Save(n) == saved' = saved \union {n} \/ UNCHANGED saved

\* The actor answers from its select and the snapshot is saved.
SnapshotSave ==
  /\ snapper = "asking"
  /\ Selecting
  /\ Save(Len(emitted))
  /\ snapper' = "idle"
  /\ UNCHANGED <<streamVars, writerVars, markVars>>

SnapshotEnd ==
  /\ snapper = "idle"
  /\ cancelled
  /\ snapper' = "ended"
  /\ UNCHANGED <<saved, streamVars, writerVars, markVars>>

\* MarkShowcase finds the run live.
MarkBegin ==
  /\ mark = "idle"
  /\ ~cancelled
  /\ mark' = "asking"
  /\ markFanned' = fanned
  /\ UNCHANGED <<streamVars, writerVars, snapshotVars>>

\* writeFinalSnapshot
MarkSnapshot ==
  /\ mark = "asking"
  /\ Selecting
  /\ Save(Len(emitted))
  /\ mark' = "flushing"
  /\ UNCHANGED <<markFanned, snapper, streamVars, writerVars>>

\* mutant: only the wait for the reply notices that the writer has gone.
MarkStoppedWaiting ==
  /\ mark = "waiting"
  /\ writer = "done"
  /\ mark' = "stopped"
  /\ UNCHANGED <<markFanned, streamVars, writerVars, snapshotVars>>

\* Flush finds the writer gone.
MarkStopped ==
  /\ mark \in {"flushing", "waiting"}
  /\ writer = "done"
  /\ mark' = "stopped"
  /\ UNCHANGED <<markFanned, streamVars, writerVars, snapshotVars>>

\* Flush's timeout.
MarkGivesUp ==
  /\ mark \in {"flushing", "waiting"}
  /\ mark' = "gave_up"
  /\ UNCHANGED <<markFanned, streamVars, writerVars, snapshotVars>>

-----------------------------------------------------------------------------
PipelineInit ==
  /\ Init
  /\ queue = <<>> /\ batch = <<>> /\ log = <<>> /\ lost = {}
  /\ writer = "running"
  /\ sinceSnapshot = 0 /\ snapshotDue = FALSE
  /\ snapper = "idle" /\ saved = {}
  /\ mark = "idle" /\ markFanned = 0

\* The forwarder's step of the stream, with its copy to the queue.
Record == Receive /\ Enqueue /\ UNCHANGED <<snapshotVars, markVars>>

\* The other steps of the stream do not touch the recorder.
StreamStep ==
  /\ \/ Step \/ Publish \/ Cancel \/ ActorExit
     \/ Forward \/ ForwarderEnd \/ FanOut \/ HubEnd
  /\ UNCHANGED recorderVars

PipelineNext ==
  \/ StreamStep
  \/ Record
  \/ Writer
  \/ SnapshotTake \/ SnapshotSave \/ SnapshotEnd
  \/ MarkBegin \/ MarkSnapshot \/ MarkStopped \/ MarkGivesUp

PipelineSpec == PipelineInit /\ [][PipelineNext]_pipelineVars

\* The stream's goroutines are scheduled.  Nothing is assumed of the writer
\* and the snapshot goroutine: the store may hang for ever.
StoreHangsSpec ==
  /\ PipelineSpec
  /\ WF_pipelineVars(Publish /\ UNCHANGED recorderVars)
  /\ WF_pipelineVars(Record)
  /\ WF_pipelineVars(Forward /\ UNCHANGED recorderVars)
  /\ WF_pipelineVars(FanOut /\ UNCHANGED recorderVars)

\* A store that answers: the writer's loop is scheduled, its select is fair, so
\* that a flush request that stays pending is taken, and so is the caller's.
StoreAnswers ==
  /\ WF_pipelineVars(Writer)
  /\ SF_pipelineVars(FlushRequested)
  /\ WF_pipelineVars(MarkStopped)

-----------------------------------------------------------------------------
(***************************************************************************)
(* Properties                                                               *)
(***************************************************************************)
\* The types of the stream's and the recorder's state, and the bounds of their
\* channels and buffers.
PipelineTypeOK ==
  /\ StreamTypeOK
  /\ queue \in Seq(Position) /\ Len(queue) <= QueueCap
  /\ batch \in Seq(Position) /\ Len(batch) < BatchSize
  /\ log \in Seq(Position)
  /\ lost \subseteq Position
  /\ writer \in {"running", "draining", "done"}
  /\ sinceSnapshot \in 0..SnapshotEvery-1
  /\ snapshotDue \in BOOLEAN
  /\ snapper \in {"idle", "asking", "ended"}
  /\ saved \subseteq Position
  /\ mark \in {"idle", "asking", "flushing", "waiting", "flushed", "stopped", "gave_up"}
  /\ markFanned \in Position

\* Every event the forwarder has seen is in exactly one place, in order: in the
\* log, in the batch, in the queue, or counted as lost.  What the writer leaves
\* in the queue when it stops still counts as queued; CleanStop is about that.
Accounted ==
  LET kept == log \o batch \o queue
  IN  /\ \A i, j \in DOMAIN kept : i < j => kept[i] < kept[j]
      /\ Elements(kept) \intersect lost = {}
      /\ Elements(kept) \union lost = 1..received

\* When a showcase request's flush has been answered, everything that viewers had
\* been sent before the request is in the log or was lost to a full queue or a
\* failed batch, and none of it is still under way: an event is queued before it
\* is passed on, and a flush drains the queue first.
FlushCoversStream ==
  mark = "flushed" => 1..markFanned \subseteq Elements(log) \union lost

\* A store that hangs does not hold up the stream: every emitted event is
\* fanned out ("Persistence never blocks the simulation", docs/architecture.md).
RecordingNeverBlocks == \A n \in 1..MaxEvents : (Len(emitted) >= n) ~> (fanned >= n)

\* As long as the store answers, a flush request comes back even without its
\* timeout, also when the writer stops in the meantime.
FlushReturns == StoreAnswers => ((mark = "flushing") ~> (mark \in {"flushed", "stopped", "gave_up"}))

-----------------------------------------------------------------------------
(***************************************************************************)
(* What the repository says and the code does not do.                       *)
(***************************************************************************)
\* "waits for their recorders to flush, so a clean stop does not lose the tail
\* of an event log" (Manager.Shutdown): if no write failed and no queue was
\* full, the log of a stopped run is complete.
CleanStop ==
  writer = "done" /\ hub = "ended" /\ lost = {} => Elements(log) = 1..Len(emitted)

=============================================================================
