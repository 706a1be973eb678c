----------------------------- MODULE EventStore -----------------------------
(***************************************************************************)
(* The event store of one agent connection (crates/acp/src/event_store.rs, *)
(* event_store/budget.rs, and the driver that owns it in acp/src/lib.rs).  *)
(*                                                                         *)
(* Everything the agent says (notes, questions, the end of its opening) is *)
(* numbered under one mutex, written to a private spool by one blocking    *)
(* worker thread and handed, in order, to one receiver.  Producers wait    *)
(* for credit before they may queue, a fence waits for a prefix to be      *)
(* written, the receiver waits for the worker, the worker sleeps on a      *)
(* condition variable.                                                     *)
(*                                                                         *)
(* A step of the model is one critical section of the code (State's mutex  *)
(* or the budget's) or one physical operation of the worker.  A notify that *)
(* follows a section at once is part of it: a waiter registers before it   *)
(* looks (or sleeps under the mutex), so one that comes in between sees the *)
(* change.  What a cancellation, a close or a published write does after it *)
(* released the mutex is owed: `tail[a]' is the list of what actor a still *)
(* has to do before its next step, with the snapshot of the progress it    *)
(* took under the mutex, and others may come between any two of them.      *)
(*                                                                         *)
(* Left out: sequence overflow, the encoding of a record, segments of the  *)
(* spool, the wording of errors (an error is a flag).                      *)
(***************************************************************************)
EXTENDS Integers, Sequences, FiniteSets

CONSTANTS
  Producers,      \* the protocol handlers, each holding a clone of Sender
  WindowBytes,    \* WINDOW_BYTES: encoded bytes admitted at once
  WindowRecords,  \* WINDOW_RECORDS: encoded records admitted at once
  ControlItems,   \* CONTROL_ITEMS: questions alive at once
  Sizes,          \* encoded sizes a note may have; above WindowBytes: a giant
  MaxEvents,      \* bound: events the agent tries to say
  Troubles        \* bound: what may go wrong in this instance, one a behaviour

Trouble == {"none",
            "disk",    \* an operation of the spool fails
            "dirty",   \* the spool cannot be removed
            "stray",   \* a notification of another session comes
            "refuse",  \* the opening is refused
            "close",   \* somebody requests the close
            "end",     \* the agent's side of the transport ends
            "drop",    \* the runtime is dropped
            "stop"}    \* the host stops

ASSUME EventStoreAssumption ==
  /\ IsFiniteSet(Producers)
  /\ WindowBytes \in Nat /\ WindowRecords \in Nat \ {0}
  /\ ControlItems \in Nat /\ MaxEvents \in Nat
  /\ Sizes \subseteq Nat \ {0}
  /\ Troubles \subseteq Trouble

VARIABLES
  st,        \* State, the fields under the mutex, and the atomic `cancelled'
  progress,  \* the watch channel that fences and the driver look at
  completed, \* the watch channel that shutdown() looks at
  budget,    \* BudgetStats
  spool,     \* what the worker alone owns: records held and read, live questions
  worker,    \* where run_io is
  call,      \* where each producer is in its current call
  driver,    \* where the task that owns the transport is
  opener,    \* where start_transport is
  rx,        \* the receiver: registered for a notification, or ended
  tail, snap, \* what each actor owes after its last critical section
  trouble     \* which kind of trouble this behaviour meets; never changes

vars == <<st, progress, completed, budget, spool, worker, call, driver, opener,
          rx, tail, snap>>

Actors == Producers \cup {"worker", "driver", "host"}

None == [seq |-> 0, kind |-> "none", bytes |-> 0]
Item(seq, kind, bytes) == [seq |-> seq, kind |-> kind, bytes |-> bytes]
NoEnd == [kind |-> "none", through |-> 0, seq |-> 0]
Idle == [pc |-> "idle", bytes |-> 0, woken |-> FALSE]

-----------------------------------------------------------------------------
(* What follows a critical section                                         *)

Quiet(a) == tail[a] = <<>>
Owe(a, steps) == tail' = [tail EXCEPT ![a] = steps]
OweSnapshot(a, steps, written, failed) ==
  /\ Owe(a, steps)
  /\ snap' = [snap EXCEPT ![a] = [written |-> written, failed |-> failed]]

MaxOf(i, j) == IF i >= j THEN i ELSE j

\* notify_waiters of the budget reaches every registered wait.
WokenCalls ==
  [p \in Producers |-> IF call[p].pc \in {"check", "waiting"}
                       THEN [call[p] EXCEPT !.woken = TRUE] ELSE call[p]]
\* io_changed.notify: the worker looks again.
WokenWorker == IF worker.pc = "asleep" THEN [worker EXCEPT !.pc = "next"] ELSE worker
\* Mutant: the receiver is not told.
WokenNever == rx

\* data.notify_waiters reaches the receiver's registration.
WokenReceiver ==
  IF rx.pc \in {"registered", "parked"} THEN [rx EXCEPT !.woken = TRUE] ELSE rx

\* merge_progress: an older snapshot never erases a failure or a cursor.
Merged(update) ==
  [written |-> MaxOf(progress.written, update.written),
   failed |-> progress.failed \/ update.failed]

NoSnapshot == [written |-> 0, failed |-> FALSE]

\* One thing actor a owed: to close the budget, to publish the snapshot, to wake
\* the worker ("io") or everybody ("wake"), to report the I/O's end.
Settle(a) ==
  /\ tail[a] # <<>>
  /\ tail' = [tail EXCEPT ![a] = Tail(@)]
  /\ \/ /\ Head(tail[a]) = "shut"
        /\ budget' = [budget EXCEPT !.closed = TRUE]
        /\ call' = WokenCalls
        /\ UNCHANGED <<progress, completed, worker, rx, snap>>
     \/ /\ Head(tail[a]) = "merge"
        /\ progress' = Merged(snap[a])
        /\ snap' = [snap EXCEPT ![a] = NoSnapshot]
        /\ UNCHANGED <<completed, budget, worker, call, rx>>
     \/ /\ Head(tail[a]) = "completed"
        /\ completed' = TRUE
        /\ UNCHANGED <<progress, budget, worker, call, rx, snap>>
     \/ /\ Head(tail[a]) = "io"
        /\ worker' = WokenWorker
        /\ UNCHANGED <<progress, completed, budget, call, rx, snap>>
     \/ /\ Head(tail[a]) = "wake"
        /\ worker' = WokenWorker /\ rx' = WokenReceiver
        /\ UNCHANGED <<progress, completed, budget, call, snap>>
  /\ UNCHANGED <<st, spool, driver, opener>>

-----------------------------------------------------------------------------
(* Operations of Shared                                                    *)

Writable == ~st.failed /\ st.receiverAlive /\ st.end = NoEnd /\ ~st.done

Push(item) ==
  st' = [st EXCEPT !.accepted = @ + 1, !.queue = Append(@, item)]

\* Mutant: the flag is raised and nobody is told.
CancelSilently(a) ==
  IF st.done \/ st.cancelled
  THEN UNCHANGED <<st, tail, snap>>
  ELSE /\ st' = [st EXCEPT !.failed = TRUE, !.cancelled = TRUE]
       /\ OweSnapshot(a, <<"shut", "merge">>, st.written, TRUE)

\* Shared::cancel, on behalf of actor a; nothing once the job is done.  (A second
\* cancellation would repeat what the first one owes: it is left out.)
Cancel(a) ==
  IF st.done \/ st.cancelled
  THEN UNCHANGED <<st, tail, snap>>
  ELSE /\ st' = [st EXCEPT !.failed = TRUE, !.cancelled = TRUE]
       /\ OweSnapshot(a, <<"shut", "merge", "wake">>, st.written, TRUE)

PulseAfter(a) ==
  OweSnapshot(a, <<"shut", "merge", "io">>, st.written, st.failed)

\* begin_close: the place of Closed in the stream is reserved, not yet filled.
BeginClose(a) ==
  IF st.end # NoEnd \/ st.failed
  THEN UNCHANGED <<st, tail, snap>>
  ELSE /\ st' = [st EXCEPT !.accepted = @ + 1,
                           !.end = [kind |-> "closing", through |-> st.accepted,
                                    seq |-> st.accepted + 1]]
       /\ PulseAfter(a)

\* The second half of closed(): the outcome is known.
ConfirmClose(a) ==
  /\ st' = IF st.end.kind = "closing" THEN [st EXCEPT !.end.kind = "closed"] ELSE st
  /\ OweSnapshot(a, <<"merge", "io">>, st.written, st.failed)

Notes(items) == {i \in items : i.kind = "note"}
Questions(items) == {i \in items : i.kind = "question"}
\* Their encoded bytes, each counted as a cell of its own.
Cells(owner, bytes) == {owner} \X (1..bytes)
BytesOf(items) == Cardinality(UNION {Cells(i, i.bytes) : i \in Notes(items)})
InQueue == {st.queue[i] : i \in DOMAIN st.queue}

\* The credits of these items are dropped.
Returned(items) ==
  [budget EXCEPT !.bytes = @ - BytesOf(items),
                 !.records = @ - Cardinality(Notes(items)),
                 !.controls = @ - Cardinality(Questions(items))]

\* Mutant: nobody hears of a credit that came back.
ReturnSilently(items) == budget' = Returned(items) /\ UNCHANGED call

\* The drop of an EncodedCredit wakes the waiters; the permit of a question
\* wakes nobody, for who found none was refused.
Return(items) ==
  /\ budget' = Returned(items)
  /\ call' = IF Notes(items) = {} THEN call ELSE WokenCalls

-----------------------------------------------------------------------------
(* Producers: Sender::note and elicitation_done, the two request handlers  *)

Said == st.accepted + Cardinality({p \in Producers : call[p].pc # "idle"})

Goes(p, pc) == call' = [call EXCEPT ![p].pc = pc]
CallEnds(p) == call' = [call EXCEPT ![p] = Idle]

\* encoded(): a note of that size asks for credit.
Note(p, bytes) ==
  /\ Quiet(p) /\ call[p].pc = "idle" /\ driver.pc = "open" /\ Said < MaxEvents
  /\ call' = [call EXCEPT ![p] = [pc |-> "register", bytes |-> bytes, woken |-> FALSE]]
  /\ UNCHANGED <<st, progress, completed, budget, spool, worker, driver, opener,
                 rx, tail, snap>>

\* note(): a notification of another session cancels the store.
StrayNote(p) ==
  /\ trouble = "stray"
  /\ Quiet(p) /\ call[p].pc = "idle" /\ driver.pc = "open" /\ Said < MaxEvents
  /\ st.session
  /\ Cancel(p)
  /\ UNCHANGED <<progress, completed, budget, spool, worker, call, driver, opener, rx>>

\* accepts_interactions(): outside the session, or after it, no question is put.
Question(p) ==
  /\ Quiet(p) /\ call[p].pc = "idle" /\ driver.pc = "open" /\ Said < MaxEvents
  /\ st.session /\ Writable
  /\ Goes(p, "permit")
  /\ UNCHANGED <<st, progress, completed, budget, spool, worker, driver, opener,
                 rx, tail, snap>>

\* Mutant: one permit too many.
PermitBeyond(p) ==
  /\ call[p].pc = "permit"
  /\ IF budget.closed \/ budget.controls > ControlItems
     THEN CallEnds(p) /\ UNCHANGED budget
     ELSE Goes(p, "asking") /\ budget' = [budget EXCEPT !.controls = @ + 1]
  /\ UNCHANGED <<st, progress, completed, spool, worker, driver, opener, rx, tail, snap>>

\* Budget::interaction: a permit, or an error at once.
Permit(p) ==
  /\ call[p].pc = "permit"
  /\ IF budget.closed \/ budget.controls = ControlItems
     THEN CallEnds(p) /\ UNCHANGED budget
     ELSE Goes(p, "asking") /\ budget' = [budget EXCEPT !.controls = @ + 1]
  /\ UNCHANGED <<st, progress, completed, spool, worker, driver, opener, rx, tail, snap>>

\* encoded(): the wait is registered before the budget is looked at.
Register(p) ==
  /\ call[p].pc = "register"
  /\ call' = [call EXCEPT ![p].pc = "check", ![p].woken = FALSE]
  /\ UNCHANGED <<st, progress, completed, budget, spool, worker, driver, opener,
                 rx, tail, snap>>

\* Mutant: a giant need not be alone.
FitsBeside(bytes) ==
  /\ budget.records < WindowRecords
  /\ bytes > WindowBytes \/ budget.bytes + bytes <= WindowBytes

Fits(bytes) ==
  /\ budget.records < WindowRecords
  /\ IF bytes > WindowBytes THEN budget.records = 0
     ELSE budget.bytes + bytes <= WindowBytes

Check(p) ==
  /\ call[p].pc = "check"
  /\ IF budget.closed THEN CallEnds(p) /\ UNCHANGED budget
     ELSE IF Fits(call[p].bytes)
          THEN /\ Goes(p, "holding")
               /\ budget' = [budget EXCEPT !.bytes = @ + call[p].bytes,
                                           !.records = @ + 1]
          ELSE Goes(p, "waiting") /\ UNCHANGED budget
  /\ UNCHANGED <<st, progress, completed, spool, worker, driver, opener, rx, tail, snap>>

Retry(p) ==
  /\ call[p].pc = "waiting" /\ call[p].woken
  /\ Goes(p, "register")
  /\ UNCHANGED <<st, progress, completed, budget, spool, worker, driver, opener,
                 rx, tail, snap>>

\* Mutant: the credit of a refused item is forgotten.
EnqueueLeaks(p) ==
  LET item == IF call[p].pc = "holding"
              THEN Item(st.accepted + 1, "note", call[p].bytes)
              ELSE Item(st.accepted + 1, "question", 0)
  IN  /\ call[p].pc \in {"holding", "asking"}
      /\ IF Writable THEN Push(item) /\ worker' = WokenWorker ELSE UNCHANGED <<st, worker>>
      /\ CallEnds(p)
      /\ UNCHANGED <<progress, completed, budget, spool, driver, opener, rx, tail, snap>>

\* enqueue(): the place in the stream is given under the mutex; a refused item
\* is dropped, its credit with it.
Enqueue(p) ==
  LET item == IF call[p].pc = "holding"
              THEN Item(st.accepted + 1, "note", call[p].bytes)
              ELSE Item(st.accepted + 1, "question", 0)
  IN  /\ call[p].pc \in {"holding", "asking"}
      /\ IF Writable
         THEN Push(item) /\ worker' = WokenWorker /\ CallEnds(p) /\ UNCHANGED budget
         ELSE /\ budget' = Returned({item})
              /\ call' = [(IF item.kind = "note" THEN WokenCalls ELSE call)
                            EXCEPT ![p] = Idle]
              /\ UNCHANGED <<st, worker>>
      /\ UNCHANGED <<progress, completed, spool, driver, opener, rx, tail, snap>>

-----------------------------------------------------------------------------
(* start_transport: the task that owns the transport, and its caller       *)

\* The handlers run inside the transport's task, so the task comes to its own
\* select only where every handler is between two calls or awaits credit.
HandlersAwait == \A p \in Producers : Quiet(p) /\ call[p].pc \in {"idle", "waiting"}
HandlersDropped == call' = [p \in Producers |-> Idle]

\* The agent opened its session (open_one): accept_session.
AcceptSession ==
  /\ driver.pc = "open" /\ Quiet("driver") /\ HandlersAwait
  /\ ~st.session /\ Writable
  /\ st' = [st EXCEPT !.session = TRUE]
  /\ UNCHANGED <<progress, completed, budget, spool, worker, call, driver, opener,
                 rx, tail, snap>>

\* The select: close was requested, the store failed or the transport ended.
\* The handlers' futures are dropped with the transport.
TransportEnds(why) ==
  /\ driver.pc = "open" /\ HandlersAwait
  /\ CASE why = "failed" -> st.failed
       [] why = "closed" -> trouble = "close" \/ rx.pc \in {"leaving", "left", "dropped"}
                              \/ opener = "refused"
       [] why = "transport" -> trouble \in {"end", "dirty"}
  /\ HandlersDropped
  /\ driver' = [pc |-> "ended", why |-> why]
  /\ UNCHANGED <<st, progress, completed, budget, spool, worker, opener, rx, tail, snap>>

\* abort_io: a failed store, or one nobody was given the receiver of, is cut.
Aborts == driver.why = "failed" \/ (driver.why = "closed" /\ ~st.readyEnqueued)
DriverDecides ==
  /\ driver.pc = "ended"
  /\ driver' = [pc |-> IF Aborts THEN "aborting" ELSE "closing", why |-> "none"]
  /\ UNCHANGED <<st, progress, completed, budget, spool, worker, call, opener, rx,
                 tail, snap>>

DriverCancels ==
  /\ driver.pc = "aborting"
  /\ Cancel("driver")
  /\ driver' = [driver EXCEPT !.pc = "joining"]
  /\ UNCHANGED <<progress, completed, budget, spool, worker, call, opener, rx>>

\* shutdown() of the store, then driver_closed() of the process.
DriverJoins ==
  /\ driver.pc = "joining" /\ Quiet("driver") /\ completed
  /\ driver' = [driver EXCEPT !.pc = "over"]
  /\ UNCHANGED <<st, progress, completed, budget, spool, worker, call, opener, rx,
                 tail, snap>>

DriverBeginsClose ==
  /\ driver.pc = "closing"
  /\ BeginClose("driver")
  /\ driver' = [driver EXCEPT !.pc = "exiting"]
  /\ UNCHANGED <<progress, completed, budget, spool, worker, call, opener, rx>>

\* driver_closed() returned: the process is known to have ended.
DriverCloses ==
  /\ driver.pc = "exiting" /\ Quiet("driver")
  /\ ConfirmClose("driver")
  /\ driver' = [driver EXCEPT !.pc = "over"]
  /\ UNCHANGED <<progress, completed, budget, spool, worker, call, opener, rx>>

\* ready(): the opening is published and the caller gets the receiver.
OpenerPublishes ==
  /\ opener = "opening" /\ st.session
  /\ IF Writable
     THEN /\ st' = [st EXCEPT !.accepted = @ + 1, !.readyEnqueued = TRUE,
                              !.queue = Append(@, Item(st.accepted + 1, "ready", 0))]
          /\ worker' = WokenWorker
          /\ opener' = "opened"
          /\ rx' = [rx EXCEPT !.pc = "idle"]
     ELSE opener' = "refusing" /\ UNCHANGED <<st, rx, worker>>
  /\ UNCHANGED <<progress, completed, budget, spool, call, driver, tail, snap>>

\* The opening was refused: close requested, refuse_and_close.
OpenerRefuses ==
  /\ trouble = "refuse"
  /\ opener = "opening"
  /\ opener' = "refusing"
  /\ UNCHANGED <<st, progress, completed, budget, spool, worker, call, driver, rx,
                 tail, snap>>
OpenerCancels ==
  /\ opener = "refusing"
  /\ Cancel("host")
  /\ opener' = "refused"
  /\ UNCHANGED <<progress, completed, budget, spool, worker, call, driver, rx>>

\* The runtime is dropped: its tasks go where they await, one after the other,
\* each with its guards.
RuntimeDropped ==
  /\ trouble = "drop"
  /\ driver.pc # "dropped" /\ HandlersAwait
  /\ \A a \in {"driver", "host"} : Quiet(a)
  /\ driver.pc \in {"open", "joining", "exiting", "over"}
  /\ HandlersDropped
  /\ driver' = [driver EXCEPT !.pc = "dropped"]
  /\ opener' = "dropped"
  /\ rx' = IF rx.pc = "dropped" THEN rx ELSE [rx EXCEPT !.pc = "leaving"]
  /\ UNCHANGED <<st, progress, completed, budget, spool, worker, tail, snap>>

\* RuntimeGuard::drop, unless the worker was already joined.
GuardCancels ==
  /\ driver.pc = "dropped" /\ Quiet("host")
  /\ ~st.done /\ ~st.cancelled
  /\ Cancel("host")
  /\ UNCHANGED <<progress, completed, budget, spool, worker, call, driver, opener, rx>>

\* ProducerScope::drop: the last Sender went, and nobody had said how it ended.
SourceEof ==
  /\ driver.pc = "dropped" /\ Quiet("host")
  /\ ~budget.closed
  /\ st' = IF st.end = NoEnd /\ ~st.failed
           THEN [st EXCEPT !.end = [kind |-> "eof", through |-> st.accepted, seq |-> 0]]
           ELSE st
  /\ PulseAfter("host")
  /\ UNCHANGED <<progress, completed, budget, spool, worker, call, driver, opener, rx>>

-----------------------------------------------------------------------------
(* The worker: run_io                                                      *)

At(pc) == worker.pc = pc /\ Quiet("worker")
Moves(pc) == worker' = [worker EXCEPT !.pc = pc]

\* A worker that stops: as told (`cancelled'), by its own failure, which
\* complete_io turns into a cancellation first, or at the source's end.
Stops(how) == worker' = [worker EXCEPT !.pc = IF how = "failed" THEN "failing" ELSE "strip",
                                       !.how = how, !.item = None]
\* An operation that returned an error: was it the cancellation?
StopsOnError ==
  /\ st.cancelled \/ trouble = "disk"
  /\ Stops(IF st.cancelled THEN "cancelled" ELSE "failed")

Create ==
  /\ At("create")
  /\ Moves("next") \/ StopsOnError
  /\ UNCHANGED <<st, progress, completed, budget, spool, call, driver, opener, rx,
                 tail, snap>>

(* next_work: one look at the state under the mutex *)
Drained ==
  /\ st.end.kind \in {"eof", "closed"}
  /\ st.queue = <<>> /\ st.written >= st.end.through
TerminalDue == Drained /\ st.end.kind = "closed" /\ st.written < st.end.seq
\* Mutant: the source is finished while the receiver has yet to read.
FinishUnread == Drained /\ st.output = None
FinishDue == Drained /\ st.delivered >= st.end.through /\ st.output = None
Readable ==
  /\ st.readRequested /\ st.output = None
  /\ (IF st.end = NoEnd \/ st.written < st.end.through THEN st.written
      ELSE st.end.through) > st.delivered
ReadDue == Readable /\ (worker.preferRead \/ st.queue = <<>>)

NextWork ==
  /\ At("next")
  /\ \/ /\ st.cancelled
        /\ Stops("cancelled") /\ UNCHANGED st
     \/ /\ ~st.cancelled /\ TerminalDue
        /\ Moves("terminal") /\ UNCHANGED st
     \/ /\ ~st.cancelled /\ ~TerminalDue /\ FinishDue
        /\ Stops("source") /\ UNCHANGED st
     \/ /\ ~st.cancelled /\ ~TerminalDue /\ ~FinishDue /\ ReadDue
        /\ Moves("read")
        /\ st' = [st EXCEPT !.readRequested = FALSE]
     \/ /\ ~st.cancelled /\ ~TerminalDue /\ ~FinishDue /\ ~ReadDue
        /\ st.queue # <<>>
        /\ worker' = [worker EXCEPT !.pc = "append", !.item = Head(st.queue)]
        /\ st' = [st EXCEPT !.queue = Tail(@)]
     \/ /\ ~st.cancelled /\ ~TerminalDue /\ ~FinishDue /\ ~ReadDue
        /\ st.queue = <<>>
        /\ Moves("asleep") /\ UNCHANGED st
  /\ UNCHANGED <<progress, completed, budget, spool, call, driver, opener, rx, tail, snap>>

\* Spool::append, or its error; a question is kept beside the spool.
AppendRecord ==
  /\ At("append")
  /\ \/ /\ Moves("publish")
        /\ spool' = [spool EXCEPT !.held = worker.item.seq,
                                  !.live = @ \cup Questions({worker.item})]
        /\ UNCHANGED <<budget, call>>
     \/ /\ StopsOnError
        /\ Return({worker.item})
        /\ UNCHANGED spool
  /\ UNCHANGED <<st, progress, completed, driver, opener, rx, tail, snap>>

\* publish_written: the cursor moves under the mutex, the watchers learn after.
Publish ==
  /\ At("publish")
  /\ st' = [st EXCEPT !.written = worker.item.seq]
  /\ OweSnapshot("worker", <<"merge">>, worker.item.seq, st.failed)
  /\ Moves("written")
  /\ UNCHANGED <<progress, completed, budget, spool, call, driver, opener, rx>>

\* The written item drops, its credit with it; a question lives on.
DropWritten ==
  /\ At("written")
  /\ Return(Notes({worker.item}))
  /\ worker' = [worker EXCEPT !.pc = "next", !.item = None, !.preferRead = TRUE]
  /\ UNCHANGED <<st, progress, completed, spool, driver, opener, rx, tail, snap>>

\* The reserved place of Closed counts as written once its outcome is known.
PublishTerminal ==
  /\ At("terminal")
  /\ st' = [st EXCEPT !.written = st.end.seq]
  /\ OweSnapshot("worker", <<"merge">>, st.end.seq, st.failed)
  /\ Moves("next")
  /\ UNCHANGED <<progress, completed, budget, spool, call, driver, opener, rx>>

\* Spool::next and read_event, or the error of either.
ReadRecord ==
  /\ At("read")
  /\ \/ LET seq == spool.read + 1
            asked == {q \in spool.live : q.seq = seq}
        IN  /\ spool.read < spool.held
            /\ spool' = [spool EXCEPT !.read = seq, !.live = @ \ asked]
            /\ worker' = [worker EXCEPT !.pc = "slot",
                            !.item = IF asked # {} THEN CHOOSE q \in asked : TRUE
                                     ELSE Item(seq, "data", 0)]
     \/ StopsOnError /\ UNCHANGED spool
  /\ UNCHANGED <<st, progress, completed, budget, call, driver, opener, rx, tail, snap>>

\* The decoded event enters the one output slot, unless the store was cancelled.
FillSlot ==
  /\ At("slot")
  /\ IF st.cancelled \/ st.output # None
     THEN /\ Stops(IF st.cancelled THEN "cancelled" ELSE "failed")
          /\ budget' = Returned({worker.item})
          /\ UNCHANGED <<st, rx>>
     ELSE /\ st' = [st EXCEPT !.output = worker.item]
          /\ worker' = [worker EXCEPT !.pc = "next", !.item = None, !.preferRead = FALSE]
          /\ rx' = WokenReceiver
          /\ UNCHANGED budget
  /\ UNCHANGED <<progress, completed, spool, call, driver, opener, tail, snap>>

(* complete_io *)

\* Mutant: nothing is refused before the queue is taken.
FailStoreOpen ==
  /\ At("failing") /\ Moves("strip")
  /\ UNCHANGED <<st, progress, completed, budget, spool, call, driver, opener, rx,
                 tail, snap>>

\* Every producer is refused before anything is torn down.
FailStore ==
  /\ At("failing")
  /\ Cancel("worker")
  /\ Moves("strip")
  /\ UNCHANGED <<progress, completed, budget, spool, call, driver, opener, rx>>

\* What is queued, and an undelivered event of a cut store, is taken and dropped,
\* with the questions still kept; the spool is removed.
Strip ==
  LET undelivered == IF worker.how = "source" THEN {} ELSE {st.output} \ {None}
  IN  /\ At("strip")
      /\ st' = [st EXCEPT !.queue = <<>>,
                          !.output = IF worker.how = "source" THEN @ ELSE None]
      /\ Return(InQueue \cup undelivered \cup spool.live)
      /\ spool' = [spool EXCEPT !.live = {}]
      /\ Moves("report")
      /\ UNCHANGED <<progress, completed, driver, opener, rx, tail, snap>>

\* The end is published; a spool that could not be removed is a failure.
Report ==
  LET broken == worker.how = "failed" \/ trouble = "dirty"
      failed == st.failed \/ broken
      closed == IF worker.how = "source" /\ ~broken
                THEN IF st.end.kind = "closed" THEN Item(st.end.seq, "closed", 0) ELSE None
                ELSE Item(0, "closed", 0)
  IN  /\ At("report")
      /\ st' = [st EXCEPT !.failed = failed, !.done = TRUE,
                          !.output = IF st.receiverAlive THEN closed ELSE @]
      /\ OweSnapshot("worker", <<"shut", "merge", "completed", "wake">>,
                     st.written, failed)
      /\ Moves("over")
      /\ UNCHANGED <<progress, completed, budget, spool, call, driver, opener, rx>>

-----------------------------------------------------------------------------
(* The receiver; HostTurn composes these with the host that calls them     *)

\* poll_recv registers its notification before it looks, and keeps it.
Listen ==
  /\ rx.pc = "idle" /\ Quiet("host")
  /\ rx' = [rx EXCEPT !.pc = "registered", !.woken = FALSE]
  /\ UNCHANGED <<st, progress, completed, budget, spool, worker, call, driver,
                 opener, tail, snap>>

MayTake == rx.pc \in {"registered", "parked"} /\ Quiet("host")

Takes(pc, held) == rx' = [rx EXCEPT !.pc = pc, !.woken = FALSE, !.held = @ + held]

\* take_output found an event.  (Out of order it would cancel the store.)
TakeEvent ==
  /\ MayTake /\ st.output # None
  /\ IF st.output.seq \in {0, st.delivered + 1}
     THEN /\ st' = [st EXCEPT !.output = None, !.delivered = MaxOf(@, st.output.seq)]
          /\ Takes(IF st.output.kind = "closed" THEN "ended" ELSE "idle",
                   Cardinality(Questions({st.output})))
          /\ worker' = WokenWorker /\ UNCHANGED <<tail, snap, budget>>
     ELSE /\ st' = [st EXCEPT !.output = None, !.failed = TRUE, !.cancelled = TRUE]
          /\ OweSnapshot("host", <<"shut", "merge", "wake">>, st.written, TRUE)
          /\ budget' = Returned({st.output})
          /\ Takes("ended", 0) /\ UNCHANGED worker
  /\ UNCHANGED <<progress, completed, spool, call, driver, opener>>

\* Nothing there: a failed store ends the stream with Closed, a finished one
\* without, and otherwise the worker is asked to read.
TakeEnd ==
  /\ MayTake /\ st.output = None /\ (st.failed \/ st.done)
  /\ Takes("ended", 0)
  /\ UNCHANGED <<st, progress, completed, budget, spool, worker, call, driver,
                 opener, tail, snap>>

TakeNothing ==
  /\ MayTake /\ st.output = None /\ ~st.failed /\ ~st.done
  /\ st' = [st EXCEPT !.readRequested = TRUE]
  /\ worker' = WokenWorker
  /\ rx' = [rx EXCEPT !.pc = IF rx.woken THEN "idle" ELSE "parked", !.woken = FALSE]
  /\ UNCHANGED <<progress, completed, budget, spool, call, driver, opener, tail, snap>>

\* A question in the client's hands is answered or dropped.
Answer ==
  /\ rx.held > 0
  /\ rx' = [rx EXCEPT !.held = @ - 1]
  /\ budget' = [budget EXCEPT !.controls = @ - 1]
  /\ UNCHANGED <<st, progress, completed, spool, worker, call, driver, opener, tail, snap>>

\* EventReceiver::drop, in its two critical sections.
ReceiverLeaves ==
  /\ Quiet("host")
  /\ rx.pc = "leaving" \/ (rx.pc = "away" /\ opener = "refused" /\ completed)
  /\ rx' = [rx EXCEPT !.pc = "left"]
  /\ st' = [st EXCEPT !.receiverAlive = FALSE]
  /\ UNCHANGED <<progress, completed, budget, spool, worker, call, driver, opener,
                 tail, snap>>
ReceiverCancels ==
  /\ rx.pc = "left"
  /\ rx' = [rx EXCEPT !.pc = "dropped"]
  /\ Cancel("host")
  /\ UNCHANGED <<progress, completed, budget, spool, worker, call, driver, opener>>

-----------------------------------------------------------------------------
Init ==
  /\ st = [queue |-> <<>>, accepted |-> 0, written |-> 0, delivered |-> 0,
           readRequested |-> FALSE, output |-> None, end |-> NoEnd, failed |-> FALSE,
           cancelled |-> FALSE, receiverAlive |-> TRUE, readyEnqueued |-> FALSE,
           session |-> FALSE, done |-> FALSE]
  /\ progress = [written |-> 0, failed |-> FALSE]
  /\ completed = FALSE
  /\ budget = [bytes |-> 0, records |-> 0, controls |-> 0, closed |-> FALSE]
  /\ spool = [held |-> 0, read |-> 0, live |-> {}]
  /\ worker = [pc |-> "create", item |-> None, preferRead |-> TRUE, how |-> "running"]
  /\ call = [p \in Producers |-> Idle]
  /\ driver = [pc |-> "open", why |-> "none"]
  /\ opener = "opening"
  /\ rx = [pc |-> "away", woken |-> FALSE, held |-> 0]
  /\ tail = [a \in Actors |-> <<>>]
  /\ snap = [a \in Actors |-> NoSnapshot]
  /\ trouble \in Troubles

ProducerSteps(p) == Permit(p) \/ Register(p) \/ Check(p) \/ Retry(p) \/ Enqueue(p)
ProducerCalls(p) == (\E bytes \in Sizes : Note(p, bytes)) \/ StrayNote(p) \/ Question(p)
WorkerSteps ==
  \/ Create \/ NextWork \/ AppendRecord \/ Publish \/ DropWritten \/ PublishTerminal
  \/ ReadRecord \/ FillSlot \/ FailStore \/ Strip \/ Report
DriverSteps ==
  \/ DriverDecides \/ DriverCancels \/ DriverJoins \/ DriverBeginsClose \/ DriverCloses
OpenerSteps == OpenerPublishes \/ OpenerRefuses \/ OpenerCancels
DropSteps == GuardCancels \/ SourceEof \/ ReceiverLeaves \/ ReceiverCancels

\* Everything but what the receiver's caller does.  (HostTurn leaves trouble alone.)
StoreNext ==
  \/ \E a \in Actors : Settle(a)
  \/ \E p \in Producers : ProducerSteps(p) \/ ProducerCalls(p)
  \/ WorkerSteps \/ DriverSteps \/ OpenerSteps \/ DropSteps
  \/ AcceptSession \/ RuntimeDropped \/ Answer
  \/ \E why \in {"closed", "failed", "transport"} : TransportEnds(why)
=============================================================================
