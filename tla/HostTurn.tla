------------------------------ MODULE HostTurn ------------------------------
(***************************************************************************)
(* The event store together with the host that reads it                    *)
(* (crates/node/src/gui_host.rs).  The host runs one turn: it sends a      *)
(* prompt, a task waits for the answer and then for a fence of the store,  *)
(* and the host ends the turn when as many events as the fence left        *)
(* undelivered have come.  It may stop at any time; its receiver and its   *)
(* handle are dropped with it.                                             *)
(***************************************************************************)
EXTENDS EventStore
CONSTANT Prompting \* bound: the troubles under which the host runs a turn
ASSUME PromptingAssumption == Prompting \subseteq Trouble

VARIABLES
  turn, \* the prompt, its answer and the fence (finish_host_operation)
  host  \* pending_completion, its `remaining', deferred_ending

hostVars == <<turn, host, trouble>>
allVars == <<vars, hostVars>>

Unfenced == -1 \* remaining: None

NoTurn == [pc |-> "none", before |-> 0, through |-> 0, drained |-> FALSE]
NoHost == [pending |-> FALSE, remaining |-> Unfenced, deferred |-> FALSE,
           broken |-> FALSE]

\* The loop runs while it has its receiver.
Running == rx.pc \in {"idle", "registered", "parked", "ended"} /\ Quiet("host")
Looping == Running /\ ~host.broken /\ ~(host.pending /\ host.remaining = 0)

Breaks == host' = [host EXCEPT !.broken = TRUE]

-----------------------------------------------------------------------------
(* The turn's own task *)

\* The answer to the prompt came, or the transport went: every notification
\* before it has been handled.
Answered ==
  /\ trouble \in Prompting /\ Looping /\ turn.pc = "none" /\ HandlersAwait
  /\ turn' = [turn EXCEPT !.pc = "answered", !.before = st.accepted]
  /\ UNCHANGED <<vars, host, trouble>>

\* Mutant: the prefix is what is written.
FenceWritten == st.written
\* EventFence::wait: the prefix is what is accepted now ...
FencePrefix == st.accepted
FenceStarts ==
  /\ turn.pc = "answered"
  /\ turn' = IF ~st.receiverAlive \/ st.failed THEN [turn EXCEPT !.pc = "unfenced"]
             ELSE [turn EXCEPT !.pc = "fencing", !.through = FencePrefix]
  /\ UNCHANGED <<vars, host, trouble>>

\* ... and it holds once the progress says so.
FenceLooks ==
  /\ turn.pc = "fencing"
  /\ \/ progress.failed /\ turn' = [turn EXCEPT !.pc = "unfenced"]
     \/ /\ ~progress.failed /\ progress.written >= turn.through
        /\ turn' = [turn EXCEPT !.pc = "fenced"]
  /\ UNCHANGED <<vars, host, trouble>>

-----------------------------------------------------------------------------
(* The host's loop *)

\* HostProgress::Resolved.
HostLearns ==
  /\ Looping /\ ~host.pending
  /\ turn.pc \in {"answered", "fencing", "fenced", "unfenced"}
  /\ host' = [host EXCEPT !.pending = TRUE]
  /\ UNCHANGED <<vars, turn, trouble>>

\* HostProgress::Fenced: remaining_through of the prefix, or the host gives up.
HostFenced ==
  /\ Looping /\ host.pending /\ host.remaining = Unfenced
  /\ turn.pc \in {"fenced", "unfenced"}
  /\ IF turn.pc = "unfenced" \/ st.failed THEN Breaks
     ELSE host' = [host EXCEPT !.remaining = MaxOf(0, turn.through - st.delivered)]
  /\ UNCHANGED <<vars, turn, trouble>>

\* pause_closed_events
Paused == host.deferred /\ host.remaining <= 0

Counted == IF host.remaining > 0 THEN host.remaining - 1 ELSE host.remaining

\* Mutant: the end of the stream is not counted.
HostCountsEvents(ending) ==
  host' = [host EXCEPT !.remaining = IF ending THEN @ ELSE Counted,
                       !.deferred = @ \/ (ending /\ host.pending),
                       !.broken = ending /\ ~host.pending]

\* An event came; `ending' when it is Closed or the end of the stream.
HostCounts(ending) ==
  host' = [host EXCEPT !.remaining = Counted,
                       !.deferred = @ \/ (ending /\ host.pending),
                       !.broken = ending /\ ~host.pending]

HostListens == Looping /\ ~Paused /\ Listen /\ UNCHANGED hostVars
HostReceives ==
  /\ Looping /\ ~Paused /\ TakeEvent
  /\ HostCounts(rx'.pc = "ended")
  /\ UNCHANGED <<turn, trouble>>
HostSeesEnd ==
  /\ Looping /\ ~Paused
  /\ \/ TakeEnd
     \/ rx.pc = "ended" /\ UNCHANGED vars
  /\ HostCounts(TRUE)
  /\ UNCHANGED <<turn, trouble>>
HostWaits == Looping /\ ~Paused /\ TakeNothing /\ UNCHANGED hostVars

\* The tail was counted down: the turn ends and is journalled.
HostEndsTurn ==
  /\ Running /\ ~host.broken /\ host.pending /\ host.remaining = 0
  /\ turn' = [NoTurn EXCEPT !.pc = "ended", !.drained = st.delivered >= turn.before]
  /\ host' = [host EXCEPT !.pending = FALSE, !.remaining = Unfenced,
                          !.broken = host.deferred]
  /\ UNCHANGED <<vars, trouble>>

\* Close, Stop or an error elsewhere in the loop.
HostStops ==
  /\ trouble = "stop"
  /\ Looping
  /\ Breaks
  /\ UNCHANGED <<vars, turn, trouble>>

\* The loop is left; the receiver is dropped, and nobody hears of the turn's task.
HostLeaves ==
  /\ Running /\ host.broken
  /\ rx' = [rx EXCEPT !.pc = "leaving"]
  /\ host' = NoHost
  /\ turn' = IF turn.pc \in {"none", "ended"} THEN turn ELSE [NoTurn EXCEPT !.pc = "left"]
  /\ UNCHANGED <<st, progress, completed, budget, spool, worker, call, driver,
                 opener, tail, snap, trouble>>

-----------------------------------------------------------------------------
HostInit ==
  /\ Init
  /\ turn = NoTurn /\ host = NoHost

TurnSteps == FenceStarts \/ FenceLooks
LoopSteps == HostLearns \/ HostFenced \/ HostListens \/ HostEndsTurn \/ HostLeaves
Polls == HostReceives \/ HostSeesEnd \/ HostWaits

HostNext ==
  \/ StoreNext /\ UNCHANGED hostVars
  \/ Answered \/ TurnSteps \/ LoopSteps \/ Polls \/ HostStops

Spec == HostInit /\ [][HostNext]_allVars

(***************************************************************************)
(* Fairness.  The worker is a thread and its operations return; what an    *)
(* actor owes follows without a wait; a handler, the fence's task and the  *)
(* host's loop are polled when they can move; the process whose end        *)
(* driver_closed awaits ends.  The agent need not say anything, nobody     *)
(* need close, fail or answer a question, and the receiver is polled again *)
(* only from a fresh registration or when it was woken.                    *)
(***************************************************************************)
Polled == Polls /\ (rx.pc # "parked" \/ rx.woken)
Fairness ==
  /\ \A a \in Actors : WF_allVars(Settle(a) /\ UNCHANGED hostVars)
  /\ \A p \in Producers : WF_allVars(ProducerSteps(p) /\ UNCHANGED hostVars)
  /\ WF_allVars(WorkerSteps /\ UNCHANGED hostVars)
  /\ WF_allVars(DriverSteps /\ UNCHANGED hostVars)
  /\ WF_allVars(TurnSteps)
  /\ WF_allVars(LoopSteps \/ Polled)

FairSpec == Spec /\ Fairness

-----------------------------------------------------------------------------
\* Cursors and counters are in their ranges; no more than the window is ever
\* admitted, but for one giant that is alone (Budget::encoded).
TypeOK ==
  /\ st.accepted \in 0..(MaxEvents + 2) /\ st.written \in 0..st.accepted
  /\ st.delivered \in 0..st.accepted
  /\ budget.records \in 0..WindowRecords /\ budget.controls \in 0..ControlItems
  /\ budget.bytes \in 0..WindowBytes \/ (budget.bytes \in Sizes /\ budget.records = 1)
  /\ \A p \in Producers : call[p].pc \in
       {"idle", "register", "check", "waiting", "holding", "permit", "asking"}
  /\ host.remaining \in Unfenced..(MaxEvents + 2)

\* Every item that holds a credit, wherever it is.
Holders == InQueue \cup spool.live
             \cup ({worker.item, st.output} \ {None})
InCalls(pc) == {p \in Producers : call[p].pc = pc}

\* The counters of the budget are exactly the credits of the records and the
\* questions alive in a handler, the queue, the worker, the output slot or the
\* client's hands: none is leaked and none returned twice (Drop of both credits).
CreditsExact ==
  /\ budget.bytes = BytesOf(Holders)
       + Cardinality(UNION {Cells(p, call[p].bytes) : p \in InCalls("holding")})
  /\ budget.records = Cardinality(Notes(Holders)) + Cardinality(InCalls("holding"))
  /\ budget.controls = Cardinality(Questions(Holders)) + Cardinality(InCalls("asking")) + rx.held

\* An event put before the receiver is the next one of the stream; Closed, when
\* the source said how it ended, comes after every event accepted.
NextInOrder ==
  st.output # None /\ st.output.seq # 0 =>
    /\ st.output.seq = st.delivered + 1
    /\ st.output.kind = "closed" => st.output.seq = st.accepted

\* The I/O owner reports its end only when it holds no record and no question
\* any more, and from then on nothing is queued.
NothingHeldAtShutdown ==
  completed => /\ st.queue = <<>> /\ spool.live = {}
               /\ budget.controls = rx.held + Cardinality(InCalls("asking"))

\* Unless the store failed, a turn that ended has every event the store accepted
\* before the answer delivered to the host.
TurnDrained ==
  turn.pc = "ended" /\ ~st.failed => turn.drained

\* A handler that waits for credit gets it or an error.
ProducersAnswered ==
  \A p \in Producers : call[p].pc = "waiting" ~> call[p].pc # "waiting"

\* A receiver that waits while an event of the source lies in the store, or the
\* store failed or finished, is woken.
Waits == rx.pc = "parked"
ReceiverWoken ==
  (Waits /\ (st.delivered < st.written \/ st.failed \/ st.done)) ~> ~Waits

\* The worker of a failed or cancelled store stops, whoever still waits.
WorkerStops == st.failed ~> st.done

\* An answered turn ends, or the host leaves.
TurnSettles == turn.pc = "answered" ~> turn.pc \in {"ended", "left"}
=============================================================================
