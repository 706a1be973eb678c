--------------------------- MODULE HostTurnStream ---------------------------
(***************************************************************************)
(* The inductive invariant of the event store and its host, and the first  *)
(* half of the proof that every step keeps it: for every number of         *)
(* handlers, window, size and length of the stream, and every trouble.     *)
(*                                                                         *)
(* Here are the types; the numbers of the stream (what is queued, in the   *)
(* worker's hands, on the spool, in the slot and delivered lies in this    *)
(* order, without a gap); and how the worker ends and reports it.          *)
(***************************************************************************)
EXTENDS HostTurn, FiniteSetTheorems, SequenceTheorems, TLAPS

-----------------------------------------------------------------------------
(* The inductive invariant *)

Items == [seq : Nat, kind : {"none", "note", "question", "ready", "data", "closed"},
          bytes : Nat]
Ends == [kind : {"none", "closing", "closed", "eof"}, through : Nat, seq : Nat]
WorkerPcs == {"create", "next", "asleep", "append", "publish", "written", "terminal",
              "read", "slot", "failing", "strip", "report", "over"}
CallPcs == {"idle", "register", "check", "waiting", "holding", "permit", "asking"}
TurnPcs == {"none", "answered", "fencing", "fenced", "unfenced", "ended", "left"}

StoreStates ==
  [queue : Seq(Items), accepted : Nat, written : Nat, delivered : Nat,
   readRequested : BOOLEAN, output : Items, end : Ends, failed : BOOLEAN,
   cancelled : BOOLEAN, receiverAlive : BOOLEAN, readyEnqueued : BOOLEAN,
   session : BOOLEAN, done : BOOLEAN]
Budgets == [bytes : Int, records : Int, controls : Int, closed : BOOLEAN]
Spools == [held : Nat, read : Nat, live : SUBSET Items]
Workers == [pc : WorkerPcs, item : Items, preferRead : BOOLEAN,
            how : {"running", "cancelled", "failed", "source"}]
CallStates == [pc : CallPcs, bytes : Nat, woken : BOOLEAN]
Receivers ==
  [pc : {"away", "idle", "registered", "parked", "ended", "leaving", "left", "dropped"},
   woken : BOOLEAN, held : Nat]
Steps == {"shut", "merge", "wake", "io", "completed"}
Turns == [pc : TurnPcs, before : Nat, through : Nat, drained : BOOLEAN]
Hosts == [pending : BOOLEAN, remaining : Nat \cup {Unfenced}, deferred : BOOLEAN,
          broken : BOOLEAN]

Types ==
  /\ st \in StoreStates /\ budget \in Budgets
  /\ spool \in Spools /\ IsFiniteSet(spool.live)
  /\ worker \in Workers /\ call \in [Producers -> CallStates] /\ rx \in Receivers
  /\ tail \in [Actors -> Seq(Steps)]
  /\ turn \in Turns /\ host \in Hosts

\* The last number of the stream that belongs to an item, not to Closed.
Through == IF st.end.kind = "none" THEN st.accepted ELSE st.end.through

\* In the worker's hands: taken from the queue, or read from the spool.
Taken == worker.pc \in {"append", "publish", "written"}
Reading == worker.pc = "slot"

\* What lies in the queue is the last part of the stream; before it comes what the
\* worker has taken, before that what the spool holds.
Queued ==
  /\ \A i \in DOMAIN st.queue :
       /\ st.queue[i].seq = (Through - Len(st.queue)) + i
       /\ st.queue[i].kind \in {"note", "question", "ready"}
       /\ st.queue[i].kind = "note" => st.queue[i].bytes \in Sizes
  /\ spool.held + Len(st.queue) <= Through
  /\ st.end.kind # "none" => st.end.through <= st.accepted
  /\ st.end.kind \in {"closing", "closed"} =>
       st.end.seq = st.accepted /\ st.accepted = st.end.through + 1
  /\ st.end.kind = "none" => st.end = NoEnd
  /\ st.end.kind = "eof" => st.end.through = st.accepted

InHand ==
  /\ worker.pc \notin {"append", "publish", "written", "slot"} => worker.item = None
  /\ Taken => /\ worker.item.kind \in {"note", "question", "ready"}
              /\ worker.item.kind = "note" => worker.item.bytes \in Sizes
              /\ worker.item.seq + Len(st.queue) <= Through
  /\ worker.pc = "append" => spool.held < worker.item.seq
  /\ worker.pc \in {"publish", "written"} =>
       /\ spool.held = worker.item.seq
       /\ worker.item.kind = "question" => worker.item \in spool.live
  /\ Reading => worker.item.kind \in {"question", "data"} /\ worker.item.seq = spool.read

\* What is read is the next to be delivered; a question that waits to be read is on
\* the spool, under a number of its own.
Spooled ==
  /\ spool.read <= spool.held
  /\ worker.pc \in {"read", "slot"} => st.output = None
  /\ worker.pc # "over" =>
       /\ st.output # None => st.output.seq = spool.read /\ st.output.kind \in {"question", "data"}
       /\ st.output # None \/ Reading => spool.read = st.delivered + 1
       /\ ~(st.output # None \/ Reading) /\ worker.pc \notin {"failing", "strip", "report"}
            => spool.read = st.delivered
  /\ \A q \in spool.live : q.kind = "question" /\ spool.read < q.seq /\ q.seq <= spool.held
  /\ \A q, r \in spool.live : q.seq = r.seq => q = r
  /\ st.delivered <= st.accepted /\ st.written <= st.accepted
  /\ worker.pc # "over" => st.delivered <= spool.read

\* How the worker comes to its end, and what is left of the store then.
Ending ==
  /\ st.cancelled => st.failed
  /\ st.done <=> worker.pc = "over"
  /\ worker.pc = "terminal" => st.end.kind = "closed"
  /\ worker.pc = "failing" => worker.how = "failed"
  /\ worker.pc \in {"strip", "report", "over"} => st.failed \/ st.end.kind # "none"
  /\ worker.pc \in {"strip", "report"} /\ worker.how # "source" => st.failed
  /\ worker.pc \in {"strip", "report"} /\ worker.how = "source" =>
       /\ st.end.kind \in {"eof", "closed"} /\ st.queue = <<>> /\ st.output = None
       /\ st.delivered = st.end.through
  /\ worker.pc \in {"report", "over"} => st.queue = <<>> /\ spool.live = {}
  /\ worker.pc = "report" => st.output = None
  /\ worker.pc = "over" =>
       /\ st.output # None =>
            /\ st.output.kind = "closed"
            /\ st.output.seq = 0 => st.failed
            /\ st.output.seq # 0 => st.output.seq = st.delivered + 1 /\ st.output.seq = st.accepted
       /\ st.output = None /\ ~st.failed /\ st.receiverAlive => st.delivered = st.accepted

\* The end of the I/O is reported by a worker that is over.
Reported ==
  /\ completed => worker.pc = "over"
  /\ \A a \in Actors : \A i \in DOMAIN tail[a] : tail[a][i] = "completed" => worker.pc = "over"

Calls ==
  \A p \in Producers :
    call[p].pc \in {"register", "check", "waiting", "holding"} => call[p].bytes \in Sizes

Window ==
  /\ budget.records <= WindowRecords /\ budget.controls <= ControlItems
  /\ budget.bytes <= WindowBytes \/ budget.records = 1

\* At most MaxEvents from the handlers, the end of the opening and Closed.
Bounded ==
  /\ st.accepted + Cardinality({p \in Producers : call[p].pc # "idle"})
       <= MaxEvents + (IF st.readyEnqueued THEN 1 ELSE 0)
                    + (IF st.end.kind \in {"closing", "closed"} THEN 1 ELSE 0)
  /\ st.readyEnqueued => opener # "opening"

\* Who reads has a live receiver; who met the end met it at the end.
Receiving ==
  /\ rx.pc \in {"idle", "registered", "parked", "ended"} => st.receiverAlive
  /\ rx.pc = "ended" /\ ~st.failed => st.done /\ st.output = None

Counting ==
  /\ turn.before <= st.accepted /\ turn.through <= st.accepted
  /\ turn.pc \in {"fencing", "fenced"} => turn.before <= turn.through
  /\ host.remaining # Unfenced =>
       /\ turn.pc = "fenced" /\ host.pending
       /\ host.remaining <= MaxEvents + 2
       /\ st.failed \/ turn.through <= st.delivered + host.remaining

IInv ==
  /\ Types /\ Queued /\ InHand /\ Spooled /\ Ending /\ Reported /\ Calls
  /\ CreditsExact /\ Window /\ Bounded /\ Receiving /\ Counting /\ TurnDrained
-----------------------------------------------------------------------------
(* Counting what holds a credit *)

\* The values of a finite set's elements form a finite set.
LEMMA ImageFinite ==
  ASSUME NEW S, IsFiniteSet(S), NEW f, DOMAIN f = S
  PROVE  IsFiniteSet({f[x] : x \in S})
<1> DEFINE T == {f[x] : x \in S}
<1> DEFINE g == [x \in S |-> f[x]]
<1>1. g \in Surjection(S, T)
  BY DEF Surjection
<1> QED
  BY <1>1, FS_Surjection

\* The cells of some owners, w saying how many each has.
CellsOf(S, w) == UNION {Cells(x, w[x]) : x \in S}

\* The cells of finitely many owners are finitely many.
LEMMA CellsFinite ==
  ASSUME NEW S, IsFiniteSet(S), NEW w, \A x \in S : w[x] \in Nat
  PROVE  IsFiniteSet(CellsOf(S, w))
<1> DEFINE f == [x \in S |-> Cells(x, w[x])]
<1>1. IsFiniteSet({f[x] : x \in S})
  BY ImageFinite
<1>2. ASSUME NEW x \in S PROVE IsFiniteSet(Cells(x, w[x]))
  <2>1. IsFiniteSet(1..w[x])
    BY FS_Interval
  <2> QED
    BY <2>1, FS_Singleton, FS_Product DEF Cells
<1>3. {f[x] : x \in S} = {Cells(x, w[x]) : x \in S}
  OBVIOUS
<1> QED
  BY <1>1, <1>2, <1>3, FS_UNION DEF CellsOf

\* The elements of sets that have nothing in common are counted apart.
LEMMA CountApart ==
  ASSUME NEW A, NEW B, IsFiniteSet(A), IsFiniteSet(B), A \cap B = {}
  PROVE  /\ Cardinality(A) \in Nat /\ Cardinality(B) \in Nat
         /\ Cardinality(A \cup B) = Cardinality(A) + Cardinality(B)
<1>1. Cardinality(A \cap B) = 0
  BY FS_EmptySet
<1>2. Cardinality(A) \in Nat /\ Cardinality(B) \in Nat
  BY FS_CardinalityType
<1>3. Cardinality(A \cup B) = Cardinality(A) + Cardinality(B) - Cardinality(A \cap B)
  BY FS_Union
<1> QED
  BY <1>1, <1>2, <1>3

\* And so are their cells.
LEMMA CellsApart ==
  ASSUME NEW A, NEW B, IsFiniteSet(A), IsFiniteSet(B), A \cap B = {},
         NEW w, \A x \in A \cup B : w[x] \in Nat
  PROVE  /\ Cardinality(CellsOf(A, w)) \in Nat /\ Cardinality(CellsOf(B, w)) \in Nat
         /\ Cardinality(CellsOf(A \cup B, w)) =
              Cardinality(CellsOf(A, w)) + Cardinality(CellsOf(B, w))
<1>1. IsFiniteSet(CellsOf(A, w)) /\ IsFiniteSet(CellsOf(B, w))
  BY CellsFinite
<1>2. CellsOf(A, w) \cap CellsOf(B, w) = {}
  BY DEF Cells, CellsOf
<1>3. CellsOf(A \cup B, w) = CellsOf(A, w) \cup CellsOf(B, w)
  BY DEF CellsOf
<1> QED
  BY <1>1, <1>2, <1>3, CountApart

\* Items that are different hold their credits apart.
LEMMA CreditsApart ==
  ASSUME NEW A \in SUBSET Items, NEW B \in SUBSET Items, IsFiniteSet(A), IsFiniteSet(B),
         A \cap B = {}
  PROVE  /\ BytesOf(A) \in Nat /\ BytesOf(B) \in Nat
         /\ BytesOf(A \cup B) = BytesOf(A) + BytesOf(B)
         /\ Cardinality(Notes(A)) \in Nat /\ Cardinality(Notes(B)) \in Nat
         /\ Cardinality(Notes(A \cup B)) = Cardinality(Notes(A)) + Cardinality(Notes(B))
         /\ Cardinality(Questions(A)) \in Nat /\ Cardinality(Questions(B)) \in Nat
         /\ Cardinality(Questions(A \cup B)) =
              Cardinality(Questions(A)) + Cardinality(Questions(B))
<1>1. /\ IsFiniteSet(Notes(A)) /\ IsFiniteSet(Notes(B))
      /\ IsFiniteSet(Questions(A)) /\ IsFiniteSet(Questions(B))
  BY FS_Subset DEF Notes, Questions
<1>2. Notes(A \cup B) = Notes(A) \cup Notes(B) /\ Notes(A) \cap Notes(B) = {}
  BY DEF Notes
<1>3. Questions(A \cup B) = Questions(A) \cup Questions(B) /\ Questions(A) \cap Questions(B) = {}
  BY DEF Questions
<1>4. /\ BytesOf(A) \in Nat /\ BytesOf(B) \in Nat
      /\ BytesOf(A \cup B) = BytesOf(A) + BytesOf(B)
  <2> DEFINE w == [i \in Notes(A) \cup Notes(B) |-> i.bytes]
  <2>1. \A i \in Notes(A) \cup Notes(B) : w[i] \in Nat
    BY DEF Notes, Items
  <2>2. /\ CellsOf(Notes(A), w) = UNION {Cells(i, i.bytes) : i \in Notes(A)}
        /\ CellsOf(Notes(B), w) = UNION {Cells(i, i.bytes) : i \in Notes(B)}
        /\ CellsOf(Notes(A \cup B), w) = UNION {Cells(i, i.bytes) : i \in Notes(A \cup B)}
    BY <1>2 DEF CellsOf
  <2> HIDE DEF w
  <2>3. /\ Cardinality(CellsOf(Notes(A), w)) \in Nat /\ Cardinality(CellsOf(Notes(B), w)) \in Nat
        /\ Cardinality(CellsOf(Notes(A \cup B), w)) =
             Cardinality(CellsOf(Notes(A), w)) + Cardinality(CellsOf(Notes(B), w))
    BY <1>1, <1>2, <2>1, CellsApart
  <2> QED
    BY <2>2, <2>3 DEF BytesOf
<1> QED
  BY <1>1, <1>2, <1>3, <1>4, CountApart

\* The queue holds finitely many items.
LEMMA HoldersFinite ==
  ASSUME Types
  PROVE  Holders \subseteq Items /\ IsFiniteSet(Holders) /\ InQueue \subseteq Items
<1>1. IsFiniteSet(InQueue)
  <2>1. st.queue \in Seq(Items)
    BY DEF Types, StoreStates
  <2>2. DOMAIN st.queue = 1..Len(st.queue) /\ Len(st.queue) \in Nat
    BY <2>1, LenProperties
  <2>3. IsFiniteSet(DOMAIN st.queue)
    BY <2>2, FS_Interval
  <2> QED
    BY <2>3, ImageFinite DEF InQueue
<1>2. InQueue \subseteq Items
  BY ElementOfSeq, LenProperties DEF Types, StoreStates, InQueue
<1>3. IsFiniteSet({worker.item, st.output} \ {None})
  <2>1. IsFiniteSet({worker.item} \cup {st.output})
    BY FS_Singleton, FS_Union
  <2> QED
    BY <2>1, FS_Subset
<1> QED
  BY <1>1, <1>2, <1>3, FS_Union DEF Types, StoreStates, Workers, Spools, Holders

\* One item: a record is one record of its own size, a question one question.
LEMMA OneItem ==
  ASSUME NEW i \in Items
  PROVE  /\ BytesOf({i}) = IF i.kind = "note" THEN i.bytes ELSE 0
         /\ Cardinality(Notes({i})) = IF i.kind = "note" THEN 1 ELSE 0
         /\ Cardinality(Questions({i})) = IF i.kind = "question" THEN 1 ELSE 0
<1>1. Notes({i}) = IF i.kind = "note" THEN {i} ELSE {}
  BY DEF Notes
<1>2. Questions({i}) = IF i.kind = "question" THEN {i} ELSE {}
  BY DEF Questions
<1>3. Cardinality({i}) = 1 /\ Cardinality({}) = 0
  BY FS_Singleton, FS_EmptySet
<1>4. UNION {Cells(j, j.bytes) : j \in {i}} = Cells(i, i.bytes)
  OBVIOUS
<1>5. UNION {Cells(j, j.bytes) : j \in {}} = {}
  OBVIOUS
<1>6. Cardinality(Cells(i, i.bytes)) = i.bytes
  <2>1. IsFiniteSet(1..i.bytes) /\ Cardinality(1..i.bytes) = i.bytes
    BY FS_Interval DEF Items
  <2>2. Cardinality({i} \X (1..i.bytes)) = Cardinality({i}) * Cardinality(1..i.bytes)
    BY <2>1, FS_Singleton, FS_Product
  <2> QED
    BY <2>1, <2>2, <1>3 DEF Cells, Items
<1>7. BytesOf({i}) = IF i.kind = "note" THEN i.bytes ELSE 0
  BY <1>1, <1>3, <1>4, <1>5, <1>6 DEF BytesOf
<1> QED
  BY <1>1, <1>2, <1>3, <1>7

-----------------------------------------------------------------------------
(* The types *)

\* What a wake-up changes has its type.
LEMMA WokenTyped ==
  ASSUME Types
  PROVE  /\ WokenCalls \in [Producers -> CallStates]
         /\ WokenWorker \in Workers /\ WokenReceiver \in Receivers
<1>1. ASSUME NEW p \in Producers PROVE [call[p] EXCEPT !.woken = TRUE] \in CallStates
  BY DEF Types, CallStates
<1>2. WokenCalls \in [Producers -> CallStates]
  BY <1>1 DEF Types, WokenCalls
<1>3. WokenWorker \in Workers
  BY DEF Types, WokenWorker, Workers, WorkerPcs
<1>4. WokenReceiver \in Receivers
  BY DEF Types, WokenReceiver, Receivers
<1> QED
  BY <1>2, <1>3, <1>4

\* So do the budget without some credits, and who waits for them.
LEMMA ReturnTyped ==
  ASSUME Types, NEW items \in SUBSET Items, IsFiniteSet(items)
  PROVE  Returned(items) \in Budgets
<1>1. BytesOf(items) \in Nat /\ Cardinality(Notes(items)) \in Nat
        /\ Cardinality(Questions(items)) \in Nat
  BY FS_EmptySet, CreditsApart
<1>2. budget \in Budgets
  BY DEF Types
<1>3. ASSUME NEW b \in Int, NEW r \in Int, NEW c \in Int
      PROVE  [budget EXCEPT !.bytes = b, !.records = r, !.controls = c] \in Budgets
  BY <1>2 DEF Budgets
<1>4. /\ budget.bytes - BytesOf(items) \in Int
      /\ budget.records - Cardinality(Notes(items)) \in Int
      /\ budget.controls - Cardinality(Questions(items)) \in Int
  BY <1>1, <1>2 DEF Budgets
<1> QED
  BY <1>3, <1>4 DEF Returned

\* What an actor owes is a list of steps.
LEMMA OweTyped ==
  ASSUME Types, NEW a \in Actors, NEW steps \in Seq(Steps), Owe(a, steps)
  PROVE  tail' \in [Actors -> Seq(Steps)]
BY DEF Types, Owe

\* A cancellation keeps the types of what it touches.
LEMMA CancelTyped ==
  ASSUME Types, NEW a \in Actors, Cancel(a)
  PROVE  st' \in StoreStates /\ tail' \in [Actors -> Seq(Steps)]
<1>1. <<"shut", "merge", "wake">> \in Seq(Steps)
  BY DEF Steps
<1> QED
  BY <1>1, OweTyped DEF Cancel, OweSnapshot, Types, StoreStates

\* What the producers do keeps the types.
LEMMA ProducerTypes ==
  ASSUME Types, NEW p \in Producers, UNCHANGED hostVars,
         ProducerSteps(p) \/ ProducerCalls(p)
  PROVE  Types'
<1> USE EventStoreAssumption
<1>g. ASSUME NEW pc \in CallPcs, Goes(p, pc) PROVE call' \in [Producers -> CallStates]
  BY <1>g DEF Goes, Types, CallStates
<1>c. CallEnds(p) => call' \in [Producers -> CallStates]
  BY DEF CallEnds, Idle, Types, CallStates, CallPcs
<1>1. ASSUME NEW bytes \in Sizes, Note(p, bytes) PROVE Types'
  BY <1>1 DEF Note, Types, CallStates, CallPcs, hostVars
<1>2. CASE StrayNote(p)
  <2>1. p \in Actors
    BY DEF Actors
  <2> QED
    BY <1>2, <2>1, CancelTyped DEF StrayNote, Types, hostVars
<1>3. CASE Question(p)
  BY <1>3 DEF Question, Goes, Types, CallStates, CallPcs, hostVars
<1>4. CASE Permit(p)
  <2>1. budget' \in Budgets
    BY <1>4 DEF Permit, Types, Budgets
  <2>2. call' \in [Producers -> CallStates]
    BY <1>4, <1>g, <1>c DEF Permit, CallPcs
  <2> QED
    BY <1>4, <2>1, <2>2 DEF Permit, Types, hostVars
<1>5. CASE Register(p)
  BY <1>5 DEF Register, Types, CallStates, CallPcs, hostVars
<1>6. CASE Check(p)
  <2>1. budget' \in Budgets
    <3>1. call[p].bytes \in Nat /\ budget \in Budgets
      BY DEF Types, CallStates
    <3>2. budget.bytes + call[p].bytes \in Int /\ budget.records + 1 \in Int
      BY <3>1 DEF Budgets
    <3>3. ASSUME NEW b \in Int, NEW r \in Int
          PROVE  [budget EXCEPT !.bytes = b, !.records = r] \in Budgets
      BY <3>1 DEF Budgets
    <3> QED
      BY <1>6, <3>1, <3>2, <3>3 DEF Check
  <2>2. call' \in [Producers -> CallStates]
    BY <1>6, <1>g, <1>c DEF Check, CallPcs
  <2> QED
    BY <1>6, <2>1, <2>2 DEF Check, Types, hostVars
<1>7. CASE Retry(p)
  BY <1>7 DEF Retry, Goes, Types, CallStates, CallPcs, hostVars
<1>8. CASE Enqueue(p)
  <2> DEFINE item == IF call[p].pc = "holding"
                     THEN Item(st.accepted + 1, "note", call[p].bytes)
                     ELSE Item(st.accepted + 1, "question", 0)
  <2>1. item \in Items
    BY DEF Types, StoreStates, CallStates, Item, Items
  <2> HIDE DEF item
  <2>2. IsFiniteSet({item})
    BY FS_Singleton
  <2>3. Returned({item}) \in Budgets
    BY <2>1, <2>2, ReturnTyped
  <2>4. Idle \in CallStates
    BY DEF Idle, CallStates, CallPcs
  <2>5. CASE Writable
    <3>1. Push(item) /\ worker' = WokenWorker /\ CallEnds(p) /\ UNCHANGED budget
      BY <1>8, <2>5 DEF Enqueue, item
    <3>2. Append(st.queue, item) \in Seq(Items) /\ st.accepted + 1 \in Nat
      BY <2>1, AppendProperties DEF Types, StoreStates
    <3>3. st' \in StoreStates
      BY <3>1, <3>2 DEF Push, Types, StoreStates
    <3>4. call' \in [Producers -> CallStates]
      BY <3>1, <2>4 DEF CallEnds, Types
    <3> QED
      BY <1>8, <3>1, <3>3, <3>4, WokenTyped DEF Enqueue, Types, hostVars
  <2>6. CASE ~Writable
    <3>1. /\ budget' = Returned({item}) /\ UNCHANGED <<st, worker>>
          /\ call' = [(IF item.kind = "note" THEN WokenCalls ELSE call) EXCEPT ![p] = Idle]
      BY <1>8, <2>6 DEF Enqueue, item
    <3>2. call' \in [Producers -> CallStates]
      BY <3>1, <2>4, WokenTyped DEF Types
    <3> QED
      BY <1>8, <3>1, <2>3, <3>2 DEF Enqueue, Types, hostVars
  <2> QED
    BY <2>5, <2>6
<1> QED
  BY <1>1, <1>2, <1>3, <1>4, <1>5, <1>6, <1>7, <1>8 DEF ProducerSteps, ProducerCalls

\* And what the worker does.
LEMMA WorkerTypes ==
  ASSUME Types, UNCHANGED hostVars, WorkerSteps
  PROVE  Types'
<1>w. "worker" \in Actors /\ None \in Items
  BY DEF Actors, None, Items
<1>o. /\ <<"merge">> \in Seq(Steps)
      /\ <<"shut", "merge", "completed", "wake">> \in Seq(Steps)
  BY DEF Steps
<1>s. ASSUME NEW how \in {"cancelled", "failed", "source"}, Stops(how)
      PROVE  worker' \in Workers
  BY <1>s, <1>w DEF Stops, Types, Workers, WorkerPcs
<1>e. StopsOnError => worker' \in Workers
  BY <1>s DEF StopsOnError
<1>m. ASSUME NEW pc \in WorkerPcs, Moves(pc) PROVE worker' \in Workers
  BY <1>m DEF Moves, Types, Workers
<1>1. CASE Create
  <2>1. worker' \in Workers
    BY <1>1, <1>e, <1>m DEF Create, WorkerPcs
  <2> QED
    BY <1>1, <2>1 DEF Create, Types, hostVars
<1>2. CASE NextWork
  <2>1. st.queue \in Seq(Items)
    BY DEF Types, StoreStates
  <2>2. st.queue # <<>> => Head(st.queue) \in Items /\ Tail(st.queue) \in Seq(Items)
    BY <2>1, HeadTailProperties
  <2>3. st' \in StoreStates
    BY <1>2, <2>2 DEF NextWork, Types, StoreStates
  <2>4. worker' \in Workers
    BY <1>2, <2>2, <1>s, <1>m DEF NextWork, Types, Workers, WorkerPcs
  <2> QED
    BY <1>2, <2>3, <2>4 DEF NextWork, Types, hostVars
<1>3. CASE AppendRecord
  <2>1. worker.item \in Items
    BY DEF Types, Workers
  <2>2. Returned({worker.item}) \in Budgets
    BY <2>1, ReturnTyped, FS_Singleton
  <2>3. budget' \in Budgets /\ call' \in [Producers -> CallStates]
    BY <1>3, <2>2, WokenTyped DEF AppendRecord, Return, Types
  <2>4. worker' \in Workers
    BY <1>3, <1>e, <1>m DEF AppendRecord, WorkerPcs
  <2>5. spool' \in Spools /\ IsFiniteSet(spool'.live)
    <3>1. IsFiniteSet(Questions({worker.item})) /\ Questions({worker.item}) \subseteq Items
      BY <2>1, FS_Singleton, FS_Subset DEF Questions
    <3>2. IsFiniteSet(spool.live \cup Questions({worker.item}))
      BY <3>1, FS_Union DEF Types
    <3>3. spool \in Spools /\ worker.item.seq \in Nat
      BY <2>1 DEF Types, Items
    <3>4. \/ UNCHANGED spool
          \/ spool' = [spool EXCEPT !.held = worker.item.seq,
                                    !.live = @ \cup Questions({worker.item})]
      BY <1>3 DEF AppendRecord
    <3> QED
      BY <3>1, <3>2, <3>3, <3>4 DEF Spools, Types
  <2> QED
    BY <1>3, <2>3, <2>4, <2>5 DEF AppendRecord, Types, hostVars
<1>4. CASE Publish
  <2>1. st' \in StoreStates
    BY <1>4 DEF Publish, Types, StoreStates, Workers, Items
  <2>2. tail' \in [Actors -> Seq(Steps)]
    BY <1>4, <1>w, <1>o, OweTyped DEF Publish, OweSnapshot
  <2>3. worker' \in Workers
    BY <1>4, <1>m DEF Publish, WorkerPcs
  <2> QED
    BY <1>4, <2>1, <2>2, <2>3 DEF Publish, Types, hostVars
<1>5. CASE DropWritten
  <2>1. Notes({worker.item}) \subseteq Items /\ IsFiniteSet(Notes({worker.item}))
    BY FS_Singleton, FS_Subset DEF Types, Workers, Notes
  <2>2. budget' \in Budgets /\ call' \in [Producers -> CallStates]
    BY <1>5, <2>1, ReturnTyped, WokenTyped DEF DropWritten, Return, Types
  <2>3. worker' \in Workers
    BY <1>5, <1>w DEF DropWritten, Types, Workers, WorkerPcs
  <2> QED
    BY <1>5, <2>2, <2>3 DEF DropWritten, Types, hostVars
<1>6. CASE PublishTerminal
  <2>1. st' \in StoreStates
    BY <1>6 DEF PublishTerminal, Types, StoreStates, Ends
  <2>2. tail' \in [Actors -> Seq(Steps)]
    BY <1>6, <1>w, <1>o, OweTyped DEF PublishTerminal, OweSnapshot
  <2>3. worker' \in Workers
    BY <1>6, <1>m DEF PublishTerminal, WorkerPcs
  <2> QED
    BY <1>6, <2>1, <2>2, <2>3 DEF PublishTerminal, Types, hostVars
<1>7. CASE ReadRecord
  <2>1. CASE StopsOnError /\ UNCHANGED spool
    BY <1>7, <2>1, <1>e DEF ReadRecord, Types, hostVars
  <2>2. CASE ~(StopsOnError /\ UNCHANGED spool)
    <3> DEFINE seq == spool.read + 1
    <3> DEFINE asked == {q \in spool.live : q.seq = seq}
    <3> DEFINE item == IF asked # {} THEN CHOOSE q \in asked : TRUE ELSE Item(seq, "data", 0)
    <3>1. /\ spool' = [spool EXCEPT !.read = seq, !.live = @ \ asked]
          /\ worker' = [worker EXCEPT !.pc = "slot", !.item = item]
      BY <1>7, <2>2 DEF ReadRecord
    <3>2. spool \in Spools /\ IsFiniteSet(spool.live)
      BY DEF Types
    <3>3. seq \in Nat /\ asked \subseteq Items
      BY <3>2 DEF Spools
    <3>4. item \in Items
      BY <3>3 DEF Item, Items
    <3>5. IsFiniteSet(spool.live \ asked)
      BY <3>2, FS_Subset
    <3> HIDE DEF seq, asked, item
    <3>6. spool' \in Spools /\ IsFiniteSet(spool'.live)
      BY <3>1, <3>2, <3>3, <3>5 DEF Spools
    <3>7. worker' \in Workers
      BY <3>1, <3>4 DEF Types, Workers, WorkerPcs
    <3> QED
      BY <1>7, <3>6, <3>7 DEF ReadRecord, Types, hostVars
  <2> QED
    BY <2>1, <2>2
<1>8. CASE FillSlot
  <2>1. worker.item \in Items
    BY DEF Types, Workers
  <2>2. Returned({worker.item}) \in Budgets
    BY <2>1, ReturnTyped, FS_Singleton
  <2>3. st' \in StoreStates
    BY <1>8, <2>1 DEF FillSlot, Types, StoreStates
  <2>4. worker' \in Workers
    BY <1>8, <1>s, <1>w DEF FillSlot, Types, Workers, WorkerPcs
  <2>5. rx' \in Receivers /\ budget' \in Budgets
    BY <1>8, <2>2, WokenTyped DEF FillSlot, Types
  <2> QED
    BY <1>8, <2>3, <2>4, <2>5 DEF FillSlot, Types, hostVars
<1>9. CASE FailStore
  <2>1. worker' \in Workers
    BY <1>9, <1>m DEF FailStore, WorkerPcs
  <2> QED
    BY <1>9, <2>1, <1>w, CancelTyped DEF FailStore, Types, hostVars
<1>10. CASE Strip
  <2> DEFINE undelivered == IF worker.how = "source" THEN {} ELSE {st.output} \ {None}
  <2>1. /\ InQueue \cup undelivered \cup spool.live \subseteq Items
        /\ IsFiniteSet(InQueue \cup undelivered \cup spool.live)
    <3>1. Holders \subseteq Items /\ IsFiniteSet(Holders)
      BY HoldersFinite
    <3>2. InQueue \cup undelivered \cup spool.live \subseteq Holders
      BY DEF Holders
    <3> QED
      BY <3>1, <3>2, FS_Subset
  <2> HIDE DEF undelivered
  <2>2. Return(InQueue \cup undelivered \cup spool.live)
    BY <1>10 DEF Strip, undelivered
  <2>3. budget' \in Budgets /\ call' \in [Producers -> CallStates]
    BY <2>1, <2>2, ReturnTyped, WokenTyped DEF Return, Types
  <2>4. st' \in StoreStates
    <3>1. <<>> \in Seq(Items)
      OBVIOUS
    <3> QED
      BY <1>10, <1>w, <3>1 DEF Strip, Types, StoreStates
  <2>5. spool' \in Spools /\ IsFiniteSet(spool'.live)
    BY <1>10, FS_EmptySet DEF Strip, Types, Spools
  <2>6. worker' \in Workers
    BY <1>10, <1>m DEF Strip, WorkerPcs
  <2> QED
    BY <1>10, <2>3, <2>4, <2>5, <2>6 DEF Strip, Types, hostVars
<1>11. CASE Report
  <2>1. st' \in StoreStates
    <3> DEFINE broken == worker.how = "failed" \/ trouble = "dirty"
    <3> DEFINE closed == IF worker.how = "source" /\ ~broken
                THEN IF st.end.kind = "closed" THEN Item(st.end.seq, "closed", 0) ELSE None
                ELSE Item(0, "closed", 0)
    <3>1. st \in StoreStates
      BY DEF Types
    <3>2. closed \in Items
      BY <3>1, <1>w DEF StoreStates, Ends, Item, Items
    <3>3. (st.failed \/ broken) \in BOOLEAN
      BY <3>1 DEF StoreStates
    <3>4. st' = [st EXCEPT !.failed = st.failed \/ broken, !.done = TRUE,
                          !.output = IF st.receiverAlive THEN closed ELSE @]
      BY <1>11 DEF Report
    <3> HIDE DEF closed, broken
    <3> QED
      BY <3>1, <3>2, <3>3, <3>4 DEF StoreStates
  <2>2. tail' \in [Actors -> Seq(Steps)]
    BY <1>11, <1>w, <1>o, OweTyped DEF Report, OweSnapshot
  <2>3. worker' \in Workers
    BY <1>11, <1>m DEF Report, WorkerPcs
  <2> QED
    BY <1>11, <2>1, <2>2, <2>3 DEF Report, Types, hostVars
<1> QED
  BY <1>1, <1>2, <1>3, <1>4, <1>5, <1>6, <1>7, <1>8, <1>9, <1>10, <1>11 DEF WorkerSteps

\* What the transport's task, the opening and the drops do.
LEMMA TransportTypes ==
  ASSUME Types, UNCHANGED hostVars,
         \/ DriverSteps \/ OpenerSteps \/ DropSteps
         \/ AcceptSession \/ RuntimeDropped \/ Answer
         \/ \E why \in {"closed", "failed", "transport"} : TransportEnds(why)
         \/ \E a \in Actors : Settle(a)
  PROVE  Types'
<1>a. "driver" \in Actors /\ "host" \in Actors
  BY DEF Actors
<1>o. <<"shut", "merge", "io">> \in Seq(Steps) /\ <<"merge", "io">> \in Seq(Steps)
  BY DEF Steps
<1>d. HandlersDropped => call' \in [Producers -> CallStates]
  BY DEF HandlersDropped, Idle, CallStates, CallPcs
<1>1. CASE DriverDecides
  BY <1>1 DEF DriverDecides, Types, hostVars
<1>2. CASE DriverCancels
  BY <1>2, <1>a, CancelTyped DEF DriverCancels, Types, hostVars
<1>3. CASE DriverJoins
  BY <1>3 DEF DriverJoins, Types, hostVars
<1>4. CASE DriverBeginsClose
  <2>1. st' \in StoreStates
    <3>1. st \in StoreStates /\ st.accepted + 1 \in Nat
      BY DEF Types, StoreStates
    <3>2. [kind |-> "closing", through |-> st.accepted, seq |-> st.accepted + 1] \in Ends
      BY <3>1 DEF StoreStates, Ends
    <3> DEFINE end == [kind |-> "closing", through |-> st.accepted, seq |-> st.accepted + 1]
    <3>3. st' = st \/ st' = [st EXCEPT !.accepted = @ + 1, !.end = end]
      BY <1>4 DEF DriverBeginsClose, BeginClose
    <3> HIDE DEF end
    <3>4. end \in Ends
      BY <3>2 DEF end
    <3> QED
      BY <3>1, <3>3, <3>4 DEF StoreStates
  <2>2. tail' \in [Actors -> Seq(Steps)]
    <3>1. tail' = tail \/ PulseAfter("driver")
      BY <1>4 DEF DriverBeginsClose, BeginClose
    <3> QED
      BY <3>1, <1>a, <1>o, OweTyped DEF PulseAfter, OweSnapshot, Types
  <2> QED
    BY <1>4, <2>1, <2>2 DEF DriverBeginsClose, Types, hostVars
<1>5. CASE DriverCloses
  <2>1. st' \in StoreStates
    BY <1>5 DEF DriverCloses, ConfirmClose, Types, StoreStates, Ends
  <2>2. tail' \in [Actors -> Seq(Steps)]
    BY <1>5, <1>a, <1>o, OweTyped DEF DriverCloses, ConfirmClose, OweSnapshot
  <2> QED
    BY <1>5, <2>1, <2>2 DEF DriverCloses, Types, hostVars
<1>6. CASE OpenerPublishes
  <2>1. st \in StoreStates /\ st.queue \in Seq(Items) /\ st.accepted + 1 \in Nat
    BY DEF Types, StoreStates
  <2>2. Item(st.accepted + 1, "ready", 0) \in Items
    BY <2>1 DEF Item, Items
  <2>3. Append(st.queue, Item(st.accepted + 1, "ready", 0)) \in Seq(Items)
    BY <2>1, <2>2, AppendProperties
  <2>4. st' \in StoreStates
    BY <1>6, <2>1, <2>3 DEF OpenerPublishes, StoreStates
  <2>5. rx' \in Receivers /\ worker' \in Workers
    BY <1>6, WokenTyped DEF OpenerPublishes, Types, Receivers
  <2> QED
    BY <1>6, <2>4, <2>5 DEF OpenerPublishes, Types, hostVars
<1>7. CASE OpenerRefuses
  BY <1>7 DEF OpenerRefuses, Types, hostVars
<1>8. CASE OpenerCancels
  BY <1>8, <1>a, CancelTyped DEF OpenerCancels, Types, hostVars
<1>9. CASE GuardCancels
  BY <1>9, <1>a, CancelTyped DEF GuardCancels, Types, hostVars
<1>10. CASE SourceEof
  <2>1. st' \in StoreStates
    BY <1>10 DEF SourceEof, Types, StoreStates, Ends
  <2>2. tail' \in [Actors -> Seq(Steps)]
    BY <1>10, <1>a, <1>o, OweTyped DEF SourceEof, PulseAfter, OweSnapshot
  <2> QED
    BY <1>10, <2>1, <2>2 DEF SourceEof, Types, hostVars
<1>11. CASE ReceiverLeaves
  BY <1>11 DEF ReceiverLeaves, Types, StoreStates, Receivers, hostVars
<1>12. CASE ReceiverCancels
  <2>1. rx' \in Receivers
    BY <1>12 DEF ReceiverCancels, Types, Receivers
  <2> QED
    BY <1>12, <2>1, <1>a, CancelTyped DEF ReceiverCancels, Types, hostVars
<1>13. CASE AcceptSession
  BY <1>13 DEF AcceptSession, Types, StoreStates, hostVars
<1>14. CASE RuntimeDropped
  <2>1. rx' \in Receivers
    BY <1>14 DEF RuntimeDropped, Types, Receivers
  <2> QED
    BY <1>14, <2>1, <1>d DEF RuntimeDropped, Types, hostVars
<1>15. CASE Answer
  <2>1. rx' \in Receivers
    <3>1. rx.held - 1 \in Nat
      BY <1>15 DEF Answer, Types, Receivers
    <3> QED
      BY <1>15, <3>1 DEF Answer, Types, Receivers
  <2>2. budget' \in Budgets
    BY <1>15 DEF Answer, Types, Budgets
  <2> QED
    BY <1>15, <2>1, <2>2 DEF Answer, Types, hostVars
<1>16. ASSUME NEW why, TransportEnds(why) PROVE Types'
  BY <1>16, <1>d DEF TransportEnds, Types, hostVars
<1>17. ASSUME NEW a \in Actors, Settle(a) PROVE Types'
  <2>1. tail' \in [Actors -> Seq(Steps)]
    <3>1. tail[a] # <<>> /\ tail[a] \in Seq(Steps)
      BY <1>17 DEF Settle, Types
    <3>2. Tail(tail[a]) \in Seq(Steps)
      BY <3>1, HeadTailProperties
    <3> QED
      BY <1>17, <3>2 DEF Settle, Types
  <2>2. budget' \in Budgets
    BY <1>17 DEF Settle, Types, Budgets
  <2>3. /\ call' \in [Producers -> CallStates]
        /\ worker' \in Workers /\ rx' \in Receivers
    BY <1>17, WokenTyped DEF Settle, Types
  <2> QED
    BY <1>17, <2>1, <2>2, <2>3 DEF Settle, Types, hostVars
<1> QED
  BY <1>1, <1>2, <1>3, <1>4, <1>5, <1>6, <1>7, <1>8, <1>9, <1>10, <1>11, <1>12, <1>13,
     <1>14, <1>15, <1>16, <1>17 DEF DriverSteps, OpenerSteps, DropSteps

\* And what the host does.
LEMMA HostTypes ==
  ASSUME Types,
         Answered \/ TurnSteps \/ LoopSteps \/ Polls \/ HostStops
  PROVE  Types'
<1>s. st \in StoreStates /\ rx \in Receivers /\ turn \in Turns /\ host \in Hosts
  BY DEF Types
<1>c. ASSUME NEW ending \in BOOLEAN, HostCounts(ending) PROVE host' \in Hosts
  <2>1. Counted \in Nat \cup {Unfenced}
    BY <1>s DEF Counted, Hosts, Unfenced
  <2> QED
    BY <1>c, <1>s, <2>1 DEF HostCounts, Hosts
<1>1. CASE Answered
  BY <1>1, <1>s DEF Answered, Types, vars, StoreStates, Turns, TurnPcs
<1>2. CASE TurnSteps
  <2>1. turn' \in Turns
    BY <1>2, <1>s DEF TurnSteps, FenceStarts, FenceLooks, FencePrefix, StoreStates, Turns, TurnPcs
  <2> QED
    BY <1>2, <2>1 DEF TurnSteps, FenceStarts, FenceLooks, Types, vars
<1>3. CASE HostLearns
  BY <1>3 DEF HostLearns, Types, vars, Hosts
<1>4. CASE HostFenced
  <2>1. MaxOf(0, turn.through - st.delivered) \in Nat
    BY <1>s DEF MaxOf, Turns, StoreStates
  <2>2. host' \in Hosts
    BY <1>4, <1>s, <2>1 DEF HostFenced, Breaks, Hosts
  <2> QED
    BY <1>4, <2>2 DEF HostFenced, Types, vars
<1>5. CASE HostListens
  BY <1>5 DEF HostListens, Listen, Types, Receivers, hostVars
<1>6. CASE HostEndsTurn
  <2>1. turn' \in Turns
    <3> DEFINE drained == st.delivered >= turn.before
    <3>1. drained \in BOOLEAN
      OBVIOUS
    <3>2. turn' = [NoTurn EXCEPT !.pc = "ended", !.drained = drained]
      BY <1>6 DEF HostEndsTurn
    <3> HIDE DEF drained
    <3> QED
      BY <3>1, <3>2 DEF NoTurn, Turns, TurnPcs
  <2>2. host' \in Hosts
    BY <1>6, <1>s DEF HostEndsTurn, Hosts
  <2> QED
    BY <1>6, <2>1, <2>2 DEF HostEndsTurn, Types, vars
<1>7. CASE HostLeaves
  <2>1. turn' \in Turns
    BY <1>7, <1>s DEF HostLeaves, NoTurn, Turns, TurnPcs
  <2>2. host' \in Hosts
    BY <1>7 DEF HostLeaves, NoHost, Hosts
  <2>3. rx' \in Receivers
    BY <1>7, <1>s DEF HostLeaves, Receivers
  <2> QED
    BY <1>7, <2>1, <2>2, <2>3 DEF HostLeaves, Types
<1>8. CASE HostReceives
  <2>1. host' \in Hosts
    BY <1>8, <1>c DEF HostReceives
  <2>2. st.output \in Items
    BY <1>s DEF StoreStates
  <2>3. Cardinality(Questions({st.output})) \in Nat
    BY <2>2, OneItem
  <2>4. ASSUME NEW pc \in {"ended", "idle"}, NEW held \in Nat, Takes(pc, held)
        PROVE  rx' \in Receivers
    <3>1. rx.held + held \in Nat
      BY <1>s DEF Receivers
    <3> QED
      BY <2>4, <3>1, <1>s DEF Takes, Receivers
  <2>5. rx' \in Receivers
    BY <1>8, <2>3, <2>4 DEF HostReceives, TakeEvent
  <2>6. st' \in StoreStates
    <3>1. MaxOf(st.delivered, st.output.seq) \in Nat /\ None \in Items
      BY <1>s, <2>2 DEF MaxOf, StoreStates, Items, None
    <3> QED
      BY <1>8, <1>s, <3>1 DEF HostReceives, TakeEvent, StoreStates
  <2>7. tail' \in [Actors -> Seq(Steps)]
    <3>1. "host" \in Actors /\ <<"shut", "merge", "wake">> \in Seq(Steps)
      BY DEF Actors, Steps
    <3> QED
      BY <1>8, <3>1, OweTyped DEF HostReceives, TakeEvent, OweSnapshot, Types
  <2>8. budget' \in Budgets
    BY <1>8, <2>2, ReturnTyped, FS_Singleton DEF HostReceives, TakeEvent, Types
  <2>9. worker' \in Workers
    BY <1>8, WokenTyped DEF HostReceives, TakeEvent, Types
  <2> QED
    BY <1>8, <2>1, <2>5, <2>6, <2>7, <2>8, <2>9 DEF HostReceives, TakeEvent, Types
<1>9. CASE HostSeesEnd
  <2>1. host' \in Hosts
    BY <1>9, <1>c DEF HostSeesEnd
  <2>2. rx' \in Receivers
    <3>1. rx.held + 0 \in Nat
      BY <1>s DEF Receivers
    <3> QED
      BY <1>9, <1>s, <3>1 DEF HostSeesEnd, TakeEnd, Takes, Receivers, vars
  <2> QED
    BY <1>9, <2>1, <2>2 DEF HostSeesEnd, TakeEnd, Types, vars
<1>10. CASE HostWaits
  <2>1. st' \in StoreStates /\ rx' \in Receivers
    BY <1>10, <1>s DEF HostWaits, TakeNothing, StoreStates, Receivers
  <2> QED
    BY <1>10, <2>1, WokenTyped DEF HostWaits, TakeNothing, Types, hostVars
<1>11. CASE HostStops
  BY <1>11 DEF HostStops, Breaks, Types, vars, Hosts
<1> QED
  BY <1>1, <1>2, <1>3, <1>4, <1>5, <1>6, <1>7, <1>8, <1>9, <1>10, <1>11 DEF LoopSteps, Polls

\* Every step keeps the types.
LEMMA TypesStep ==
  ASSUME Types, [HostNext]_allVars
  PROVE  Types'
<1>1. CASE UNCHANGED allVars
  BY <1>1 DEF allVars, vars, hostVars, Types
<1>2. CASE StoreNext /\ UNCHANGED hostVars
  BY <1>2, ProducerTypes, WorkerTypes, TransportTypes DEF StoreNext
<1>3. CASE Answered \/ TurnSteps \/ LoopSteps \/ Polls \/ HostStops
  BY <1>3, HostTypes
<1> QED
  BY <1>1, <1>2, <1>3 DEF HostNext
-----------------------------------------------------------------------------
(* The numbers of the stream, and how the worker ends *)

Numbers == Queued /\ InHand /\ Spooled /\ Ending

\* A step that moves nothing along the stream: it may raise a flag, drop the
\* receiver or wake the worker.
StreamSame ==
  /\ st'.queue = st.queue /\ st'.accepted = st.accepted /\ st'.written = st.written
  /\ st'.delivered = st.delivered /\ st'.output = st.output /\ st'.end = st.end
  /\ st'.done = st.done
  /\ st.failed => st'.failed
  /\ st'.cancelled => st.cancelled \/ st'.failed
  /\ st'.receiverAlive => st.receiverAlive
  /\ spool' = spool
  /\ worker'.item = worker.item /\ worker'.how = worker.how
  /\ worker'.pc = worker.pc \/ (worker.pc = "asleep" /\ worker'.pc = "next")

\* Such a step keeps the numbers.
LEMMA StreamFrame ==
  ASSUME Numbers, StreamSame
  PROVE  Numbers'
<1>1. Through' = Through
  BY DEF StreamSame, Through
<1>2. Queued'
  BY <1>1 DEF Numbers, StreamSame, Queued
<1>3. InHand'
  BY <1>1 DEF Numbers, StreamSame, InHand, Taken, Reading
<1>4. Spooled'
  BY DEF Numbers, StreamSame, Spooled, Reading
<1>5. Ending'
  BY DEF Numbers, StreamSame, Ending
<1> QED
  BY <1>2, <1>3, <1>4, <1>5 DEF Numbers

\* What a wake-up does to the worker.
LEMMA WokenSame ==
  ASSUME Types
  PROVE  /\ WokenWorker.item = worker.item /\ WokenWorker.how = worker.how
         /\ WokenWorker.pc = worker.pc \/ (worker.pc = "asleep" /\ WokenWorker.pc = "next")
BY DEF Types, WokenWorker, Workers

\* A cancellation raises its flags and owes the rest.
LEMMA CancelSame ==
  ASSUME Types, NEW a, Cancel(a)
  PROVE  /\ st'.queue = st.queue /\ st'.accepted = st.accepted /\ st'.written = st.written
         /\ st'.delivered = st.delivered /\ st'.output = st.output /\ st'.end = st.end
         /\ st'.done = st.done /\ st'.readyEnqueued = st.readyEnqueued
         /\ st'.receiverAlive = st.receiverAlive
         /\ st.failed => st'.failed
         /\ st'.cancelled => st.cancelled \/ st'.failed
         /\ ~st.done => st'.cancelled
BY DEF Types, StoreStates, Cancel

\* A producer's step moves the stream only by queueing its item.
LEMMA PushNumbers ==
  ASSUME Types, Types', Numbers, Writable,
         NEW item \in Items, item.seq = st.accepted + 1,
         item.kind \in {"note", "question", "ready"},
         item.kind = "note" => item.bytes \in Sizes,
         st'.queue = Append(st.queue, item), st'.accepted = st.accepted + 1,
         st'.written = st.written, st'.delivered = st.delivered, st'.output = st.output,
         st'.end = st.end, st'.failed = st.failed, st'.cancelled = st.cancelled,
         st'.receiverAlive = st.receiverAlive, st'.done = st.done,
         worker' = WokenWorker, UNCHANGED spool
  PROVE  Numbers'
<1>t. /\ st \in StoreStates /\ st.queue \in Seq(Items) /\ st.accepted \in Nat
      /\ Len(st.queue) \in Nat /\ spool \in Spools
  BY LenProperties DEF Types, StoreStates
<1>w. /\ worker'.item = worker.item /\ worker'.how = worker.how
      /\ worker'.pc = worker.pc \/ (worker.pc = "asleep" /\ worker'.pc = "next")
  BY WokenSame
<1>1. /\ st.end.kind = "none" /\ ~st.failed /\ ~st.done
      /\ Through = st.accepted /\ Through' = st.accepted + 1
      /\ worker.pc \notin {"strip", "report", "over"}
      /\ worker'.pc \notin {"strip", "report", "over"}
  BY <1>w DEF Writable, NoEnd, Through, Numbers, Ending
<1>2. /\ Len(st'.queue) = Len(st.queue) + 1 /\ DOMAIN st'.queue = 1..(Len(st.queue) + 1)
      /\ DOMAIN st.queue = 1..Len(st.queue)
      /\ \A i \in 1..Len(st.queue) : st'.queue[i] = st.queue[i]
      /\ st'.queue[Len(st.queue) + 1] = item
  BY <1>t, AppendProperties, LenProperties
<1>3. Queued'
  <2>1. ASSUME NEW i \in 1..(Len(st.queue) + 1)
        PROVE  /\ st'.queue[i].seq = ((st.accepted + 1) - (Len(st.queue) + 1)) + i
               /\ st'.queue[i].kind \in {"note", "question", "ready"}
               /\ st'.queue[i].kind = "note" => st'.queue[i].bytes \in Sizes
    <3>1. CASE i = Len(st.queue) + 1
      BY <3>1, <1>t, <1>2
    <3>2. CASE i \in 1..Len(st.queue)
      <4>1. st.queue[i].seq = (Through - Len(st.queue)) + i
        BY <3>2, <1>2 DEF Numbers, Queued
      <4>2. /\ st.queue[i].kind \in {"note", "question", "ready"}
            /\ st.queue[i].kind = "note" => st.queue[i].bytes \in Sizes
        BY <3>2, <1>2 DEF Numbers, Queued
      <4>3. st.queue[i].seq = ((st.accepted + 1) - (Len(st.queue) + 1)) + i
        BY <4>1, <1>1, <1>t
      <4> QED
        BY <3>2, <4>2, <4>3, <1>2
    <3> QED
      BY <3>1, <3>2, <1>t
  <2>2. spool.held + Len(st'.queue) <= Through'
    BY <1>1, <1>2, <1>t DEF Numbers, Queued, Spools
  <2>3. st'.end.kind = "none" /\ st'.end = NoEnd
    BY <1>1 DEF Writable
  <2> QED
    BY <1>1, <1>2, <2>1, <2>2, <2>3 DEF Queued
<1>4. InHand'
  <2>1. Taken => worker.item.seq + Len(st'.queue) <= Through'
    BY <1>1, <1>2, <1>t DEF Numbers, InHand, Types, Workers, Items
  <2> QED
    BY <1>w, <2>1 DEF Numbers, InHand, Taken, Reading
<1>5. Spooled'
  BY <1>w, <1>1, <1>t DEF Numbers, Spooled, Reading, StoreStates
<1>6. Ending'
  BY <1>w, <1>1 DEF Numbers, Ending
<1> QED
  BY <1>3, <1>4, <1>5, <1>6 DEF Numbers

\* No producer's step breaks the numbers: an item is queued under the next one.
LEMMA ProducerNumbers ==
  ASSUME Types, Types', Numbers, Calls, NEW p \in Producers,
         ProducerSteps(p) \/ ProducerCalls(p)
  PROVE  Numbers'
<1>1. ASSUME NEW bytes \in Sizes, Note(p, bytes) PROVE Numbers'
  BY <1>1, StreamFrame DEF Note, StreamSame
<1>2. CASE StrayNote(p)
  BY <1>2, StreamFrame, CancelSame DEF StrayNote, StreamSame
<1>3. CASE Question(p)
  BY <1>3, StreamFrame DEF Question, StreamSame
<1>4. CASE Permit(p)
  BY <1>4, StreamFrame DEF Permit, StreamSame
<1>5. CASE Register(p)
  BY <1>5, StreamFrame DEF Register, StreamSame
<1>6. CASE Check(p)
  BY <1>6, StreamFrame DEF Check, StreamSame
<1>7. CASE Retry(p)
  BY <1>7, StreamFrame DEF Retry, StreamSame
<1>8. CASE Enqueue(p)
  <2> DEFINE item == IF call[p].pc = "holding"
                     THEN Item(st.accepted + 1, "note", call[p].bytes)
                     ELSE Item(st.accepted + 1, "question", 0)
  <2>1. /\ item \in Items /\ item.seq = st.accepted + 1
        /\ item.kind \in {"note", "question", "ready"}
        /\ item.kind = "note" => item.bytes \in Sizes
    BY DEF Types, StoreStates, CallStates, Item, Items, Calls
  <2>2. CASE Writable
    <3>1. /\ st' = [st EXCEPT !.accepted = @ + 1, !.queue = Append(@, item)]
          /\ worker' = WokenWorker /\ UNCHANGED spool
      BY <1>8, <2>2 DEF Enqueue, Push
    <3> HIDE DEF item
    <3>2. /\ st'.queue = Append(st.queue, item) /\ st'.accepted = st.accepted + 1
          /\ st'.written = st.written /\ st'.delivered = st.delivered
          /\ st'.output = st.output /\ st'.end = st.end /\ st'.failed = st.failed
          /\ st'.cancelled = st.cancelled /\ st'.receiverAlive = st.receiverAlive
          /\ st'.done = st.done
      BY <3>1 DEF Types, StoreStates
    <3> QED
      BY <2>1, <2>2, <3>1, <3>2, PushNumbers
  <2>3. CASE ~Writable
    BY <1>8, <2>3, StreamFrame DEF Enqueue, StreamSame
  <2> QED
    BY <2>2, <2>3
<1> QED
  BY <1>1, <1>2, <1>3, <1>4, <1>5, <1>6, <1>7, <1>8 DEF ProducerSteps, ProducerCalls

\* The end of the stream takes its place once, behind all that was accepted.
LEMMA EndNumbers ==
  ASSUME Types, Types', Numbers, st.end.kind = "none", ~st.failed,
         st'.end.kind \in {"closing", "eof"}, st'.end.through = st.accepted,
         st'.end.kind = "closing" => /\ st'.accepted = st.accepted + 1
                                     /\ st'.end.seq = st'.accepted,
         st'.end.kind = "eof" => st'.accepted = st.accepted,
         st'.queue = st.queue, st'.written = st.written, st'.delivered = st.delivered,
         st'.output = st.output, st'.failed = st.failed, st'.cancelled = st.cancelled,
         st'.receiverAlive = st.receiverAlive, st'.done = st.done,
         UNCHANGED <<spool, worker>>
  PROVE  Numbers'
<1>t. st \in StoreStates /\ st.accepted \in Nat /\ st.written \in Nat /\ st.delivered \in Nat
  BY DEF Types, StoreStates
<1>1. /\ Through' = Through /\ Through = st.accepted
      /\ worker.pc \notin {"terminal", "strip", "report", "over"}
  BY DEF Through, Numbers, Ending
<1>2. Queued'
  BY <1>1, <1>t DEF Numbers, Queued
<1>3. InHand'
  BY <1>1 DEF Numbers, InHand, Taken, Reading
<1>4. Spooled'
  BY <1>t DEF Numbers, Spooled, Reading
<1>5. Ending'
  BY <1>1 DEF Numbers, Ending
<1> QED
  BY <1>2, <1>3, <1>4, <1>5 DEF Numbers

\* Nor does the transport's task, its opening, its end or an owed wake-up.
LEMMA TransportNumbers ==
  ASSUME Types, Types', Numbers,
         \/ DriverSteps \/ OpenerSteps \/ DropSteps
         \/ AcceptSession \/ RuntimeDropped \/ Answer
         \/ \E why \in {"closed", "failed", "transport"} : TransportEnds(why)
         \/ \E a \in Actors : Settle(a)
  PROVE  Numbers'
<1>1. CASE DriverDecides
  BY <1>1, StreamFrame DEF DriverDecides, StreamSame
<1>2. CASE DriverCancels
  BY <1>2, StreamFrame, CancelSame DEF DriverCancels, StreamSame
<1>3. CASE DriverJoins
  BY <1>3, StreamFrame DEF DriverJoins, StreamSame
<1>4. CASE DriverBeginsClose
  <2>1. CASE st.end # NoEnd \/ st.failed
    BY <1>4, <2>1, StreamFrame DEF DriverBeginsClose, BeginClose, StreamSame
  <2>2. CASE ~(st.end # NoEnd \/ st.failed)
    <3>1. st' = [st EXCEPT !.accepted = @ + 1,
                           !.end = [kind |-> "closing", through |-> st.accepted,
                                    seq |-> st.accepted + 1]]
      BY <1>4, <2>2 DEF DriverBeginsClose, BeginClose
    <3>2. /\ st'.end.kind = "closing" /\ st'.end.through = st.accepted
          /\ st'.accepted = st.accepted + 1 /\ st'.end.seq = st.accepted + 1
          /\ st'.queue = st.queue /\ st'.written = st.written
          /\ st'.delivered = st.delivered /\ st'.output = st.output
          /\ st'.failed = st.failed /\ st'.cancelled = st.cancelled
          /\ st'.receiverAlive = st.receiverAlive /\ st'.done = st.done
      BY <3>1 DEF Types, StoreStates
    <3>3. UNCHANGED <<spool, worker>>
      BY <1>4 DEF DriverBeginsClose
    <3> QED
      BY <2>2, <3>2, <3>3, EndNumbers DEF NoEnd
  <2> QED
    BY <2>1, <2>2
<1>5. CASE DriverCloses
  <2>1. CASE st.end.kind # "closing"
    BY <1>5, <2>1, StreamFrame DEF DriverCloses, ConfirmClose, StreamSame
  <2>2. CASE st.end.kind = "closing"
    <3>1. /\ st'.end.kind = "closed" /\ st'.end.through = st.end.through
          /\ st'.end.seq = st.end.seq
          /\ st'.queue = st.queue /\ st'.accepted = st.accepted /\ st'.written = st.written
          /\ st'.delivered = st.delivered /\ st'.output = st.output
          /\ st'.failed = st.failed /\ st'.cancelled = st.cancelled
          /\ st'.receiverAlive = st.receiverAlive /\ st'.done = st.done
          /\ UNCHANGED <<spool, worker>>
      BY <1>5, <2>2 DEF DriverCloses, ConfirmClose, Types, StoreStates, Ends
    <3>2. Through' = Through
      BY <2>2, <3>1 DEF Through
    <3>3. Queued'
      BY <2>2, <3>1, <3>2 DEF Numbers, Queued
    <3>4. InHand'
      BY <3>1, <3>2 DEF Numbers, InHand, Taken, Reading
    <3>5. Spooled'
      BY <3>1 DEF Numbers, Spooled, Reading
    <3>6. Ending'
      BY <2>2, <3>1 DEF Numbers, Ending
    <3> QED
      BY <3>3, <3>4, <3>5, <3>6 DEF Numbers
  <2> QED
    BY <2>1, <2>2
<1>6. CASE OpenerPublishes
  <2>1. CASE Writable
    <3> DEFINE item == Item(st.accepted + 1, "ready", 0)
    <3>1. /\ item \in Items /\ item.seq = st.accepted + 1 /\ item.kind = "ready"
      BY DEF Types, StoreStates, Item, Items
    <3>2. /\ st' = [st EXCEPT !.accepted = @ + 1, !.readyEnqueued = TRUE,
                              !.queue = Append(@, item)]
          /\ worker' = WokenWorker /\ UNCHANGED spool
      BY <1>6, <2>1 DEF OpenerPublishes
    <3> HIDE DEF item
    <3>3. /\ st'.queue = Append(st.queue, item) /\ st'.accepted = st.accepted + 1
          /\ st'.written = st.written /\ st'.delivered = st.delivered
          /\ st'.output = st.output /\ st'.end = st.end /\ st'.failed = st.failed
          /\ st'.cancelled = st.cancelled /\ st'.receiverAlive = st.receiverAlive
          /\ st'.done = st.done
      BY <3>2 DEF Types, StoreStates
    <3> QED
      BY <2>1, <3>1, <3>2, <3>3, PushNumbers
  <2>2. CASE ~Writable
    BY <1>6, <2>2, StreamFrame DEF OpenerPublishes, StreamSame
  <2> QED
    BY <2>1, <2>2
<1>7. CASE OpenerRefuses
  BY <1>7, StreamFrame DEF OpenerRefuses, StreamSame
<1>8. CASE OpenerCancels
  BY <1>8, StreamFrame, CancelSame DEF OpenerCancels, StreamSame
<1>9. CASE GuardCancels
  BY <1>9, StreamFrame, CancelSame DEF GuardCancels, StreamSame
<1>10. CASE SourceEof
  <2>1. CASE st.end # NoEnd \/ st.failed
    BY <1>10, <2>1, StreamFrame DEF SourceEof, StreamSame
  <2>2. CASE ~(st.end # NoEnd \/ st.failed)
    <3>1. st' = [st EXCEPT !.end = [kind |-> "eof", through |-> st.accepted, seq |-> 0]]
      BY <1>10, <2>2 DEF SourceEof
    <3>2. /\ st'.end.kind = "eof" /\ st'.end.through = st.accepted
          /\ st'.accepted = st.accepted
          /\ st'.queue = st.queue /\ st'.written = st.written
          /\ st'.delivered = st.delivered /\ st'.output = st.output
          /\ st'.failed = st.failed /\ st'.cancelled = st.cancelled
          /\ st'.receiverAlive = st.receiverAlive /\ st'.done = st.done
      BY <3>1 DEF Types, StoreStates
    <3>3. UNCHANGED <<spool, worker>>
      BY <1>10 DEF SourceEof
    <3> QED
      BY <2>2, <3>2, <3>3, EndNumbers DEF NoEnd
  <2> QED
    BY <2>1, <2>2
<1>11. CASE ReceiverLeaves
  BY <1>11, StreamFrame DEF ReceiverLeaves, StreamSame, Types, StoreStates
<1>12. CASE ReceiverCancels
  BY <1>12, StreamFrame, CancelSame DEF ReceiverCancels, StreamSame
<1>13. CASE AcceptSession
  BY <1>13, StreamFrame DEF AcceptSession, StreamSame, Types, StoreStates
<1>14. CASE RuntimeDropped
  BY <1>14, StreamFrame DEF RuntimeDropped, StreamSame
<1>15. CASE Answer
  BY <1>15, StreamFrame DEF Answer, StreamSame
<1>16. ASSUME NEW why, TransportEnds(why) PROVE Numbers'
  BY <1>16, StreamFrame DEF TransportEnds, StreamSame
<1>17. ASSUME NEW a \in Actors, Settle(a) PROVE Numbers'
  BY <1>17, StreamFrame, WokenSame DEF Settle, StreamSame
<1> QED
  BY <1>1, <1>2, <1>3, <1>4, <1>5, <1>6, <1>7, <1>8, <1>9, <1>10, <1>11, <1>12, <1>13,
     <1>14, <1>15, <1>16, <1>17 DEF DriverSteps, OpenerSteps, DropSteps

\* A worker that stops lets go of what it held.
LEMMA StopNumbers ==
  ASSUME Types, Types', Numbers, NEW how \in {"cancelled", "failed", "source"}, Stops(how),
         worker.pc \in {"create", "next", "append", "read", "slot"},
         UNCHANGED <<st, spool>>,
         how = "cancelled" => st.cancelled,
         how = "source" => /\ worker.pc = "next" /\ st.end.kind \in {"eof", "closed"}
                           /\ st.queue = <<>> /\ st.output = None
                           /\ st.delivered >= st.end.through
  PROVE  Numbers'
<1>t. /\ st.accepted \in Nat /\ st.delivered \in Nat /\ st.end \in Ends
      /\ spool.held \in Nat /\ spool.read \in Nat /\ Len(st.queue) \in Nat
  BY LenProperties DEF Types, StoreStates, Spools
<1>1. /\ worker'.pc = IF how = "failed" THEN "failing" ELSE "strip"
      /\ worker'.how = how /\ worker'.item = None
  BY DEF Stops, Types, Workers
<1>2. Queued'
  BY DEF Numbers, Queued, Through
<1>3. InHand'
  BY <1>1 DEF InHand, Taken, Reading
<1>4. Spooled'
  BY <1>1 DEF Numbers, Spooled, Reading
<1>5. how = "source" => st.delivered = st.end.through
  <2>1. st.delivered <= spool.read /\ spool.read <= spool.held
    BY DEF Numbers, Spooled
  <2>2. spool.held + Len(st.queue) <= Through /\ Through \in Nat
    BY <1>t DEF Numbers, Queued, Through, Ends
  <2>3. how = "source" => Through = st.end.through /\ st.delivered >= st.end.through
    BY DEF Through
  <2> QED
    BY <2>1, <2>2, <2>3, <1>t
<1>6. Ending'
  BY <1>1, <1>5 DEF Numbers, Ending
<1> QED
  BY <1>2, <1>3, <1>4, <1>6 DEF Numbers

\* What the worker takes from the queue comes right after what the spool holds.
LEMMA NextWorkNumbers ==
  ASSUME Types, Types', Numbers, NextWork
  PROVE  Numbers'
<1>t. /\ st \in StoreStates /\ st.queue \in Seq(Items) /\ Len(st.queue) \in Nat
      /\ worker \in Workers /\ spool \in Spools /\ st.end \in Ends
      /\ Through \in Nat
  BY LenProperties DEF Types, StoreStates, Through, Ends
<1>n. worker.pc = "next" /\ UNCHANGED spool
  BY DEF NextWork, At
<1>1. CASE st.cancelled /\ Stops("cancelled") /\ UNCHANGED st
  BY <1>1, <1>n, StopNumbers
<1>2. CASE TerminalDue /\ Moves("terminal") /\ UNCHANGED st
  <2>1. /\ worker'.pc = "terminal" /\ worker'.item = worker.item /\ worker'.how = worker.how
        /\ st.end.kind = "closed"
    BY <1>2, <1>t DEF Moves, Workers, TerminalDue
  <2>2. Queued'
    BY <1>2, <1>n DEF Numbers, Queued, Through
  <2>3. InHand'
    BY <1>2, <1>n, <2>1 DEF Numbers, InHand, Taken, Reading, Through
  <2>4. Spooled'
    BY <1>2, <1>n, <2>1 DEF Numbers, Spooled, Reading
  <2>5. Ending'
    BY <1>2, <1>n, <2>1 DEF Numbers, Ending
  <2> QED
    BY <2>2, <2>3, <2>4, <2>5 DEF Numbers
<1>3. CASE FinishDue /\ Stops("source") /\ UNCHANGED st
  BY <1>3, <1>n, StopNumbers DEF FinishDue, Drained
<1>4. CASE ReadDue /\ Moves("read") /\ st' = [st EXCEPT !.readRequested = FALSE]
  <2>1. /\ worker'.pc = "read" /\ worker'.item = worker.item /\ worker'.how = worker.how
        /\ st.output = None
        /\ st'.queue = st.queue /\ st'.accepted = st.accepted /\ st'.written = st.written
        /\ st'.delivered = st.delivered /\ st'.output = st.output /\ st'.end = st.end
        /\ st'.failed = st.failed /\ st'.cancelled = st.cancelled
        /\ st'.receiverAlive = st.receiverAlive /\ st'.done = st.done
    BY <1>4, <1>t DEF Moves, Workers, ReadDue, Readable, StoreStates
  <2>2. Queued'
    BY <1>n, <2>1 DEF Numbers, Queued, Through
  <2>3. InHand'
    BY <1>n, <2>1 DEF Numbers, InHand, Taken, Reading, Through
  <2>4. Spooled'
    BY <1>n, <2>1 DEF Numbers, Spooled, Reading
  <2>5. Ending'
    BY <1>n, <2>1 DEF Numbers, Ending
  <2> QED
    BY <2>2, <2>3, <2>4, <2>5 DEF Numbers
<1>5. CASE /\ st.queue # <<>>
           /\ worker' = [worker EXCEPT !.pc = "append", !.item = Head(st.queue)]
           /\ st' = [st EXCEPT !.queue = Tail(@)]
  <2>1. /\ worker'.pc = "append" /\ worker'.item = Head(st.queue) /\ worker'.how = worker.how
        /\ st'.queue = Tail(st.queue) /\ st'.accepted = st.accepted
        /\ st'.written = st.written
        /\ st'.delivered = st.delivered /\ st'.output = st.output /\ st'.end = st.end
        /\ st'.failed = st.failed /\ st'.cancelled = st.cancelled
        /\ st'.receiverAlive = st.receiverAlive /\ st'.done = st.done
    BY <1>5, <1>t DEF Workers, StoreStates
  <2>2. /\ Head(st.queue) = st.queue[1] /\ Len(Tail(st.queue)) = Len(st.queue) - 1
        /\ DOMAIN st.queue = 1..Len(st.queue) /\ Len(st.queue) > 0
        /\ DOMAIN Tail(st.queue) = 1..(Len(st.queue) - 1)
        /\ \A i \in 1..(Len(st.queue) - 1) : Tail(st.queue)[i] = st.queue[i + 1]
    <3>1. /\ Tail(st.queue) \in Seq(Items)
          /\ Len(Tail(st.queue)) = Len(st.queue) - 1
          /\ \A i \in 1..Len(Tail(st.queue)) : Tail(st.queue)[i] = st.queue[i + 1]
      BY <1>5, <1>t, HeadTailProperties
    <3>2. DOMAIN Tail(st.queue) = 1..Len(Tail(st.queue)) /\ DOMAIN st.queue = 1..Len(st.queue)
      BY <3>1, <1>t, LenProperties
    <3>3. Len(st.queue) > 0
      BY <1>5, <1>t, EmptySeq
    <3> QED
      BY <3>1, <3>2, <3>3, <1>t
  <2>3. Through' = Through
    BY <2>1 DEF Through
  <2>4. Queued'
    <3>1. ASSUME NEW i \in 1..(Len(st.queue) - 1)
          PROVE  /\ Tail(st.queue)[i].seq = (Through - (Len(st.queue) - 1)) + i
                 /\ Tail(st.queue)[i].kind \in {"note", "question", "ready"}
                 /\ Tail(st.queue)[i].kind = "note" => Tail(st.queue)[i].bytes \in Sizes
      <4>1. i + 1 \in DOMAIN st.queue /\ Tail(st.queue)[i] = st.queue[i + 1]
        BY <2>2, <1>t
      <4>2. st.queue[i + 1].seq = (Through - Len(st.queue)) + (i + 1)
        BY <4>1 DEF Numbers, Queued
      <4>3. st.queue[i + 1].seq = (Through - (Len(st.queue) - 1)) + i
        BY <4>2, <1>t
      <4> QED
        BY <4>1, <4>3 DEF Numbers, Queued
    <3>2. spool.held + (Len(st.queue) - 1) <= Through
      BY <1>t DEF Numbers, Queued, Spools
    <3> QED
      BY <1>n, <2>1, <2>2, <2>3, <3>1, <3>2 DEF Numbers, Queued
  <2>5. InHand'
    <3>1. 1 \in DOMAIN st.queue
      BY <2>2, <1>t
    <3>2. st.queue[1].seq = (Through - Len(st.queue)) + 1
      BY <3>1 DEF Numbers, Queued
    <3>3. spool.held + Len(st.queue) <= Through
      BY DEF Numbers, Queued
    <3>4. /\ st.queue[1].seq + (Len(st.queue) - 1) <= Through
          /\ spool.held < st.queue[1].seq
      <4>1. Len(st.queue) \in Nat /\ Through \in Nat /\ spool.held \in Nat
        BY <1>t DEF Spools
      <4>2. ASSUME NEW t \in Nat, NEW l \in Nat, NEW h \in Nat, h + l <= t
            PROVE  ((t - l) + 1) + (l - 1) <= t /\ h < (t - l) + 1
        BY <4>2
      <4> QED
        BY <3>2, <3>3, <4>1, <4>2
    <3> QED
      BY <1>n, <2>1, <2>2, <2>3, <3>1, <3>4 DEF Numbers, Queued, InHand, Taken, Reading
  <2>6. Spooled'
    BY <1>n, <2>1 DEF Numbers, Spooled, Reading
  <2>7. Ending'
    BY <1>n, <2>1 DEF Numbers, Ending
  <2> QED
    BY <2>4, <2>5, <2>6, <2>7 DEF Numbers
<1>6. CASE Moves("asleep") /\ UNCHANGED st
  <2>1. worker'.pc = "asleep" /\ worker'.item = worker.item /\ worker'.how = worker.how
    BY <1>6, <1>t DEF Moves, Workers
  <2>2. Queued'
    BY <1>6, <1>n DEF Numbers, Queued, Through
  <2>3. InHand'
    BY <1>6, <1>n, <2>1 DEF Numbers, InHand, Taken, Reading, Through
  <2>4. Spooled'
    BY <1>6, <1>n, <2>1 DEF Numbers, Spooled, Reading
  <2>5. Ending'
    BY <1>6, <1>n, <2>1 DEF Numbers, Ending
  <2> QED
    BY <2>2, <2>3, <2>4, <2>5 DEF Numbers
<1> QED
  BY <1>1, <1>2, <1>3, <1>4, <1>5, <1>6 DEF NextWork

\* What the worker reads is the next record of the spool.
LEMMA ReadNumbers ==
  ASSUME Types, Types', Numbers, ReadRecord
  PROVE  Numbers'
<1>t. /\ worker \in Workers /\ spool \in Spools /\ spool.held \in Nat /\ spool.read \in Nat
      /\ st.delivered \in Nat
  BY DEF Types, Spools, StoreStates
<1>n. worker.pc = "read" /\ UNCHANGED st
  BY DEF ReadRecord, At
<1>1. CASE StopsOnError /\ UNCHANGED spool
  BY <1>1, <1>n, StopNumbers DEF StopsOnError
<1>2. CASE ~(StopsOnError /\ UNCHANGED spool)
  <2> DEFINE seq == spool.read + 1
  <2> DEFINE asked == {q \in spool.live : q.seq = seq}
  <2> DEFINE item == IF asked # {} THEN CHOOSE q \in asked : TRUE ELSE Item(seq, "data", 0)
  <2>1. /\ spool.read < spool.held
        /\ spool' = [spool EXCEPT !.read = seq, !.live = @ \ asked]
        /\ worker' = [worker EXCEPT !.pc = "slot", !.item = item]
    BY <1>2 DEF ReadRecord
  <2>2. /\ \A q \in spool.live : q \in Items /\ q.kind = "question" /\ q.seq \in Nat
                                  /\ spool.read < q.seq /\ q.seq <= spool.held
        /\ \A q, r \in spool.live : q.seq = r.seq => q = r
    BY <1>t DEF Numbers, Spooled, Spools, Items
  <2>3. item.kind \in {"question", "data"} /\ item.seq = seq
    BY <2>2 DEF Item
  <2>4. \A q \in spool.live \ asked : q.seq # seq
    OBVIOUS
  <2> HIDE DEF asked, item
  <2>5. /\ worker'.pc = "slot" /\ worker'.item = item /\ worker'.how = worker.how
        /\ spool'.read = spool.read + 1 /\ spool'.held = spool.held
        /\ spool'.live = spool.live \ asked
    BY <2>1, <1>t DEF Workers, Spools
  <2>6. Through' = Through
    BY <1>n DEF Through
  <2>7. Queued'
    BY <1>n, <2>5, <2>6 DEF Numbers, Queued
  <2>8. InHand'
    BY <2>3, <2>5 DEF InHand, Taken, Reading
  <2>9. Spooled'
    <3>1. /\ st.output = None /\ spool.read = st.delivered
          /\ st.delivered <= st.accepted /\ st.written <= st.accepted
      BY <1>n DEF Numbers, Spooled, Reading
    <3>2. \A q \in spool'.live : q.kind = "question" /\ spool'.read < q.seq
                                  /\ q.seq <= spool'.held
      BY <2>2, <2>4, <2>5, <1>t
    <3>3. \A q, r \in spool'.live : q.seq = r.seq => q = r
      BY <2>2, <2>5
    <3>4. spool'.read <= spool'.held /\ st'.delivered <= spool'.read
      BY <2>1, <2>5, <3>1, <1>t, <1>n
    <3> QED
      BY <1>n, <2>5, <3>1, <3>2, <3>3, <3>4 DEF Spooled, Reading
  <2>10. Ending'
    BY <1>n, <2>5 DEF Numbers, Ending
  <2> QED
    BY <2>7, <2>8, <2>9, <2>10 DEF Numbers
<1> QED
  BY <1>1, <1>2

\* What it appends goes behind all the spool holds.
LEMMA AppendNumbers ==
  ASSUME Types, Types', Numbers, AppendRecord
  PROVE  Numbers'
<1>t. /\ worker \in Workers /\ worker.item \in Items /\ spool \in Spools
      /\ spool.held \in Nat /\ spool.read \in Nat /\ Len(st.queue) \in Nat /\ Through \in Nat
  BY LenProperties DEF Types, Spools, StoreStates, Through, Ends, Workers
<1>n. worker.pc = "append" /\ UNCHANGED st
  BY DEF AppendRecord, At
<1>1. CASE StopsOnError /\ UNCHANGED spool
  BY <1>1, <1>n, StopNumbers DEF StopsOnError
<1>2. CASE /\ Moves("publish")
           /\ spool' = [spool EXCEPT !.held = worker.item.seq,
                                     !.live = @ \cup Questions({worker.item})]
  <2>1. /\ worker'.pc = "publish" /\ worker'.item = worker.item /\ worker'.how = worker.how
        /\ spool'.read = spool.read /\ spool'.held = worker.item.seq
        /\ spool'.live = spool.live \cup Questions({worker.item})
    BY <1>2, <1>t DEF Moves, Workers, Spools
  <2>2. /\ worker.item.seq \in Nat /\ spool.held < worker.item.seq
        /\ worker.item.seq + Len(st.queue) <= Through
        /\ worker.item.kind \in {"note", "question", "ready"}
        /\ worker.item.kind = "note" => worker.item.bytes \in Sizes
    BY <1>n, <1>t DEF Numbers, InHand, Taken, Items
  <2>3. Through' = Through
    BY <1>n DEF Through
  <2>4. Queued'
    <3>1. spool'.held + Len(st.queue) <= Through
      BY <2>1, <2>2
    <3> QED
      BY <1>n, <2>3, <3>1 DEF Numbers, Queued
  <2>5. InHand'
    BY <1>n, <2>1, <2>2, <2>3 DEF InHand, Taken, Reading, Questions
  <2>6. Spooled'
    <3>1. \A q \in spool.live : /\ q \in Items /\ q.kind = "question" /\ q.seq \in Nat
                                /\ spool.read < q.seq /\ q.seq <= spool.held
      BY <1>t DEF Numbers, Spooled, Spools, Items
    <3>2. \A q, r \in spool.live : q.seq = r.seq => q = r
      BY DEF Numbers, Spooled
    <3>3. spool.read <= spool.held
      BY DEF Numbers, Spooled
    <3>4. \A q \in spool'.live : q.kind = "question" /\ spool'.read < q.seq
                                  /\ q.seq <= spool'.held
      <4>1. ASSUME NEW q \in spool.live PROVE q.kind = "question" /\ spool.read < q.seq
                                                /\ q.seq <= worker.item.seq
        BY <1>t, <2>2, <3>1
      <4>2. ASSUME NEW q \in Questions({worker.item})
            PROVE  q.kind = "question" /\ spool.read < q.seq /\ q.seq <= worker.item.seq
        BY <1>t, <2>2, <3>3 DEF Questions
      <4> QED
        BY <2>1, <4>1, <4>2
    <3>6. \A q, r \in spool'.live : q.seq = r.seq => q = r
      <4>1. ASSUME NEW q \in spool.live, NEW r \in Questions({worker.item})
            PROVE  q.seq # r.seq
        BY <1>t, <2>2, <3>1 DEF Questions
      <4>2. ASSUME NEW q \in Questions({worker.item}), NEW r \in Questions({worker.item})
            PROVE  q = r
        BY DEF Questions
      <4> QED
        BY <2>1, <3>2, <4>1, <4>2
    <3>7. spool'.read <= spool'.held
      BY <1>t, <2>1, <2>2, <3>3
    <3>8. /\ st.output # None =>
               st.output.seq = spool.read /\ st.output.kind \in {"question", "data"}
          /\ st.output # None => spool.read = st.delivered + 1
          /\ st.output = None => spool.read = st.delivered
          /\ st.delivered <= st.accepted /\ st.written <= st.accepted
          /\ st.delivered <= spool.read
      BY <1>n DEF Numbers, Spooled, Reading
    <3> QED
      BY <1>n, <2>1, <3>4, <3>6, <3>7, <3>8 DEF Spooled, Reading
  <2>7. Ending'
    BY <1>n, <2>1 DEF Numbers, Ending
  <2> QED
    BY <2>4, <2>5, <2>6, <2>7 DEF Numbers
<1> QED
  BY <1>1, <1>2 DEF AppendRecord

\* The end of the worker, from its failure to the report.
LEMMA ClosingNumbers ==
  ASSUME Types, Types', Numbers, FailStore \/ Strip \/ Report
  PROVE  Numbers'
<1>t. /\ worker \in Workers /\ spool \in Spools /\ st \in StoreStates /\ st.end \in Ends
      /\ Through \in Nat /\ Len(st.queue) \in Nat /\ spool.held \in Nat
      /\ Len(<<>>) = 0 /\ DOMAIN <<>> = {}
  BY LenProperties, EmptySeq DEF Types, StoreStates, Through, Ends, Spools
<1>1. CASE FailStore
  <2>1. /\ worker.pc = "failing" /\ worker'.pc = "strip" /\ worker'.item = worker.item
        /\ worker'.how = worker.how /\ UNCHANGED spool
    BY <1>1, <1>t DEF FailStore, At, Moves, Workers
  <2>2. /\ st'.queue = st.queue /\ st'.accepted = st.accepted /\ st'.written = st.written
        /\ st'.delivered = st.delivered /\ st'.output = st.output /\ st'.end = st.end
        /\ st'.done = st.done
        /\ st.failed => st'.failed
        /\ st'.cancelled => st.cancelled \/ st'.failed
        /\ ~st.done => st'.cancelled
    BY <1>1, CancelSame DEF FailStore
  <2>3. Through' = Through
    BY <2>2 DEF Through
  <2>4. Queued'
    BY <2>1, <2>2, <2>3 DEF Numbers, Queued
  <2>5. InHand'
    BY <2>1, <2>2, <2>3 DEF Numbers, InHand, Taken, Reading
  <2>6. Spooled'
    BY <2>1, <2>2 DEF Numbers, Spooled, Reading
  <2>7. Ending'
    <3>1. ~st.done /\ (st.cancelled => st.failed) /\ worker.how = "failed"
      BY <2>1 DEF Numbers, Ending
    <3>2. st'.failed /\ ~st'.done
      BY <2>2, <3>1
    <3> QED
      BY <2>1, <3>1, <3>2 DEF Ending
  <2> QED
    BY <2>4, <2>5, <2>6, <2>7 DEF Numbers
<1>2. CASE Strip
  <2>1. /\ worker.pc = "strip" /\ worker'.pc = "report" /\ worker'.item = worker.item
        /\ worker'.how = worker.how
        /\ spool'.held = spool.held /\ spool'.read = spool.read /\ spool'.live = {}
    BY <1>2, <1>t DEF Strip, At, Moves, Workers, Spools
  <2>2. /\ st'.queue = <<>> /\ st'.accepted = st.accepted /\ st'.written = st.written
        /\ st'.delivered = st.delivered /\ st'.end = st.end
        /\ st'.output = (IF worker.how = "source" THEN st.output ELSE None)
        /\ st'.failed = st.failed /\ st'.cancelled = st.cancelled
        /\ st'.receiverAlive = st.receiverAlive /\ st'.done = st.done
    BY <1>2, <1>t DEF Strip, StoreStates
  <2>3. Through' = Through
    BY <2>2 DEF Through
  <2>4. st'.output = None
    BY <2>1, <2>2 DEF Numbers, Ending
  <2>5. Queued'
    <3>1. spool.held + Len(<<>>) <= Through
      BY <1>t DEF Numbers, Queued
    <3> QED
      BY <1>t, <2>1, <2>2, <2>3, <3>1 DEF Numbers, Queued
  <2>6. InHand'
    BY <2>1 DEF Numbers, InHand, Taken, Reading
  <2>7. Spooled'
    BY <2>1, <2>2, <2>4 DEF Numbers, Spooled, Reading
  <2>8. Ending'
    BY <2>1, <2>2, <2>4 DEF Numbers, Ending
  <2> QED
    BY <2>5, <2>6, <2>7, <2>8 DEF Numbers
<1>3. CASE Report
  <2> DEFINE broken == worker.how = "failed" \/ trouble = "dirty"
  <2> DEFINE closed == IF worker.how = "source" /\ ~broken
              THEN IF st.end.kind = "closed" THEN Item(st.end.seq, "closed", 0) ELSE None
              ELSE Item(0, "closed", 0)
  <2>1. /\ worker.pc = "report" /\ worker'.pc = "over" /\ worker'.item = worker.item
        /\ worker'.how = worker.how /\ UNCHANGED spool
    BY <1>3, <1>t DEF Report, At, Moves, Workers
  <2>2. /\ st'.queue = st.queue /\ st'.accepted = st.accepted /\ st'.written = st.written
        /\ st'.delivered = st.delivered /\ st'.end = st.end
        /\ st'.output = (IF st.receiverAlive THEN closed ELSE st.output)
        /\ (st'.failed <=> st.failed \/ broken) /\ st'.cancelled = st.cancelled
        /\ st'.receiverAlive = st.receiverAlive /\ st'.done
    <3>1. st' = [st EXCEPT !.failed = st.failed \/ broken, !.done = TRUE,
                          !.output = IF st.receiverAlive THEN closed ELSE @]
      BY <1>3 DEF Report
    <3> HIDE DEF broken, closed
    <3> QED
      BY <3>1, <1>t DEF StoreStates
  <2>3. Through' = Through
    BY <2>2 DEF Through
  <2>4. Queued'
    BY <2>1, <2>2, <2>3 DEF Numbers, Queued
  <2>5. InHand'
    BY <2>1 DEF Numbers, InHand, Taken, Reading
  <2>6. Spooled'
    BY <2>1, <2>2 DEF Numbers, Spooled, Reading
  <2>7. Ending'
    <3>1. /\ st.queue = <<>> /\ spool.live = {} /\ st.output = None
          /\ st.failed \/ st.end.kind # "none"
          /\ worker.how # "source" => st.failed
          /\ worker.how = "source" => /\ st.end.kind \in {"eof", "closed"}
                                      /\ st.delivered = st.end.through
      BY <2>1 DEF Numbers, Ending
    <3>2. /\ st.end.kind = "closed" =>
               st.end.seq = st.accepted /\ st.accepted = st.end.through + 1
          /\ st.end.kind = "eof" => st.end.through = st.accepted
      BY DEF Numbers, Queued
    <3>3. st'.output # None =>
            /\ st'.output.kind = "closed"
            /\ st'.output.seq = 0 => st'.failed
            /\ st'.output.seq # 0 =>
                 st'.output.seq = st'.delivered + 1 /\ st'.output.seq = st'.accepted
      <4>1. CASE ~st.receiverAlive
        BY <4>1, <2>2, <3>1
      <4>2. CASE st.receiverAlive /\ (worker.how # "source" \/ broken)
        BY <4>2, <2>2, <3>1 DEF Item
      <4>3. CASE st.receiverAlive /\ worker.how = "source" /\ ~broken
        <5>1. st'.output = IF st.end.kind = "closed" THEN Item(st.end.seq, "closed", 0) ELSE None
          BY <4>3, <2>2
        <5>2. st.accepted \in Nat /\ st.end.through \in Nat
          BY <1>t DEF StoreStates, Ends
        <5> QED
          BY <4>3, <5>1, <5>2, <2>2, <3>1, <3>2 DEF Item
      <4> QED
        BY <4>1, <4>2, <4>3
    <3>4. st'.output = None /\ ~st'.failed /\ st'.receiverAlive => st'.delivered = st'.accepted
      <4> SUFFICES ASSUME st'.output = None, ~st'.failed, st'.receiverAlive
                   PROVE  st'.delivered = st'.accepted
        OBVIOUS
      <4>1. worker.how = "source" /\ ~broken /\ st.receiverAlive
        BY <2>2, <3>1
      <4>2. st.end.kind = "eof"
        BY <4>1, <2>2, <3>1 DEF Item, None
      <4> QED
        BY <4>1, <4>2, <2>2, <3>1, <3>2
    <3>5. st'.cancelled => st'.failed
      BY <2>2 DEF Numbers, Ending
    <3>6. st'.failed \/ st'.end.kind # "none"
      BY <2>2, <3>1
    <3> HIDE DEF broken, closed
    <3> QED
      BY <2>1, <2>2, <3>1, <3>3, <3>4, <3>5, <3>6 DEF Ending
  <2> QED
    BY <2>4, <2>5, <2>6, <2>7 DEF Numbers
<1> QED
  BY <1>1, <1>2, <1>3

\* The rest of what the worker does.
LEMMA WorkerNumbers ==
  ASSUME Types, Types', Numbers, WorkerSteps
  PROVE  Numbers'
<1>t. /\ worker \in Workers /\ worker.item \in Items /\ spool \in Spools /\ st \in StoreStates
      /\ st.end \in Ends /\ Through \in Nat /\ Len(st.queue) \in Nat /\ spool.held \in Nat
  BY LenProperties DEF Types, StoreStates, Through, Ends, Spools, Workers
<1>1. CASE Create
  <2>1. CASE Moves("next")
    <3>1. /\ worker.pc = "create" /\ worker'.pc = "next" /\ worker'.item = worker.item
          /\ worker'.how = worker.how /\ UNCHANGED <<st, spool>>
      BY <1>1, <2>1, <1>t DEF Create, At, Moves, Workers
    <3>2. Queued'
      BY <3>1 DEF Numbers, Queued, Through
    <3>3. InHand'
      BY <3>1 DEF Numbers, InHand, Taken, Reading
    <3>4. Spooled'
      BY <3>1 DEF Numbers, Spooled, Reading
    <3>5. Ending'
      BY <3>1 DEF Numbers, Ending
    <3> QED
      BY <3>2, <3>3, <3>4, <3>5 DEF Numbers
  <2>2. CASE StopsOnError
    BY <1>1, <2>2, StopNumbers DEF Create, At, StopsOnError
  <2> QED
    BY <1>1, <2>1, <2>2 DEF Create
<1>2. CASE Publish
  <2>1. /\ worker.pc = "publish" /\ worker'.pc = "written" /\ worker'.item = worker.item
        /\ worker'.how = worker.how /\ UNCHANGED spool
    BY <1>2, <1>t DEF Publish, At, Moves, Workers
  <2>2. /\ st'.queue = st.queue /\ st'.accepted = st.accepted
        /\ st'.written = worker.item.seq
        /\ st'.delivered = st.delivered /\ st'.output = st.output /\ st'.end = st.end
        /\ st'.failed = st.failed /\ st'.cancelled = st.cancelled
        /\ st'.receiverAlive = st.receiverAlive /\ st'.done = st.done
    BY <1>2, <1>t DEF Publish, StoreStates
  <2>3. Through' = Through
    BY <2>2 DEF Through
  <2>4. st'.written <= st.accepted
    <3>1. worker.item.seq + Len(st.queue) <= Through /\ worker.item.seq \in Nat
      BY <2>1, <1>t DEF Numbers, InHand, Taken, Items
    <3>2. Through <= st.accepted /\ st.accepted \in Nat
      BY <1>t DEF Numbers, Queued, Through, StoreStates
    <3> HIDE DEF Through
    <3> QED
      BY <3>1, <3>2, <2>2, <1>t
  <2>5. Queued'
    BY <2>1, <2>2, <2>3 DEF Numbers, Queued
  <2>6. InHand'
    BY <2>1, <2>2, <2>3 DEF Numbers, InHand, Taken, Reading
  <2>7. Spooled'
    BY <2>1, <2>2, <2>4 DEF Numbers, Spooled, Reading
  <2>8. Ending'
    BY <2>1, <2>2 DEF Numbers, Ending
  <2> QED
    BY <2>5, <2>6, <2>7, <2>8 DEF Numbers
<1>3. CASE DropWritten
  <2>1. /\ worker.pc = "written" /\ worker'.pc = "next" /\ worker'.item = None
        /\ worker'.how = worker.how /\ UNCHANGED <<st, spool>>
    BY <1>3, <1>t DEF DropWritten, At, Workers
  <2>2. Queued'
    BY <2>1 DEF Numbers, Queued, Through
  <2>3. InHand'
    BY <2>1 DEF Numbers, InHand, Taken, Reading
  <2>4. Spooled'
    BY <2>1 DEF Numbers, Spooled, Reading
  <2>5. Ending'
    BY <2>1 DEF Numbers, Ending
  <2> QED
    BY <2>2, <2>3, <2>4, <2>5 DEF Numbers
<1>4. CASE PublishTerminal
  <2>1. /\ worker.pc = "terminal" /\ worker'.pc = "next" /\ worker'.item = worker.item
        /\ worker'.how = worker.how /\ UNCHANGED spool
    BY <1>4, <1>t DEF PublishTerminal, At, Moves, Workers
  <2>2. /\ st'.queue = st.queue /\ st'.accepted = st.accepted
        /\ st'.written = st.end.seq
        /\ st'.delivered = st.delivered /\ st'.output = st.output /\ st'.end = st.end
        /\ st'.failed = st.failed /\ st'.cancelled = st.cancelled
        /\ st'.receiverAlive = st.receiverAlive /\ st'.done = st.done
    BY <1>4, <1>t DEF PublishTerminal, StoreStates
  <2>3. Through' = Through
    BY <2>2 DEF Through
  <2>4. st'.written <= st.accepted
    BY <2>1, <2>2, <1>t DEF Numbers, Ending, Queued, StoreStates
  <2>5. Queued'
    BY <2>1, <2>2, <2>3 DEF Numbers, Queued
  <2>6. InHand'
    BY <2>1, <2>2, <2>3 DEF Numbers, InHand, Taken, Reading
  <2>7. Spooled'
    BY <2>1, <2>2, <2>4 DEF Numbers, Spooled, Reading
  <2>8. Ending'
    BY <2>1, <2>2 DEF Numbers, Ending
  <2> QED
    BY <2>5, <2>6, <2>7, <2>8 DEF Numbers
<1>5. CASE FillSlot
  <2>n. worker.pc = "slot" /\ UNCHANGED spool /\ st.output = None
    BY <1>5 DEF FillSlot, At, Numbers, Spooled
  <2>1. CASE st.cancelled
    BY <1>5, <2>n, <2>1, StopNumbers DEF FillSlot
  <2>2. CASE ~st.cancelled
    <3>1. /\ worker'.pc = "next" /\ worker'.item = None /\ worker'.how = worker.how
          /\ st'.queue = st.queue /\ st'.accepted = st.accepted
          /\ st'.written = st.written /\ st'.output = worker.item
          /\ st'.delivered = st.delivered /\ st'.end = st.end
          /\ st'.failed = st.failed /\ st'.cancelled = st.cancelled
          /\ st'.receiverAlive = st.receiverAlive /\ st'.done = st.done
      BY <1>5, <2>2, <2>n, <1>t DEF FillSlot, Workers, StoreStates
    <3>2. Through' = Through
      BY <3>1 DEF Through
    <3>3. Queued'
      BY <2>n, <3>1, <3>2 DEF Numbers, Queued
    <3>4. InHand'
      BY <3>1 DEF InHand, Taken, Reading
    <3>5. Spooled'
      <4>1. /\ worker.item.seq = spool.read /\ worker.item.kind \in {"question", "data"}
            /\ spool.read = st.delivered + 1
        BY <2>n DEF Numbers, InHand, Spooled, Reading
      <4>2. worker.item # None
        BY <4>1 DEF None
      <4> QED
        BY <2>n, <3>1, <4>1, <4>2 DEF Numbers, Spooled, Reading
    <3>6. Ending'
      BY <2>n, <3>1 DEF Numbers, Ending
    <3> QED
      BY <3>3, <3>4, <3>5, <3>6 DEF Numbers
  <2> QED
    BY <2>1, <2>2
<1> QED
  BY <1>1, <1>2, <1>3, <1>4, <1>5, NextWorkNumbers, ReadNumbers, AppendNumbers,
     ClosingNumbers DEF WorkerSteps

\* What the receiver takes is what comes next: it never finds a gap.
LEMMA OutputInOrder ==
  ASSUME Types, Numbers, st.output # None
  PROVE  st.output.seq \in {0, st.delivered + 1}
BY DEF Numbers, Spooled, Ending

\* What the receiver takes counts as delivered.
LEMMA TakeNumbers ==
  ASSUME Types, Types', Numbers, TakeEvent
  PROVE  Numbers'
<1>t. /\ worker \in Workers /\ spool \in Spools /\ st \in StoreStates /\ st.output \in Items
      /\ st.delivered \in Nat /\ st.accepted \in Nat /\ st.output.seq \in Nat
      /\ st.end \in Ends /\ Through \in Nat
      /\ Len(st.queue) \in Nat /\ spool.held \in Nat /\ spool.read \in Nat
  BY LenProperties DEF Types, StoreStates, Items, Spools, Ends, Through
<1>n. st.output # None /\ UNCHANGED spool
  BY DEF TakeEvent
<1>o. st.output.seq \in {0, st.delivered + 1}
  BY <1>n, OutputInOrder
<1>1. /\ st'.queue = st.queue /\ st'.accepted = st.accepted
      /\ st'.written = st.written /\ st'.output = None
      /\ st'.delivered = MaxOf(st.delivered, st.output.seq) /\ st'.end = st.end
      /\ st'.failed = st.failed /\ st'.cancelled = st.cancelled
      /\ st'.receiverAlive = st.receiverAlive /\ st'.done = st.done
      /\ worker' = WokenWorker
  BY <1>o, <1>t DEF TakeEvent, StoreStates
<1>2. /\ worker'.item = worker.item /\ worker'.how = worker.how
      /\ worker'.pc = worker.pc \/ (worker.pc = "asleep" /\ worker'.pc = "next")
  BY <1>1, WokenSame
<1>3. Through' = Through
  BY <1>1 DEF Through
<1>4. worker.pc \notin {"read", "slot", "report"}
  BY <1>n DEF Numbers, Spooled, Ending
<1>5. worker.pc # "over" => st'.delivered = spool.read
  <2>1. worker.pc # "over" => st.output.seq = spool.read /\ spool.read = st.delivered + 1
    BY <1>n DEF Numbers, Spooled
  <2> QED
    BY <1>1, <1>t, <2>1 DEF MaxOf
<1>6. worker.pc = "over" => IF st.output.seq = 0 THEN st.failed /\ st'.delivered = st.delivered
                            ELSE st'.delivered = st.accepted
  <2>1. worker.pc = "over" => /\ st.output.seq = 0 => st.failed
                              /\ st.output.seq # 0 => /\ st.output.seq = st.delivered + 1
                                                      /\ st.output.seq = st.accepted
    BY <1>n DEF Numbers, Ending
  <2> QED
    BY <1>1, <1>t, <2>1 DEF MaxOf
<1>7. st'.delivered <= st.accepted
  <2>1. spool.read <= spool.held
    BY DEF Numbers, Spooled
  <2>2. spool.held + Len(st.queue) <= Through
    BY DEF Numbers, Queued
  <2>3. Through <= st.accepted
    BY <1>t DEF Numbers, Queued, Through
  <2>4. st.delivered <= st.accepted
    BY DEF Numbers, Spooled
  <2> HIDE DEF Through
  <2> QED
    BY <1>t, <1>5, <1>6, <2>1, <2>2, <2>3, <2>4
<1>8. Queued'
  BY <1>n, <1>1, <1>2, <1>3 DEF Numbers, Queued
<1>9. InHand'
  BY <1>n, <1>1, <1>2, <1>3 DEF Numbers, InHand, Taken, Reading
<1>10. Spooled'
  BY <1>n, <1>t, <1>1, <1>2, <1>4, <1>5, <1>7 DEF Numbers, Spooled, Reading
<1>11. Ending'
  BY <1>n, <1>1, <1>2, <1>4, <1>6 DEF Numbers, Ending
<1> QED
  BY <1>8, <1>9, <1>10, <1>11 DEF Numbers

\* Every step keeps the numbers.
LEMMA NumbersStep ==
  ASSUME Types, Types', Numbers, Calls, [HostNext]_allVars
  PROVE  Numbers'
<1>1. CASE UNCHANGED allVars
  BY <1>1, StreamFrame DEF allVars, vars, StreamSame
<1>2. CASE StoreNext
  BY <1>2, ProducerNumbers, WorkerNumbers, TransportNumbers DEF StoreNext
<1>3. CASE Answered
  BY <1>3, StreamFrame DEF Answered, vars, StreamSame
<1>4. CASE TurnSteps
  BY <1>4, StreamFrame DEF TurnSteps, FenceStarts, FenceLooks, vars, StreamSame
<1>5. CASE LoopSteps
  BY <1>5, StreamFrame DEF LoopSteps, HostLearns, HostFenced, HostListens, Listen,
     HostEndsTurn, HostLeaves, vars, StreamSame
<1>6. CASE HostReceives
  BY <1>6, TakeNumbers DEF HostReceives
<1>7. CASE HostSeesEnd
  BY <1>7, StreamFrame DEF HostSeesEnd, TakeEnd, vars, StreamSame
<1>8. CASE HostWaits
  <2>1. /\ st'.queue = st.queue /\ st'.accepted = st.accepted /\ st'.written = st.written
        /\ st'.delivered = st.delivered /\ st'.output = st.output /\ st'.end = st.end
        /\ st'.failed = st.failed /\ st'.cancelled = st.cancelled
        /\ st'.receiverAlive = st.receiverAlive /\ st'.done = st.done
    BY <1>8 DEF HostWaits, TakeNothing, Types, StoreStates
  <2> QED
    BY <1>8, <2>1, StreamFrame, WokenSame DEF HostWaits, TakeNothing, StreamSame
<1>9. CASE HostStops
  BY <1>9, StreamFrame DEF HostStops, vars, StreamSame
<1> QED
  BY <1>1, <1>2, <1>3, <1>4, <1>5, <1>6, <1>7, <1>8, <1>9 DEF HostNext, Polls
-----------------------------------------------------------------------------
(* The report of the worker's end *)

\* Only the report of a worker that is over publishes the end.
LEMMA ReportedStep ==
  ASSUME Types, Reported, [HostNext]_allVars
  PROVE  Reported'
<1>a. "driver" \in Actors /\ "host" \in Actors /\ "worker" \in Actors
  BY DEF Actors
<1>o. WokenWorker.pc = "over" <=> worker.pc = "over"
  BY WokenSame
<1>s. \A steps \in {<<"shut", "merge", "wake">>, <<"shut", "merge", "io">>,
                    <<"merge", "io">>, <<"merge">>} :
        steps \in Seq(Steps) /\ \A i \in DOMAIN steps : steps[i] # "completed"
  <2>1. ASSUME NEW i \in DOMAIN <<"shut", "merge", "wake">>
        PROVE  <<"shut", "merge", "wake">>[i] # "completed"
    OBVIOUS
  <2>2. ASSUME NEW i \in DOMAIN <<"shut", "merge", "io">>
        PROVE  <<"shut", "merge", "io">>[i] # "completed"
    OBVIOUS
  <2>3. ASSUME NEW i \in DOMAIN <<"merge", "io">> PROVE <<"merge", "io">>[i] # "completed"
    OBVIOUS
  <2>4. ASSUME NEW i \in DOMAIN <<"merge">> PROVE <<"merge">>[i] # "completed"
    OBVIOUS
  <2>5. /\ <<"shut", "merge", "wake">> \in Seq(Steps) /\ <<"shut", "merge", "io">> \in Seq(Steps)
        /\ <<"merge", "io">> \in Seq(Steps) /\ <<"merge">> \in Seq(Steps)
    BY DEF Steps
  <2> QED
    BY <2>1, <2>2, <2>3, <2>4, <2>5
<1>e. <<"shut", "merge", "completed", "wake">> \in Seq(Steps)
  BY DEF Steps
<1>k. ASSUME UNCHANGED <<completed, tail>>, worker.pc = "over" => worker'.pc = "over"
      PROVE  Reported'
  BY <1>k DEF Reported
<1>w. ASSUME NEW a \in Actors, NEW steps \in Seq(Steps), Owe(a, steps), UNCHANGED completed,
             worker.pc = "over" => worker'.pc = "over",
             worker'.pc # "over" => \A i \in DOMAIN steps : steps[i] # "completed"
      PROVE  Reported'
  BY <1>w DEF Reported, Owe, Types
<1>c. ASSUME NEW a \in Actors, Cancel(a), UNCHANGED completed,
             worker.pc = "over" => worker'.pc = "over"
      PROVE  Reported'
  <2>1. CASE UNCHANGED tail
    BY <1>c, <1>k, <2>1
  <2>2. CASE Owe(a, <<"shut", "merge", "wake">>)
    BY <1>c, <1>w, <1>s, <2>2
  <2> QED
    BY <1>c, <2>1, <2>2 DEF Cancel, OweSnapshot
<1>p. ASSUME NEW a \in Actors, PulseAfter(a), UNCHANGED <<completed, worker>>
      PROVE  Reported'
  BY <1>p, <1>w, <1>s DEF PulseAfter, OweSnapshot
<1>1. CASE UNCHANGED allVars
  BY <1>1, <1>k DEF allVars, vars
<1>2. ASSUME NEW p \in Producers, ProducerSteps(p) \/ ProducerCalls(p) PROVE Reported'
  <2>1. CASE StrayNote(p)
    BY <1>c, <2>1 DEF StrayNote, Actors
  <2>2. CASE ~StrayNote(p)
    BY <1>2, <1>k, <1>o, <2>2 DEF ProducerSteps, ProducerCalls, Note, Question, Permit,
       Register, Check, Retry, Enqueue
  <2> QED
    BY <2>1, <2>2
<1>3. CASE WorkerSteps
  <2>1. worker.pc # "over"
    BY <1>3 DEF WorkerSteps, Create, NextWork, AppendRecord, Publish, DropWritten,
       PublishTerminal, ReadRecord, FillSlot, FailStore, Strip, Report, At
  <2>2. CASE Publish \/ PublishTerminal
    BY <1>w, <1>s, <1>a, <2>1, <2>2 DEF Publish, PublishTerminal, OweSnapshot
  <2>3. CASE FailStore
    BY <1>c, <1>a, <2>1, <2>3 DEF FailStore
  <2>4. CASE Report
    <3>1. Owe("worker", <<"shut", "merge", "completed", "wake">>) /\ worker'.pc = "over"
      BY <2>4 DEF Report, OweSnapshot, Moves, Types, Workers
    <3> QED
      BY <1>w, <1>e, <1>a, <2>4, <3>1 DEF Report
  <2>5. CASE ~(Publish \/ PublishTerminal \/ FailStore \/ Report)
    BY <1>3, <1>k, <2>1, <2>5 DEF WorkerSteps, Create, NextWork, AppendRecord, DropWritten,
       ReadRecord, FillSlot, Strip
  <2> QED
    BY <2>2, <2>3, <2>4, <2>5
<1>4. CASE DriverSteps
  <2>1. CASE DriverCancels
    BY <1>c, <1>a, <2>1 DEF DriverCancels
  <2>2. CASE DriverBeginsClose
    BY <1>p, <1>k, <1>a, <2>2 DEF DriverBeginsClose, BeginClose
  <2>3. CASE DriverCloses
    BY <1>w, <1>s, <1>a, <2>3 DEF DriverCloses, ConfirmClose, OweSnapshot
  <2>4. CASE DriverDecides \/ DriverJoins
    BY <1>k, <2>4 DEF DriverDecides, DriverJoins
  <2> QED
    BY <1>4, <2>1, <2>2, <2>3, <2>4 DEF DriverSteps
<1>5. CASE OpenerSteps \/ DropSteps
  <2>1. CASE OpenerCancels \/ GuardCancels \/ ReceiverCancels
    BY <1>c, <1>a, <2>1 DEF OpenerCancels, GuardCancels, ReceiverCancels
  <2>2. CASE SourceEof
    BY <1>p, <1>a, <2>2 DEF SourceEof
  <2>3. CASE OpenerPublishes \/ OpenerRefuses \/ ReceiverLeaves
    BY <1>k, <1>o, <2>3 DEF OpenerPublishes, OpenerRefuses, ReceiverLeaves
  <2> QED
    BY <1>5, <2>1, <2>2, <2>3 DEF OpenerSteps, DropSteps
<1>6. CASE AcceptSession \/ RuntimeDropped \/ Answer
  BY <1>6, <1>k DEF AcceptSession, RuntimeDropped, Answer
<1>7. ASSUME NEW why, TransportEnds(why) PROVE Reported'
  BY <1>7, <1>k DEF TransportEnds
<1>8. ASSUME NEW a \in Actors, Settle(a) PROVE Reported'
  <2>1. tail[a] \in Seq(Steps) /\ tail[a] # <<>>
    BY <1>8 DEF Settle, Types
  <2>2. /\ Tail(tail[a]) \in Seq(Steps) /\ Head(tail[a]) = tail[a][1]
        /\ 1 \in DOMAIN tail[a]
        /\ \A i \in DOMAIN Tail(tail[a]) :
             i + 1 \in DOMAIN tail[a] /\ Tail(tail[a])[i] = tail[a][i + 1]
    BY <2>1, HeadTailProperties, LenProperties, EmptySeq
  <2>3. worker.pc = "over" => worker'.pc = "over"
    BY <1>8, <1>o DEF Settle
  <2>4. Owe(a, Tail(tail[a]))
    BY <1>8 DEF Settle, Owe
  <2>5. worker.pc # "over" => \A i \in DOMAIN Tail(tail[a]) : Tail(tail[a])[i] # "completed"
    BY <2>2 DEF Reported
  <2>6. completed' => worker.pc = "over"
    BY <1>8, <2>2 DEF Settle, Reported
  <2>7. \A b \in Actors : \A i \in DOMAIN tail'[b] : tail'[b][i] = "completed" => worker.pc = "over"
    BY <2>4, <2>5 DEF Reported, Owe, Types
  <2> QED
    BY <2>3, <2>6, <2>7 DEF Reported
<1>9. CASE Answered \/ TurnSteps \/ LoopSteps \/ HostStops
  BY <1>9, <1>k DEF Answered, TurnSteps, FenceStarts, FenceLooks, LoopSteps, HostLearns,
     HostFenced, HostListens, Listen, HostEndsTurn, HostLeaves, HostStops, vars
<1>10. CASE Polls
  <2>1. CASE HostReceives
    <3>1. CASE UNCHANGED tail
      BY <1>k, <1>o, <2>1, <3>1 DEF HostReceives, TakeEvent
    <3>2. CASE Owe("host", <<"shut", "merge", "wake">>) /\ UNCHANGED worker
      BY <1>w, <1>s, <1>a, <2>1, <3>2 DEF HostReceives, TakeEvent
    <3> QED
      BY <2>1, <3>1, <3>2 DEF HostReceives, TakeEvent, OweSnapshot
  <2>2. CASE HostSeesEnd \/ HostWaits
    BY <1>k, <1>o, <2>2 DEF HostSeesEnd, HostWaits, TakeEnd, TakeNothing, vars
  <2> QED
    BY <1>10, <2>1, <2>2 DEF Polls
<1> QED
  BY <1>1, <1>2, <1>3, <1>4, <1>5, <1>6, <1>7, <1>8, <1>9, <1>10 DEF HostNext, StoreNext
=============================================================================
