--------------------------- MODULE HostTurnProofs ---------------------------
(***************************************************************************)
(* What is proved of the event store and its host.                         *)
(*                                                                         *)
(* The second half of the inductive invariant of HostTurnStream: the       *)
(* credits, which are exact because the numbers of the stream make every   *)
(* item a different one; the window they keep; the bound of the stream;    *)
(* and the receiver and the host's turn, which rest on all of it.  The     *)
(* theorems are at the end.                                                *)
(***************************************************************************)
EXTENDS HostTurnStream

-----------------------------------------------------------------------------
(* The credits, as a relation between a budget, the items that hold them,  *)
(* the calls in progress and the questions in the client's hands           *)

InPc(c, pc) == {p \in Producers : c[p].pc = pc}
CellsIn(c) == UNION {Cells(p, c[p].bytes) : p \in InPc(c, "holding")}
Busy(c) == {p \in Producers : c[p].pc # "idle"}

Credits(b, items, c, held) ==
  /\ b.bytes = BytesOf(items) + Cardinality(CellsIn(c))
  /\ b.records = Cardinality(Notes(items)) + Cardinality(InPc(c, "holding"))
  /\ b.controls = Cardinality(Questions(items)) + Cardinality(InPc(c, "asking")) + held

\* CreditsExact is this relation, now and after a step.
LEMMA CreditsAre ==
  /\ CreditsExact <=> Credits(budget, Holders, call, rx.held)
  /\ CreditsExact' <=> Credits(budget', Holders', call', rx'.held)
BY DEF CreditsExact, Credits, InCalls, InPc, CellsIn

SameCalls(c, d) == \A p \in Producers : d[p].pc = c[p].pc /\ d[p].bytes = c[p].bytes
SameBudget(b, e) == e.bytes = b.bytes /\ e.records = b.records /\ e.controls = b.controls
Alike(items, others) == Notes(others) = Notes(items) /\ Questions(others) = Questions(items)

\* A wake-up changes no call's place and size.
LEMMA SameCallsFrame ==
  ASSUME NEW c, NEW d, SameCalls(c, d)
  PROVE  /\ \A pc : InPc(d, pc) = InPc(c, pc)
         /\ CellsIn(d) = CellsIn(c) /\ Busy(d) = Busy(c)
<1>1. \A pc : InPc(d, pc) = InPc(c, pc)
  BY DEF SameCalls, InPc
<1>2. \A p \in InPc(c, "holding") : p \in Producers
  BY DEF InPc
<1> QED
  BY <1>1, <1>2 DEF SameCalls, CellsIn, Busy

\* The wake-up of the waiting calls is such a change.
LEMMA WokenCallsSame ==
  ASSUME Types
  PROVE  SameCalls(call, WokenCalls)
BY DEF Types, SameCalls, WokenCalls, CallStates

\* A step that moves no credit.
LEMMA CreditsFrame ==
  ASSUME NEW b, NEW e, NEW items, NEW others, NEW c, NEW d, NEW held,
         Credits(b, items, c, held), SameBudget(b, e), Alike(items, others), SameCalls(c, d)
  PROVE  Credits(e, others, d, held)
BY SameCallsFrame DEF Credits, SameBudget, Alike, BytesOf

\* A call that leaves its place is counted there no more.
LEMMA CallLeaves ==
  ASSUME NEW c \in [Producers -> CallStates], NEW d \in [Producers -> CallStates],
         NEW p \in Producers, NEW pc, c[p].pc = pc, d[p].pc # pc,
         \A q \in Producers \ {p} : d[q].pc = c[q].pc
  PROVE  /\ Cardinality(InPc(c, pc)) \in Nat /\ Cardinality(InPc(d, pc)) \in Nat
         /\ Cardinality(InPc(c, pc)) = Cardinality(InPc(d, pc)) + 1
<1>1. InPc(c, pc) = InPc(d, pc) \cup {p} /\ p \notin InPc(d, pc)
  BY DEF InPc
<1>2. IsFiniteSet(InPc(d, pc))
  BY EventStoreAssumption, FS_Subset DEF InPc
<1>3. Cardinality(InPc(d, pc)) \in Nat
  BY <1>2, FS_CardinalityType
<1>4. Cardinality(InPc(d, pc) \cup {p}) = Cardinality(InPc(d, pc)) + 1
  BY <1>1, <1>2, FS_AddElement
<1> QED
  BY <1>1, <1>3, <1>4

\* One owner more brings its own cells.
LEMMA CellsJoin ==
  ASSUME NEW S, IsFiniteSet(S), NEW x, x \notin S,
         NEW w, \A y \in S \cup {x} : w[y] \in Nat
  PROVE  /\ Cardinality(CellsOf(S, w)) \in Nat
         /\ Cardinality(CellsOf(S \cup {x}, w)) = Cardinality(CellsOf(S, w)) + w[x]
<1> DEFINE T == {x}
<1>1. IsFiniteSet(T) /\ S \cap T = {} /\ Cardinality(T) = 1
  BY FS_Singleton
<1>2. Cardinality(CellsOf(T, w)) = w[x]
  <2>1. CellsOf(T, w) = {x} \X (1..w[x])
    BY DEF CellsOf, Cells
  <2>2. IsFiniteSet(1..w[x]) /\ Cardinality(1..w[x]) = w[x] /\ w[x] \in Nat
    <3>1. PICK n : n = w[x]
      OBVIOUS
    <3>2. n \in Nat
      BY <3>1
    <3>3. IsFiniteSet(1..n) /\ Cardinality(1..n) = n
      BY <3>2, FS_Interval
    <3> QED
      BY <3>1, <3>2, <3>3
  <2>3. Cardinality(T \X (1..w[x])) = Cardinality(T) * Cardinality(1..w[x])
    BY <1>1, <2>2, FS_Product
  <2>4. Cardinality(T) * Cardinality(1..w[x]) = w[x]
    BY <1>1, <2>2
  <2> QED
    BY <2>1, <2>3, <2>4
<1>3. \A y \in S \cup T : w[y] \in Nat
  OBVIOUS
<1> HIDE DEF T
<1>4. /\ Cardinality(CellsOf(S, w)) \in Nat
      /\ Cardinality(CellsOf(S \cup T, w)) = Cardinality(CellsOf(S, w)) + Cardinality(CellsOf(T, w))
  BY <1>1, <1>3, CellsApart
<1> QED
  BY <1>2, <1>4 DEF T

\* The cells of the calls that hold credit, when one holds it no more.
LEMMA CellsLeave ==
  ASSUME NEW c \in [Producers -> CallStates], NEW d \in [Producers -> CallStates],
         NEW p \in Producers, c[p].pc = "holding", d[p].pc # "holding",
         \A q \in Producers \ {p} : d[q].pc = c[q].pc /\ d[q].bytes = c[q].bytes
  PROVE  /\ Cardinality(CellsIn(c)) \in Nat /\ Cardinality(CellsIn(d)) \in Nat
         /\ Cardinality(CellsIn(c)) = Cardinality(CellsIn(d)) + c[p].bytes
<1>1. PICK w : \A q \in Producers : w[q] = c[q].bytes
  <2>1. \A q \in Producers : [r \in Producers |-> c[r].bytes][q] = c[q].bytes
    OBVIOUS
  <2> QED
    BY <2>1
<1>2. PICK S : S = InPc(d, "holding")
  OBVIOUS
<1>3. InPc(c, "holding") = S \cup {p} /\ p \notin S /\ S \subseteq Producers
  BY <1>2 DEF InPc
<1>4. IsFiniteSet(S)
  BY <1>3, EventStoreAssumption, FS_Subset
<1>5. \A q \in S \cup {p} : w[q] = c[q].bytes /\ w[q] \in Nat
  BY <1>1, <1>3 DEF CallStates
<1>6. CellsIn(c) = CellsOf(S \cup {p}, w)
  BY <1>3, <1>5 DEF CellsIn, CellsOf
<1>7. CellsIn(d) = CellsOf(S, w)
  BY <1>2, <1>3, <1>5 DEF CellsIn, CellsOf
<1>8. \A q \in S \cup {p} : w[q] \in Nat
  BY <1>5
<1>9. /\ Cardinality(CellsOf(S, w)) \in Nat
      /\ Cardinality(CellsOf(S \cup {p}, w)) = Cardinality(CellsOf(S, w)) + w[p]
  BY <1>3, <1>4, <1>8, CellsJoin
<1> QED
  BY <1>5, <1>6, <1>7, <1>9

\* Items that are given back leave the rest with what is theirs.
LEMMA CreditsReturned ==
  ASSUME NEW b \in Budgets, NEW e, NEW items \in SUBSET Items, IsFiniteSet(items),
         NEW gone \in SUBSET items, NEW others, NEW c, NEW d, NEW held \in Nat,
         Cardinality(CellsIn(c)) \in Nat,
         Cardinality(InPc(c, "holding")) \in Nat, Cardinality(InPc(c, "asking")) \in Nat,
         Credits(b, items, c, held), SameCalls(c, d), Alike(items \ gone, others),
         e.bytes = b.bytes - BytesOf(gone),
         e.records = b.records - Cardinality(Notes(gone)),
         e.controls = b.controls - Cardinality(Questions(gone))
  PROVE  Credits(e, others, d, held)
<1> DEFINE rest == items \ gone
<1>1. rest \cup gone = items /\ rest \cap gone = {} /\ rest \in SUBSET Items
      /\ gone \in SUBSET Items
  OBVIOUS
<1>2. IsFiniteSet(rest) /\ IsFiniteSet(gone)
  BY <1>1, FS_Subset
<1> HIDE DEF rest
<1>3. /\ BytesOf(rest) \in Nat /\ BytesOf(gone) \in Nat
      /\ BytesOf(items) = BytesOf(rest) + BytesOf(gone)
      /\ Cardinality(Notes(rest)) \in Nat /\ Cardinality(Notes(gone)) \in Nat
      /\ Cardinality(Notes(items)) = Cardinality(Notes(rest)) + Cardinality(Notes(gone))
      /\ Cardinality(Questions(rest)) \in Nat /\ Cardinality(Questions(gone)) \in Nat
      /\ Cardinality(Questions(items)) =
           Cardinality(Questions(rest)) + Cardinality(Questions(gone))
  <2>1. BytesOf(rest \cup gone) = BytesOf(items)
        /\ Notes(rest \cup gone) = Notes(items) /\ Questions(rest \cup gone) = Questions(items)
    BY <1>1
  <2> QED
    BY <1>1, <1>2, <2>1, CreditsApart
<1>4. Credits(e, rest, c, held)
  BY <1>3 DEF Credits
<1> QED
  BY <1>4, CreditsFrame DEF SameBudget, rest

\* An item more, of its own number.
LEMMA ItemJoins ==
  ASSUME NEW items \in SUBSET Items, IsFiniteSet(items), NEW i \in Items, i \notin items
  PROVE  /\ BytesOf(items) \in Nat
         /\ Cardinality(Notes(items)) \in Nat /\ Cardinality(Questions(items)) \in Nat
         /\ BytesOf(items \cup {i}) = BytesOf(items) + (IF i.kind = "note" THEN i.bytes ELSE 0)
         /\ Cardinality(Notes(items \cup {i})) =
              Cardinality(Notes(items)) + (IF i.kind = "note" THEN 1 ELSE 0)
         /\ Cardinality(Questions(items \cup {i})) =
              Cardinality(Questions(items)) + (IF i.kind = "question" THEN 1 ELSE 0)
<1>1. IsFiniteSet({i}) /\ {i} \in SUBSET Items /\ items \cap {i} = {}
  BY FS_Singleton
<1> QED
  BY <1>1, CreditsApart, OneItem
-----------------------------------------------------------------------------
(* Where the items are *)

ItemsOf(s) == {s[i] : i \in DOMAIN s}

\* A queue that grew holds one item more.
LEMMA AppendItems ==
  ASSUME NEW s \in Seq(Items), NEW i \in Items
  PROVE  ItemsOf(Append(s, i)) = ItemsOf(s) \cup {i}
<1>1. /\ DOMAIN s = 1..Len(s) /\ Len(s) \in Nat
      /\ DOMAIN Append(s, i) = 1..(Len(s) + 1)
      /\ \A j \in 1..Len(s) : Append(s, i)[j] = s[j]
      /\ Append(s, i)[Len(s) + 1] = i
  BY AppendProperties, LenProperties
<1>2. 1..(Len(s) + 1) = (1..Len(s)) \cup {Len(s) + 1}
  BY <1>1
<1> QED
  BY <1>1, <1>2 DEF ItemsOf

\* A queue and its first item.
LEMMA TailItems ==
  ASSUME NEW s \in Seq(Items), s # <<>>
  PROVE  ItemsOf(s) = ItemsOf(Tail(s)) \cup {Head(s)}
<1>1. /\ DOMAIN s = 1..Len(s) /\ Len(s) \in Nat /\ Len(s) > 0
      /\ Tail(s) \in Seq(Items) /\ Len(Tail(s)) = Len(s) - 1 /\ Head(s) = s[1]
      /\ \A j \in 1..Len(Tail(s)) : Tail(s)[j] = s[j + 1]
  BY HeadTailProperties, LenProperties, EmptySeq
<1>2. DOMAIN Tail(s) = 1..(Len(s) - 1)
  BY <1>1, LenProperties
<1>3. ASSUME NEW j \in 1..Len(s) PROVE s[j] \in ItemsOf(Tail(s)) \cup {Head(s)}
  <2>1. CASE j = 1
    BY <1>1, <2>1
  <2>2. CASE j # 1
    <3>1. j - 1 \in 1..(Len(s) - 1) /\ (j - 1) + 1 = j
      BY <1>1, <2>2
    <3>2. Tail(s)[j - 1] = s[j]
      BY <1>1, <3>1
    <3> QED
      BY <1>2, <3>1, <3>2 DEF ItemsOf
  <2> QED
    BY <2>1, <2>2
<1>4. ASSUME NEW j \in 1..(Len(s) - 1) PROVE Tail(s)[j] \in ItemsOf(s)
  <2>1. j + 1 \in 1..Len(s) /\ Tail(s)[j] = s[j + 1]
    BY <1>1
  <2> QED
    BY <1>1, <2>1 DEF ItemsOf
<1>5. Head(s) \in ItemsOf(s)
  BY <1>1 DEF ItemsOf
<1> QED
  BY <1>1, <1>2, <1>3, <1>4, <1>5 DEF ItemsOf

\* InQueue is the items of the queue, now and after a step.
LEMMA QueueIs == InQueue = ItemsOf(st.queue) /\ InQueue' = ItemsOf(st'.queue)
BY DEF InQueue, ItemsOf

\* Where each item is says what its number can be: what is queued comes behind the
\* spool, the questions kept behind what was read, and nobody is beyond what was
\* accepted.
LEMMA ItemsPlaced ==
  ASSUME Types, Numbers
  PROVE  /\ spool.read \in Nat /\ spool.held \in Nat /\ st.accepted \in Nat
         /\ spool.read <= spool.held /\ spool.held <= st.accepted
         /\ \A i \in Holders : i.seq \in Nat /\ i.seq <= st.accepted
         /\ \A i \in InQueue : spool.held < i.seq
         /\ \A i \in spool.live : spool.read < i.seq /\ i.seq <= spool.held
                                   /\ i.kind = "question"
         /\ Taken => \A i \in InQueue : worker.item.seq < i.seq
<1>t. /\ st \in StoreStates /\ spool.read \in Nat /\ spool.held \in Nat /\ st.accepted \in Nat
      /\ Len(st.queue) \in Nat /\ DOMAIN st.queue = 1..Len(st.queue)
      /\ Through \in Nat /\ worker.item \in Items /\ worker.item.seq \in Nat
      /\ st.output \in Items /\ st.output.seq \in Nat
      /\ spool.live \subseteq Items
  BY LenProperties DEF Types, StoreStates, Spools, Through, Ends, Workers, Items
<1>1. spool.read <= spool.held /\ spool.held + Len(st.queue) <= Through
      /\ Through <= st.accepted
  BY <1>t DEF Numbers, Queued, Spooled, Through
<1> HIDE DEF Through
<1>2. spool.held <= st.accepted
  BY <1>t, <1>1
<1>3. ASSUME NEW j \in 1..Len(st.queue)
      PROVE  /\ st.queue[j].seq \in Nat /\ spool.held < st.queue[j].seq
             /\ st.queue[j].seq <= st.accepted
             /\ Taken => worker.item.seq < st.queue[j].seq
  <2>1. st.queue[j].seq = (Through - Len(st.queue)) + j
    BY <1>t DEF Numbers, Queued
  <2>2. Taken => worker.item.seq + Len(st.queue) <= Through
    BY DEF Numbers, InHand
  <2>3. ASSUME NEW t \in Nat, NEW l \in Nat, NEW h \in Nat, h + l <= t,
               NEW k \in 1..l
        PROVE  h < (t - l) + k /\ (t - l) + k <= t /\ (t - l) + k \in Nat
    BY <2>3
  <2>4. /\ spool.held < (Through - Len(st.queue)) + j
        /\ (Through - Len(st.queue)) + j <= Through /\ (Through - Len(st.queue)) + j \in Nat
    BY <1>t, <1>1, <2>3
  <2>5. Taken => worker.item.seq < (Through - Len(st.queue)) + j
    BY <1>t, <2>2, <2>3
  <2>6. (Through - Len(st.queue)) + j <= st.accepted
    <3>1. ASSUME NEW n \in Nat, n <= Through PROVE n <= st.accepted
      BY <1>t, <1>1, <3>1
    <3> QED
      BY <2>4, <3>1
  <2> QED
    BY <2>1, <2>4, <2>5, <2>6
<1>4. \A i \in spool.live : spool.read < i.seq /\ i.seq <= spool.held /\ i.kind = "question"
                             /\ i.seq \in Nat
  BY <1>t DEF Numbers, Spooled, Items
<1>5. worker.item # None => worker.item.seq <= st.accepted
  <2>1. Taken \/ Reading \/ worker.item = None
    BY DEF Numbers, InHand, Taken, Reading
  <2>2. Taken => worker.item.seq + Len(st.queue) <= Through
    BY DEF Numbers, InHand
  <2>3. Reading => worker.item.seq = spool.read
    BY DEF Numbers, InHand
  <2> QED
    BY <1>t, <1>1, <2>1, <2>2, <2>3
<1>6. st.output # None => st.output.seq <= st.accepted
  <2>1. CASE worker.pc = "over"
    BY <1>t, <2>1 DEF Numbers, Ending
  <2>2. CASE worker.pc # "over"
    BY <1>t, <1>1, <1>2, <2>2 DEF Numbers, Spooled
  <2> QED
    BY <2>1, <2>2
<1>7. \A i \in InQueue : i.seq \in Nat /\ spool.held < i.seq /\ i.seq <= st.accepted
                          /\ (Taken => worker.item.seq < i.seq)
  BY <1>t, <1>3 DEF InQueue
<1>8. \A i \in spool.live : i.seq <= st.accepted
  BY <1>t, <1>2, <1>4
<1> QED
  BY <1>t, <1>1, <1>2, <1>4, <1>5, <1>6, <1>7, <1>8 DEF Holders

-----------------------------------------------------------------------------
(* The steps of the credits *)

\* What the credits are counted from has its type.
LEMMA CountsTyped ==
  ASSUME Types
  PROVE  /\ Holders \in SUBSET Items /\ IsFiniteSet(Holders) /\ budget \in Budgets
         /\ rx.held \in Nat /\ call \in [Producers -> CallStates]
         /\ Cardinality(InPc(call, "holding")) \in Nat
         /\ Cardinality(InPc(call, "asking")) \in Nat
         /\ Cardinality(CellsIn(call)) \in Nat
         /\ BytesOf(Holders) \in Nat /\ Cardinality(Notes(Holders)) \in Nat
         /\ Cardinality(Questions(Holders)) \in Nat
<1>1. Holders \in SUBSET Items /\ IsFiniteSet(Holders)
  BY HoldersFinite
<1>2. \A pc : IsFiniteSet(InPc(call, pc))
  BY EventStoreAssumption, FS_Subset DEF InPc
<1>3. IsFiniteSet(CellsIn(call))
  <2>1. PICK w : \A q \in Producers : w[q] = call[q].bytes
    <3>1. \A q \in Producers : [r \in Producers |-> call[r].bytes][q] = call[q].bytes
      OBVIOUS
    <3> QED
      BY <3>1
  <2>2. PICK S : S = InPc(call, "holding")
    OBVIOUS
  <2>3. S \subseteq Producers /\ IsFiniteSet(S)
    BY <1>2, <2>2 DEF InPc
  <2>4. \A q \in S : w[q] \in Nat /\ w[q] = call[q].bytes
    BY <2>1, <2>3 DEF Types, CallStates
  <2>5. CellsIn(call) = CellsOf(S, w)
    BY <2>2, <2>4 DEF CellsIn, CellsOf
  <2>6. IsFiniteSet(CellsOf(S, w))
    BY <2>3, <2>4, CellsFinite
  <2> QED
    BY <2>5, <2>6
<1>4. /\ BytesOf(Holders) \in Nat /\ Cardinality(Notes(Holders)) \in Nat
      /\ Cardinality(Questions(Holders)) \in Nat
  <2>1. {} \in SUBSET Items /\ IsFiniteSet({}) /\ Holders \cap {} = {}
    BY FS_EmptySet
  <2> QED
    BY <1>1, <2>1, CreditsApart
<1>5. budget \in Budgets /\ rx.held \in Nat /\ call \in [Producers -> CallStates]
  BY DEF Types, Receivers
<1>6. Cardinality(InPc(call, "holding")) \in Nat /\ Cardinality(InPc(call, "asking")) \in Nat
  BY <1>2, FS_CardinalityType
<1>7. Cardinality(CellsIn(call)) \in Nat
  BY <1>3, FS_CardinalityType
<1> QED
  BY <1>1, <1>4, <1>5, <1>6, <1>7

\* A step that moves no item and no call.
HoldersSame ==
  st'.queue = st.queue /\ st'.output = st.output /\ spool'.live = spool.live
    /\ worker'.item = worker.item

\* Such a step leaves who holds a credit.
LEMMA HoldersFrame ==
  ASSUME HoldersSame
  PROVE  Holders' = Holders
BY DEF HoldersSame, Holders, InQueue

\* It keeps the credits exact when the budget and the calls stay as well.
LEMMA CreditsStay ==
  ASSUME CreditsExact, HoldersSame, SameBudget(budget, budget'), SameCalls(call, call'),
         rx'.held = rx.held
  PROVE  CreditsExact'
<1>1. Alike(Holders, Holders')
  BY HoldersFrame DEF Alike
<1> QED
  BY <1>1, CreditsAre, CreditsFrame

\* A call that moves between places where it holds nothing.
LEMMA CreditsCall ==
  ASSUME Types, CreditsExact, HoldersSame, SameBudget(budget, budget'), rx'.held = rx.held,
         NEW p \in Producers,
         call[p].pc \notin {"holding", "asking"}, call'[p].pc \notin {"holding", "asking"},
         \A q \in Producers \ {p} : call'[q].pc = call[q].pc /\ call'[q].bytes = call[q].bytes
  PROVE  CreditsExact'
<1>1. /\ InPc(call', "holding") = InPc(call, "holding")
      /\ InPc(call', "asking") = InPc(call, "asking")
  BY DEF InPc
<1>2. CellsIn(call') = CellsIn(call)
  <2>1. \A q \in InPc(call, "holding") : call'[q].bytes = call[q].bytes
    BY DEF InPc
  <2> QED
    BY <1>1, <2>1 DEF CellsIn
<1>3. Credits(budget, Holders, call', rx.held)
  BY <1>1, <1>2, CreditsAre DEF Credits
<1>4. Credits(budget', Holders', call', rx'.held)
  BY <1>3, HoldersFrame, CreditsFrame DEF Alike, SameCalls
<1> QED
  BY <1>4, CreditsAre

\* Where a call goes, and where the others stay.
LEMMA GoesTo ==
  ASSUME Types, NEW p \in Producers, NEW pc, Goes(p, pc)
  PROVE  /\ call'[p].pc = pc /\ call'[p].bytes = call[p].bytes
         /\ \A q \in Producers \ {p} : call'[q] = call[q]
<1>1. call[p] \in CallStates
  BY DEF Types
<1>2. call' = [call EXCEPT ![p] = [call[p] EXCEPT !.pc = pc]]
  BY DEF Goes
<1>3. call'[p] = [call[p] EXCEPT !.pc = pc]
  BY <1>2 DEF Types
<1>4. \A q \in Producers \ {p} : call'[q] = call[q]
  BY <1>2 DEF Types
<1> QED
  BY <1>1, <1>3, <1>4 DEF CallStates

\* Where a call that ends is.
LEMMA EndsAt ==
  ASSUME Types, NEW p \in Producers, CallEnds(p)
  PROVE  call'[p].pc = "idle" /\ \A q \in Producers \ {p} : call'[q] = call[q]
BY DEF CallEnds, Idle, Types

\* Credit is taken when it is there, and goes from the call to its item.
LEMMA ProducerCredits ==
  ASSUME Types, Types', Numbers, CreditsExact, NEW p \in Producers, UNCHANGED hostVars,
         ProducerSteps(p) \/ ProducerCalls(p)
  PROVE  CreditsExact'
<1>t. /\ Holders \in SUBSET Items /\ IsFiniteSet(Holders) /\ budget \in Budgets
      /\ rx.held \in Nat /\ call \in [Producers -> CallStates]
      /\ call' \in [Producers -> CallStates]
      /\ Cardinality(InPc(call, "holding")) \in Nat
      /\ Cardinality(InPc(call, "asking")) \in Nat
      /\ Cardinality(CellsIn(call)) \in Nat
  BY CountsTyped DEF Types
<1>c. Credits(budget, Holders, call, rx.held)
  BY CreditsAre
<1>1. ASSUME NEW bytes \in Sizes, Note(p, bytes) PROVE CreditsExact'
  <2>1. /\ call[p].pc = "idle" /\ call'[p].pc = "register"
        /\ \A q \in Producers \ {p} : call'[q] = call[q]
    BY <1>1 DEF Note, Types
  <2> QED
    BY <1>1, <2>1, CreditsCall DEF Note, HoldersSame, SameBudget
<1>2. CASE StrayNote(p)
  BY <1>2, CreditsStay, CancelSame DEF StrayNote, HoldersSame, SameBudget, SameCalls
<1>3. CASE Question(p)
  BY <1>3, GoesTo, CreditsCall DEF Question, HoldersSame, SameBudget
<1>4. CASE Permit(p)
  <2>1. CASE budget.closed \/ budget.controls = ControlItems
    BY <1>4, <2>1, EndsAt, CreditsCall DEF Permit, HoldersSame, SameBudget
  <2>2. CASE ~(budget.closed \/ budget.controls = ControlItems)
    <3>1. /\ call[p].pc = "permit" /\ Goes(p, "asking")
          /\ budget' = [budget EXCEPT !.controls = @ + 1]
          /\ UNCHANGED <<st, spool, worker, rx>>
      BY <1>4, <2>2 DEF Permit
    <3>2. call'[p].pc = "asking" /\ \A q \in Producers \ {p} : call'[q] = call[q]
      BY <3>1, GoesTo
    <3>3. Cardinality(InPc(call', "asking")) = Cardinality(InPc(call, "asking")) + 1
      BY <1>t, <3>1, <3>2, CallLeaves
    <3>4. InPc(call', "holding") = InPc(call, "holding")
      BY <3>1, <3>2 DEF InPc
    <3>5. CellsIn(call') = CellsIn(call)
      <4>1. \A q \in InPc(call, "holding") : call'[q] = call[q]
        BY <3>1, <3>2 DEF InPc
      <4> QED
        BY <3>4, <4>1 DEF CellsIn
    <3>6. /\ budget'.bytes = budget.bytes /\ budget'.records = budget.records
          /\ budget'.controls = budget.controls + 1
      BY <1>t, <3>1 DEF Budgets
    <3>7. Holders' = Holders
      BY <3>1, HoldersFrame DEF HoldersSame
    <3>8. Cardinality(Questions(Holders)) \in Nat
      BY CountsTyped
    <3>9. Credits(budget', Holders, call', rx.held)
      BY <1>c, <1>t, <3>3, <3>4, <3>5, <3>6, <3>8 DEF Credits
    <3> QED
      BY <3>1, <3>7, <3>9, CreditsAre
  <2> QED
    BY <2>1, <2>2
<1>5. CASE Register(p)
  <2>1. /\ call[p].pc = "register" /\ call'[p].pc = "check"
        /\ \A q \in Producers \ {p} : call'[q] = call[q]
    BY <1>5 DEF Register, Types, CallStates
  <2> QED
    BY <1>5, <2>1, CreditsCall DEF Register, HoldersSame, SameBudget
<1>6. CASE Check(p)
  <2>1. CASE budget.closed
    BY <1>6, <2>1, EndsAt, CreditsCall DEF Check, HoldersSame, SameBudget
  <2>2. CASE ~budget.closed /\ ~Fits(call[p].bytes)
    BY <1>6, <2>2, GoesTo, CreditsCall DEF Check, HoldersSame, SameBudget
  <2>3. CASE ~budget.closed /\ Fits(call[p].bytes)
    <3>1. /\ call[p].pc = "check" /\ Goes(p, "holding")
          /\ budget' = [budget EXCEPT !.bytes = @ + call[p].bytes, !.records = @ + 1]
          /\ UNCHANGED <<st, spool, worker, rx>>
      BY <1>6, <2>3 DEF Check
    <3>2. /\ call'[p].pc = "holding" /\ call'[p].bytes = call[p].bytes
          /\ \A q \in Producers \ {p} : call'[q] = call[q]
      BY <3>1, GoesTo
    <3>3. Cardinality(InPc(call', "holding")) = Cardinality(InPc(call, "holding")) + 1
      BY <1>t, <3>1, <3>2, CallLeaves
    <3>4. Cardinality(CellsIn(call')) = Cardinality(CellsIn(call)) + call[p].bytes
      BY <1>t, <3>1, <3>2, CellsLeave
    <3>5. InPc(call', "asking") = InPc(call, "asking")
      BY <3>1, <3>2 DEF InPc
    <3>6. /\ budget'.bytes = budget.bytes + call[p].bytes
          /\ budget'.records = budget.records + 1
          /\ budget'.controls = budget.controls
      BY <1>t, <3>1 DEF Budgets
    <3>7. Holders' = Holders
      BY <3>1, HoldersFrame DEF HoldersSame
    <3>8. /\ BytesOf(Holders) \in Nat /\ Cardinality(Notes(Holders)) \in Nat
          /\ call[p].bytes \in Nat
      BY <1>t, CountsTyped DEF CallStates
    <3>9. Credits(budget', Holders, call', rx.held)
      BY <1>c, <1>t, <3>3, <3>4, <3>5, <3>6, <3>8 DEF Credits
    <3> QED
      BY <3>1, <3>7, <3>9, CreditsAre
  <2> QED
    BY <2>1, <2>2, <2>3
<1>7. CASE Retry(p)
  BY <1>7, GoesTo, CreditsCall DEF Retry, HoldersSame, SameBudget
<1>8. CASE Enqueue(p)
  <2>1. PICK item : item = IF call[p].pc = "holding"
                            THEN Item(st.accepted + 1, "note", call[p].bytes)
                            ELSE Item(st.accepted + 1, "question", 0)
    OBVIOUS
  <2>2. /\ item \in Items /\ item.seq = st.accepted + 1
        /\ call[p].pc = "holding" => item.kind = "note" /\ item.bytes = call[p].bytes
        /\ call[p].pc # "holding" => item.kind = "question"
        /\ call[p].bytes \in Nat
    <3>1. st.accepted + 1 \in Nat /\ call[p].bytes \in Nat
      BY <1>t DEF Types, StoreStates, CallStates
    <3> QED
      BY <2>1, <3>1 DEF Item, Items
  <2>3. call[p].pc \in {"holding", "asking"} /\ UNCHANGED <<spool, rx>>
    BY <1>8 DEF Enqueue
  <2>4. item \notin Holders
    <3>1. \A i \in Holders : i.seq \in Nat /\ i.seq <= st.accepted
      BY ItemsPlaced
    <3>2. st.accepted \in Nat
      BY ItemsPlaced
    <3> QED
      BY <2>2, <3>1, <3>2
  <2>5. /\ BytesOf(Holders) \in Nat
        /\ Cardinality(Notes(Holders)) \in Nat /\ Cardinality(Questions(Holders)) \in Nat
        /\ BytesOf(Holders \cup {item}) =
             BytesOf(Holders) + (IF item.kind = "note" THEN item.bytes ELSE 0)
        /\ Cardinality(Notes(Holders \cup {item})) =
             Cardinality(Notes(Holders)) + (IF item.kind = "note" THEN 1 ELSE 0)
        /\ Cardinality(Questions(Holders \cup {item})) =
             Cardinality(Questions(Holders)) + (IF item.kind = "question" THEN 1 ELSE 0)
    BY <1>t, <2>2, <2>4, ItemJoins
  <2>6. ASSUME NEW d \in [Producers -> CallStates], d[p].pc = "idle",
               \A q \in Producers \ {p} : d[q].pc = call[q].pc /\ d[q].bytes = call[q].bytes
        PROVE  /\ Cardinality(CellsIn(d)) \in Nat
               /\ Cardinality(InPc(d, "holding")) \in Nat /\ Cardinality(InPc(d, "asking")) \in Nat
               /\ call[p].pc = "holding" =>
                    /\ Cardinality(InPc(call, "holding")) = Cardinality(InPc(d, "holding")) + 1
                    /\ Cardinality(CellsIn(call)) = Cardinality(CellsIn(d)) + call[p].bytes
                    /\ Cardinality(InPc(call, "asking")) = Cardinality(InPc(d, "asking"))
               /\ call[p].pc = "asking" =>
                    /\ Cardinality(InPc(call, "asking")) = Cardinality(InPc(d, "asking")) + 1
                    /\ Cardinality(CellsIn(call)) = Cardinality(CellsIn(d))
                    /\ Cardinality(InPc(call, "holding")) = Cardinality(InPc(d, "holding"))
    <3>1. CASE call[p].pc = "holding"
      <4>1. InPc(d, "asking") = InPc(call, "asking")
        BY <2>6, <3>1 DEF InPc
      <4>2. Cardinality(InPc(call, "holding")) = Cardinality(InPc(d, "holding")) + 1
            /\ Cardinality(InPc(d, "holding")) \in Nat
        BY <1>t, <2>6, <3>1, CallLeaves
      <4>3. Cardinality(CellsIn(call)) = Cardinality(CellsIn(d)) + call[p].bytes
            /\ Cardinality(CellsIn(d)) \in Nat
        BY <1>t, <2>6, <3>1, CellsLeave
      <4> QED
        BY <1>t, <3>1, <4>1, <4>2, <4>3
    <3>2. CASE call[p].pc = "asking"
      <4>1. InPc(d, "holding") = InPc(call, "holding")
        BY <2>6, <3>2 DEF InPc
      <4>2. Cardinality(InPc(call, "asking")) = Cardinality(InPc(d, "asking")) + 1
            /\ Cardinality(InPc(d, "asking")) \in Nat
        BY <1>t, <2>6, <3>2, CallLeaves
      <4>3. CellsIn(d) = CellsIn(call)
        <5>1. \A q \in InPc(call, "holding") : d[q].bytes = call[q].bytes
          BY <2>6, <3>2 DEF InPc
        <5> QED
          BY <4>1, <5>1 DEF CellsIn
      <4> QED
        BY <1>t, <3>2, <4>1, <4>2, <4>3
    <3> QED
      BY <2>3, <3>1, <3>2
  <2>7. CASE Writable
    <3>1. Push(item) /\ worker' = WokenWorker /\ CallEnds(p) /\ UNCHANGED budget
      BY <1>8, <2>1, <2>7 DEF Enqueue
    <3>2. Holders' = Holders \cup {item}
      <4>1. ItemsOf(st'.queue) = ItemsOf(st.queue) \cup {item} /\ st'.output = st.output
        BY <2>2, <3>1, AppendItems DEF Push, Types, StoreStates
      <4>2. worker'.item = worker.item /\ UNCHANGED spool
        BY <2>3, <3>1, WokenSame
      <4> QED
        BY <4>1, <4>2, QueueIs DEF Holders
    <3>3. call'[p].pc = "idle" /\ \A q \in Producers \ {p} : call'[q] = call[q]
      BY <3>1, EndsAt
    <3>4. Credits(budget, Holders \cup {item}, call', rx.held)
      BY <1>c, <1>t, <2>2, <2>3, <2>5, <2>6, <3>3 DEF Credits
    <3> QED
      BY <2>3, <3>1, <3>2, <3>4, CreditsAre
  <2>8. CASE ~Writable
    <3>1. /\ budget' = Returned({item}) /\ UNCHANGED <<st, worker>>
          /\ call' = [(IF item.kind = "note" THEN WokenCalls ELSE call) EXCEPT ![p] = Idle]
      BY <1>8, <2>1, <2>8 DEF Enqueue
    <3>2. call'[p].pc = "idle"
          /\ \A q \in Producers \ {p} : call'[q].pc = call[q].pc /\ call'[q].bytes = call[q].bytes
      BY <1>t, <3>1, WokenTyped, WokenCallsSame DEF SameCalls, Idle
    <3>3. Holders' = Holders
      BY <2>3, <3>1, HoldersFrame DEF HoldersSame
    <3>4. /\ budget'.bytes = budget.bytes - (IF item.kind = "note" THEN item.bytes ELSE 0)
          /\ budget'.records = budget.records - (IF item.kind = "note" THEN 1 ELSE 0)
          /\ budget'.controls = budget.controls - (IF item.kind = "question" THEN 1 ELSE 0)
      <4>1. /\ budget'.bytes = budget.bytes - BytesOf({item})
            /\ budget'.records = budget.records - Cardinality(Notes({item}))
            /\ budget'.controls = budget.controls - Cardinality(Questions({item}))
        BY <1>t, <3>1 DEF Returned, Budgets
      <4> QED
        BY <2>2, <4>1, OneItem
    <3>5. Credits(budget', Holders, call', rx.held)
      BY <1>c, <1>t, <2>2, <2>3, <2>5, <2>6, <3>2, <3>4 DEF Credits
    <3> QED
      BY <2>3, <3>3, <3>5, CreditsAre
  <2> QED
    BY <2>7, <2>8
<1> QED
  BY <1>1, <1>2, <1>3, <1>4, <1>5, <1>6, <1>7, <1>8 DEF ProducerSteps, ProducerCalls

\* A step that moves items about and gives none back.
LEMMA CreditsAlike ==
  ASSUME CreditsExact, Alike(Holders, Holders'), SameBudget(budget, budget'),
         SameCalls(call, call'), rx'.held = rx.held
  PROVE  CreditsExact'
BY CreditsAre, CreditsFrame

\* A step that gives some back.
LEMMA GivenBack ==
  ASSUME Types, CreditsExact, NEW gone \in SUBSET Holders, budget' = Returned(gone),
         Alike(Holders \ gone, Holders'), SameCalls(call, call'), rx'.held = rx.held
  PROVE  CreditsExact'
<1>1. /\ Holders \in SUBSET Items /\ IsFiniteSet(Holders) /\ budget \in Budgets
      /\ rx.held \in Nat
      /\ Cardinality(InPc(call, "holding")) \in Nat
      /\ Cardinality(InPc(call, "asking")) \in Nat
      /\ Cardinality(CellsIn(call)) \in Nat
  BY CountsTyped
<1>2. /\ budget'.bytes = budget.bytes - BytesOf(gone)
      /\ budget'.records = budget.records - Cardinality(Notes(gone))
      /\ budget'.controls = budget.controls - Cardinality(Questions(gone))
  BY <1>1 DEF Returned, Budgets
<1>3. Credits(budget, Holders, call, rx.held)
  BY CreditsAre
<1>4. Credits(budget', Holders', call', rx.held)
  BY <1>1, <1>2, <1>3, CreditsReturned
<1> QED
  BY <1>4, CreditsAre

\* The worker drops the credits of what it drops, and of nothing else.
LEMMA WorkerCredits ==
  ASSUME Types, Types', Numbers, CreditsExact, WorkerSteps
  PROVE  CreditsExact'
<1>t. /\ st \in StoreStates /\ worker \in Workers /\ spool \in Spools
      /\ worker.item \in Items /\ st.output \in Items
      /\ worker.item.seq \in Nat /\ st.output.seq \in Nat
  BY DEF Types, StoreStates, Workers, Items
<1>p. /\ spool.read \in Nat /\ spool.held \in Nat /\ spool.read <= spool.held
      /\ \A i \in InQueue : spool.held < i.seq
      /\ \A i \in spool.live : spool.read < i.seq /\ i.seq <= spool.held
                                   /\ i.kind = "question"
      /\ Taken => \A i \in InQueue : worker.item.seq < i.seq
  BY ItemsPlaced
<1>i. InQueue \subseteq Items /\ spool.live \subseteq Items
  BY HoldersFinite, <1>t DEF Spools
<1>n. /\ worker.pc \notin {"append", "publish", "written", "slot"} => worker.item = None
      /\ worker.pc \in {"read", "slot"} => st.output = None
      /\ worker.pc # "over" /\ st.output # None =>
           st.output.seq = spool.read /\ st.output.kind \in {"question", "data"}
      /\ worker.pc \in {"append", "publish", "written"} =>
           worker.item.kind \in {"note", "question", "ready"}
      /\ worker.pc = "append" => spool.held < worker.item.seq
      /\ worker.pc = "written" /\ worker.item.kind = "question" => worker.item \in spool.live
      /\ worker.pc = "slot" => /\ worker.item.kind \in {"question", "data"}
                               /\ worker.item.seq = spool.read
  BY DEF Numbers, InHand, Spooled, Taken, Reading
<1>s. \A how : Stops(how) => worker'.item = None
  BY <1>t DEF Stops, Workers
<1>m. \A pc : Moves(pc) => worker'.item = worker.item
  BY <1>t DEF Moves, Workers
<1>c. SameCalls(call, call)
  BY DEF SameCalls
<1>b. SameBudget(budget, budget)
  BY DEF SameBudget
<1>r. \A gone : Return(gone) => budget' = Returned(gone) /\ SameCalls(call, call')
  BY <1>c, WokenCallsSame DEF Return
<1>1. CASE Create
  <2>1. HoldersSame
    BY <1>1, <1>n, <1>s, <1>m DEF Create, At, StopsOnError, HoldersSame
  <2> QED
    BY <1>1, <1>b, <1>c, <2>1, CreditsStay DEF Create
<1>2. CASE NextWork
  <2>1. CASE /\ st.queue # <<>>
             /\ worker' = [worker EXCEPT !.pc = "append", !.item = Head(st.queue)]
             /\ st' = [st EXCEPT !.queue = Tail(@)]
    <3>1. /\ worker'.item = Head(st.queue) /\ st'.queue = Tail(st.queue)
          /\ st'.output = st.output /\ worker.item = None /\ UNCHANGED spool
      BY <1>2, <1>t, <1>n, <2>1 DEF NextWork, At, Workers, StoreStates
    <3>2. ItemsOf(st.queue) = ItemsOf(st'.queue) \cup {Head(st.queue)}
      BY <1>t, <2>1, <3>1, TailItems DEF StoreStates
    <3>3. Head(st.queue) # None
      <4>1. Head(st.queue) \in InQueue
        BY <3>2, QueueIs
      <4>2. \A i \in InQueue : i.kind # "none"
        BY DEF InQueue, Numbers, Queued
      <4> QED
        BY <4>1, <4>2 DEF None
    <3>4. Holders' = Holders
      BY <3>1, <3>2, <3>3, QueueIs DEF Holders
    <3> QED
      BY <1>2, <1>b, <1>c, <3>4, CreditsAlike DEF NextWork, Alike
  <2>2. CASE ~ /\ st.queue # <<>>
               /\ worker' = [worker EXCEPT !.pc = "append", !.item = Head(st.queue)]
               /\ st' = [st EXCEPT !.queue = Tail(@)]
    <3>1. worker'.item = None /\ worker.item = None /\ UNCHANGED spool
      BY <1>2, <1>n, <1>s, <1>m, <2>2 DEF NextWork, At
    <3>2. st'.queue = st.queue /\ st'.output = st.output
      BY <1>2, <1>t, <2>2 DEF NextWork, StoreStates
    <3> QED
      BY <1>2, <1>b, <1>c, <3>1, <3>2, CreditsStay DEF NextWork, HoldersSame
  <2> QED
    BY <2>1, <2>2
<1>3. CASE AppendRecord
  <2>n. /\ worker.pc = "append" /\ UNCHANGED st /\ worker.item # None
        /\ UNCHANGED rx
    BY <1>3, <1>n DEF AppendRecord, At, None
  <2>1. CASE /\ Moves("publish") /\ UNCHANGED <<budget, call>>
             /\ spool' = [spool EXCEPT !.held = worker.item.seq,
                                       !.live = @ \cup Questions({worker.item})]
    <3>1. worker'.item = worker.item /\ spool'.live = spool.live \cup Questions({worker.item})
      BY <1>t, <1>m, <2>1 DEF Spools
    <3>2. Holders' = Holders
      BY <2>n, <3>1 DEF Holders, InQueue, Questions
    <3> QED
      BY <1>b, <1>c, <2>n, <2>1, <3>2, CreditsAlike DEF Alike
  <2>2. CASE StopsOnError /\ Return({worker.item}) /\ UNCHANGED spool
    <3>1. worker.item \notin InQueue /\ worker.item \notin spool.live
      BY <1>p, <1>n, <1>t, <2>n DEF Taken
    <3>2. worker.item # st.output
      BY <1>p, <1>n, <1>t, <2>n
    <3>3. Holders' = Holders \ {worker.item} /\ worker.item \in Holders
      BY <1>s, <2>n, <2>2, <3>1, <3>2 DEF Holders, InQueue, StopsOnError
    <3> QED
      BY <1>r, <2>n, <2>2, <3>3, GivenBack DEF Alike
  <2> QED
    BY <1>3, <2>1, <2>2 DEF AppendRecord
<1>4. CASE Publish
  <2>1. HoldersSame
    BY <1>4, <1>m, <1>t DEF Publish, HoldersSame, StoreStates
  <2> QED
    BY <1>4, <1>b, <1>c, <2>1, CreditsStay DEF Publish
<1>5. CASE DropWritten
  <2>1. /\ worker.pc = "written" /\ worker'.item = None /\ UNCHANGED <<st, spool, rx>>
        /\ worker.item # None
    BY <1>5, <1>n, <1>t DEF DropWritten, At, Workers, None
  <2>2. Notes({worker.item}) \subseteq Holders
    BY <2>1 DEF Holders, Notes
  <2>3. worker.item.kind = "note" => worker.item \notin InQueue /\ worker.item \notin spool.live
                                      /\ worker.item # st.output
    BY <1>p, <1>n, <1>t, <2>1 DEF Taken
  <2>4. Holders = Holders' \cup {worker.item}
    BY <2>1 DEF Holders, InQueue
  <2>5. worker.item.kind = "note" => worker.item \notin Holders'
    BY <2>1, <2>3 DEF Holders, InQueue, None
  <2>6. worker.item.kind = "question" => worker.item \in Holders'
    BY <1>n, <2>1 DEF Holders
  <2>7. Alike(Holders \ Notes({worker.item}), Holders')
    BY <2>4, <2>5, <2>6 DEF Alike, Notes, Questions
  <2> QED
    BY <1>5, <1>r, <2>1, <2>2, <2>7, GivenBack DEF DropWritten
<1>6. CASE PublishTerminal
  <2>1. HoldersSame
    BY <1>6, <1>m, <1>t DEF PublishTerminal, HoldersSame, StoreStates
  <2> QED
    BY <1>6, <1>b, <1>c, <2>1, CreditsStay DEF PublishTerminal
<1>7. CASE ReadRecord
  <2>n. /\ worker.pc = "read" /\ worker.item = None /\ st.output = None
        /\ UNCHANGED <<st, rx, budget, call>>
    BY <1>7, <1>n DEF ReadRecord, At
  <2>1. CASE StopsOnError /\ UNCHANGED spool
    BY <1>b, <1>c, <1>s, <2>n, <2>1, CreditsStay DEF StopsOnError, HoldersSame
  <2>2. CASE ~(StopsOnError /\ UNCHANGED spool)
    <3>1. PICK asked : asked = {q \in spool.live : q.seq = spool.read + 1}
      OBVIOUS
    <3>2. PICK item : item = IF asked # {} THEN CHOOSE q \in asked : TRUE
                             ELSE Item(spool.read + 1, "data", 0)
      OBVIOUS
    <3>3. /\ spool'.live = spool.live \ asked /\ worker'.item = item
      <4>1. /\ spool' = [spool EXCEPT !.read = spool.read + 1, !.live = @ \ asked]
            /\ worker' = [worker EXCEPT !.pc = "slot", !.item = item]
        BY <1>7, <2>2, <3>1, <3>2 DEF ReadRecord
      <4> QED
        BY <1>t, <4>1 DEF Spools, Workers
    <3>4. asked # {} => asked = {item} /\ item \in spool.live
      <4>1. \A q, r \in asked : q = r
        BY <3>1 DEF Numbers, Spooled
      <4>2. asked # {} => item \in asked
        BY <3>2
      <4>3. asked \subseteq spool.live
        BY <3>1
      <4> QED
        BY <4>1, <4>2, <4>3
    <3>5. asked = {} => item.kind = "data" /\ item # None
      BY <3>2 DEF Item, None
    <3>6. asked # {} => item.kind = "question" /\ item # None
      BY <1>p, <3>4 DEF None
    <3>7. Holders = InQueue \cup spool.live
      BY <2>n DEF Holders
    <3>8. Holders' = InQueue \cup (spool.live \ asked) \cup {item}
      BY <2>n, <3>3, <3>5, <3>6 DEF Holders, InQueue
    <3>9. Alike(Holders, Holders')
      <4>1. CASE asked = {}
        BY <3>5, <3>7, <3>8, <4>1 DEF Alike, Notes, Questions
      <4>2. CASE asked # {}
        BY <3>4, <3>7, <3>8, <4>2 DEF Alike
      <4> QED
        BY <4>1, <4>2
    <3> QED
      BY <1>b, <1>c, <2>n, <3>9, CreditsAlike
  <2> QED
    BY <2>1, <2>2
<1>8. CASE FillSlot
  <2>n. /\ worker.pc = "slot" /\ st.output = None /\ UNCHANGED <<spool, call>>
        /\ worker.item # None
    BY <1>8, <1>n DEF FillSlot, At, None
  <2>1. CASE st.cancelled
    <3>1. Stops("cancelled") /\ budget' = Returned({worker.item}) /\ UNCHANGED <<st, rx>>
      BY <1>8, <2>1 DEF FillSlot
    <3>2. worker.item \notin InQueue /\ worker.item \notin spool.live
      BY <1>p, <1>n, <1>t, <2>n
    <3>3. Holders' = Holders \ {worker.item} /\ worker.item \in Holders
      BY <1>s, <2>n, <3>1, <3>2 DEF Holders, InQueue
    <3> QED
      BY <1>c, <2>n, <3>1, <3>3, GivenBack DEF Alike
  <2>2. CASE ~st.cancelled
    <3>1. /\ worker'.item = None /\ st'.output = worker.item /\ st'.queue = st.queue
          /\ UNCHANGED budget
      BY <1>8, <1>t, <2>n, <2>2 DEF FillSlot, Workers, StoreStates
    <3>2. rx'.held = rx.held
      BY <1>8, <2>n, <2>2 DEF FillSlot, WokenReceiver, Types, Receivers
    <3>3. Holders' = Holders
      BY <2>n, <3>1 DEF Holders, InQueue
    <3> QED
      BY <1>b, <1>c, <2>n, <3>1, <3>2, <3>3, CreditsAlike DEF Alike
  <2> QED
    BY <2>1, <2>2
<1>9. CASE FailStore
  <2>1. HoldersSame
    BY <1>9, <1>m, CancelSame DEF FailStore, HoldersSame
  <2> QED
    BY <1>9, <1>b, <1>c, <2>1, CreditsStay DEF FailStore
<1>10. CASE Strip
  <2>1. PICK undelivered :
           undelivered = IF worker.how = "source" THEN {} ELSE {st.output} \ {None}
    OBVIOUS
  <2>2. /\ Return(InQueue \cup undelivered \cup spool.live) /\ UNCHANGED rx
        /\ worker.pc = "strip" /\ worker.item = None /\ worker'.item = None
    BY <1>10, <1>n, <1>m, <2>1 DEF Strip, At
  <2>3. worker.how = "source" => st.output = None
    BY <2>2 DEF Numbers, Ending
  <2>4. InQueue \cup undelivered \cup spool.live = Holders
    BY <2>1, <2>2, <2>3 DEF Holders
  <2>5. st'.queue = <<>> /\ st'.output = None /\ spool'.live = {}
    BY <1>10, <1>t, <2>3 DEF Strip, StoreStates, Spools
  <2>6. InQueue' = {}
    BY <2>5, EmptySeq DEF InQueue
  <2>7. Holders' = Holders \ Holders
    BY <2>2, <2>5, <2>6 DEF Holders
  <2> QED
    BY <1>r, <2>2, <2>4, <2>7, GivenBack DEF Alike
<1>11. CASE Report
  <2>1. /\ worker.pc = "report" /\ worker.item = None /\ worker'.item = None
        /\ st.output = None /\ UNCHANGED <<spool, rx, budget, call>>
    BY <1>11, <1>n, <1>m DEF Report, At, Numbers, Ending
  <2>2. st'.queue = st.queue
    BY <1>11, <1>t DEF Report, StoreStates
  <2>3. st'.output = None \/ st'.output.kind = "closed"
    BY <1>11, <1>t, <2>1 DEF Report, StoreStates, Item
  <2>4. Alike(Holders, Holders')
    <3>1. Holders = InQueue \cup spool.live
      BY <2>1 DEF Holders
    <3>2. Holders' = Holders \cup ({st'.output} \ {None})
      BY <2>1, <2>2, <3>1 DEF Holders, InQueue
    <3> QED
      BY <2>3, <3>2 DEF Alike, Notes, Questions
  <2> QED
    BY <1>b, <1>c, <2>1, <2>4, CreditsAlike
<1> QED
  BY <1>1, <1>2, <1>3, <1>4, <1>5, <1>6, <1>7, <1>8, <1>9, <1>10, <1>11 DEF WorkerSteps

\* The transport's end drops handlers that hold no credit.
LEMMA TransportCredits ==
  ASSUME Types, Types', Numbers, CreditsExact,
         \/ DriverSteps \/ OpenerSteps \/ DropSteps
         \/ AcceptSession \/ RuntimeDropped \/ Answer
         \/ \E why \in {"closed", "failed", "transport"} : TransportEnds(why)
         \/ \E a \in Actors : Settle(a)
  PROVE  CreditsExact'
<1>t. st \in StoreStates /\ worker \in Workers /\ rx \in Receivers /\ budget \in Budgets
  BY DEF Types
<1>c. SameCalls(call, call)
  BY DEF SameCalls
<1>b. SameBudget(budget, budget)
  BY DEF SameBudget
<1>u. ASSUME NEW a, Cancel(a), UNCHANGED <<spool, worker>> PROVE HoldersSame
  BY <1>u, CancelSame DEF HoldersSame
<1>d. ASSUME HandlersAwait, HandlersDropped, UNCHANGED <<st, spool, worker, budget>>,
             rx'.held = rx.held
      PROVE  CreditsExact'
  <2>1. \A p \in Producers : call[p].pc \notin {"holding", "asking"}
                              /\ call'[p].pc \notin {"holding", "asking"}
    BY <1>d DEF HandlersAwait, HandlersDropped, Idle
  <2>2. \A pc \in {"holding", "asking"} : InPc(call, pc) = {} /\ InPc(call', pc) = {}
    BY <2>1 DEF InPc
  <2>3. CellsIn(call') = CellsIn(call)
    BY <2>2 DEF CellsIn
  <2>4. Holders' = Holders
    BY <1>d, HoldersFrame DEF HoldersSame
  <2>5. Credits(budget, Holders, call', rx.held)
    BY <2>2, <2>3, CreditsAre DEF Credits
  <2> QED
    BY <1>d, <2>4, <2>5, CreditsAre
<1>1. CASE DriverDecides \/ DriverJoins
  BY <1>1, <1>b, <1>c, CreditsStay DEF DriverDecides, DriverJoins, HoldersSame
<1>2. CASE DriverCancels
  BY <1>2, <1>b, <1>c, <1>u, CreditsStay DEF DriverCancels
<1>3. CASE DriverBeginsClose
  <2>1. st'.queue = st.queue /\ st'.output = st.output
    BY <1>3, <1>t DEF DriverBeginsClose, BeginClose, StoreStates
  <2> QED
    BY <1>3, <1>b, <1>c, <2>1, CreditsStay DEF DriverBeginsClose, HoldersSame
<1>4. CASE DriverCloses
  <2>1. st'.queue = st.queue /\ st'.output = st.output
    BY <1>4, <1>t DEF DriverCloses, ConfirmClose, StoreStates
  <2> QED
    BY <1>4, <1>b, <1>c, <2>1, CreditsStay DEF DriverCloses, HoldersSame
<1>5. CASE OpenerPublishes
  <2>1. CASE Writable
    <3>1. PICK item : item = Item(st.accepted + 1, "ready", 0)
      OBVIOUS
    <3>2. item \in Items /\ item.kind = "ready"
      BY <1>t, <3>1 DEF StoreStates, Item, Items
    <3>3. /\ st' = [st EXCEPT !.accepted = @ + 1, !.readyEnqueued = TRUE,
                              !.queue = Append(@, item)]
          /\ worker' = WokenWorker /\ rx' = [rx EXCEPT !.pc = "idle"]
          /\ UNCHANGED <<spool, budget, call>>
      BY <1>5, <2>1, <3>1 DEF OpenerPublishes
    <3>4. st'.queue = Append(st.queue, item) /\ st'.output = st.output /\ rx'.held = rx.held
      BY <1>t, <3>3 DEF StoreStates, Receivers
    <3>5. ItemsOf(st'.queue) = ItemsOf(st.queue) \cup {item}
      BY <1>t, <3>2, <3>4, AppendItems DEF StoreStates
    <3>6. worker'.item = worker.item
      BY <3>3, WokenSame
    <3>7. Holders' = Holders \cup {item}
      BY <3>3, <3>4, <3>5, <3>6, QueueIs DEF Holders
    <3>8. Alike(Holders, Holders')
      BY <3>2, <3>7 DEF Alike, Notes, Questions
    <3> QED
      BY <1>b, <1>c, <3>3, <3>4, <3>8, CreditsAlike
  <2>2. CASE ~Writable
    BY <1>5, <1>b, <1>c, <2>2, CreditsStay DEF OpenerPublishes, HoldersSame
  <2> QED
    BY <2>1, <2>2
<1>6. CASE OpenerRefuses
  BY <1>6, <1>b, <1>c, CreditsStay DEF OpenerRefuses, HoldersSame
<1>7. CASE OpenerCancels
  BY <1>7, <1>b, <1>c, <1>u, CreditsStay DEF OpenerCancels
<1>8. CASE GuardCancels
  BY <1>8, <1>b, <1>c, <1>u, CreditsStay DEF GuardCancels
<1>9. CASE SourceEof
  <2>1. st'.queue = st.queue /\ st'.output = st.output
    BY <1>9, <1>t DEF SourceEof, StoreStates
  <2> QED
    BY <1>9, <1>b, <1>c, <2>1, CreditsStay DEF SourceEof, HoldersSame
<1>10. CASE ReceiverLeaves
  <2>1. st'.queue = st.queue /\ st'.output = st.output /\ rx'.held = rx.held
    BY <1>10, <1>t DEF ReceiverLeaves, StoreStates, Receivers
  <2> QED
    BY <1>10, <1>b, <1>c, <2>1, CreditsStay DEF ReceiverLeaves, HoldersSame
<1>11. CASE ReceiverCancels
  <2>1. rx'.held = rx.held
    BY <1>11, <1>t DEF ReceiverCancels, Receivers
  <2> QED
    BY <1>11, <1>b, <1>c, <1>u, <2>1, CreditsStay DEF ReceiverCancels
<1>12. CASE AcceptSession
  <2>1. st'.queue = st.queue /\ st'.output = st.output
    BY <1>12, <1>t DEF AcceptSession, StoreStates
  <2> QED
    BY <1>12, <1>b, <1>c, <2>1, CreditsStay DEF AcceptSession, HoldersSame
<1>13. CASE RuntimeDropped
  <2>1. rx'.held = rx.held
    BY <1>13, <1>t DEF RuntimeDropped, Receivers
  <2> QED
    BY <1>13, <1>d, <2>1 DEF RuntimeDropped
<1>14. CASE Answer
  <2>1. /\ rx'.held = rx.held - 1 /\ rx.held \in Nat /\ UNCHANGED <<st, spool, worker, call>>
        /\ budget'.bytes = budget.bytes /\ budget'.records = budget.records
        /\ budget'.controls = budget.controls - 1
    BY <1>14, <1>t DEF Answer, Receivers, Budgets
  <2>2. Holders' = Holders
    BY <2>1, HoldersFrame DEF HoldersSame
  <2>3. /\ Cardinality(Questions(Holders)) \in Nat
        /\ Cardinality(InPc(call, "asking")) \in Nat
    BY CountsTyped
  <2>4. Credits(budget, Holders, call, rx.held)
    BY CreditsAre
  <2>5. Credits(budget', Holders, call, rx'.held)
    BY <2>1, <2>3, <2>4 DEF Credits
  <2> QED
    BY <2>1, <2>2, <2>5, CreditsAre
<1>15. ASSUME NEW why, TransportEnds(why) PROVE CreditsExact'
  BY <1>15, <1>d DEF TransportEnds
<1>16. ASSUME NEW a \in Actors, Settle(a) PROVE CreditsExact'
  <2>1. SameCalls(call, call')
    BY <1>16, <1>c, WokenCallsSame DEF Settle
  <2>2. SameBudget(budget, budget')
    BY <1>16, <1>t, <1>b DEF Settle, SameBudget, Budgets
  <2>3. rx'.held = rx.held
    BY <1>16, <1>t DEF Settle, WokenReceiver, Receivers
  <2>4. HoldersSame
    BY <1>16, WokenSame DEF Settle, HoldersSame
  <2> QED
    BY <2>1, <2>2, <2>3, <2>4, CreditsStay
<1> QED
  BY <1>1, <1>2, <1>3, <1>4, <1>5, <1>6, <1>7, <1>8, <1>9, <1>10, <1>11, <1>12, <1>13,
     <1>14, <1>15, <1>16 DEF DriverSteps, OpenerSteps, DropSteps

\* The receiver takes a question's permit over with the question.
LEMMA TakeCredits ==
  ASSUME Types, Types', Numbers, CreditsExact, TakeEvent
  PROVE  CreditsExact'
<1>t. /\ st \in StoreStates /\ rx \in Receivers /\ st.output \in Items
      /\ st.output.seq \in Nat /\ rx.held \in Nat
  BY DEF Types, StoreStates, Items, Receivers
<1>n. /\ st.output # None /\ UNCHANGED spool
      /\ st.output.seq \in {0, st.delivered + 1}
  BY OutputInOrder DEF TakeEvent
<1>1. /\ st'.queue = st.queue /\ st'.output = None /\ worker'.item = worker.item
      /\ UNCHANGED <<budget, call>>
      /\ rx'.held = rx.held + Cardinality(Questions({st.output}))
  BY <1>n, <1>t, WokenSame DEF TakeEvent, Takes, StoreStates, Receivers
<1>2. st.output.kind \in {"question", "data", "closed"}
  BY <1>n DEF Numbers, Spooled, Ending
<1>3. Holders = Holders' \cup {st.output}
  BY <1>n, <1>1 DEF Holders, InQueue
<1>4. st.output.kind = "question" => st.output \notin Holders'
  <2> SUFFICES ASSUME st.output.kind = "question" PROVE st.output \notin Holders'
    OBVIOUS
  <2>1. worker.pc # "over" /\ st.output.seq = spool.read
    BY <1>n DEF Numbers, Spooled, Ending
  <2>2. st.output \notin InQueue /\ st.output \notin spool.live
    BY <1>t, <2>1, ItemsPlaced
  <2>3. worker.item # st.output
    <3>1. worker.pc \notin {"append", "publish", "written", "slot"} => worker.item = None
      BY DEF Numbers, InHand
    <3>2. worker.pc # "slot"
      BY <1>n DEF Numbers, Spooled
    <3>3. worker.pc = "append" => spool.held < worker.item.seq
      BY DEF Numbers, InHand
    <3>4. worker.pc \in {"publish", "written"} /\ worker.item.kind = "question" =>
             worker.item \in spool.live
      BY DEF Numbers, InHand
    <3> QED
      BY <1>n, <1>t, <2>1, <2>2, <3>1, <3>2, <3>3, <3>4, ItemsPlaced
  <2> QED
    BY <1>n, <1>1, <2>2, <2>3 DEF Holders, InQueue
<1>5. Notes(Holders') = Notes(Holders)
  BY <1>2, <1>3 DEF Notes
<1>6. Cardinality(Questions(Holders)) =
        Cardinality(Questions(Holders')) + Cardinality(Questions({st.output}))
        /\ Cardinality(Questions(Holders')) \in Nat /\ Cardinality(Questions({st.output})) \in Nat
  <2>1. Holders \in SUBSET Items /\ IsFiniteSet(Holders)
    BY HoldersFinite
  <2>2. PICK rest : rest = Holders'
    OBVIOUS
  <2>3. rest \in SUBSET Items /\ IsFiniteSet(rest) /\ Holders = rest \cup {st.output}
    BY <1>3, <2>1, <2>2, FS_Subset
  <2>4. Cardinality(Questions({st.output})) = IF st.output.kind = "question" THEN 1 ELSE 0
    BY <1>t, OneItem
  <2>5. CASE st.output.kind = "question"
    <3>1. st.output \notin rest
      BY <1>4, <2>2, <2>5
    <3>2. /\ Cardinality(Questions(rest \cup {st.output})) = Cardinality(Questions(rest)) + 1
          /\ Cardinality(Questions(rest)) \in Nat
      BY <1>t, <2>3, <2>5, <3>1, ItemJoins
    <3> QED
      BY <2>2, <2>3, <2>4, <2>5, <3>2
  <2>6. CASE st.output.kind # "question"
    <3>1. Questions(Holders) = Questions(rest)
      BY <2>3, <2>6 DEF Questions
    <3>2. Cardinality(Questions(Holders)) \in Nat
      BY CountsTyped
    <3> QED
      BY <2>2, <2>4, <2>6, <3>1, <3>2
  <2> QED
    BY <2>5, <2>6
<1>7. Credits(budget, Holders, call, rx.held)
  BY CreditsAre
<1>8. Cardinality(InPc(call, "asking")) \in Nat
  BY CountsTyped
<1>9. Credits(budget', Holders', call', rx'.held)
  BY <1>t, <1>1, <1>5, <1>6, <1>7, <1>8 DEF Credits, BytesOf
<1> QED
  BY <1>9, CreditsAre

\* Every step keeps the budget exact.
LEMMA CreditsStep ==
  ASSUME Types, Types', Numbers, CreditsExact, [HostNext]_allVars
  PROVE  CreditsExact'
<1>t. st \in StoreStates /\ rx \in Receivers
  BY DEF Types
<1>c. SameCalls(call, call)
  BY DEF SameCalls
<1>b. SameBudget(budget, budget)
  BY DEF SameBudget
<1>v. UNCHANGED vars => CreditsExact'
  BY <1>b, <1>c, CreditsStay DEF vars, HoldersSame
<1>1. CASE UNCHANGED allVars
  BY <1>1, <1>v DEF allVars
<1>2. CASE StoreNext /\ UNCHANGED hostVars
  BY <1>2, ProducerCredits, WorkerCredits, TransportCredits DEF StoreNext
<1>3. CASE Answered \/ TurnSteps \/ HostLearns \/ HostFenced \/ HostEndsTurn \/ HostStops
  BY <1>3, <1>v DEF Answered, TurnSteps, FenceStarts, FenceLooks, HostLearns, HostFenced,
     HostEndsTurn, HostStops
<1>4. CASE HostListens
  <2>1. rx'.held = rx.held
    BY <1>4, <1>t DEF HostListens, Listen, Receivers
  <2> QED
    BY <1>4, <1>b, <1>c, <2>1, CreditsStay DEF HostListens, Listen, HoldersSame
<1>5. CASE HostLeaves
  <2>1. rx'.held = rx.held
    BY <1>5, <1>t DEF HostLeaves, Receivers
  <2> QED
    BY <1>5, <1>b, <1>c, <2>1, CreditsStay DEF HostLeaves, HoldersSame
<1>6. CASE HostReceives
  BY <1>6, TakeCredits DEF HostReceives
<1>7. CASE HostSeesEnd
  <2>1. CASE TakeEnd
    <3>1. rx'.held = rx.held
      BY <2>1, <1>t DEF TakeEnd, Takes, Receivers
    <3> QED
      BY <2>1, <1>b, <1>c, <3>1, CreditsStay DEF TakeEnd, HoldersSame
  <2> QED
    BY <1>7, <1>v, <2>1 DEF HostSeesEnd
<1>8. CASE HostWaits
  <2>1. rx'.held = rx.held /\ st'.queue = st.queue /\ st'.output = st.output
    BY <1>8, <1>t DEF HostWaits, TakeNothing, Receivers, StoreStates
  <2>2. worker'.item = worker.item
    BY <1>8, WokenSame DEF HostWaits, TakeNothing
  <2> QED
    BY <1>8, <1>b, <1>c, <2>1, <2>2, CreditsStay DEF HostWaits, TakeNothing, HoldersSame
<1> QED
  BY <1>1, <1>2, <1>3, <1>4, <1>5, <1>6, <1>7, <1>8 DEF HostNext, LoopSteps, Polls
-----------------------------------------------------------------------------
(* The window, the calls and the bound of the stream *)

\* What CountsTyped says holds of the next state as well.
LEMMA CountsTypedNext ==
  Types' => /\ (Holders \in SUBSET Items /\ IsFiniteSet(Holders))'
            /\ (Cardinality(InPc(call, "holding")) \in Nat
                /\ Cardinality(InPc(call, "asking")) \in Nat
                /\ Cardinality(CellsIn(call)) \in Nat)'
<1>1. Types => /\ Holders \in SUBSET Items /\ IsFiniteSet(Holders)
               /\ Cardinality(InPc(call, "holding")) \in Nat
               /\ Cardinality(InPc(call, "asking")) \in Nat
               /\ Cardinality(CellsIn(call)) \in Nat
  BY CountsTyped
<1> QED
  BY <1>1, PTL

\* No counter of the budget is negative, and without records there are no bytes.
LEMMA NoRecordsNoBytes ==
  ASSUME Types, CreditsExact
  PROVE  /\ budget.bytes \in Nat /\ budget.records \in Nat /\ budget.controls \in Nat
         /\ budget.records = 0 => budget.bytes = 0
<1>1. Credits(budget, Holders, call, rx.held)
  BY CreditsAre
<1>2. budget.bytes \in Nat /\ budget.records \in Nat /\ budget.controls \in Nat
  BY <1>1, CountsTyped DEF Credits
<1>3. ASSUME budget.records = 0 PROVE budget.bytes = 0
  <2>1. Cardinality(Notes(Holders)) = 0 /\ Cardinality(InPc(call, "holding")) = 0
    BY <1>1, <1>3, CountsTyped DEF Credits
  <2>2. Notes(Holders) = {}
    <3>1. IsFiniteSet(Notes(Holders))
      BY CountsTyped, FS_Subset DEF Notes
    <3> QED
      BY <2>1, <3>1, FS_EmptySet
  <2>3. InPc(call, "holding") = {}
    <3>1. IsFiniteSet(InPc(call, "holding"))
      BY EventStoreAssumption, FS_Subset DEF InPc
    <3> QED
      BY <2>1, <3>1, FS_EmptySet
  <2>4. BytesOf(Holders) = 0 /\ Cardinality(CellsIn(call)) = 0
    <3>1. UNION {Cells(i, i.bytes) : i \in Notes(Holders)} = {} /\ CellsIn(call) = {}
      BY <2>2, <2>3 DEF CellsIn
    <3> QED
      BY <3>1, FS_EmptySet DEF BytesOf
  <2> QED
    BY <1>1, <2>4 DEF Credits
<1> QED
  BY <1>2, <1>3

\* The same of the next state.
LEMMA NoRecordsNoBytesNext ==
  Types' /\ CreditsExact' =>
    /\ budget'.bytes \in Nat /\ budget'.records \in Nat /\ budget'.controls \in Nat
    /\ budget'.records = 0 => budget'.bytes = 0
<1>1. Types /\ CreditsExact =>
        /\ budget.bytes \in Nat /\ budget.records \in Nat /\ budget.controls \in Nat
        /\ budget.records = 0 => budget.bytes = 0
  BY NoRecordsNoBytes
<1>2. (Types /\ CreditsExact =>
         /\ budget.bytes \in Nat /\ budget.records \in Nat /\ budget.controls \in Nat
         /\ budget.records = 0 => budget.bytes = 0)'
  BY <1>1, PTL
<1> QED
  BY <1>2

\* Credits that only come back keep within the window.
LEMMA WindowShrinks ==
  ASSUME Types, Types', CreditsExact, CreditsExact', Window,
         budget'.bytes <= budget.bytes, budget'.records <= budget.records,
         budget'.controls <= budget.controls
  PROVE  Window'
<1>1. /\ budget.bytes \in Nat /\ budget.records \in Nat /\ budget.controls \in Nat
      /\ budget'.bytes \in Nat /\ budget'.records \in Nat /\ budget'.controls \in Nat
      /\ budget'.records = 0 => budget'.bytes = 0
  BY NoRecordsNoBytes, NoRecordsNoBytesNext
<1> QED
  BY <1>1, EventStoreAssumption DEF Window

\* What is returned was counted.
LEMMA ReturnShrinks ==
  ASSUME Types, NEW gone \in SUBSET Items, IsFiniteSet(gone), budget' = Returned(gone)
  PROVE  /\ budget'.bytes <= budget.bytes /\ budget'.records <= budget.records
         /\ budget'.controls <= budget.controls
<1>1. {} \in SUBSET Items /\ IsFiniteSet({}) /\ gone \cap {} = {}
  BY FS_EmptySet
<1>2. /\ BytesOf(gone) \in Nat /\ Cardinality(Notes(gone)) \in Nat
      /\ Cardinality(Questions(gone)) \in Nat
  BY <1>1, CreditsApart
<1>3. /\ budget'.bytes = budget.bytes - BytesOf(gone)
      /\ budget'.records = budget.records - Cardinality(Notes(gone))
      /\ budget'.controls = budget.controls - Cardinality(Questions(gone))
      /\ budget.bytes \in Int /\ budget.records \in Int /\ budget.controls \in Int
  BY DEF Returned, Budgets, Types
<1> QED
  BY <1>2, <1>3

\* A step that moves no credit keeps the window.
LEMMA WindowFrame ==
  ASSUME Window, SameBudget(budget, budget')
  PROVE  Window'
BY DEF Window, SameBudget

\* No more than the window is admitted, but for a giant that is alone.
LEMMA WindowStep ==
  ASSUME Types, Types', CreditsExact, CreditsExact', Numbers, Window, [HostNext]_allVars
  PROVE  Window'
<1>t. /\ st \in StoreStates /\ worker \in Workers /\ rx \in Receivers /\ budget \in Budgets
      /\ worker.item \in Items
      /\ call \in [Producers -> CallStates]
  BY DEF Types, Workers
<1>b. SameBudget(budget, budget)
  BY DEF SameBudget
<1>n. budget.bytes \in Nat /\ budget.records \in Nat /\ budget.controls \in Nat
  BY NoRecordsNoBytes
<1>a. WindowBytes \in Nat /\ WindowRecords \in Nat \ {0} /\ ControlItems \in Nat
  BY EventStoreAssumption
<1>i. \A i \in Items : IsFiniteSet({i}) /\ {i} \in SUBSET Items
  BY FS_Singleton
<1>r. ASSUME NEW gone \in SUBSET Items, IsFiniteSet(gone), budget' = Returned(gone)
      PROVE  Window'
  BY <1>r, ReturnShrinks, WindowShrinks
<1>1. CASE UNCHANGED budget
  BY <1>1, <1>b, WindowFrame
<1>2. ASSUME NEW a \in Actors, Settle(a) PROVE Window'
  <2>1. SameBudget(budget, budget')
    BY <1>2, <1>t, <1>b DEF Settle, SameBudget, Budgets
  <2> QED
    BY <2>1, WindowFrame
<1>3. ASSUME NEW p \in Producers, Permit(p) PROVE Window'
  <2>1. CASE UNCHANGED budget
    BY <1>1, <2>1
  <2>2. CASE ~UNCHANGED budget
    <3>1. budget.controls # ControlItems /\ budget' = [budget EXCEPT !.controls = @ + 1]
      BY <1>3, <2>2 DEF Permit
    <3>2. /\ budget'.controls = budget.controls + 1
          /\ budget'.bytes = budget.bytes /\ budget'.records = budget.records
      BY <1>t, <3>1 DEF Budgets
    <3> QED
      BY <1>n, <1>a, <3>1, <3>2 DEF Window
  <2> QED
    BY <2>1, <2>2
<1>4. ASSUME NEW p \in Producers, Check(p) PROVE Window'
  <2>1. CASE UNCHANGED budget
    BY <1>1, <2>1
  <2>2. CASE ~UNCHANGED budget
    <3>1. /\ Fits(call[p].bytes)
          /\ budget' = [budget EXCEPT !.bytes = @ + call[p].bytes, !.records = @ + 1]
      BY <1>4, <2>2 DEF Check
    <3>2. /\ budget'.bytes = budget.bytes + call[p].bytes
          /\ budget'.records = budget.records + 1 /\ budget'.controls = budget.controls
      BY <1>t, <3>1 DEF Budgets
    <3>3. call[p].bytes \in Nat
      BY <1>t DEF CallStates
    <3> QED
      BY <1>n, <1>a, <3>1, <3>2, <3>3 DEF Window, Fits
  <2> QED
    BY <2>1, <2>2
<1>5. ASSUME NEW p \in Producers, Enqueue(p) PROVE Window'
  <2>1. CASE UNCHANGED budget
    BY <1>1, <2>1
  <2>2. CASE ~UNCHANGED budget
    <3>1. PICK item : item = IF call[p].pc = "holding"
                              THEN Item(st.accepted + 1, "note", call[p].bytes)
                              ELSE Item(st.accepted + 1, "question", 0)
      OBVIOUS
    <3>2. item \in Items
      <4>1. st.accepted + 1 \in Nat /\ call[p].bytes \in Nat
        BY <1>t DEF StoreStates, CallStates
      <4> QED
        BY <3>1, <4>1 DEF Item, Items
    <3>3. budget' = Returned({item})
      BY <1>5, <2>2, <3>1 DEF Enqueue
    <3> QED
      BY <1>i, <1>r, <3>2, <3>3
  <2> QED
    BY <2>1, <2>2
<1>6. ASSUME NEW p \in Producers, ProducerSteps(p) \/ ProducerCalls(p) PROVE Window'
  <2>1. CASE Register(p) \/ Retry(p)
    BY <1>1, <2>1 DEF Register, Retry
  <2>2. CASE ProducerCalls(p)
    BY <1>1, <2>2 DEF ProducerCalls, Note, StrayNote, Question
  <2> QED
    BY <1>3, <1>4, <1>5, <1>6, <2>1, <2>2 DEF ProducerSteps
<1>7. CASE WorkerSteps
  <2>1. CASE AppendRecord
    BY <1>1, <1>i, <1>r, <1>t, <2>1 DEF AppendRecord, Return
  <2>2. CASE DropWritten
    <3>1. Notes({worker.item}) \in SUBSET Items /\ IsFiniteSet(Notes({worker.item}))
      BY <1>i, <1>t, FS_Subset DEF Notes
    <3> QED
      BY <1>r, <2>2, <3>1 DEF DropWritten, Return
  <2>3. CASE FillSlot
    BY <1>1, <1>i, <1>r, <1>t, <2>3 DEF FillSlot
  <2>4. CASE Strip
    <3>1. PICK undelivered :
             undelivered = IF worker.how = "source" THEN {} ELSE {st.output} \ {None}
      OBVIOUS
    <3>2. budget' = Returned(InQueue \cup undelivered \cup spool.live)
      BY <2>4, <3>1 DEF Strip, Return
    <3>3. InQueue \cup undelivered \cup spool.live \subseteq Holders
      BY <3>1 DEF Holders
    <3>4. /\ InQueue \cup undelivered \cup spool.live \in SUBSET Items
          /\ IsFiniteSet(InQueue \cup undelivered \cup spool.live)
      BY <3>3, HoldersFinite, FS_Subset
    <3> QED
      BY <1>r, <3>2, <3>4
  <2>5. CASE Create \/ NextWork \/ Publish \/ PublishTerminal \/ ReadRecord \/ FailStore \/ Report
    BY <1>1, <2>5 DEF Create, NextWork, Publish, PublishTerminal, ReadRecord, FailStore, Report
  <2> QED
    BY <1>7, <2>1, <2>2, <2>3, <2>4, <2>5 DEF WorkerSteps
<1>8. CASE Answer
  <2>1. /\ budget'.bytes = budget.bytes /\ budget'.records = budget.records
        /\ budget'.controls = budget.controls - 1
    BY <1>8, <1>t DEF Answer, Budgets
  <2> QED
    BY <1>n, <1>a, <2>1 DEF Window
<1>9. CASE DriverSteps \/ OpenerSteps \/ DropSteps \/ AcceptSession \/ RuntimeDropped
  BY <1>1, <1>9 DEF DriverSteps, OpenerSteps, DropSteps, DriverDecides, DriverCancels,
     DriverJoins, DriverBeginsClose, DriverCloses, OpenerPublishes, OpenerRefuses,
     OpenerCancels, GuardCancels, SourceEof, ReceiverLeaves, ReceiverCancels,
     AcceptSession, RuntimeDropped
<1>10. ASSUME NEW why, TransportEnds(why) PROVE Window'
  BY <1>1, <1>10 DEF TransportEnds
<1>11. CASE StoreNext
  BY <1>2, <1>6, <1>7, <1>8, <1>9, <1>10, <1>11 DEF StoreNext
<1>12. CASE TakeEvent
  <2>1. st.output.seq \in {0, st.delivered + 1}
    BY <1>12, OutputInOrder DEF TakeEvent
  <2> QED
    BY <1>1, <1>12, <2>1 DEF TakeEvent
<1>13. CASE Answered \/ TurnSteps \/ LoopSteps \/ HostStops \/ HostSeesEnd \/ HostWaits
  BY <1>1, <1>13 DEF Answered, TurnSteps, LoopSteps, HostStops, HostSeesEnd, HostWaits,
     FenceStarts, FenceLooks, HostLearns, HostFenced, HostListens, HostEndsTurn, HostLeaves,
     Listen, TakeEnd, TakeNothing, vars
<1>14. CASE HostReceives
  BY <1>12, <1>14 DEF HostReceives
<1>15. CASE UNCHANGED allVars
  BY <1>1, <1>15 DEF allVars, vars
<1> QED
  BY <1>11, <1>13, <1>14, <1>15 DEF HostNext, Polls

\* Whatever moves no call, or drops them all, keeps their sizes.
LEMMA CallsFrame ==
  ASSUME Calls, SameCalls(call, call') \/ HandlersDropped
  PROVE  Calls'
BY DEF Calls, SameCalls, HandlersDropped, Idle

\* A call that waits for credit, or holds it, has one of the sizes.
LEMMA CallsStep ==
  ASSUME Types, Calls, [HostNext]_allVars
  PROVE  Calls'
<1>t. call \in [Producers -> CallStates]
  BY DEF Types
<1>1. CASE UNCHANGED call
  BY <1>1, CallsFrame DEF SameCalls
<1>2. ASSUME NEW a \in Actors, Settle(a) PROVE Calls'
  BY <1>1, <1>2, WokenCallsSame, CallsFrame DEF Settle
<1>3. ASSUME NEW items, Return(items) PROVE Calls'
  BY <1>1, <1>3, WokenCallsSame, CallsFrame DEF Return
<1>4. ASSUME NEW p \in Producers, ProducerSteps(p) \/ ProducerCalls(p) PROVE Calls'
  <2>1. ASSUME NEW bytes \in Sizes, Note(p, bytes) PROVE Calls'
    <3>1. /\ call'[p].pc = "register" /\ call'[p].bytes = bytes
          /\ \A q \in Producers \ {p} : call'[q] = call[q]
      BY <1>t, <2>1 DEF Note
    <3> QED
      BY <3>1 DEF Calls
  <2>2. ASSUME NEW pc, Goes(p, pc),
               pc \in {"permit", "asking"}
                 \/ call[p].pc \in {"register", "check", "waiting", "holding"}
        PROVE  Calls'
    <3>1. /\ call'[p].pc = pc /\ call'[p].bytes = call[p].bytes
          /\ \A q \in Producers \ {p} : call'[q] = call[q]
      BY <2>2, GoesTo
    <3> QED
      BY <2>2, <3>1 DEF Calls
  <2>3. CASE CallEnds(p)
    BY <2>3, EndsAt DEF Calls
  <2>4. CASE StrayNote(p)
    BY <1>1, <2>4 DEF StrayNote
  <2>5. CASE Question(p) \/ Permit(p)
    BY <2>2, <2>3, <2>5 DEF Question, Permit
  <2>6. CASE Register(p)
    <3>1. /\ call[p].pc = "register" /\ call'[p].bytes = call[p].bytes
          /\ \A q \in Producers \ {p} : call'[q] = call[q]
      BY <1>t, <2>6 DEF Register, CallStates
    <3> QED
      BY <3>1 DEF Calls
  <2>7. CASE Check(p) \/ Retry(p)
    BY <2>2, <2>3, <2>7 DEF Check, Retry
  <2>8. CASE Enqueue(p)
    <3>1. CASE Writable
      BY <2>3, <2>8, <3>1 DEF Enqueue
    <3>2. CASE ~Writable
      <4>1. call' = [WokenCalls EXCEPT ![p] = Idle] \/ call' = [call EXCEPT ![p] = Idle]
        BY <2>8, <3>2 DEF Enqueue
      <4>2. call'[p].pc = "idle"
            /\ \A q \in Producers \ {p} : call'[q].pc = call[q].pc /\ call'[q].bytes = call[q].bytes
        BY <1>t, <4>1, WokenTyped, WokenCallsSame DEF SameCalls, Idle
      <4> QED
        BY <4>2 DEF Calls
    <3> QED
      BY <3>1, <3>2
  <2> QED
    BY <1>4, <2>1, <2>4, <2>5, <2>6, <2>7, <2>8 DEF ProducerSteps, ProducerCalls
<1>5. CASE WorkerSteps
  <2>1. CASE AppendRecord \/ DropWritten \/ Strip
    BY <1>1, <1>3, <2>1 DEF AppendRecord, DropWritten, Strip
  <2>2. CASE \/ Create \/ NextWork \/ Publish \/ PublishTerminal \/ ReadRecord \/ FillSlot
             \/ FailStore \/ Report
    BY <1>1, <2>2 DEF Create, NextWork, Publish, PublishTerminal, ReadRecord, FillSlot,
       FailStore, Report
  <2> QED
    BY <1>5, <2>1, <2>2 DEF WorkerSteps
<1>6. CASE DriverSteps \/ OpenerSteps \/ DropSteps \/ AcceptSession \/ Answer
  BY <1>1, <1>6 DEF DriverSteps, OpenerSteps, DropSteps, DriverDecides, DriverCancels,
     DriverJoins, DriverBeginsClose, DriverCloses, OpenerPublishes, OpenerRefuses,
     OpenerCancels, GuardCancels, SourceEof, ReceiverLeaves, ReceiverCancels,
     AcceptSession, Answer
<1>7. ASSUME NEW why, TransportEnds(why) PROVE Calls'
  BY <1>7, CallsFrame DEF TransportEnds
<1>8. CASE RuntimeDropped
  BY <1>8, CallsFrame DEF RuntimeDropped
<1>9. CASE StoreNext
  BY <1>2, <1>4, <1>5, <1>6, <1>7, <1>8, <1>9 DEF StoreNext
<1>10. CASE Answered \/ TurnSteps \/ LoopSteps \/ HostStops \/ Polls
  BY <1>1, <1>10 DEF Answered, TurnSteps, LoopSteps, HostStops, Polls, HostSeesEnd, HostWaits,
     FenceStarts, FenceLooks, HostLearns, HostFenced, HostListens, HostEndsTurn, HostLeaves,
     HostReceives, Listen, TakeEvent, TakeEnd, TakeNothing, vars
<1>11. CASE UNCHANGED allVars
  BY <1>1, <1>11 DEF allVars, vars
<1> QED
  BY <1>9, <1>10, <1>11 DEF HostNext

\* A step that accepts nothing and begins no call keeps the bound.
LEMMA BoundedFrame ==
  ASSUME Types, Types', Bounded, Busy(call') \subseteq Busy(call),
         st'.accepted = st.accepted, st'.readyEnqueued = st.readyEnqueued,
         st.end.kind \in {"closing", "closed"} => st'.end.kind \in {"closing", "closed"},
         opener' = opener \/ opener' # "opening"
  PROVE  Bounded'
<1>1. IsFiniteSet(Busy(call))
  BY EventStoreAssumption, FS_Subset DEF Busy
<1>2. /\ Cardinality(Busy(call')) <= Cardinality(Busy(call))
      /\ Cardinality(Busy(call')) \in Nat /\ Cardinality(Busy(call)) \in Nat
  BY <1>1, FS_Subset, FS_CardinalityType
<1>3. /\ Busy(call) = {p \in Producers : call[p].pc # "idle"}
      /\ Busy(call') = {p \in Producers : call'[p].pc # "idle"}
  BY DEF Busy
<1>4. st.accepted \in Nat /\ MaxEvents \in Nat
  BY EventStoreAssumption DEF Types, StoreStates
<1>5. st'.accepted + Cardinality(Busy(call'))
        <= MaxEvents + (IF st'.readyEnqueued THEN 1 ELSE 0)
                     + (IF st'.end.kind \in {"closing", "closed"} THEN 1 ELSE 0)
  <2>1. st.accepted + Cardinality(Busy(call))
          <= MaxEvents + (IF st.readyEnqueued THEN 1 ELSE 0)
                       + (IF st.end.kind \in {"closing", "closed"} THEN 1 ELSE 0)
    BY <1>3 DEF Bounded
  <2> QED
    BY <1>2, <1>4, <2>1
<1>6. st'.readyEnqueued => opener' # "opening"
  BY DEF Bounded
<1> QED
  BY <1>3, <1>5, <1>6 DEF Bounded

\* One call more, while there was room for it.
LEMMA BoundedCall ==
  ASSUME Types, Types', Bounded, NEW p \in Producers, call[p].pc = "idle", Said < MaxEvents,
         \A q \in Producers \ {p} : call'[q] = call[q], UNCHANGED <<st, opener>>
  PROVE  Bounded'
<1>1. IsFiniteSet(Busy(call)) /\ p \notin Busy(call)
  BY EventStoreAssumption, FS_Subset DEF Busy
<1>2. Busy(call') \subseteq Busy(call) \cup {p}
  BY DEF Busy
<1>3. /\ Cardinality(Busy(call')) <= Cardinality(Busy(call)) + 1
      /\ Cardinality(Busy(call')) \in Nat /\ Cardinality(Busy(call)) \in Nat
  <2>1. IsFiniteSet(Busy(call) \cup {p})
        /\ Cardinality(Busy(call) \cup {p}) = Cardinality(Busy(call)) + 1
    BY <1>1, FS_AddElement
  <2> QED
    BY <1>1, <1>2, <2>1, FS_Subset, FS_CardinalityType
<1>4. /\ Busy(call) = {q \in Producers : call[q].pc # "idle"}
      /\ Busy(call') = {q \in Producers : call'[q].pc # "idle"}
  BY DEF Busy
<1>5. st.accepted \in Nat /\ MaxEvents \in Nat
  BY EventStoreAssumption DEF Types, StoreStates
<1>6. st.accepted + Cardinality(Busy(call')) <= MaxEvents
  <2>1. st.accepted + Cardinality(Busy(call)) < MaxEvents
    BY <1>4 DEF Said
  <2> QED
    BY <1>3, <1>5, <2>1
<1> QED
  BY <1>3, <1>4, <1>5, <1>6 DEF Bounded

\* An item accepted from a call that ends, or beside the calls.
LEMMA BoundedAccepts ==
  ASSUME Types, Types', Bounded, NEW more \in {0, 1},
         st'.accepted = st.accepted + 1,
         more = 1 => Busy(call') = Busy(call),
         more = 0 => \E p \in Busy(call) : Busy(call') = Busy(call) \ {p},
         (IF st'.readyEnqueued THEN 1 ELSE 0)
           + (IF st'.end.kind \in {"closing", "closed"} THEN 1 ELSE 0)
         = (IF st.readyEnqueued THEN 1 ELSE 0)
           + (IF st.end.kind \in {"closing", "closed"} THEN 1 ELSE 0) + more,
         st'.readyEnqueued => opener' # "opening"
  PROVE  Bounded'
<1>1. IsFiniteSet(Busy(call)) /\ Cardinality(Busy(call)) \in Nat
  BY EventStoreAssumption, FS_Subset, FS_CardinalityType DEF Busy
<1>2. Cardinality(Busy(call')) + 1 = Cardinality(Busy(call)) + more
      /\ Cardinality(Busy(call')) \in Nat
  <2>1. CASE more = 1
    BY <1>1, <2>1
  <2>2. CASE more = 0
    <3>1. PICK p \in Busy(call) : Busy(call') = Busy(call) \ {p}
      BY <2>2
    <3>2. /\ IsFiniteSet(Busy(call) \ {p})
          /\ Cardinality(Busy(call) \ {p}) = Cardinality(Busy(call)) - 1
      BY <1>1, FS_RemoveElement
    <3>3. Cardinality(Busy(call')) \in Nat
      BY <3>1, <3>2, FS_CardinalityType
    <3> QED
      BY <1>1, <2>2, <3>1, <3>2, <3>3
  <2> QED
    BY <2>1, <2>2
<1>3. /\ Busy(call) = {q \in Producers : call[q].pc # "idle"}
      /\ Busy(call') = {q \in Producers : call'[q].pc # "idle"}
  BY DEF Busy
<1>4. st.accepted \in Nat /\ MaxEvents \in Nat
  BY EventStoreAssumption DEF Types, StoreStates
<1>5. ASSUME NEW old \in Int, NEW new \in Int, new = old + more,
             st.accepted + Cardinality(Busy(call)) <= MaxEvents + old
      PROVE  st'.accepted + Cardinality(Busy(call')) <= MaxEvents + new
  BY <1>1, <1>2, <1>4, <1>5
<1>6. st.accepted + Cardinality(Busy(call))
        <= MaxEvents + ((IF st.readyEnqueued THEN 1 ELSE 0)
                        + (IF st.end.kind \in {"closing", "closed"} THEN 1 ELSE 0))
  BY <1>1, <1>3, <1>4 DEF Bounded
<1>7. st'.accepted + Cardinality(Busy(call'))
        <= MaxEvents + ((IF st'.readyEnqueued THEN 1 ELSE 0)
                        + (IF st'.end.kind \in {"closing", "closed"} THEN 1 ELSE 0))
  BY <1>5, <1>6
<1> QED
  BY <1>2, <1>3, <1>4, <1>7 DEF Bounded

\* Nobody goes back to the opening.
LEMMA OpenerForward ==
  ASSUME [HostNext]_allVars
  PROVE  opener' = opener \/ opener' # "opening"
<1>1. CASE OpenerSteps \/ RuntimeDropped
  BY <1>1 DEF OpenerSteps, OpenerPublishes, OpenerRefuses, OpenerCancels, RuntimeDropped
<1>2. ASSUME NEW a \in Actors, Settle(a) PROVE opener' = opener
  BY <1>2 DEF Settle
<1>3. ASSUME NEW p \in Producers, ProducerSteps(p) \/ ProducerCalls(p) PROVE opener' = opener
  BY <1>3 DEF ProducerSteps, ProducerCalls, Note, StrayNote, Question, Permit, Register,
     Check, Retry, Enqueue
<1>4. CASE WorkerSteps
  BY <1>4 DEF WorkerSteps, Create, NextWork, AppendRecord, Publish, DropWritten,
     PublishTerminal, ReadRecord, FillSlot, FailStore, Strip, Report
<1>5. CASE DriverSteps \/ DropSteps \/ AcceptSession \/ Answer
  BY <1>5 DEF DriverSteps, DropSteps, DriverDecides, DriverCancels, DriverJoins,
     DriverBeginsClose, DriverCloses, GuardCancels, SourceEof, ReceiverLeaves,
     ReceiverCancels, AcceptSession, Answer
<1>6. ASSUME NEW why, TransportEnds(why) PROVE opener' = opener
  BY <1>6 DEF TransportEnds
<1>7. CASE Answered \/ TurnSteps \/ LoopSteps \/ HostStops \/ Polls
  BY <1>7 DEF Answered, TurnSteps, LoopSteps, HostStops, Polls, HostSeesEnd, HostWaits,
     FenceStarts, FenceLooks, HostLearns, HostFenced, HostListens, HostEndsTurn, HostLeaves,
     HostReceives, Listen, TakeEvent, TakeEnd, TakeNothing, vars
<1>8. CASE UNCHANGED allVars
  BY <1>8 DEF allVars, vars
<1> QED
  BY <1>1, <1>2, <1>3, <1>4, <1>5, <1>6, <1>7, <1>8 DEF HostNext, StoreNext

\* The numbers never pass what the agent may say, the opening and Closed.
LEMMA BoundedStep ==
  ASSUME Types, Types', Bounded, [HostNext]_allVars
  PROVE  Bounded'
<1>t. /\ st \in StoreStates /\ call \in [Producers -> CallStates]
      /\ call' \in [Producers -> CallStates]
  BY DEF Types
<1>o. opener' = opener \/ opener' # "opening"
  BY OpenerForward
<1>f. ASSUME Busy(call') \subseteq Busy(call),
             st'.accepted = st.accepted, st'.readyEnqueued = st.readyEnqueued,
             st.end.kind \in {"closing", "closed"} => st'.end.kind \in {"closing", "closed"}
      PROVE  Bounded'
  BY <1>f, <1>o, BoundedFrame
<1>g. ASSUME Busy(call') \subseteq Busy(call), UNCHANGED st PROVE Bounded'
  BY <1>f, <1>g
<1>w. Busy(WokenCalls) = Busy(call) /\ Busy(call) \subseteq Busy(call)
  BY WokenCallsSame, SameCallsFrame
<1>c. ASSUME NEW a, Cancel(a), UNCHANGED call PROVE Bounded'
  BY <1>c, <1>f, <1>w, CancelSame
<1>1. ASSUME NEW a \in Actors, Settle(a) PROVE Bounded'
  BY <1>1, <1>g, <1>w DEF Settle
<1>2. ASSUME NEW p \in Producers, ProducerSteps(p) \/ ProducerCalls(p) PROVE Bounded'
  <2>1. ASSUME NEW bytes \in Sizes, Note(p, bytes) PROVE Bounded'
    <3>1. \A q \in Producers \ {p} : call'[q] = call[q]
      BY <1>t, <2>1 DEF Note
    <3> QED
      BY <2>1, <3>1, BoundedCall DEF Note
  <2>2. CASE Question(p)
    BY <2>2, GoesTo, BoundedCall DEF Question
  <2>3. CASE StrayNote(p)
    BY <1>c, <2>3 DEF StrayNote
  <2>4. ASSUME NEW pc, Goes(p, pc), call[p].pc # "idle", UNCHANGED st PROVE Bounded'
    <3>1. Busy(call') \subseteq Busy(call)
      BY <2>4, GoesTo DEF Busy
    <3> QED
      BY <1>g, <2>4, <3>1
  <2>5. ASSUME CallEnds(p), UNCHANGED st PROVE Bounded'
    <3>1. Busy(call') \subseteq Busy(call)
      BY <2>5, EndsAt DEF Busy
    <3> QED
      BY <1>g, <2>5, <3>1
  <2>6. CASE Permit(p) \/ Check(p) \/ Retry(p)
    BY <2>4, <2>5, <2>6 DEF Permit, Check, Retry
  <2>7. CASE Register(p)
    <3>1. call[p].pc = "register" /\ \A q \in Producers \ {p} : call'[q] = call[q]
      BY <1>t, <2>7 DEF Register
    <3>2. Busy(call') \subseteq Busy(call)
      BY <3>1 DEF Busy
    <3> QED
      BY <1>g, <2>7, <3>2 DEF Register
  <2>8. CASE Enqueue(p)
    <3>0. call[p].pc # "idle"
      BY <2>8 DEF Enqueue
    <3>1. CASE Writable
      <4>1. /\ CallEnds(p) /\ UNCHANGED opener
            /\ st' = [st EXCEPT !.accepted = @ + 1, !.queue = st'.queue]
        BY <1>t, <2>8, <3>1 DEF Enqueue, Push, StoreStates
      <4>2. /\ st'.accepted = st.accepted + 1 /\ st'.readyEnqueued = st.readyEnqueued
            /\ st'.end = st.end
        BY <1>t, <4>1 DEF StoreStates
      <4>3. p \in Busy(call) /\ Busy(call') = Busy(call) \ {p}
        BY <3>0, <4>1, EndsAt DEF Busy
      <4>4. st'.readyEnqueued => opener' # "opening"
        BY <4>1, <4>2 DEF Bounded
      <4> QED
        BY <4>2, <4>3, <4>4, BoundedAccepts
    <3>2. CASE ~Writable
      <4>1. UNCHANGED st
            /\ (call' = [WokenCalls EXCEPT ![p] = Idle] \/ call' = [call EXCEPT ![p] = Idle])
        BY <2>8, <3>2 DEF Enqueue
      <4>2. call'[p].pc = "idle" /\ \A q \in Producers \ {p} : call'[q].pc = call[q].pc
        BY <1>t, <4>1, WokenTyped, WokenCallsSame DEF SameCalls, Idle
      <4>3. Busy(call') \subseteq Busy(call)
        BY <4>2 DEF Busy
      <4> QED
        BY <1>g, <4>1, <4>3
    <3> QED
      BY <3>1, <3>2
  <2> QED
    BY <1>2, <2>1, <2>2, <2>3, <2>6, <2>7, <2>8 DEF ProducerSteps, ProducerCalls
<1>3. CASE WorkerSteps
  <2>1. Busy(call') \subseteq Busy(call)
    BY <1>3, <1>w DEF WorkerSteps, Create, NextWork, AppendRecord, Publish, DropWritten,
       PublishTerminal, ReadRecord, FillSlot, FailStore, Strip, Report, Return
  <2>2. /\ st'.accepted = st.accepted /\ st'.readyEnqueued = st.readyEnqueued
        /\ st'.end = st.end
    <3>1. CASE FailStore
      BY <3>1, CancelSame DEF FailStore
    <3>2. CASE \/ Create \/ NextWork \/ AppendRecord \/ Publish \/ DropWritten
               \/ PublishTerminal \/ ReadRecord \/ FillSlot \/ Strip \/ Report
      BY <1>t, <3>2 DEF Create, NextWork, AppendRecord, Publish, DropWritten,
         PublishTerminal, ReadRecord, FillSlot, Strip, Report, StoreStates
    <3> QED
      BY <1>3, <3>1, <3>2 DEF WorkerSteps
  <2> QED
    BY <1>f, <2>1, <2>2
<1>4. CASE DriverBeginsClose
  <2>1. CASE UNCHANGED st
    BY <1>g, <1>w, <1>4, <2>1 DEF DriverBeginsClose
  <2>2. CASE ~UNCHANGED st
    <3>1. /\ st.end = NoEnd /\ UNCHANGED <<call, opener>>
          /\ st' = [st EXCEPT !.accepted = @ + 1,
                              !.end = [kind |-> "closing", through |-> st.accepted,
                                       seq |-> st.accepted + 1]]
      BY <1>4, <2>2 DEF DriverBeginsClose, BeginClose
    <3>2. /\ st'.accepted = st.accepted + 1 /\ st'.readyEnqueued = st.readyEnqueued
          /\ st'.end.kind = "closing" /\ st.end.kind = "none"
      BY <1>t, <3>1 DEF StoreStates, NoEnd
    <3>3. st'.readyEnqueued => opener' # "opening"
      BY <3>1, <3>2 DEF Bounded
    <3> QED
      BY <3>1, <3>2, <3>3, BoundedAccepts
  <2> QED
    BY <2>1, <2>2
<1>5. CASE DriverCloses
  <2>1. /\ st'.accepted = st.accepted /\ st'.readyEnqueued = st.readyEnqueued
        /\ st.end.kind \in {"closing", "closed"} => st'.end.kind \in {"closing", "closed"}
    BY <1>t, <1>5 DEF DriverCloses, ConfirmClose, StoreStates, Ends
  <2> QED
    BY <1>f, <1>w, <1>5, <2>1 DEF DriverCloses
<1>6. CASE OpenerPublishes
  <2>1. CASE Writable
    <3>1. /\ opener = "opening" /\ opener' = "opened" /\ UNCHANGED call
          /\ st'.accepted = st.accepted + 1 /\ st'.readyEnqueued = TRUE
          /\ st'.end = st.end
      BY <1>t, <1>6, <2>1 DEF OpenerPublishes, StoreStates
    <3>2. ~st.readyEnqueued
      BY <3>1 DEF Bounded
    <3> QED
      BY <3>1, <3>2, BoundedAccepts
  <2>2. CASE ~Writable
    BY <1>g, <1>w, <1>6, <2>2 DEF OpenerPublishes
  <2> QED
    BY <2>1, <2>2
<1>7. CASE OpenerCancels \/ GuardCancels \/ ReceiverCancels \/ DriverCancels
  BY <1>c, <1>7 DEF OpenerCancels, GuardCancels, ReceiverCancels, DriverCancels
<1>8. CASE OpenerRefuses \/ DriverDecides \/ DriverJoins \/ Answer
  BY <1>g, <1>w, <1>8 DEF OpenerRefuses, DriverDecides, DriverJoins, Answer
<1>9. CASE SourceEof
  <2>1. /\ st'.accepted = st.accepted /\ st'.readyEnqueued = st.readyEnqueued
        /\ st.end.kind \in {"closing", "closed"} => st'.end.kind \in {"closing", "closed"}
    BY <1>t, <1>9 DEF SourceEof, StoreStates, NoEnd
  <2> QED
    BY <1>f, <1>w, <1>9, <2>1 DEF SourceEof
<1>10. CASE ReceiverLeaves \/ AcceptSession
  <2>1. /\ st'.accepted = st.accepted /\ st'.readyEnqueued = st.readyEnqueued
        /\ st'.end = st.end /\ UNCHANGED call
    BY <1>t, <1>10 DEF ReceiverLeaves, AcceptSession, StoreStates
  <2> QED
    BY <1>f, <1>w, <2>1
<1>11. ASSUME HandlersDropped, UNCHANGED st PROVE Bounded'
  <2>1. Busy(call') \subseteq Busy(call)
    BY <1>11 DEF HandlersDropped, Busy, Idle
  <2> QED
    BY <1>11, <1>g, <2>1
<1>12. CASE RuntimeDropped \/ \E why \in {"closed", "failed", "transport"} : TransportEnds(why)
  BY <1>11, <1>12 DEF RuntimeDropped, TransportEnds
<1>13. CASE StoreNext
  BY <1>1, <1>2, <1>3, <1>4, <1>5, <1>6, <1>7, <1>8, <1>9, <1>10, <1>12, <1>13
     DEF StoreNext, DriverSteps, OpenerSteps, DropSteps
<1>14. CASE Answered \/ TurnSteps \/ LoopSteps \/ HostStops \/ HostSeesEnd
  BY <1>g, <1>w, <1>14 DEF Answered, TurnSteps, LoopSteps, HostStops, HostSeesEnd,
     FenceStarts, FenceLooks, HostLearns, HostFenced, HostListens, HostEndsTurn, HostLeaves,
     Listen, TakeEnd, vars
<1>15. CASE HostReceives \/ HostWaits
  <2>1. /\ st'.accepted = st.accepted /\ st'.readyEnqueued = st.readyEnqueued
        /\ st'.end = st.end /\ UNCHANGED call
    BY <1>t, <1>15 DEF HostReceives, HostWaits, TakeEvent, TakeNothing, StoreStates
  <2> QED
    BY <1>f, <1>w, <2>1
<1>16. CASE UNCHANGED allVars
  BY <1>16, <1>g, <1>w DEF allVars, vars
<1> QED
  BY <1>13, <1>14, <1>15, <1>16 DEF HostNext, Polls
-----------------------------------------------------------------------------
(* The receiver and the host's turn *)

\* What the host may rely on while others move: what it was given stays, the stream
\* only grows, a failure or an end is final, and the receiver is alive until it leaves.
Forward ==
  /\ st'.delivered = st.delivered /\ st.accepted <= st'.accepted
  /\ st.failed => st'.failed
  /\ st.done => st'.done /\ st'.output = st.output
  /\ \/ rx'.pc = rx.pc
     \/ rx'.pc \in {"leaving", "left", "dropped"}
     \/ rx'.pc = "idle" /\ st'.receiverAlive
  /\ st.receiverAlive => st'.receiverAlive \/ rx'.pc = "left"

\* Every step but the host's goes forward.
LEMMA StoreForward ==
  ASSUME Types, Numbers, StoreNext
  PROVE  Forward
<1>t. /\ st \in StoreStates /\ rx \in Receivers /\ st.accepted \in Nat
      /\ st.done <=> worker.pc = "over"
  BY DEF Types, StoreStates, Numbers, Ending
<1>c. ASSUME NEW a, Cancel(a), rx'.pc = rx.pc \/ rx'.pc \in {"leaving", "left", "dropped"}
      PROVE  Forward
  BY <1>c, <1>t, CancelSame DEF Forward
<1>u. ASSUME UNCHANGED st, rx'.pc = rx.pc \/ rx'.pc \in {"leaving", "left", "dropped"}
      PROVE  Forward
  BY <1>u, <1>t DEF Forward
<1>a. ASSUME st'.accepted = st.accepted \/ st'.accepted = st.accepted + 1,
             st'.delivered = st.delivered, st'.failed = st.failed \/ st'.failed,
             st'.receiverAlive = st.receiverAlive,
             st.done => st'.done /\ st'.output = st.output,
             rx'.pc = rx.pc \/ (rx'.pc = "idle" /\ st.receiverAlive)
      PROVE  Forward
  BY <1>a, <1>t DEF Forward
<1>w. WokenReceiver.pc = rx.pc
  BY <1>t DEF WokenReceiver, Receivers
<1>1. ASSUME NEW a \in Actors, Settle(a) PROVE Forward
  BY <1>1, <1>u, <1>w DEF Settle
<1>2. ASSUME NEW p \in Producers, ProducerSteps(p) \/ ProducerCalls(p) PROVE Forward
  <2>1. CASE StrayNote(p)
    BY <1>c, <2>1 DEF StrayNote
  <2>2. CASE Enqueue(p)
    <3>1. CASE Writable
      BY <1>a, <1>t, <2>2, <3>1 DEF Enqueue, Push, StoreStates
    <3>2. CASE ~Writable
      BY <1>u, <2>2, <3>2 DEF Enqueue
    <3> QED
      BY <3>1, <3>2
  <2>3. CASE \/ Permit(p) \/ Register(p) \/ Check(p) \/ Retry(p) \/ Question(p)
             \/ \E bytes \in Sizes : Note(p, bytes)
    BY <1>u, <2>3 DEF Permit, Register, Check, Retry, Question, Note
  <2> QED
    BY <1>2, <2>1, <2>2, <2>3 DEF ProducerSteps, ProducerCalls
<1>3. CASE WorkerSteps
  <2>1. ~st.done
    BY <1>3, <1>t DEF WorkerSteps, Create, NextWork, AppendRecord, Publish, DropWritten,
       PublishTerminal, ReadRecord, FillSlot, FailStore, Strip, Report, At
  <2>2. CASE FailStore
    BY <1>c, <2>2 DEF FailStore
  <2>3. CASE Create \/ AppendRecord \/ DropWritten \/ ReadRecord
    BY <1>u, <2>3 DEF Create, AppendRecord, DropWritten, ReadRecord
  <2>4. CASE NextWork \/ Publish \/ PublishTerminal \/ Strip \/ Report \/ FillSlot
    <3>1. /\ st'.accepted = st.accepted /\ st'.delivered = st.delivered
          /\ st'.failed = st.failed \/ st'.failed
          /\ st'.receiverAlive = st.receiverAlive
      BY <1>t, <2>4 DEF NextWork, Publish, PublishTerminal, Strip, Report, FillSlot, StoreStates
    <3>2. rx'.pc = rx.pc
      BY <1>w, <2>4 DEF NextWork, Publish, PublishTerminal, Strip, Report, FillSlot
    <3> QED
      BY <1>a, <2>1, <3>1, <3>2
  <2> QED
    BY <1>3, <2>2, <2>3, <2>4 DEF WorkerSteps
<1>4. CASE OpenerCancels \/ GuardCancels \/ DriverCancels
  BY <1>c, <1>4 DEF OpenerCancels, GuardCancels, DriverCancels
<1>5. CASE ReceiverCancels
  <2>1. rx'.pc = "dropped"
    BY <1>t, <1>5 DEF ReceiverCancels, Receivers
  <2> QED
    BY <1>c, <1>5, <2>1 DEF ReceiverCancels
<1>6. CASE ReceiverLeaves
  <2>1. rx'.pc = "left"
    BY <1>t, <1>6 DEF ReceiverLeaves, Receivers
  <2> QED
    BY <1>t, <1>6, <2>1 DEF ReceiverLeaves, StoreStates, Forward
<1>7. CASE RuntimeDropped
  <2>1. rx'.pc \in {"leaving", "dropped"}
    BY <1>t, <1>7 DEF RuntimeDropped, Receivers
  <2> QED
    BY <1>u, <1>7, <2>1 DEF RuntimeDropped
<1>8. CASE OpenerPublishes
  <2>1. CASE Writable
    <3>1. rx'.pc = "idle"
      BY <1>t, <1>8, <2>1 DEF OpenerPublishes, Receivers
    <3> QED
      BY <1>a, <1>t, <1>8, <2>1, <3>1 DEF OpenerPublishes, Writable, StoreStates
  <2>2. CASE ~Writable
    BY <1>u, <1>8, <2>2 DEF OpenerPublishes
  <2> QED
    BY <2>1, <2>2
<1>9. CASE OpenerRefuses \/ DriverDecides \/ DriverJoins
  BY <1>u, <1>9 DEF OpenerRefuses, DriverDecides, DriverJoins
<1>10. CASE Answer
  <2>1. rx'.pc = rx.pc
    BY <1>t, <1>10 DEF Answer, Receivers
  <2> QED
    BY <1>u, <1>10, <2>1 DEF Answer
<1>11. CASE DriverBeginsClose \/ DriverCloses \/ SourceEof \/ AcceptSession
  BY <1>a, <1>t, <1>11 DEF DriverBeginsClose, DriverCloses, SourceEof, AcceptSession, BeginClose,
     ConfirmClose, StoreStates
<1>12. ASSUME NEW why, TransportEnds(why) PROVE Forward
  BY <1>u, <1>12 DEF TransportEnds
<1> QED
  BY <1>1, <1>2, <1>3, <1>4, <1>5, <1>6, <1>7, <1>8, <1>9, <1>10, <1>11, <1>12
     DEF StoreNext, DriverSteps, OpenerSteps, DropSteps

\* Who reads has a live receiver, and the end it met is the end.
LEMMA ReceivingStep ==
  ASSUME Types, Numbers, Receiving, [HostNext]_allVars
  PROVE  Receiving'
<1>t. /\ st \in StoreStates /\ rx \in Receivers
      /\ st.done <=> worker.pc = "over"
      /\ worker.pc # "over" /\ st.output # None => st.output.kind \in {"question", "data"}
  BY DEF Types, Numbers, Ending, Spooled
<1>1. CASE StoreNext
  BY <1>1, StoreForward DEF Forward, Receiving
<1>2. CASE UNCHANGED <<st, rx>>
  BY <1>2 DEF Receiving
<1>3. CASE HostListens
  BY <1>3, <1>t DEF HostListens, Listen, Receiving, Receivers
<1>4. CASE HostLeaves
  <2>1. rx'.pc = "leaving"
    BY <1>4, <1>t DEF HostLeaves, Receivers
  <2> QED
    BY <2>1 DEF Receiving
<1>5. CASE HostReceives
  <2>1. st.output # None /\ st.output.seq \in {0, st.delivered + 1}
        /\ rx.pc \in {"registered", "parked"}
    BY <1>5, OutputInOrder DEF HostReceives, TakeEvent, MayTake
  <2>2. /\ st'.output = None /\ st'.receiverAlive = st.receiverAlive /\ st'.done = st.done
    BY <1>5, <1>t, <2>1 DEF HostReceives, TakeEvent, StoreStates
  <2>3. rx'.pc = "ended" => st.output.kind = "closed"
    BY <1>5, <1>t, <2>1 DEF HostReceives, TakeEvent, Takes, Receivers
  <2> QED
    BY <1>t, <2>1, <2>2, <2>3 DEF Receiving
<1>6. CASE HostSeesEnd
  <2>1. CASE TakeEnd
    BY <1>t, <2>1 DEF TakeEnd, Takes, MayTake, Receiving, Receivers
  <2>2. CASE UNCHANGED vars
    BY <1>2, <2>2 DEF vars
  <2> QED
    BY <1>6, <2>1, <2>2 DEF HostSeesEnd
<1>7. CASE HostWaits
  <2>1. rx.pc \in {"registered", "parked"} /\ rx'.pc \in {"idle", "parked"}
    BY <1>7, <1>t DEF HostWaits, TakeNothing, MayTake, Receivers
  <2>2. st'.receiverAlive = st.receiverAlive
    BY <1>7, <1>t DEF HostWaits, TakeNothing, StoreStates
  <2> QED
    BY <2>1, <2>2 DEF Receiving
<1>8. CASE Answered \/ TurnSteps \/ HostLearns \/ HostFenced \/ HostEndsTurn \/ HostStops
  BY <1>2, <1>8 DEF Answered, TurnSteps, FenceStarts, FenceLooks, HostLearns, HostFenced,
     HostEndsTurn, HostStops, vars
<1>9. CASE UNCHANGED allVars
  BY <1>2, <1>9 DEF allVars, vars
<1> QED
  BY <1>1, <1>3, <1>4, <1>5, <1>6, <1>7, <1>8, <1>9 DEF HostNext, LoopSteps, Polls

\* What is left to count covers what is left to deliver.
LEMMA CountingStep ==
  ASSUME Types, Types', Numbers, Bounded, Receiving, Counting, [HostNext]_allVars
  PROVE  Counting'
<1>t. /\ st \in StoreStates /\ rx \in Receivers /\ turn \in Turns /\ host \in Hosts
      /\ st.accepted \in Nat /\ st.delivered \in Nat /\ MaxEvents \in Nat
      /\ turn.before \in Nat /\ turn.through \in Nat
      /\ host.remaining \in Nat \cup {Unfenced}
  BY EventStoreAssumption DEF Types, StoreStates, Turns, Hosts
<1>a. st.delivered <= st.accepted /\ st.accepted <= MaxEvents + 2
  <2>1. Cardinality({p \in Producers : call[p].pc # "idle"}) \in Nat
    BY EventStoreAssumption, FS_Subset, FS_CardinalityType
  <2> QED
    BY <1>t, <2>1 DEF Numbers, Spooled, Bounded
<1>u. Unfenced \notin Nat
  BY DEF Unfenced
<1>f. ASSUME st'.delivered = st.delivered, st.accepted <= st'.accepted,
             st.failed => st'.failed, UNCHANGED <<turn, host>>
      PROVE  Counting'
  <2>1. st'.accepted \in Nat
    BY DEF Types, StoreStates
  <2> QED
    BY <1>f, <1>t, <2>1 DEF Counting
<1>1. CASE StoreNext /\ UNCHANGED hostVars
  BY <1>1, <1>f, StoreForward DEF Forward, hostVars
<1>2. CASE Answered
  <2>1. /\ turn'.pc = "answered" /\ turn'.before = st.accepted /\ turn'.through = turn.through
        /\ UNCHANGED <<st, host>> /\ turn.pc = "none"
    BY <1>2, <1>t DEF Answered, Turns, vars
  <2>2. host.remaining = Unfenced
    BY <2>1 DEF Counting
  <2> QED
    BY <1>t, <2>1, <2>2 DEF Counting
<1>3. CASE FenceStarts
  <2>1. /\ turn.pc = "answered" /\ UNCHANGED <<st, host>> /\ turn'.before = turn.before
        /\ \/ turn'.pc = "unfenced" /\ turn'.through = turn.through
           \/ turn'.pc = "fencing" /\ turn'.through = st.accepted
    BY <1>3, <1>t DEF FenceStarts, FencePrefix, Turns, vars
  <2>2. host.remaining = Unfenced
    BY <2>1 DEF Counting
  <2> QED
    BY <1>t, <2>1, <2>2 DEF Counting
<1>4. CASE FenceLooks
  <2>1. /\ turn.pc = "fencing" /\ UNCHANGED <<st, host>> /\ turn'.before = turn.before
        /\ turn'.pc \in {"unfenced", "fenced"} /\ turn'.through = turn.through
    BY <1>4, <1>t DEF FenceLooks, Turns, vars
  <2>2. host.remaining = Unfenced
    BY <2>1 DEF Counting
  <2> QED
    BY <1>t, <2>1, <2>2 DEF Counting
<1>5. CASE HostLearns
  <2>1. /\ UNCHANGED <<st, turn>> /\ host'.pending = TRUE /\ host'.remaining = host.remaining
    BY <1>5, <1>t DEF HostLearns, Hosts, vars
  <2> QED
    BY <2>1 DEF Counting
<1>6. CASE HostFenced
  <2>1. CASE turn.pc = "unfenced" \/ st.failed
    <3>1. UNCHANGED <<st, turn>> /\ host.remaining = Unfenced /\ host'.remaining = host.remaining
      BY <1>6, <1>t, <2>1 DEF HostFenced, Breaks, Hosts, vars
    <3> QED
      BY <3>1 DEF Counting
  <2>2. CASE ~(turn.pc = "unfenced" \/ st.failed)
    <3>1. /\ UNCHANGED <<st, turn>> /\ turn.pc = "fenced" /\ host'.pending
          /\ host'.remaining = MaxOf(0, turn.through - st.delivered)
      BY <1>6, <1>t, <2>2 DEF HostFenced, Hosts, vars
    <3>2. turn.through <= st.accepted
      BY DEF Counting
    <3>3. /\ MaxOf(0, turn.through - st.delivered) <= MaxEvents + 2
          /\ turn.through <= st.delivered + MaxOf(0, turn.through - st.delivered)
      BY <1>t, <1>a, <3>2 DEF MaxOf
    <3> QED
      BY <3>1, <3>3 DEF Counting
  <2> QED
    BY <2>1, <2>2
<1>c. ASSUME NEW ending, Looping, HostCounts(ending), UNCHANGED turn,
             st'.accepted = st.accepted, st'.failed = st.failed,
             st'.delivered = st.delivered \/ st'.delivered = st.delivered + 1,
             ~st.failed => st'.delivered = st.delivered + 1 \/ turn.through <= st.delivered
      PROVE  Counting'
  <2>1. host'.remaining = Counted /\ host'.pending = host.pending
    BY <1>c, <1>t DEF HostCounts, Hosts
  <2>2. CASE host.remaining = Unfenced
    <3>1. host'.remaining = Unfenced
      BY <2>1, <2>2 DEF Counted, Unfenced
    <3> QED
      BY <1>c, <3>1 DEF Counting
  <2>3. CASE host.remaining # Unfenced
    <3>1. /\ host.remaining \in Nat /\ turn.pc = "fenced" /\ host.pending
          /\ host.remaining <= MaxEvents + 2
          /\ st.failed \/ turn.through <= st.delivered + host.remaining
      BY <1>t, <2>3 DEF Counting
    <3>2. host.remaining > 0
      BY <1>c, <3>1 DEF Looping
    <3>3. host'.remaining = host.remaining - 1
      BY <2>1, <3>2 DEF Counted
    <3>4. host'.remaining <= MaxEvents + 2
          /\ (st'.failed \/ turn.through <= st'.delivered + host'.remaining)
      BY <1>c, <1>t, <3>1, <3>2, <3>3
    <3> QED
      BY <1>c, <2>1, <3>1, <3>4 DEF Counting
  <2> QED
    BY <2>2, <2>3
<1>7. CASE HostReceives
  <2>1. /\ st.output # None /\ st.output.seq \in {0, st.delivered + 1} /\ Looping
        /\ st.output.seq \in Nat
    BY <1>7, OutputInOrder DEF HostReceives, TakeEvent, Types, StoreStates, Items
  <2>2. /\ st'.accepted = st.accepted /\ st'.failed = st.failed
        /\ st'.delivered = MaxOf(st.delivered, st.output.seq)
    BY <1>7, <1>t, <2>1 DEF HostReceives, TakeEvent, StoreStates
  <2>3. st.output.seq = 0 => st.failed
    BY <1>t, <2>1 DEF Numbers, Spooled, Ending
  <2>4. /\ st'.delivered = st.delivered \/ st'.delivered = st.delivered + 1
        /\ ~st.failed => st'.delivered = st.delivered + 1
    BY <1>t, <2>1, <2>2, <2>3 DEF MaxOf
  <2> QED
    BY <1>7, <1>c, <2>1, <2>2, <2>4 DEF HostReceives
<1>8. CASE HostSeesEnd
  <2>1. UNCHANGED st /\ HostCounts(TRUE) /\ Looping /\ UNCHANGED turn
    BY <1>8 DEF HostSeesEnd, TakeEnd, vars
  <2>2. ASSUME ~st.failed PROVE turn.through <= st.delivered
    <3>1. st.done /\ st.output = None /\ st.receiverAlive
      BY <1>8, <2>2 DEF HostSeesEnd, TakeEnd, MayTake, Receiving
    <3>2. st.delivered = st.accepted
      BY <2>2, <3>1 DEF Numbers, Ending
    <3> QED
      BY <3>2 DEF Counting
  <2> QED
    BY <1>c, <2>1, <2>2
<1>9. CASE HostEndsTurn \/ HostLeaves
  <2>1. UNCHANGED st /\ host'.remaining = Unfenced
    <3>1. CASE HostEndsTurn
      BY <1>t, <3>1 DEF HostEndsTurn, Hosts, vars
    <3>2. CASE HostLeaves
      BY <3>2 DEF HostLeaves, NoHost
    <3> QED
      BY <1>9, <3>1, <3>2
  <2>2. turn' = turn \/ (turn'.before = 0 /\ turn'.through = 0
                          /\ turn'.pc \in {"ended", "left"})
    BY <1>9 DEF HostEndsTurn, HostLeaves, NoTurn
  <2> QED
    BY <1>t, <2>1, <2>2 DEF Counting
<1>10. CASE HostStops
  <2>1. UNCHANGED <<st, turn>> /\ host'.remaining = host.remaining /\ host'.pending = host.pending
    BY <1>10, <1>t DEF HostStops, Breaks, Hosts, vars
  <2> QED
    BY <2>1 DEF Counting
<1>11. CASE HostListens \/ UNCHANGED allVars
  <2>1. UNCHANGED <<st, turn, host>>
    BY <1>11 DEF HostListens, Listen, hostVars, allVars, vars
  <2> QED
    BY <2>1 DEF Counting
<1>12. CASE HostWaits
  <2>1. /\ UNCHANGED <<turn, host>> /\ st'.delivered = st.delivered
        /\ st'.accepted = st.accepted /\ st'.failed = st.failed
    BY <1>12, <1>t DEF HostWaits, TakeNothing, StoreStates, hostVars
  <2> QED
    BY <2>1 DEF Counting
<1> QED
  BY <1>1, <1>2, <1>3, <1>4, <1>5, <1>6, <1>7, <1>8, <1>9, <1>10, <1>11, <1>12
     DEF HostNext, TurnSteps, LoopSteps, Polls

\* A turn ends when nothing is left to count, and then nothing is left to deliver.
LEMMA DrainedStep ==
  ASSUME Types, Types', Numbers, Counting, TurnDrained, [HostNext]_allVars
  PROVE  TurnDrained'
<1>t. /\ st \in StoreStates /\ turn \in Turns
      /\ st.delivered \in Nat /\ turn.before \in Nat /\ turn.through \in Nat
  BY DEF Types, StoreStates, Turns
<1>f. ASSUME st.failed => st'.failed, turn'.pc = "ended" => turn' = turn
      PROVE  TurnDrained'
  BY <1>f DEF TurnDrained
<1>1. CASE StoreNext /\ UNCHANGED hostVars
  BY <1>1, <1>f, StoreForward DEF Forward, hostVars
<1>2. CASE Answered \/ FenceStarts \/ FenceLooks
  <2>1. turn'.pc # "ended" /\ UNCHANGED st
    BY <1>2, <1>t DEF Answered, FenceStarts, FenceLooks, Turns, vars
  <2> QED
    BY <1>f, <2>1
<1>3. CASE HostEndsTurn
  <2>1. /\ host.remaining = 0 /\ UNCHANGED st
        /\ turn' = [NoTurn EXCEPT !.pc = "ended", !.drained = st.delivered >= turn.before]
    BY <1>3 DEF HostEndsTurn, vars
  <2>2. /\ st.failed \/ turn.through <= st.delivered
        /\ turn.before <= turn.through
    BY <1>t, <2>1 DEF Counting, Unfenced
  <2>3. st.failed \/ st.delivered >= turn.before
    BY <1>t, <2>2
  <2>4. ~st.failed => turn' = [NoTurn EXCEPT !.pc = "ended", !.drained = TRUE]
    BY <2>1, <2>3
  <2> QED
    BY <2>1, <2>4 DEF TurnDrained, NoTurn
<1>4. CASE HostLeaves
  <2>1. turn'.pc = "ended" => turn' = turn
    BY <1>4 DEF HostLeaves, NoTurn
  <2> QED
    BY <1>4, <1>f, <2>1 DEF HostLeaves
<1>5. CASE HostReceives
  <2>1. UNCHANGED turn /\ st'.failed = st.failed
    BY <1>5, <1>t, OutputInOrder DEF HostReceives, TakeEvent, StoreStates
  <2> QED
    BY <1>f, <2>1
<1>6. CASE HostSeesEnd \/ HostWaits
  <2>1. UNCHANGED turn /\ st'.failed = st.failed
    BY <1>6, <1>t DEF HostSeesEnd, HostWaits, TakeEnd, TakeNothing, StoreStates, vars, hostVars
  <2> QED
    BY <1>f, <2>1
<1>7. CASE HostLearns \/ HostFenced \/ HostListens \/ HostStops \/ UNCHANGED allVars
  <2>1. UNCHANGED turn /\ UNCHANGED st
    BY <1>7 DEF HostLearns, HostFenced, HostListens, HostStops, Listen, vars, hostVars, allVars
  <2> QED
    BY <1>f, <2>1
<1> QED
  BY <1>1, <1>2, <1>3, <1>4, <1>5, <1>6, <1>7 DEF HostNext, TurnSteps, LoopSteps, Polls
-----------------------------------------------------------------------------
(* The theorems *)

\* A new store, its host and no turn.
LEMMA InvariantInit == HostInit => IInv
<1> SUFFICES ASSUME HostInit PROVE IInv
  OBVIOUS
<1>1. <<>> \in Seq(Items) /\ DOMAIN <<>> = {} /\ Len(<<>>) = 0 /\ <<>> \in Seq(Steps)
  OBVIOUS
<1>2. None \in Items /\ NoEnd \in Ends /\ Idle \in CallStates
  BY DEF None, Items, NoEnd, Ends, Idle, CallStates, CallPcs
<1>3. st \in StoreStates
  BY <1>1, <1>2 DEF HostInit, Init, StoreStates
<1>4. budget \in Budgets /\ spool \in Spools /\ rx \in Receivers
  BY DEF HostInit, Init, Budgets, Spools, Receivers
<1>5. worker \in Workers
  BY <1>2 DEF HostInit, Init, Workers, WorkerPcs
<1>6. call \in [Producers -> CallStates]
  BY <1>2 DEF HostInit, Init
<1>7. tail \in [Actors -> Seq(Steps)]
  BY <1>1 DEF HostInit, Init
<1>8. turn \in Turns /\ host \in Hosts
  BY DEF HostInit, NoTurn, NoHost, Turns, TurnPcs, Hosts
<1>9. Types
  BY <1>3, <1>4, <1>5, <1>6, <1>7, <1>8, FS_EmptySet DEF Types, HostInit, Init
<1>10. Queued /\ InHand /\ Spooled /\ Ending
  BY <1>1 DEF HostInit, Init, Queued, InHand, Spooled, Ending, Taken, Reading, Through, NoEnd
<1>11. Reported
  BY <1>1 DEF HostInit, Init, Reported
<1>12. \A p \in Producers : call[p].pc = "idle"
  BY DEF HostInit, Init, Idle
<1>13. Calls
  BY <1>12 DEF Calls
<1>14. CreditsExact
  <2>1. Holders = {}
    BY <1>1 DEF HostInit, Init, Holders, InQueue
  <2>2. Notes(Holders) = {} /\ Questions(Holders) = {}
    BY <2>1 DEF Notes, Questions
  <2>3. InCalls("holding") = {} /\ InCalls("asking") = {}
    BY <1>12 DEF InCalls
  <2>4. /\ UNION {Cells(i, i.bytes) : i \in Notes(Holders)} = {}
        /\ UNION {Cells(p, call[p].bytes) : p \in InCalls("holding")} = {}
    BY <2>2, <2>3
  <2>5. Cardinality({}) = 0
    BY FS_EmptySet
  <2>6. budget.bytes = 0 /\ budget.records = 0 /\ budget.controls = 0 /\ rx.held = 0
    BY DEF HostInit, Init
  <2>7. BytesOf(Holders) = 0
    BY <2>4, <2>5 DEF BytesOf
  <2> QED
    BY <2>2, <2>3, <2>4, <2>5, <2>6, <2>7 DEF CreditsExact
<1>15. Window
  BY EventStoreAssumption DEF HostInit, Init, Window
<1>16. Bounded
  <2>1. {p \in Producers : call[p].pc # "idle"} = {}
    BY <1>12
  <2>2. Cardinality({}) = 0
    BY FS_EmptySet
  <2> QED
    <3>1. /\ st.accepted = 0 /\ st.readyEnqueued = FALSE /\ st.end.kind = "none"
          /\ MaxEvents \in Nat
      BY EventStoreAssumption DEF HostInit, Init, NoEnd
    <3> QED
      BY <2>1, <2>2, <3>1 DEF Bounded
<1>17. Receiving /\ TurnDrained
  BY DEF HostInit, Init, Receiving, TurnDrained, NoTurn
<1>18. Counting
  BY DEF HostInit, Init, Counting, NoTurn, NoHost
<1> QED
  BY <1>9, <1>10, <1>11, <1>13, <1>14, <1>15, <1>16, <1>17, <1>18 DEF IInv

\* Every step keeps the invariant.
LEMMA InvariantStep == IInv /\ [HostNext]_allVars => IInv'
<1> SUFFICES ASSUME IInv, [HostNext]_allVars PROVE IInv'
  OBVIOUS
<1>1. Types /\ Numbers /\ Reported /\ Calls /\ CreditsExact /\ Window /\ Bounded
      /\ Receiving /\ Counting /\ TurnDrained
  BY DEF IInv, Numbers
<1>2. Types'
  BY <1>1, TypesStep
<1>3. Numbers'
  BY <1>1, <1>2, NumbersStep
<1>4. Reported' /\ Calls'
  BY <1>1, ReportedStep, CallsStep
<1>5. CreditsExact'
  BY <1>1, <1>2, CreditsStep
<1>6. Window' /\ Bounded'
  BY <1>1, <1>2, <1>5, WindowStep, BoundedStep
<1>7. Receiving' /\ Counting' /\ TurnDrained'
  BY <1>1, <1>2, ReceivingStep, CountingStep, DrainedStep
<1> QED
  BY <1>2, <1>3, <1>4, <1>5, <1>6, <1>7 DEF IInv, Numbers

\* It holds of every reachable state.
LEMMA Invariant == Spec => []IInv
BY InvariantInit, InvariantStep, PTL DEF Spec

\* A note in the store is one that some handler was given the credit of.
LEMMA NotesSized ==
  ASSUME Types, Numbers
  PROVE  \A i \in Notes(Holders) : i.bytes \in Sizes
<1>1. \A i \in InQueue : i.kind = "note" => i.bytes \in Sizes
  BY DEF Numbers, Queued, InQueue
<1>2. \A i \in spool.live : i.kind # "note"
  BY DEF Numbers, Spooled
<1>3. worker.item.kind = "note" => worker.item.bytes \in Sizes
  BY DEF Numbers, InHand, Taken, Reading, None, Types, Workers, WorkerPcs
<1>4. st.output # None => st.output.kind # "note"
  BY DEF Numbers, Spooled, Ending
<1> QED
  BY <1>1, <1>2, <1>3, <1>4 DEF Holders, Notes

\* One record alone has the bytes of one note.
LEMMA OneRecord ==
  ASSUME Types, Numbers, Calls, CreditsExact, budget.records = 1
  PROVE  budget.bytes \in Sizes
<1>1. Credits(budget, Holders, call, rx.held)
  BY CreditsAre
<1>2. /\ Holders \in SUBSET Items
      /\ Cardinality(Notes(Holders)) \in Nat /\ Cardinality(InPc(call, "holding")) \in Nat
  BY CountsTyped
<1>3. IsFiniteSet(Notes(Holders)) /\ IsFiniteSet(InPc(call, "holding"))
  BY CountsTyped, EventStoreAssumption, FS_Subset DEF Notes, InPc
<1>4. Cardinality(Notes(Holders)) + Cardinality(InPc(call, "holding")) = 1
  BY <1>1 DEF Credits
<1>e. Cardinality({}) = 0
  BY FS_EmptySet
<1>5. CASE Cardinality(Notes(Holders)) = 1
  <2>1. InPc(call, "holding") = {}
    BY <1>2, <1>3, <1>4, <1>5, FS_EmptySet
  <2>2. PICK i : Notes(Holders) = {i}
    BY <1>3, <1>5, FS_Singleton
  <2>3. i \in Items /\ i \in Notes(Holders) /\ i.kind = "note"
    BY <1>2, <2>2 DEF Notes
  <2>4. Notes({i}) = {i}
    BY <2>3 DEF Notes
  <2>5. BytesOf(Holders) = BytesOf({i})
    BY <2>2, <2>4 DEF BytesOf
  <2>6. BytesOf({i}) = i.bytes
    BY <2>3, OneItem
  <2>7. Cardinality(CellsIn(call)) = 0
    <3>1. CellsIn(call) = {}
      BY <2>1 DEF CellsIn
    <3> QED
      BY <1>e, <3>1
  <2>8. i.bytes \in Nat
    BY <2>3 DEF Items
  <2>9. budget.bytes = i.bytes
    BY <1>1, <2>5, <2>6, <2>7, <2>8 DEF Credits
  <2> QED
    BY <2>3, <2>9, NotesSized
<1>6. CASE Cardinality(Notes(Holders)) # 1
  <2>1. Cardinality(Notes(Holders)) = 0 /\ Cardinality(InPc(call, "holding")) = 1
    BY <1>2, <1>4, <1>6
  <2>2. Notes(Holders) = {}
    BY <1>3, <2>1, FS_EmptySet
  <2>3. PICK p : InPc(call, "holding") = {p}
    BY <1>3, <2>1, FS_Singleton
  <2>4. p \in Producers /\ call[p].pc = "holding"
    BY <2>3 DEF InPc
  <2>5. call[p].bytes \in Sizes /\ call[p].bytes \in Nat
    BY <2>4 DEF Calls, Types, CallStates
  <2>6. CellsIn(call) = {p} \X (1..call[p].bytes)
    BY <2>3 DEF CellsIn, Cells
  <2>7. IsFiniteSet(1..call[p].bytes) /\ Cardinality(1..call[p].bytes) = call[p].bytes
    <3>1. PICK n : n = call[p].bytes
      OBVIOUS
    <3>2. n \in Nat
      BY <2>5, <3>1
    <3>3. IsFiniteSet(1..n) /\ Cardinality(1..n) = n
      BY <3>2, FS_Interval
    <3> QED
      BY <3>1, <3>3
  <2>8. Cardinality({p} \X (1..call[p].bytes)) = Cardinality({p}) * Cardinality(1..call[p].bytes)
    BY <2>7, FS_Singleton, FS_Product
  <2>9. Cardinality(CellsIn(call)) = call[p].bytes
    <3>1. Cardinality({p}) = 1
      BY FS_Singleton
    <3>2. 1 * call[p].bytes = call[p].bytes
      BY <2>5
    <3> QED
      BY <2>6, <2>7, <2>8, <3>1, <3>2
  <2>10. BytesOf(Holders) = 0
    <3>1. UNION {Cells(i, i.bytes) : i \in Notes(Holders)} = {}
      BY <2>2
    <3> QED
      BY <1>e, <3>1 DEF BytesOf
  <2> QED
    BY <1>1, <2>5, <2>9, <2>10 DEF Credits
<1> QED
  BY <1>5, <1>6

\* The cursors and the counters are in their ranges, and no more than the window is
\* ever admitted, but for one giant that is alone (Budget::encoded), whatever the
\* handlers, the window, the sizes and the troubles.
THEOREM TypeCorrect == Spec => []TypeOK
<1>1. IInv => TypeOK
  <2> SUFFICES ASSUME IInv PROVE TypeOK
    OBVIOUS
  <2>t. /\ Types /\ Numbers /\ Calls /\ CreditsExact /\ Window /\ Bounded /\ Counting
        /\ st.accepted \in Nat /\ st.written \in Nat /\ st.delivered \in Nat
        /\ host.remaining \in Nat \cup {Unfenced} /\ MaxEvents \in Nat
        /\ WindowBytes \in Nat /\ WindowRecords \in Nat /\ ControlItems \in Nat
    BY EventStoreAssumption DEF IInv, Numbers, Types, StoreStates, Hosts
  <2>1. st.accepted \in 0..(MaxEvents + 2)
    <3>1. Cardinality({p \in Producers : call[p].pc # "idle"}) \in Nat
      BY EventStoreAssumption, FS_Subset, FS_CardinalityType
    <3> QED
      BY <2>t, <3>1 DEF Bounded
  <2>2. st.written \in 0..st.accepted /\ st.delivered \in 0..st.accepted
    BY <2>t DEF Numbers, Spooled
  <2>3. budget.bytes \in Nat /\ budget.records \in Nat /\ budget.controls \in Nat
    BY <2>t, NoRecordsNoBytes
  <2>4. budget.records \in 0..WindowRecords /\ budget.controls \in 0..ControlItems
    BY <2>t, <2>3 DEF Window
  <2>5. budget.bytes \in 0..WindowBytes \/ (budget.bytes \in Sizes /\ budget.records = 1)
    BY <2>t, <2>3, OneRecord DEF Window
  <2>6. host.remaining \in Unfenced..(MaxEvents + 2)
    BY <2>t DEF Counting, Unfenced
  <2>7. \A p \in Producers : call[p].pc \in CallPcs
    BY <2>t DEF Types, CallStates
  <2> QED
    BY <2>1, <2>2, <2>4, <2>5, <2>6, <2>7 DEF TypeOK, CallPcs
<1> QED
  BY <1>1, Invariant, PTL

\* The counters of the budget are exactly the credits alive in a handler, the queue,
\* the worker, the output slot or the client's hands: none is leaked and none
\* returned twice (Drop of EncodedCredit and of the permit).
THEOREM CreditsAreExact == Spec => []CreditsExact
<1>1. IInv => CreditsExact
  BY DEF IInv
<1> QED
  BY <1>1, Invariant, PTL

\* take_output never meets a gap: what lies before the receiver is the next event of
\* the stream, and Closed of a source that said how it ended is the last.
THEOREM StreamInOrder == Spec => []NextInOrder
<1>1. IInv => NextInOrder
  BY DEF IInv, NextInOrder, Spooled, Ending
<1> QED
  BY <1>1, Invariant, PTL

\* complete_io reports the end of the I/O only when the queue and the spool hold
\* nothing any more, and every permit out is with a handler or the client.
THEOREM NothingLeftAtShutdown == Spec => []NothingHeldAtShutdown
<1>1. IInv => NothingHeldAtShutdown
  <2> SUFFICES ASSUME IInv, completed PROVE NothingHeldAtShutdown
    BY DEF NothingHeldAtShutdown
  <2>1. Types /\ Numbers /\ Reported /\ CreditsExact
    BY DEF IInv, Numbers
  <2>2. worker.pc = "over"
    BY <2>1 DEF Reported
  <2>3. st.queue = <<>> /\ spool.live = {} /\ worker.item = None
        /\ (st.output = None \/ st.output.kind = "closed")
    BY <2>1, <2>2 DEF Numbers, InHand, Ending
  <2>4. Questions(Holders) = {}
    <3>1. InQueue = {}
      BY <2>3, EmptySeq DEF InQueue
    <3> QED
      BY <2>3, <3>1 DEF Holders, Questions
  <2>5. Cardinality(Questions(Holders)) = 0
    BY <2>4, FS_EmptySet
  <2>6. Cardinality(InPc(call, "asking")) \in Nat /\ rx.held \in Nat
    BY <2>1, CountsTyped
  <2>7. budget.controls = rx.held + Cardinality(InCalls("asking"))
    BY <2>1, <2>5, <2>6 DEF CreditsExact, InCalls, InPc
  <2> QED
    BY <2>3, <2>7 DEF NothingHeldAtShutdown
<1> QED
  BY <1>1, Invariant, PTL

\* Unless the store failed, the turn that gui_host ends has every event the store
\* accepted before the answer delivered: the fence's prefix is counted down to the
\* last, and a stream that ends before is at its end.
THEOREM TurnIsDrained == Spec => []TurnDrained
<1>1. IInv => TurnDrained
  BY DEF IInv
<1> QED
  BY <1>1, Invariant, PTL

=============================================================================
