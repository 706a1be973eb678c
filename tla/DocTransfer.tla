---------------------------- MODULE DocTransfer ----------------------------
(***************************************************************************)
(* One shared document carried between two machines, as                    *)
(* node/src/doc_transfer_state.rs and node/src/link_doc_transfer.rs do it. *)
(*                                                                         *)
(* Each machine has a journal of outgoing plans and incoming transfers, a  *)
(* store of staged bodies and the document.  A step on them holds the      *)
(* journal's gate from State::open to its end, so it is one action; what   *)
(* it makes durable on the way are its CUTS, the disks a crash may leave.  *)
(* Between its steps a visit talks to the other machine, which may do      *)
(* anything meanwhile, and whose answers may be lost.                      *)
(*                                                                         *)
(* A version vector is a function from writers to counts of operations,    *)
(* one writer per machine.  A body is its manifest and a number of chunks. *)
(***************************************************************************)
EXTENDS Naturals, FiniteSets, Sequences

CONSTANTS
  Machine,     \* the two machines
  None,        \* no manifest, proof or message
  Chunks,      \* how many chunks a body has
  MaxRecords,  \* MAX_RECORDS of the journal, per direction
  MaxStages,   \* MAX_RETAINED_STAGES of the body store
  World        \* the surroundings to look at, see world

ASSUME TransferAssumption ==
  /\ \E a, b \in Machine : a # b /\ Machine = {a, b}
  /\ Chunks \in Nat \ {0} /\ MaxRecords \in Nat /\ MaxStages \in Nat
  /\ World \subseteq [dialers : SUBSET Machine,    \* whose pump reaches the other one
                      reseeders : SUBSET Machine,  \* who opens it with a newer build
                      edits : [Machine -> Nat],    \* operations a machine may add
                      faults : Nat]                \* stops and lost answers there may be

VARIABLES
  world,       \* one of World, the same all along
  disk,        \* disk[m]: document, journal and staged bodies of m
  visit,       \* visit[m]: m's running visit to the other machine
  late,        \* requests whose sender gave up and that may still be served
  faults       \* how many stops and lost answers there were

vars == <<world, disk, visit, late, faults>>

Other(m) == CHOOSE n \in Machine : n # m

-----------------------------------------------------------------------------
(* Versions, manifests and receipts.                                       *)

Covers(v, w) == \A x \in Machine : v[x] >= w[x]
Join(v, w) == [x \in Machine |-> IF v[x] >= w[x] THEN v[x] ELSE w[x]]

Version == [Machine -> Nat]
Manifests == [src : Machine, dst : Machine, epoch : {0, 1}, base : Version, target : Version]
Proofs == [k : {"Proof"}, man : Manifests, ver : Version, kind : {"Applied", "Equivalent"}]

\* None is none of the things it stands in for.
ASSUME NoneAssumption ==
  None \notin Manifests \cup Proofs \cup [k : {"Failed", "Full", "Missing", "Apart"}]
            \cup [k : {"Stored"}, next : Nat] \cup [k : {"Complete"}, proof : Proofs]
            \cup [k : {"Chunk"}, man : Manifests, off : Nat]

Manifest(m, d, have) ==
  [src |-> m, dst |-> Other(m), epoch |-> d.epoch, base |-> have, target |-> d.ver]

Proof(man, ver, kind) == [k |-> "Proof", man |-> man, ver |-> ver, kind |-> kind]

Outgoing(st, man, proof) == [st |-> st, man |-> man, proof |-> proof]
Active(r) == r.st \in {"Preparing", "Ready"}

Incoming(st, man, proof, notify, before) ==
  [st |-> st, man |-> man, proof |-> proof, notify |-> notify, before |-> before]

InRows(d, man) == {r \in d.in : r.man = man}
OutRows(d, man) == {r \in d.out : r.man = man /\ r.st # "Preparing"}

-----------------------------------------------------------------------------
(* The disk.                                                               *)

PutOut(d, old, new) == [d EXCEPT !.out = (@ \ old) \cup new]
PutIn(d, old, new) == [d EXCEPT !.in = (@ \ old) \cup new]

Stored(d, man) == IF man \in DOMAIN d.blob THEN d.blob[man] ELSE 0
\* Mutant: a chunk appended is counted twice.
StagedTwice(d, man, n) ==
  [d EXCEPT !.blob = [x \in {man} \cup DOMAIN d.blob |-> IF x = man THEN n + 1 ELSE d.blob[x]]]

Staged(d, man, n) ==
  [d EXCEPT !.blob = [x \in {man} \cup DOMAIN d.blob |-> IF x = man THEN n ELSE d.blob[x]]]
Cancel(d, man) ==
  [d EXCEPT !.blob = [x \in (DOMAIN d.blob) \ {man} |-> d.blob[x]]]
Room(d, man) == man \in DOMAIN d.blob \/ Cardinality(DOMAIN d.blob) < MaxStages

\* validate_records: an image that fails it is not saved.
Valid(d) ==
  /\ Cardinality(d.out) <= MaxRecords /\ Cardinality(d.in) <= MaxRecords
  /\ \A r, s \in d.out : r # s => ~(Active(r) /\ Active(s))
  /\ \A r, s \in d.out :
       r # s /\ r.man = s.man => "Preparing" \in {r.st, s.st}
  /\ \A r, s \in d.in : r # s => r.man # s.man

\* reconcile_references: a staged body no record names stops every later step.
Referenced(d) ==
  \A man \in DOMAIN d.blob :
    \/ \E r \in d.in : r.man = man
    \/ \E r \in d.out : r.man = man

\* recover_completed_cleanup, at every opening of the state.
Opened(d) ==
  LET accepted == {r \in d.out : r.st = "Accepted"}
      cleanup  == {r \in d.in : r.st = "Cleanup"}
      gone     == {r.man : r \in accepted \cup cleanup}
  IN  [d EXCEPT
         !.out = (@ \ accepted) \cup {Outgoing("NeedAck", r.man, r.proof) : r \in accepted},
         !.in = @ \ cleanup,
         !.blob = [x \in (DOMAIN d.blob) \ gone |-> d.blob[x]]]

\* Mutant: notices are marked, never delivered.
NoticedNever(d) == d

\* deliver_doc_notices, after the step and before its result is used.
Noticed(d) ==
  LET due == {r \in d.in : r.notify /\ r.man.epoch = d.epoch /\ Covers(d.ver, r.proof.ver)}
  IN  PutIn(d, due, {[r EXCEPT !.notify = FALSE] : r \in due})

\* What a step does: the disks a crash may leave, the last one, the result.
Did(cuts, last, res) == [cuts |-> cuts \cup {last}, last |-> last, res |-> res]
After(step, more) == [more EXCEPT !.cuts = @ \cup step.cuts]
Failed == [k |-> "Failed"]
Full == [k |-> "Full"]      \* the records in memory no longer fit the journal
Fails(res) == res # None /\ res.k \in {"Failed", "Full"}
Then(step, more) == IF Fails(step.res) THEN step ELSE After(step, more)
Missing == [k |-> "Missing"]
Apart == [k |-> "Apart"]
StoredAt(n) == [k |-> "Stored", next |-> n]
Complete(p) == [k |-> "Complete", proof |-> p]
Chunk(man, off) == [k |-> "Chunk", man |-> man, off |-> off]

-----------------------------------------------------------------------------
(* The sender's side.                                                      *)

\* read_outgoing: only a published plan of the document's epoch is read.
ReadOutgoing(d, man, off) ==
  IF /\ \E r \in d.out : r.st = "Ready" /\ r.man = man
     /\ man.epoch = d.epoch
     /\ man \in DOMAIN d.blob /\ Stored(d, man) = Chunks
  THEN Chunk(man, off) ELSE Failed

\* The last part of offer_encoded: record the plan, stage the body, publish.
NewPlan(m, d, have) ==
  LET man   == Manifest(m, d, have)
      prep  == Outgoing("Preparing", man, None)
      begun == PutOut(d, {}, {prep})
      staged(n) == Staged(begun, man, n)
      ready == PutOut(staged(Chunks), {prep}, {Outgoing("Ready", man, None)})
  IN  CASE ~Valid(begun) -> Did({}, d, Failed)
        [] Valid(begun) /\ Covers(have, d.ver) -> Did({begun}, d, None)
        [] Valid(begun) /\ ~Covers(have, d.ver) /\ ~Room(d, man) ->
             Did({}, begun, Failed)
        [] OTHER ->
             LET parts == {begun} \cup {staged(n) : n \in Stored(d, man)..Chunks}
             IN  IF Valid(ready) THEN Did(parts, ready, Chunk(man, 0))
                                 ELSE Did(parts, staged(Chunks), Failed)

\* offer: a plan that is open is offered again before a new one is made.
Offer(m, d, have) ==
  LET ready == {r \in d.out : r.st = "Ready"}
      prep  == {r \in d.out : r.st = "Preparing"}
  IN  CASE ready # {} ->
             LET r == CHOOSE r \in ready : TRUE
             IN  Did({}, d, ReadOutgoing(d, r.man, 0))
        [] ready = {} /\ prep # {} ->
             LET r    == CHOOSE r \in prep : TRUE
                 full == PutOut(d, {r}, {Outgoing("Ready", r.man, None)})
                 freed == Cancel(d, r.man)
                 gone == PutOut(freed, {r}, {})
             IN  IF r.man \in DOMAIN d.blob /\ Stored(d, r.man) = Chunks
                 THEN IF Valid(full)
                      THEN Did({}, full, ReadOutgoing(full, r.man, 0))
                      ELSE Did({}, d, Failed)
                 ELSE After(Did({freed}, gone, None), NewPlan(m, gone, have))
        [] OTHER -> NewPlan(m, d, have)

\* validate_completion.
Completes(d, p) == d.epoch = p.man.epoch /\ Covers(d.ver, p.man.target)

\* accept_checked: the plan gives way to its receipt, its body goes.
AcceptChecked(d, p, confirmation) ==
  LET rows == OutRows(d, p.man)
      acc  == PutOut(d, rows, {Outgoing("Accepted", p.man, p)})
      free == Cancel(acc, p.man)
      last == PutOut(free, {Outgoing("Accepted", p.man, p)},
                     IF confirmation THEN {} ELSE {Outgoing("NeedAck", p.man, p)})
  IN  IF rows # {} THEN Did({acc, free}, last, p)
      ELSE Did({}, d, IF confirmation THEN p ELSE Failed)

Accept(d, p, confirmation) ==
  IF Completes(d, p) THEN AcceptChecked(d, p, confirmation) ELSE Did({}, d, Failed)

\* accept_sent: another visit may have retired the plan already.
AcceptSent(d, sent, p) ==
  LET kept == PutOut(d, {}, {Outgoing("NeedAck", p.man, p)})
  IN  CASE sent # p.man \/ ~Completes(d, p) -> Did({}, d, Failed)
        [] sent = p.man /\ Completes(d, p) /\ OutRows(d, sent) # {} ->
             AcceptChecked(d, p, FALSE)
        [] OTHER -> IF Valid(kept) THEN Did({}, kept, p) ELSE Did({}, d, Failed)

\* Mutant: only a release in so many words ends the wait.
AcknowledgedOnRelease(d, result) ==
  IF result.k = "Released"
  THEN Did({}, PutOut(d, {Outgoing("NeedAck", result.proof.man, result.proof)}, {}), None)
  ELSE Did({}, d, None)

\* acknowledged: the recipient let go of the receipt, or names another one.
Acknowledged(d, result) ==
  CASE result.k = "Reconfirm" /\ {r \in d.out : r.man = result.proof.man /\ r.st # "Preparing"} # {} ->
         Accept(d, result.proof, FALSE)
    [] result.k \in {"Released", "Absent"} ->
         Did({}, PutOut(d, {Outgoing("NeedAck", result.proof.man, result.proof)}, {}), None)
    [] OTHER -> Did({}, d, None)

-----------------------------------------------------------------------------
(* The recipient's side.                                                   *)

\* Mutant: a body is taken for here when what it builds on is.
CompletedByBase(d, man) ==
  LET p == Proof(man, d.ver, "Equivalent")
  IN  IF Covers(d.ver, man.base)
      THEN Did({}, PutIn(d, InRows(d, man), {Incoming("Complete", man, p, FALSE, None)}),
               Complete(p))
      ELSE Did({}, d, None)

\* completed: the receipt that is on record, or one for what is here already.
Completed(d, man) ==
  LET rows == InRows(d, man)
      done == {r \in rows : r.st = "Complete"}
      p    == Proof(man, d.ver, "Equivalent")
      new  == PutIn(d, rows, {Incoming("Complete", man, p,
                \E r \in rows : r.st = "Importing" /\ r.before # d.ver, None)})
  IN  CASE done # {} ->
             LET r == CHOOSE r \in done : TRUE
             IN  Did({}, d, IF Covers(d.ver, r.proof.ver) THEN Complete(r.proof) ELSE Failed)
        [] done = {} /\ Covers(d.ver, man.base) /\ Covers(d.ver, man.target) ->
             IF Valid(new) THEN Did({}, new, Complete(p)) ELSE Did({}, d, Full)
        [] OTHER -> Did({}, d, None)

\* Mutant: the receipt is recorded before the document is flushed.
ImportRecordsFirst(d, man) ==
  LET ver  == Join(d.ver, man.target)
      p    == Proof(man, ver, "Applied")
      done == PutIn(d, InRows(d, man), {Incoming("Complete", man, p, ver # d.ver, None)})
  IN  Did({done}, [done EXCEPT !.ver = ver], Complete(p))

\* The end of receive: the verified body is imported and flushed.
Import(d, man) ==
  LET busy == PutIn(d, InRows(d, man), {Incoming("Importing", man, None, FALSE, d.ver)})
      ver  == Join(d.ver, man.target)
      here == [busy EXCEPT !.ver = ver]
      p    == Proof(man, ver, "Applied")
      done == PutIn(here, InRows(here, man),
                {Incoming("Complete", man, p, ver # d.ver, None)})
  IN  IF Covers(d.ver, man.base) THEN Did({busy, here}, done, Complete(p))
                                 ELSE Did({}, busy, Failed)

\* A chunk of a body that is recorded, at its place or before it.
AppendChunk(d, man, off, at) ==
  LET next == IF off = at /\ at < Chunks THEN at + 1 ELSE at
      held == Staged(d, man, next)
  IN  IF next < Chunks THEN Did({d}, held, StoredAt(next))
      ELSE After(Did({d}, held, None), Import(held, man))

\* receive: one chunk, in order; the last one imports the body.
Receive(d, man, off, create) ==
  LET known == IF InRows(d, man) # {} THEN d
               ELSE PutIn(d, {}, {Incoming("Receiving", man, None, FALSE, None)})
      Wanted(done) ==
        IF done.res # None THEN done
        ELSE IF ~Valid(known) THEN Did({}, d, Full)
        ELSE IF man \notin DOMAIN d.blob /\ ~create THEN Did({}, known, Missing)
        ELSE IF ~Room(known, man) \/ off > Stored(d, man) THEN Did({}, known, Failed)
        ELSE AppendChunk(known, man, off, Stored(d, man))
  IN  IF ~create /\ InRows(d, man) = {} THEN Did({}, d, Missing)
      ELSE IF man.epoch # d.epoch THEN Did({}, d, Apart)
      ELSE Wanted(Completed(d, man))

\* Mutant: the record goes before the body.
AcknowledgeRecordFirst(d, p) ==
  LET rows == InRows(d, p.man)
      gone == PutIn(d, rows, {})
  IN  IF rows = {} THEN Did({}, d, [k |-> "Absent", proof |-> p])
      ELSE Did({gone}, Cancel(gone, p.man), [k |-> "Released", proof |-> p])

\* acknowledge: the sender has the receipt; record and body may go.
Acknowledge(d, p) ==
  LET rows  == InRows(d, p.man)
      own   == (CHOOSE r \in rows : TRUE).proof
      clean == PutIn(d, rows, {Incoming("Cleanup", p.man, own, FALSE, None)})
      freed == Cancel(clean, p.man)
  IN  CASE rows = {} -> Did({}, d, [k |-> "Absent", proof |-> p])
        [] rows # {} /\ own = None -> Did({}, d, Failed)
        [] rows # {} /\ own \notin {None, p} -> Did({}, d, [k |-> "Reconfirm", proof |-> own])
        [] OTHER -> Did({clean, freed}, PutIn(freed, {Incoming("Cleanup", p.man, own, FALSE, None)}, {}),
                        [k |-> "Released", proof |-> p])

\* Up to n of a pending set: the journal's order among them is left open.
Taken(n, S) ==
  IF S = {} THEN {<<>>}
  ELSE IF n = 1 \/ Cardinality(S) = 1 THEN {<<x>> : x \in S}
  ELSE {<<x, y>> : x \in S, y \in S} \ {<<x, x>> : x \in S}

PendingProofs(d) == {r.proof : r \in {r \in d.in : r.st = "Complete"}}
PendingAcks(d) == {r.proof : r \in {r \in d.out : r.st = "NeedAck"}}

\* status: what the journal knows of a body, and how far it is here.
Status(d, man) ==
  LET Told(done) ==
        IF done.res # None THEN done
        ELSE Did({}, d, IF InRows(d, man) # {} /\ man \in DOMAIN d.blob
                        THEN StoredAt(Stored(d, man)) ELSE Missing)
  IN  IF man.epoch # d.epoch THEN Did({}, d, Apart) ELSE Told(Completed(d, man))

-----------------------------------------------------------------------------
(* Requests, and what the machine that gets one does.                      *)

Here(d) == [epoch |-> d.epoch, ver |-> d.ver]
All(list) == [k |-> "All", list |-> list]

\* What one receipt, acknowledgement or answer of a list does.
One(what, d, x) ==
  CASE what = "confirm" -> Accept(d, x, TRUE)
    [] what = "acknowledge" -> Acknowledge(d, x)
    [] what = "answered" -> Acknowledged(d, x)

\* A list in turn; the first failure ends it, what is saved stays.
Gathered(list, one) == Then(one, Did({}, one.last, All(Append(list, one.res))))
Turn(what, done, x) == Then(done, Gathered(done.res.list, One(what, done.last, x)))
Each(what, d, list) ==
  LET upto[i \in 0..Len(list)] ==
        IF i = 0 THEN Did({}, d, All(<<>>)) ELSE Turn(what, upto[i - 1], list[i])
  IN  upto[Len(list)]

Confirmed(d, proofs) == Each("confirm", d, proofs)
Released(d, acks) == Each("acknowledge", d, acks)
Answered(d, results) == Each("answered", d, results)

\* The offered chunk.
TakenIn(d, req) ==
  IF req.offer = None THEN Did({}, d, None) ELSE Receive(d, req.offer.man, 0, TRUE)

\* Our own offer.  A chunk that fails is reported; only where the records do not fit
\* does it matter to the offer.
Offered(n, req, got) ==
  CASE req.have.epoch # got.last.epoch -> Did({}, got.last, None)
    [] req.have.epoch = got.last.epoch /\ got.res = Full
         /\ ~\E r \in got.last.out : r.st = "Ready" -> Did({}, got.last, Failed)
    [] OTHER -> Offer(n, got.last, req.have.ver)

Reply(proofs, acks, got, mine) ==
  [k |-> "Exchanged", have |-> Here(got.last), received |-> got.res, offer |-> mine.res,
   acks |-> proofs.res.list, results |-> acks.res.list]

\* handle, for Exchange: receipts first, then the offered chunk, then our own.
Exchanged(n, d, req) ==
  LET proofs == Confirmed(d, req.proofs)
      acks   == Released(proofs.last, req.acks)
      got    == TakenIn(acks.last, req)
      mine   == Offered(n, req, got)
      end    == Did({}, mine.last, Reply(proofs, acks, got, mine))
  IN  Then(proofs, Then(acks, After(got, Then(mine, end))))

Handle(n, d, req) ==
  CASE req.k = "Exchange" -> Exchanged(n, d, req)
    [] req.k = "Write" -> Receive(d, req.man, req.off, FALSE)
    [] req.k = "Read" -> Did({}, d, ReadOutgoing(d, req.man, req.off))
    [] req.k = "Confirm" -> Confirmed(d, req.list)
    [] req.k = "Acknowledge" -> Released(d, req.list)

-----------------------------------------------------------------------------
(* What m does next on its disk, in its own visit or for the other's.      *)

\* doc_step: open the state, then the job; the notices come with Step.
Ran(d, opened, job) ==
  IF Referenced(d) THEN [job EXCEPT !.cuts = @ \cup {d, [d EXCEPT !.blob = opened.blob], opened}]
  ELSE Did({}, d, Failed)

At(m, pc, wait) == visit[m].pc = pc /\ visit[m].wait = wait

\* The job of m's visit at its place.
Own(m) ==
  LET v == visit[m]
      d == Opened(disk[m])
      acks == Released(d, v.msg.acks)
      job ==
        CASE At(m, "open", "no") ->
               IF d.epoch = v.have.epoch THEN Offer(m, d, v.have.ver) ELSE Did({}, d, None)
          [] At(m, "answers", "no") -> Then(acks, Answered(acks.last, v.msg.results))
          [] \/ At(m, "push", "no") /\ v.msg.received # None /\ v.msg.received.k = "Complete"
             \/ At(m, "work", "heard") /\ v.msg.k = "Complete" ->
               AcceptSent(d, v.push, IF v.pc = "push" THEN v.msg.received.proof ELSE v.msg.proof)
          [] At(m, "pull", "no") /\ v.msg.offer # None -> Receive(d, v.msg.offer.man, 0, TRUE)
          [] At(m, "work", "no") /\ v.push # None -> Did({}, d, ReadOutgoing(d, v.push, v.at))
          [] At(m, "work", "no") /\ v.push = None /\ v.pull # None -> Status(d, v.pull)
          [] At(m, "work", "heard") /\ v.msg.k = "Chunk" -> Receive(d, v.msg.man, v.msg.off, FALSE)
          [] At(m, "confirm", "heard") /\ ~Fails(v.msg) -> Released(d, v.msg.list)
          [] At(m, "release", "heard") /\ ~Fails(v.msg) -> Answered(d, v.msg.list)
          [] OTHER -> Did({}, d, None)
  IN  Ran(disk[m], d, job)

For(m, req) == LET d == Opened(disk[m]) IN Ran(disk[m], d, Handle(m, d, req))

-----------------------------------------------------------------------------
(* A visit, as transfer_documents makes it.                                *)

Idle == [pc |-> "idle", wait |-> "no", have |-> None, push |-> None, at |-> 0,
         pull |-> None, msg |-> None, acks |-> <<>>]

Go(v, pc) == [v EXCEPT !.pc = pc, !.wait = "no", !.msg = None]
End(v) == [Idle EXCEPT !.pc = "receipts"]
Ask(v, pc, req) == [v EXCEPT !.pc = pc, !.wait = "asked", !.msg = req]

\* m's step at a place, and its visit afterwards.
Step(m, job, v) ==
  /\ disk' = [disk EXCEPT ![m] = Noticed(job.last)]
  /\ visit' = [visit EXCEPT ![m] = v]
  /\ UNCHANGED <<world, late, faults>>

\* sync_what_changed: the versions differ, or the journal has something left.
StartVisit(m) ==
  LET there == Here(disk[Other(m)])
  IN  /\ m \in world.dialers /\ At(m, "idle", "no")
      /\ there # Here(disk[m]) \/ disk[m].out # {} \/ disk[m].in # {}
      /\ \E job \in {Own(m)} : Step(m, job, [Go(Idle, "open") EXCEPT !.have = there])

\* transfer_step, before it has started: one exchange.
OpenExchange(m) ==
  LET v == visit[m]
  IN  /\ At(m, "open", "no")
      /\ \E job \in {Own(m)} :
           \/ Fails(job.res) /\ Step(m, job, End(v))
           \/ /\ ~Fails(job.res)
              /\ \E proofs \in Taken(1, PendingProofs(job.last)),
                    acks \in Taken(1, PendingAcks(job.last)) :
                   Step(m, job,
                        Ask([v EXCEPT !.push = IF job.res = None THEN None ELSE job.res.man],
                            "open", [k |-> "Exchange", have |-> Here(job.last),
                                     offer |-> job.res, proofs |-> proofs, acks |-> acks]))

\* Its answer: the epochs are compared again before anything is used.
TakeExchanged(m) ==
  LET v == visit[m]
      reply == v.msg
  IN  /\ At(m, "open", "heard")
      /\ \E job \in {Own(m)} : Step(m, job,
           IF \/ Fails(reply) \/ Fails(job.res)
              \/ v.have.epoch # reply.have.epoch \/ reply.have.epoch # job.last.epoch
           THEN End(v)
           ELSE [v EXCEPT !.pc = "answers", !.wait = "no", !.have = reply.have,
                          !.pull = IF reply.offer = None THEN None ELSE reply.offer.man])

\* take_receipt_answers.
TakeAnswers(m) ==
  /\ At(m, "answers", "no")
  /\ \E job \in {Own(m)} :
       Step(m, job, IF Fails(job.res) THEN End(visit[m]) ELSE [visit[m] EXCEPT !.pc = "push"])

\* take_push_state, and take_pull_state.
Pushed(v, state, job) ==
  CASE state.k = "Complete" /\ ~Fails(job.res) -> [v EXCEPT !.push = None]
    [] state.k = "Stored" ->
         [v EXCEPT !.at = IF state.next = Chunks THEN Chunks - 1 ELSE state.next]
    [] state.k = "Missing" -> v
    [] OTHER -> End(v)
Pulled(v, state) ==
  CASE state.k = "Complete" -> [v EXCEPT !.pull = None]
    [] state.k \in {"Stored", "Missing"} -> v
    [] OTHER -> End(v)
Again(v, state) == IF v.pc # "receipts" /\ state = Missing THEN Go(v, "open") ELSE v

TakeReceived(m) ==
  LET v == visit[m]
      next == [v EXCEPT !.pc = "pull"]
  IN  /\ At(m, "push", "no")
      /\ \E job \in {Own(m)} :
           Step(m, job, IF v.msg.received = None THEN next ELSE Pushed(next, v.msg.received, job))

TakeOffer(m) ==
  LET v == visit[m]
      next == Go(v, "work")
  IN  /\ At(m, "pull", "no")
      /\ \E job \in {Own(m)} :
           Step(m, job, Again(Again(IF job.res = None THEN next ELSE Pulled(next, job.res),
                                    job.res),
                              v.msg.received))

\* transfer_step, once started: the next chunk out, else the next chunk in.
Work(m) ==
  LET v == visit[m]
      Offset(d) == IF InRows(d, v.pull) = {} THEN 0 ELSE Stored(d, v.pull)
  IN  /\ At(m, "work", "no")
      /\ \E job \in {Own(m)} : Step(m, job,
           CASE Fails(job.res) \/ job.res = None -> End(v)
             [] ~Fails(job.res) /\ v.push # None ->
                  Ask(v, "work", [k |-> "Write", man |-> v.push, off |-> v.at])
             [] ~Fails(job.res) /\ v.push = None /\ job.res # None
                  /\ job.res.k \in {"Stored", "Missing"} ->
                  Ask(v, "work", [k |-> "Read", man |-> v.pull, off |-> Offset(job.last)])
             [] OTHER -> Pulled(v, job.res))

TakeWork(m) ==
  LET v == visit[m]
  IN  /\ At(m, "work", "heard")
      /\ \E job \in {Own(m)} : Step(m, job,
           CASE Fails(v.msg) -> End(v)
             [] ~Fails(v.msg) /\ v.push # None -> Again(Pushed(Go(v, "work"), v.msg, job), v.msg)
             [] OTHER -> Again(Pulled(Go(v, "work"), job.res), job.res))

\* flush_doc_receipts: proofs, then acknowledgements, until none is left.
Receipts(m) ==
  LET v == visit[m]
  IN  /\ At(m, "receipts", "no")
      /\ \E job \in {Own(m)} :
         \E proofs \in Taken(2, PendingProofs(job.last)),
            acks \in Taken(2, PendingAcks(job.last)) :
           Step(m, job,
             CASE ~Fails(job.res) /\ proofs # <<>> ->
                    Ask([v EXCEPT !.acks = acks], "confirm", [k |-> "Confirm", list |-> proofs])
               [] ~Fails(job.res) /\ proofs = <<>> /\ acks # <<>> ->
                    Ask(v, "release", [k |-> "Acknowledge", list |-> acks])
               [] OTHER -> Idle)

TakeConfirmed(m) ==
  LET v == visit[m]
  IN  /\ At(m, "confirm", "heard")
      /\ \E job \in {Own(m)} : Step(m, job,
           CASE Fails(v.msg) \/ Fails(job.res) -> Idle
             [] ~Fails(v.msg) /\ ~Fails(job.res) /\ v.acks # <<>> ->
                  Ask(End(v), "release", [k |-> "Acknowledge", list |-> v.acks])
             [] OTHER -> End(v))

TakeReleased(m) ==
  LET v == visit[m]
  IN  /\ At(m, "release", "heard")
      /\ \E job \in {Own(m)} :
           Step(m, job, IF Fails(v.msg) \/ Fails(job.res) THEN Idle ELSE End(v))

\* answer_doc_transfer: the other machine answers what m asked.
Serve(m) ==
  LET n == Other(m)
  IN  /\ visit[m].wait = "asked"
      /\ \E job \in {For(n, visit[m].msg)} :
           /\ disk' = [disk EXCEPT ![n] = Noticed(job.last)]
           /\ visit' = [visit EXCEPT ![m].wait = "heard", ![m].msg = job.res]
      /\ UNCHANGED <<world, late, faults>>

Request(m) == IF visit[m].wait = "asked" THEN {[from |-> m, req |-> visit[m].msg]} ELSE {}

\* m waits no longer: for an answer, or because the visit took too long.
GiveUp(m) ==
  /\ faults < world.faults /\ faults' = faults + 1
  /\ visit[m].pc # "idle"
  /\ late' = late \cup Request(m)
  /\ \/ visit' = [visit EXCEPT ![m] = Idle]
     \/ /\ visit[m].pc \in {"open", "work"} /\ visit[m].wait = "asked"
        /\ visit' = [visit EXCEPT ![m] = End(@)]
  /\ UNCHANGED <<world, disk>>

\* A request whose asker is gone is handled all the same.
ServeLate(q) ==
  LET n == Other(q.from)
  IN  /\ q \in late /\ late' = late \ {q}
      /\ disk' = [disk EXCEPT ![n] = Noticed(For(n, q.req).last)]
      /\ UNCHANGED <<world, visit, faults>>

\* m stops, between two steps or inside one; what it was asked is gone with it.
Crash(m) ==
  /\ faults < world.faults /\ faults' = faults + 1
  /\ \E job \in {Own(m)} \cup {For(m, q.req) : q \in {q \in late : q.from # m}}
                         \cup {For(m, q.req) : q \in Request(Other(m))} :
       \E d \in job.cuts : disk' = [disk EXCEPT ![m] = d]
  /\ visit' = [x \in Machine |-> IF x = m \/ visit[x].wait = "asked" THEN Idle ELSE visit[x]]
  /\ late' = {q \in late : q.from = m} \cup Request(m)
  /\ UNCHANGED world

\* Somebody changes the document on m.
Edit(m) ==
  /\ disk[m].ver[m] < world.edits[m]
  /\ disk' = [disk EXCEPT ![m].ver[m] = @ + 1]
  /\ UNCHANGED <<world, visit, late, faults>>

\* reseed, at the first opening by a build of the next epoch that finds it free.
Reseed(m) ==
  /\ m \in world.reseeders /\ disk[m].epoch = 0
  /\ disk' = [disk EXCEPT ![m].epoch = 1,
                          ![m].ver = [x \in Machine |->
                             IF x = m /\ \E y \in Machine : disk[m].ver[y] > 0 THEN 1 ELSE 0]]
  /\ UNCHANGED <<world, visit, late, faults>>

Init ==
  /\ world \in World
  /\ disk = [m \in Machine |-> [out |-> {}, in |-> {}, blob |-> <<>>,
                                ver |-> [x \in Machine |-> 0], epoch |-> 0]]
  /\ visit = [m \in Machine |-> Idle]
  /\ late = {} /\ faults = 0

Visit(m) ==
  \/ OpenExchange(m) \/ TakeExchanged(m) \/ TakeAnswers(m) \/ TakeReceived(m)
  \/ TakeOffer(m) \/ Work(m) \/ TakeWork(m)
  \/ Receipts(m) \/ TakeConfirmed(m) \/ TakeReleased(m)

Next ==
  \/ \E m \in Machine :
       \/ Edit(m) \/ Reseed(m) \/ StartVisit(m) \/ Visit(m) \/ Serve(m) \/ GiveUp(m) \/ Crash(m)
  \/ \E q \in late : ServeLate(q)

Spec == Init /\ [][Next]_vars

\* The pump comes round again for whoever can be reached, and what runs goes
\* on.  The second and third lines say WF_vars(Visit(m)) and WF_vars(Serve(m)):
\* they are enabled just then.
Fairness ==
  \A m \in Machine :
    /\ WF_vars(StartVisit(m))
    /\ []<>(visit[m].pc = "idle" \/ visit[m].wait = "asked") \/ []<><<Visit(m)>>_vars
    /\ []<>(visit[m].wait # "asked") \/ []<><<Serve(m)>>_vars

FairSpec == Spec /\ Fairness

-----------------------------------------------------------------------------
(* Properties.                                                             *)

\* Records, bodies and visits are of their kinds; a journal fits its format.
TypeOK ==
  /\ world \in World /\ faults \in 0..world.faults
  /\ \A m \in Machine :
       LET d == disk[m]
       IN  /\ Valid(d) /\ d.epoch \in {0, 1} /\ d.ver \in [Machine -> Nat]
           /\ \A r \in d.out : r.st \in {"Preparing", "Ready", "Accepted", "NeedAck"}
                               /\ r.man.src = m
           /\ \A r \in d.in : r.st \in {"Receiving", "Importing", "Complete", "Cleanup"}
                              /\ r.man.dst = m
           /\ \A man \in DOMAIN d.blob : d.blob[man] \in 0..Chunks
           /\ visit[m].wait \in {"no", "asked", "heard"} /\ visit[m].at \in 0..(Chunks - 1)

\* However a step is cut short, every staged body is named by a record: none
\* is left that reconcile_references refuses, which would stop the journal.
StagesReferenced == \A m \in Machine : Referenced(disk[m])

\* The receipts kept by a machine or under way.
Receipts_of(m) ==
  {r.proof : r \in {r \in disk[m].out \cup disk[m].in : r.proof # None}}

\* Whatever crashed, a receipt on any disk is true of the recipient's disk: it
\* has all the receipt says, and the receipt covers the plan's fixed target.
ReceiptsTruthful ==
  \A m \in Machine : \A p \in Receipts_of(m) :
    /\ Covers(p.ver, p.man.target)
    /\ disk[p.man.dst].epoch = p.man.epoch => Covers(disk[p.man.dst].ver, p.ver)

\* A recipient's record that still owes a notice is not dropped before it is
\* delivered (unless the document has since been given a new epoch).
NoticeBeforeRelease ==
  [][\A m \in Machine : \A r \in disk[m].in :
       r.notify /\ disk[m].epoch = r.man.epoch
         => \E s \in disk'[m].in : s.man = r.man /\ s.st = "Complete"]_vars

\* The journal's owner of a plan lets go of it only when the other machine has
\* its target: what DocDelivery promises.
Kept == UNION {{r.man : r \in {r \in disk[m].out : r.st = "Ready"}} : m \in Machine}
Delivery == INSTANCE DocDelivery WITH
  ver <- [m \in Machine |-> disk[m].ver], epoch <- [m \in Machine |-> disk[m].epoch],
  open <- Kept
ImplementsDocDelivery == Delivery!Spec

\* As long as no copy is given a new epoch: once the edits and the faults are
\* over, both copies are the same, and the journal of each machine that still
\* makes visits is empty.
Settled ==
  /\ \A m, n \in Machine : Here(disk[m]) = Here(disk[n])
  /\ \A m \in world.dialers :
       disk[m].out = {} /\ disk[m].in = {} /\ DOMAIN disk[m].blob = {}
Converges == world.reseeders = {} => <>[]Settled

\* The same where both copies are given the new epoch, each by its own machine.
ReseededConverges ==
  world.reseeders = Machine /\ <>[](\A m \in Machine : disk[m].epoch = 1)
    => <>[](\A m, n \in Machine : Here(disk[m]) = Here(disk[n]))
=============================================================================
