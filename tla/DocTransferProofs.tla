------------------------- MODULE DocTransferProofs -------------------------
(***************************************************************************)
(* The theorems about DocTransfer.  The invariant says of each machine     *)
(* that its disk is Sound (DocTransferSteps), and of each visit and each   *)
(* request under way that what it names is a plan, a receipt or a report   *)
(* of the two disks as they are now.  A disk only GROWS in that sense,     *)
(* whatever a machine does and wherever it is cut short, so that what was  *)
(* once said stays true; each transition is then a matter of the visit it  *)
(* leaves behind.                                                          *)
(***************************************************************************)
EXTENDS DocTransferSteps

-----------------------------------------------------------------------------
(* The invariant.                                                          *)

\* What m's visit waits for or has heard, at each of its places.
Heard(m, v, d, e) ==
  LET n == Other(m)
      asked == v.wait = "asked"
      heard == v.wait = "heard"
  IN  /\ v.pc = "open" /\ asked => v.msg \in Exchanges(m, d, e)
      /\ v.pc = "open" /\ heard => v.msg \in Failure \cup Exchangeds(m, d, e)
      /\ v.pc \in {"answers", "push", "pull"} => v.wait = "no" /\ v.msg \in Exchangeds(m, d, e)
      /\ v.pc = "work" /\ asked /\ v.push # None => v.msg \in Writes(m, d, e)
      /\ v.pc = "work" /\ asked /\ v.push = None => v.msg \in Reads(m, d, e)
      /\ v.pc = "work" /\ heard /\ v.push # None => v.msg \in Received(Passed(n, e))
      /\ v.pc = "work" /\ heard /\ v.push = None =>
           v.msg \in Failure \cup Chunked(Bodies(n, e, d))
      /\ v.pc = "confirm" => v.wait # "no"
      /\ v.pc = "confirm" /\ asked => v.msg \in Confirms(m, d)
      /\ v.pc = "confirm" /\ heard => v.msg \in Lists(Passed(m, d))
      /\ v.pc = "release" => v.wait # "no"
      /\ v.pc = "release" /\ asked => v.msg \in Acknowledges(m, e)
      /\ v.pc = "release" /\ heard => v.msg \in Lists(Answers(Passed(n, e)))
      /\ v.pc \in {"idle", "receipts"} => v.wait = "no"

VisitSound(m, v, d, e) ==
  /\ v = [pc |-> v.pc, wait |-> v.wait, have |-> v.have, push |-> v.push, at |-> v.at,
          pull |-> v.pull, msg |-> v.msg, acks |-> v.acks]
  /\ v.pc \in {"idle", "open", "answers", "push", "pull", "work", "receipts",
               "confirm", "release"}
  /\ v.wait \in {"no", "asked", "heard"} /\ v.at \in 0..(Chunks - 1)
  /\ v.push \in {None} \cup Bodies(m, d, e)
  /\ v.pull \in {None} \cup Bodies(Other(m), e, d)
  /\ v.acks \in Short(Passed(Other(m), e))
  /\ v.pc \in {"open", "answers", "push", "pull", "work"} => v.have \in Report(e)
  /\ Heard(m, v, d, e)

\* Two disks, two visits and the requests nobody waits for any more.
Agree(D, V, L) ==
  /\ D = [m \in Machine |-> D[m]] /\ V = [m \in Machine |-> V[m]]
  /\ \A m \in Machine : Sound(m, D[m], D[Other(m)])
  /\ \A m \in Machine : VisitSound(m, V[m], D[m], D[Other(m)])
  /\ \A q \in L : /\ q = [from |-> q.from, req |-> q.req] /\ q.from \in Machine
                  /\ q.req \in Requests(q.from, D[q.from], D[Other(q.from)])

IInv ==
  /\ world \in World /\ faults \in 0..world.faults
  /\ Agree(disk, visit, late)

-----------------------------------------------------------------------------
(* What a change to one machine's disk leaves standing.                    *)

\* Every receipt, plan and report of m's disk d is one of its disk c.
Grows(m, d, e, c) ==
  /\ d.epoch <= c.epoch
  /\ Passed(m, d) \subseteq Passed(m, c)
  /\ Bodies(m, d, e) \subseteq Bodies(m, c, e)
  /\ Bodies(Other(m), e, d) \subseteq Bodies(Other(m), e, c)
  /\ Report(d) \subseteq Report(c)

\* A step of the journal (doc_step).
LEMMA OnwardGrows ==
  ASSUME NEW m \in Machine, NEW d, NEW e, NEW c, Shape(d), Shape(c), Onward(m, d, e, c)
  PROVE  Grows(m, d, e, c)
<1>1. /\ c.epoch = d.epoch /\ Covers(c.ver, d.ver) /\ LetsGo(d, e, c)
      /\ Passed(m, d) \subseteq Passed(m, c)
  BY DEF Onward
<1>2. d.epoch \in {0, 1} /\ d.ver \in Version /\ c.ver \in Version
  BY DEF Shape
<1>3. Bodies(m, d, e) \subseteq Bodies(m, c, e)
  BY <1>1 DEF Bodies, LetsGo
<1>4. Bodies(Other(m), e, d) \subseteq Bodies(Other(m), e, c)
  <2> SUFFICES ASSUME NEW man \in Bodies(Other(m), e, d)
               PROVE  Arrived(d, man) => Arrived(c, man)
    BY <1>1 DEF Bodies
  <2>1. man.target \in Version
    BY BodyTo
  <2> QED
    BY <1>1, <1>2, <2>1, Versions DEF Arrived
<1>5. Report(d) \subseteq Report(c) /\ d.epoch <= c.epoch
  BY <1>1, <1>2 DEF Report
<1> QED
  BY <1>1, <1>3, <1>4, <1>5 DEF Grows

\* The delivery of notices (deliver_doc_notices).
LEMMA NoticedGrows ==
  ASSUME NEW m \in Machine, NEW d, NEW e, Sound(m, d, e), NEW c, c = Noticed(d)
  PROVE  Sound(m, c, e) /\ Grows(m, d, e, c)
<1>1. Sound(m, c, e)
  BY NoticedSound
<1>2. c.epoch = d.epoch /\ c.ver = d.ver /\ c.out = d.out
  BY NoticedSound
<1>3. Given(m, d) \subseteq Passed(m, c)
  BY NoticedSound
<1>4. d.epoch \in {0, 1}
  BY DEF Sound, Shape
<1>5. Passed(m, d) \subseteq Passed(m, c)
  BY <1>3 DEF Passed
<1>6. Bodies(m, d, e) \subseteq Bodies(m, c, e)
  BY <1>2 DEF Bodies, Open
<1>7. Bodies(Other(m), e, d) \subseteq Bodies(Other(m), e, c)
  BY <1>2 DEF Bodies, Arrived
<1>8. Report(d) \subseteq Report(c) /\ d.epoch <= c.epoch
  BY <1>2, <1>4 DEF Report
<1> QED
  BY <1>1, <1>5, <1>6, <1>7, <1>8 DEF Grows

\* One growth after another.
LEMMA GrowsOn ==
  ASSUME NEW m \in Machine, NEW d, NEW e, NEW c, NEW b, Shape(d), Shape(c), Shape(b),
         Grows(m, d, e, c), Grows(m, c, e, b)
  PROVE  Grows(m, d, e, b)
BY DEF Grows, Shape

\* An operation of m's own (Edit): the records stay, the copy grows.
LEMMA EditGrows ==
  ASSUME NEW m \in Machine, NEW d, NEW e, Sound(m, d, e),
         NEW ver, ver = [d.ver EXCEPT ![m] = @ + 1], NEW c, c = [d EXCEPT !.ver = ver]
  PROVE  Sound(m, c, e) /\ Grows(m, d, e, c) /\ c.epoch = d.epoch /\ c.in = d.in /\ c.out = d.out
         /\ c.ver = ver
<1>s. Shape(d) /\ OutSound(m, d, e) /\ InSound(m, d) /\ BlobSound(m, d) /\ d.ver \in Version
  BY DEF Sound, Shape
<1>2. c = [out |-> d.out, in |-> d.in, blob |-> d.blob, ver |-> ver, epoch |-> d.epoch]
  <2>1. d = [out |-> d.out, in |-> d.in, blob |-> d.blob, ver |-> d.ver, epoch |-> d.epoch]
    BY <1>s DEF Shape
  <2> QED
    BY <2>1
<1>3. /\ c.out = d.out /\ c.in = d.in /\ c.blob = d.blob /\ c.ver = ver /\ c.epoch = d.epoch
      /\ c = [out |-> c.out, in |-> c.in, blob |-> c.blob, ver |-> c.ver, epoch |-> c.epoch]
  <2>1. /\ c.out = d.out /\ c.in = d.in /\ c.blob = d.blob /\ c.ver = ver /\ c.epoch = d.epoch
    BY <1>2
  <2> QED
    BY <1>2, <2>1
<1>4. ver \in Version /\ Covers(ver, d.ver)
  BY <1>s DEF Version, Covers
<1>5. Shape(c)
  BY <1>3, <1>4, <1>s DEF Shape, Valid
<1>6. OutSound(m, c, e)
  <2> SUFFICES ASSUME NEW r \in d.out
               PROVE  Active(r) /\ r.man.epoch = d.epoch => Covers(ver, r.man.target)
    BY <1>3, <1>s DEF OutSound
  <2>1. r \in OutRecords(m) /\ (Active(r) /\ r.man.epoch = d.epoch => Covers(d.ver, r.man.target))
    BY <1>s DEF OutSound
  <2>2. r.man.target \in Version
    BY <2>1, OutKinds DEF Plans, Manifests
  <2> QED
    BY <1>4, <1>s, <2>1, <2>2, Versions
<1>7. Truths(m, d) \subseteq Truths(m, c)
  <2>1. /\ d.ver \in Version /\ c.ver \in Version /\ c.epoch = d.epoch
        /\ Covers(c.ver, d.ver)
    BY <1>3, <1>4, <1>s
  <2> QED
    BY <2>1, TruthsGrow
<1>8. InSound(m, c)
  BY <1>3, <1>7, <1>s DEF InSound
<1>9. BlobSound(m, c)
  BY <1>3, <1>s DEF BlobSound, Owned
<1>10. TakesUp(d, c) /\ LetsGo(d, e, c)
  BY <1>3 DEF TakesUp, Begun, Owing, Unclaimed, LetsGo, Open
<1>11. /\ d.ver \in Version /\ c.ver \in Version /\ c.epoch = d.epoch /\ Covers(c.ver, d.ver)
       /\ TakesUp(d, c)
  BY <1>3, <1>4, <1>10, <1>s
<1>12. Given(m, d) \subseteq Given(m, c)
  BY <1>11, PassedGrow
<1>13. Passed(m, d) \subseteq Passed(m, c)
  BY <1>11, PassedGrow
<1>14. Onward(m, d, e, c)
  BY <1>10, <1>11, <1>12, <1>13 DEF Onward
<1> QED
  BY <1>3, <1>5, <1>6, <1>8, <1>9, <1>14, <1>s, OnwardGrows DEF Sound

\* A copy is rebuilt (Reseed): what was said of the old epoch stays said.
LEMMA ReseedGrows ==
  ASSUME NEW m \in Machine, NEW d, NEW e, Sound(m, d, e), d.epoch = 0,
         NEW ver \in Version, NEW c, c = [d EXCEPT !.epoch = 1, !.ver = ver]
  PROVE  Sound(m, c, e) /\ Grows(m, d, e, c) /\ c.epoch = 1 /\ c.ver = ver /\ c.in = d.in
         /\ c.out = d.out
<1>s. Shape(d) /\ OutSound(m, d, e) /\ InSound(m, d) /\ BlobSound(m, d) /\ d.ver \in Version
  BY DEF Sound, Shape
<1>1. c = [out |-> d.out, in |-> d.in, blob |-> d.blob, ver |-> ver, epoch |-> 1]
  <2>1. d = [out |-> d.out, in |-> d.in, blob |-> d.blob, ver |-> d.ver, epoch |-> d.epoch]
    BY <1>s DEF Shape
  <2> QED
    BY <2>1
<1>2. /\ c.out = d.out /\ c.in = d.in /\ c.blob = d.blob /\ c.ver = ver /\ c.epoch = 1
      /\ c = [out |-> c.out, in |-> c.in, blob |-> c.blob, ver |-> c.ver, epoch |-> c.epoch]
  BY <1>1
<1>3. \A man \in Manifests : man.epoch \in {0, 1} /\ (man.epoch <= 0 => man.epoch # 1)
  BY DEF Manifests
<1>4. \A r \in d.out : r.man \in Manifests /\ r.man.epoch = 0
  BY <1>s, <1>3, OutKinds DEF OutSound, Plans
<1>5. \A r \in d.in : r.man \in Manifests /\ r.man.epoch = 0
  BY <1>s, <1>3, InKinds DEF InSound, Plans
<1>6. Shape(c)
  BY <1>2, <1>s DEF Shape, Valid
<1>7. OutSound(m, c, e)
  BY <1>2, <1>4, <1>s DEF OutSound
<1>8. \A p \in Truths(m, d) : p.man \in Manifests /\ p.man.epoch = 0
  BY <1>3 DEF Truths, True, Proofs
<1>9. Truths(m, d) \subseteq Truths(m, c)
  BY <1>2, <1>8 DEF Truths, True
<1>10. InSound(m, c)
  BY <1>2, <1>5, <1>9, <1>s DEF InSound
<1>11. BlobSound(m, c)
  BY <1>2, <1>s DEF BlobSound, Owned
<1>12. Passed(m, d) \subseteq Passed(m, c)
  BY <1>2, <1>8, <1>9 DEF Passed, Given, Begun, Owing
<1>13. Bodies(m, d, e) \subseteq Bodies(m, c, e)
  <2>1. \A man \in Bodies(m, d, e) : man.epoch \in {0, 1}
    BY <1>3 DEF Bodies, From, Plans
  <2> QED
    BY <1>2, <2>1 DEF Bodies, Open
<1>14. Bodies(Other(m), e, d) \subseteq Bodies(Other(m), e, c)
  <2>1. \A man \in Bodies(Other(m), e, d) : man.epoch = 0
    BY <1>3 DEF Bodies, From, Plans
  <2> QED
    BY <1>2, <2>1 DEF Bodies, Arrived
<1>15. Report(d) \subseteq Report(c) /\ d.epoch <= c.epoch
  BY <1>2 DEF Report
<1> QED
  BY <1>2, <1>6, <1>7, <1>10, <1>11, <1>12, <1>13, <1>14, <1>15 DEF Sound, Grows

\* The other machine's disk stays sound.
LEMMA OtherSound ==
  ASSUME NEW m \in Machine, NEW d, NEW e, NEW c, Shape(d), Shape(c), Grows(m, d, e, c),
         Sound(Other(m), e, d)
  PROVE  Sound(Other(m), e, c)
<1>1. Shape(e) /\ OutSound(Other(m), e, d) /\ InSound(Other(m), e) /\ BlobSound(Other(m), e)
  BY DEF Sound
<1>2. Other(Other(m)) = m
  BY TwoMachines
<1>3. d.epoch \in {0, 1} /\ c.epoch \in {0, 1} /\ d.epoch <= c.epoch
  BY DEF Shape, Grows
<1>4. \A r \in e.out : r.man.epoch \in {0, 1}
  BY <1>1, OutKinds DEF OutSound, Plans, Manifests
<1>5. OutSound(Other(m), e, c)
  BY <1>1, <1>2, <1>3, <1>4 DEF OutSound, Grows
<1> QED
  BY <1>1, <1>5 DEF Sound

\* All that m may send or hear with the disks d and e it may with c and b.
Wider(m, d, e, c, b) ==
  /\ Passed(m, d) \subseteq Passed(m, c)
  /\ Passed(Other(m), e) \subseteq Passed(Other(m), b)
  /\ Bodies(m, d, e) \subseteq Bodies(m, c, b)
  /\ Bodies(Other(m), e, d) \subseteq Bodies(Other(m), b, c)
  /\ Report(d) \subseteq Report(c) /\ Report(e) \subseteq Report(b)

\* That is so for both machines where one disk grows.
LEMMA GrowsWider ==
  ASSUME NEW m \in Machine, NEW d, NEW e, NEW c, Grows(m, d, e, c)
  PROVE  Wider(m, d, e, c, e) /\ Wider(Other(m), e, d, e, c)
<1>1. Other(Other(m)) = m
  BY TwoMachines
<1> QED
  BY <1>1 DEF Grows, Wider

\* Requests and what is heard, one kind after the other (TransferRequest).
LEMMA MessagesWider ==
  ASSUME NEW m \in Machine, NEW d, NEW e, NEW c, NEW b, Wider(m, d, e, c, b)
  PROVE  /\ Exchanges(m, d, e) \subseteq Exchanges(m, c, b)
         /\ Writes(m, d, e) \subseteq Writes(m, c, b)
         /\ Reads(m, d, e) \subseteq Reads(m, c, b)
         /\ Confirms(m, d) \subseteq Confirms(m, c)
         /\ Acknowledges(m, e) \subseteq Acknowledges(m, b)
         /\ Exchangeds(m, d, e) \subseteq Exchangeds(m, c, b)
<1>1. PICK P, Q : P = Passed(m, d) /\ Q = Passed(m, c)
  OBVIOUS
<1>2. PICK S, T : S = Passed(Other(m), e) /\ T = Passed(Other(m), b)
  OBVIOUS
<1>3. PICK B, C : B = Bodies(m, d, e) /\ C = Bodies(m, c, b)
  OBVIOUS
<1>4. PICK F, G : F = Bodies(Other(m), e, d) /\ G = Bodies(Other(m), b, c)
  OBVIOUS
<1>5. P \subseteq Q /\ S \subseteq T /\ B \subseteq C /\ F \subseteq G
  BY <1>1, <1>2, <1>3, <1>4 DEF Wider
<1>6. PICK AS, AT : AS = Answers(S) /\ AT = Answers(T)
  OBVIOUS
<1>7. AS \subseteq AT /\ Received(S) \subseteq Received(T)
  BY <1>5, <1>6, ReceivedGrow
<1>8. \A l \in Short(P) : l \in Short(Q)
  BY <1>5, ShortGrow
<1>9. \A l \in Short(S) : l \in Short(T)
  BY <1>5, ShortGrow
<1>10. \A l \in Short(AS) : l \in Short(AT)
  BY <1>7, ShortGrow
<1>11. Chunked(B) \subseteq Chunked(C) /\ Chunked(F) \subseteq Chunked(G)
  BY <1>5 DEF Chunked
<1>12. Exchanges(m, d, e) \subseteq Exchanges(m, c, b)
  <2>1. Exchanges(m, d, e) =
          [k : {"Exchange"}, have : Report(d), offer : {None} \cup Chunked(B),
           proofs : Short(P), acks : Short(S)]
    BY <1>1, <1>2, <1>3 DEF Exchanges
  <2>2. Exchanges(m, c, b) =
          [k : {"Exchange"}, have : Report(c), offer : {None} \cup Chunked(C),
           proofs : Short(Q), acks : Short(T)]
    BY <1>1, <1>2, <1>3 DEF Exchanges
  <2>3. Report(d) \subseteq Report(c)
    BY DEF Wider
  <2> QED
    BY <1>8, <1>9, <1>11, <2>1, <2>2, <2>3
<1>13. Writes(m, d, e) \subseteq Writes(m, c, b)
  BY <1>3, <1>5 DEF Writes
<1>14. Reads(m, d, e) \subseteq Reads(m, c, b)
  BY <1>4, <1>5 DEF Reads
<1>15. Confirms(m, d) \subseteq Confirms(m, c)
  BY <1>1, <1>8 DEF Confirms
<1>16. Acknowledges(m, e) \subseteq Acknowledges(m, b)
  BY <1>2, <1>9 DEF Acknowledges
<1>17. Exchangeds(m, d, e) \subseteq Exchangeds(m, c, b)
  <2>1. Exchangeds(m, d, e) =
          [k : {"Exchanged"}, have : Report(e), received : {None} \cup Received(S),
           offer : {None} \cup Chunked(F), acks : Short(P), results : Short(AS)]
    BY <1>1, <1>2, <1>4, <1>6 DEF Exchangeds
  <2>2. Exchangeds(m, c, b) =
          [k : {"Exchanged"}, have : Report(b), received : {None} \cup Received(T),
           offer : {None} \cup Chunked(G), acks : Short(Q), results : Short(AT)]
    BY <1>1, <1>2, <1>4, <1>6 DEF Exchangeds
  <2>3. Report(e) \subseteq Report(b)
    BY DEF Wider
  <2> QED
    BY <1>7, <1>8, <1>10, <1>11, <2>1, <2>2, <2>3
<1> QED
  BY <1>12, <1>13, <1>14, <1>15, <1>16, <1>17

\* Every request stays one.
LEMMA RequestsWider ==
  ASSUME NEW m \in Machine, NEW d, NEW e, NEW c, NEW b, Wider(m, d, e, c, b)
  PROVE  Requests(m, d, e) \subseteq Requests(m, c, b)
<1>1. /\ Exchanges(m, d, e) \subseteq Exchanges(m, c, b)
      /\ Writes(m, d, e) \subseteq Writes(m, c, b)
      /\ Reads(m, d, e) \subseteq Reads(m, c, b)
      /\ Confirms(m, d) \subseteq Confirms(m, c)
      /\ Acknowledges(m, e) \subseteq Acknowledges(m, b)
  BY MessagesWider
<1> QED
  BY <1>1 DEF Requests

\* A visit stays sound.
LEMMA VisitWider ==
  ASSUME NEW m \in Machine, NEW d, NEW e, NEW c, NEW b, Wider(m, d, e, c, b),
         NEW v, VisitSound(m, v, d, e)
  PROVE  VisitSound(m, v, c, b)
<1>1. /\ Exchanges(m, d, e) \subseteq Exchanges(m, c, b)
      /\ Writes(m, d, e) \subseteq Writes(m, c, b)
      /\ Reads(m, d, e) \subseteq Reads(m, c, b)
      /\ Confirms(m, d) \subseteq Confirms(m, c)
      /\ Acknowledges(m, e) \subseteq Acknowledges(m, b)
      /\ Exchangeds(m, d, e) \subseteq Exchangeds(m, c, b)
  BY MessagesWider
<1>2. PICK P, Q : P = Passed(m, d) /\ Q = Passed(m, c)
  OBVIOUS
<1>3. PICK S, T : S = Passed(Other(m), e) /\ T = Passed(Other(m), b)
  OBVIOUS
<1>4. P \subseteq Q /\ S \subseteq T
  BY <1>2, <1>3 DEF Wider
<1>5. PICK AS, AT : AS = Answers(S) /\ AT = Answers(T)
  OBVIOUS
<1>6. AS \subseteq AT /\ Received(S) \subseteq Received(T)
  BY <1>4, <1>5, ReceivedGrow
<1>7. \A l \in Short(P) : l \in Short(Q)
  BY <1>4, ShortGrow
<1>8. \A l \in Short(S) : l \in Short(T)
  BY <1>4, ShortGrow
<1>9. \A l \in Short(AS) : l \in Short(AT)
  BY <1>6, ShortGrow
<1>10. Lists(P) \subseteq Lists(Q) /\ Lists(AS) \subseteq Lists(AT)
  BY <1>7, <1>9 DEF Lists
<1>11. Chunked(Bodies(Other(m), e, d)) \subseteq Chunked(Bodies(Other(m), b, c))
  BY DEF Wider, Chunked
<1>12. Heard(m, v, c, b)
  <2>1. Heard(m, v, d, e)
    BY DEF VisitSound
  <2> QED
    BY <1>1, <1>2, <1>3, <1>5, <1>6, <1>10, <1>11, <2>1 DEF Heard
<1> QED
  BY <1>3, <1>8, <1>12 DEF VisitSound, Wider

-----------------------------------------------------------------------------
(* The steps of a visit, and of what it asks for.                          *)

\* The job of a visit v at its place, on the opened disk d (transfer_step,
\* take_receipt_answers, take_push_state, take_pull_state, flush_doc_receipts).
Job(m, v, d, job) ==
  \/ v.pc = "open" /\ v.wait = "no" /\ d.epoch = v.have.epoch /\ job = Offer(m, d, v.have.ver)
  \/ v.pc = "answers" /\ v.wait = "no"
       /\ job = Then(Released(d, v.msg.acks),
                     Answered(Released(d, v.msg.acks).last, v.msg.results))
  \/ v.pc = "push" /\ v.msg.received # None /\ v.msg.received.k = "Complete"
       /\ job = AcceptSent(d, v.push, v.msg.received.proof)
  \/ v.pc = "work" /\ v.wait = "heard" /\ v.msg.k = "Complete"
       /\ job = AcceptSent(d, v.push, v.msg.proof)
  \/ v.pc = "pull" /\ v.msg.offer # None /\ job = Receive(d, v.msg.offer.man, 0, TRUE)
  \/ v.pc = "work" /\ v.wait = "no" /\ v.push # None
       /\ job = Did({}, d, ReadOutgoing(d, v.push, v.at))
  \/ v.pc = "work" /\ v.wait = "no" /\ v.pull # None /\ job = Status(d, v.pull)
  \/ v.pc = "work" /\ v.wait = "heard" /\ v.msg.k = "Chunk"
       /\ job = Receive(d, v.msg.man, v.msg.off, FALSE)
  \/ v.pc = "confirm" /\ v.wait = "heard" /\ ~Fails(v.msg) /\ job = Released(d, v.msg.list)
  \/ v.pc = "release" /\ v.wait = "heard" /\ ~Fails(v.msg) /\ job = Answered(d, v.msg.list)
  \/ job = Did({}, d, None)

\* That is what a visit's step runs (doc_step).
LEMMA OwnJob ==
  ASSUME NEW m \in Machine, NEW v, v = visit[m], NEW d, d = Opened(disk[m])
  PROVE  \E job : Own(m) = Ran(disk[m], d, job) /\ Job(m, v, d, job)
<1>1. PICK job : job =
      CASE At(m, "open", "no") ->
             IF d.epoch = v.have.epoch THEN Offer(m, d, v.have.ver) ELSE Did({}, d, None)
        [] At(m, "answers", "no") ->
             Then(Released(d, v.msg.acks), Answered(Released(d, v.msg.acks).last, v.msg.results))
        [] \/ At(m, "push", "no") /\ v.msg.received # None /\ v.msg.received.k = "Complete"
           \/ At(m, "work", "heard") /\ v.msg.k = "Complete" ->
             AcceptSent(d, v.push, IF v.pc = "push" THEN v.msg.received.proof ELSE v.msg.proof)
        [] At(m, "pull", "no") /\ v.msg.offer # None -> Receive(d, v.msg.offer.man, 0, TRUE)
        [] At(m, "work", "no") /\ v.push # None -> Did({}, d, ReadOutgoing(d, v.push, v.at))
        [] At(m, "work", "no") /\ v.push = None /\ v.pull # None -> Status(d, v.pull)
        [] At(m, "work", "heard") /\ v.msg.k = "Chunk" -> Receive(d, v.msg.man, v.msg.off, FALSE)
        [] At(m, "confirm", "heard") /\ ~Fails(v.msg) -> Released(d, v.msg.list)
        [] At(m, "release", "heard") /\ ~Fails(v.msg) -> Answered(d, v.msg.list)
        [] OTHER -> Did({}, d, None)
  OBVIOUS
<1>2. Own(m) = Ran(disk[m], d, job)
  BY <1>1, Zenon DEF Own
<1> QED
  BY <1>1, <1>2 DEF At, Job

\* The copy stays: that is one of the ways it may change (Steps, Still).
LEMMA StillMoves ==
  ASSUME NEW m, NEW d, NEW e, NEW step, Steps(m, d, e, step), Still(d, step)
  PROVE  Moves(m, d, e, step)
BY DEF Moves, Still, Lands

\* The job of a sound visit takes the disk on, whatever was heard (doc_step);
\* an offer is one of the machine's plans, and a visit that has nothing left to
\* push or pull does nothing.
LEMMA JobSteps ==
  ASSUME NEW m \in Machine, NEW d, NEW e, Sound(m, d, e), e.ver \in Version,
         NEW v, VisitSound(m, v, d, e), NEW job, Job(m, v, d, job)
  PROVE  /\ Moves(m, d, e, job)
         /\ v.pc = "open" => job.res \in {None, Failed} \cup Chunked(Bodies(m, job.last, e))
         /\ v.pc = "work" /\ v.wait = "no" /\ v.push = None /\ v.pull = None => job.res = None
<1>h. Heard(m, v, d, e)
  BY DEF VisitSound
<1>s. Shape(d)
  BY DEF Sound
<1>1. CASE v.pc = "open" /\ v.wait = "no" /\ d.epoch = v.have.epoch
           /\ job = Offer(m, d, v.have.ver)
  <2>1. v.have.ver \in Version /\ d.epoch <= e.epoch
    BY <1>1 DEF VisitSound, Report
  <2>2. Offers(m, d, e, job)
    BY <1>1, <2>1, OfferSteps
  <2>3. Steps(m, d, e, job) /\ Still(d, job)
        /\ job.res \in {None, Failed} \cup Chunked(Bodies(m, job.last, e))
    BY <2>2 DEF Offers
  <2> QED
    BY <1>1, <2>3, StillMoves
<1>2. CASE v.pc = "answers" /\ v.wait = "no"
           /\ job = Then(Released(d, v.msg.acks),
                         Answered(Released(d, v.msg.acks).last, v.msg.results))
  <2>1. v.msg \in Exchangeds(m, d, e)
    BY <1>2, <1>h DEF Heard
  <2>2. PICK one \in Kinds : one = "acknowledge"
    BY DEF Kinds
  <2>3. PICK two \in Kinds : two = "answered"
    BY DEF Kinds
  <2>4. PICK acks : acks = Each(one, d, v.msg.acks)
    OBVIOUS
  <2>5. PICK answered : answered = Each(two, acks.last, v.msg.results)
    OBVIOUS
  <2>6. job = Then(acks, answered)
    BY <1>2, <2>2, <2>3, <2>4, <2>5 DEF Released, Answered
  <2>7. v.msg.acks \in Short(Inputs(one, m, d, e))
    BY <2>1, <2>2 DEF Inputs, Exchangeds
  <2>8. Steps(m, d, e, acks) /\ Still(d, acks)
    BY <2>4, <2>7, EachSteps
  <2>9. v.msg.results \in Short(Inputs(two, m, acks.last, e))
    BY <2>1, <2>3 DEF Inputs, Exchangeds
  <2>10. Sound(m, acks.last, e)
    BY <2>8 DEF Steps, Leads
  <2>11. Steps(m, acks.last, e, answered) /\ Still(acks.last, answered)
    BY <2>5, <2>9, <2>10, EachSteps
  <2>12. Moves(m, acks.last, e, answered)
    BY <2>11, StillMoves
  <2>13. Moves(m, d, e, Then(acks, answered))
    BY <1>s, <2>8, <2>12, MovesThen
  <2> QED
    BY <1>2, <2>6, <2>13
<1>3. CASE v.pc = "push" /\ v.msg.received # None /\ v.msg.received.k = "Complete"
           /\ job = AcceptSent(d, v.push, v.msg.received.proof)
  <2>1. v.msg.received \in {None} \cup Received(Passed(Other(m), e))
    BY <1>3, <1>h DEF Heard, Exchangeds
  <2>2. PICK p : p = v.msg.received.proof
    OBVIOUS
  <2>3. p \in Passed(Other(m), e)
    BY <1>3, <2>1, <2>2 DEF Received, Failure, Failed, Full, Missing, Apart
  <2>4. Settles(m, d, e, job, p)
    BY <1>3, <2>2, <2>3, AcceptSentSteps
  <2>5. Steps(m, d, e, job) /\ Still(d, job)
    BY <2>4 DEF Settles
  <2> QED
    BY <1>3, <2>5, StillMoves
<1>4. CASE v.pc = "work" /\ v.wait = "heard" /\ v.msg.k = "Complete"
           /\ job = AcceptSent(d, v.push, v.msg.proof)
  <2>1. \/ v.msg \in Received(Passed(Other(m), e))
        \/ v.msg \in Failure \cup Chunked(Bodies(Other(m), e, d))
    BY <1>4, <1>h DEF Heard
  <2>2. PICK p : p = v.msg.proof
    OBVIOUS
  <2>3. p \in Passed(Other(m), e)
    BY <1>4, <2>1, <2>2 DEF Received, Chunked, Failure, Failed, Full, Missing, Apart
  <2>4. Settles(m, d, e, job, p)
    BY <1>4, <2>2, <2>3, AcceptSentSteps
  <2>5. Steps(m, d, e, job) /\ Still(d, job)
    BY <2>4 DEF Settles
  <2> QED
    BY <1>4, <2>5, StillMoves
<1>5. CASE v.pc = "pull" /\ v.msg.offer # None /\ job = Receive(d, v.msg.offer.man, 0, TRUE)
  <2>1. v.msg.offer \in Chunked(Bodies(Other(m), e, d))
    BY <1>5, <1>h DEF Heard, Exchangeds
  <2>2. PICK yes \in BOOLEAN : yes = TRUE
    OBVIOUS
  <2>3. PICK off \in Nat : off = 0
    OBVIOUS
  <2>4. v.msg.offer.man \in Bodies(Other(m), e, d) /\ job = Receive(d, v.msg.offer.man, off, yes)
    BY <1>5, <2>1, <2>2, <2>3 DEF Chunked
  <2>5. Takes(m, d, e, job)
    BY <2>4, ReceiveSteps
  <2> QED
    BY <1>5, <2>5 DEF Takes, Moves
<1>6. CASE v.pc = "work" /\ v.wait = "no" /\ v.push # None
           /\ job = Did({}, d, ReadOutgoing(d, v.push, v.at))
  <2>1. Steps(m, d, e, job) /\ Still(d, job)
    BY <1>6, NoSteps
  <2> QED
    BY <1>6, <2>1, StillMoves
<1>7. CASE v.pc = "work" /\ v.wait = "no" /\ v.pull # None /\ job = Status(d, v.pull)
  <2>1. v.pull \in Bodies(Other(m), e, d)
    BY <1>7 DEF VisitSound
  <2>2. Takes(m, d, e, job)
    BY <1>7, <2>1, StatusSteps
  <2> QED
    BY <1>7, <2>2 DEF Takes, Moves
<1>8. CASE v.pc = "work" /\ v.wait = "heard" /\ v.msg.k = "Chunk"
           /\ job = Receive(d, v.msg.man, v.msg.off, FALSE)
  <2>1. \/ v.msg \in Received(Passed(Other(m), e))
        \/ v.msg \in Failure \cup Chunked(Bodies(Other(m), e, d))
    BY <1>8, <1>h DEF Heard
  <2>2. v.msg.man \in Bodies(Other(m), e, d) /\ v.msg.off \in Nat
    BY <1>8, <2>1 DEF Received, Chunked, Failure, Failed, Full, Missing, Apart
  <2>3. PICK no \in BOOLEAN : no = FALSE
    OBVIOUS
  <2>4. job = Receive(d, v.msg.man, v.msg.off, no)
    BY <1>8, <2>3
  <2>5. Takes(m, d, e, job)
    BY <2>2, <2>4, ReceiveSteps
  <2> QED
    BY <1>8, <2>5 DEF Takes, Moves
<1>9. CASE v.pc = "confirm" /\ v.wait = "heard" /\ ~Fails(v.msg) /\ job = Released(d, v.msg.list)
  <2>1. v.msg \in Lists(Passed(m, d))
    BY <1>9, <1>h DEF Heard
  <2>2. v.msg.list \in Short(Passed(m, d))
    BY <1>9, <2>1, Results DEF Lists, Failure
  <2>3. PICK what \in Kinds : what = "acknowledge"
    BY DEF Kinds
  <2>4. v.msg.list \in Short(Inputs(what, m, d, e)) /\ job = Each(what, d, v.msg.list)
    BY <1>9, <2>2, <2>3 DEF Inputs, Released
  <2>5. Steps(m, d, e, job) /\ Still(d, job)
    BY <2>4, EachSteps
  <2> QED
    BY <1>9, <2>5, StillMoves
<1>10. CASE v.pc = "release" /\ v.wait = "heard" /\ ~Fails(v.msg) /\ job = Answered(d, v.msg.list)
  <2>1. v.msg \in Lists(Answers(Passed(Other(m), e)))
    BY <1>10, <1>h DEF Heard
  <2>2. v.msg.list \in Short(Answers(Passed(Other(m), e)))
    BY <1>10, <2>1, Results DEF Lists, Failure
  <2>3. PICK what \in Kinds : what = "answered"
    BY DEF Kinds
  <2>4. v.msg.list \in Short(Inputs(what, m, d, e)) /\ job = Each(what, d, v.msg.list)
    BY <1>10, <2>2, <2>3 DEF Inputs, Answered
  <2>5. Steps(m, d, e, job) /\ Still(d, job)
    BY <2>4, EachSteps
  <2> QED
    BY <1>10, <2>5, StillMoves
<1>11. CASE job = Did({}, d, None)
  <2>1. Steps(m, d, e, job) /\ Still(d, job) /\ job.res = None
    BY <1>11, NoSteps
  <2> QED
    BY <2>1, StillMoves
<1> QED
  BY <1>1, <1>2, <1>3, <1>4, <1>5, <1>6, <1>7, <1>8, <1>9, <1>10, <1>11 DEF Job

\* A cut's disk is sound, and has all that the disk before it had (doc_step).
LEMMA MovesGrow ==
  ASSUME NEW m \in Machine, NEW d, NEW e, Sound(m, d, e), NEW step, Moves(m, d, e, step),
         NEW c \in step.cuts
  PROVE  Sound(m, c, e) /\ Grows(m, d, e, c)
<1>1. Shape(d) /\ Leads(m, d, e, c)
  BY DEF Sound, Moves, Steps
<1>2. Sound(m, c, e) /\ Onward(m, d, e, c)
  BY <1>1 DEF Leads
<1>3. Shape(c)
  BY <1>2 DEF Sound
<1> QED
  BY <1>1, <1>2, <1>3, OnwardGrows

\* A visit that is sound for a disk is sound for it once opened, and so is a
\* request (State::open).
LEMMA OpenedWider ==
  ASSUME NEW m \in Machine, NEW d, NEW e, Sound(m, d, e), NEW opened, opened = Opened(d)
  PROVE  /\ Sound(m, opened, e)
         /\ Wider(m, d, e, opened, e) /\ Wider(Other(m), e, d, e, opened)
<1>1. Leads(m, d, e, opened)
  BY OpenedLeads
<1>2. Sound(m, opened, e) /\ Onward(m, d, e, opened)
  BY <1>1 DEF Leads
<1>3. Shape(d) /\ Shape(opened)
  BY <1>2 DEF Sound
<1>4. Grows(m, d, e, opened)
  BY <1>2, <1>3, OnwardGrows
<1> QED
  BY <1>2, <1>4, GrowsWider

\* What m's visit does at its place takes m's disk on (doc_step).
LEMMA OwnSteps ==
  ASSUME NEW m \in Machine, NEW d, d = disk[m], NEW e, Sound(m, d, e), Sound(Other(m), e, d),
         NEW v, v = visit[m], VisitSound(m, v, d, e), NEW job, job = Own(m)
  PROVE  /\ Moves(m, d, e, job)
         /\ v.pc = "open" => job.res \in {None, Failed} \cup Chunked(Bodies(m, job.last, e))
         /\ v.pc = "work" /\ v.wait = "no" /\ v.push = None /\ v.pull = None => job.res = None
<1>1. PICK opened : opened = Opened(d)
  OBVIOUS
<1>2. Sound(m, opened, e) /\ Wider(m, d, e, opened, e)
  BY <1>1, OpenedWider
<1>3. VisitSound(m, v, opened, e)
  BY <1>2, VisitWider
<1>4. PICK does : Own(m) = Ran(disk[m], opened, does) /\ Job(m, v, opened, does)
  BY <1>1, OwnJob
<1>5. e.ver \in Version
  BY DEF Sound, Shape
<1>6. Moves(m, opened, e, does)
  BY <1>2, <1>3, <1>4, <1>5, JobSteps
<1>7. v.pc = "open" => does.res \in {None, Failed} \cup Chunked(Bodies(m, does.last, e))
  BY <1>2, <1>3, <1>4, <1>5, JobSteps
<1>8. v.pc = "work" /\ v.wait = "no" /\ v.push = None /\ v.pull = None => does.res = None
  BY <1>2, <1>3, <1>4, <1>5, JobSteps
<1>9. job = Ran(d, opened, does)
  BY <1>4
<1>10. Moves(m, d, e, job) /\ job.last = does.last /\ job.res = does.res
  BY <1>1, <1>6, <1>9, RanSteps
<1> QED
  BY <1>7, <1>8, <1>10

\* What m does for a request of the other machine takes m's disk on
\* (answer_doc_transfer).
LEMMA ForSteps ==
  ASSUME NEW m \in Machine, NEW d, d = disk[m], NEW e, Sound(m, d, e), Sound(Other(m), e, d),
         NEW req \in Requests(Other(m), e, d), NEW job, job = For(m, req)
  PROVE  Moves(m, d, e, job) /\ job.res \in Replies(m, job.last, e, req)
<1>1. PICK opened : opened = Opened(d)
  OBVIOUS
<1>2. Sound(m, opened, e) /\ Wider(Other(m), e, d, e, opened)
  BY <1>1, OpenedWider
<1>3. req \in Requests(Other(m), e, opened)
  BY <1>2, TwoMachines, RequestsWider
<1>4. PICK does : does = Handle(m, opened, req)
  OBVIOUS
<1>5. e.ver \in Version
  BY DEF Sound, Shape
<1>6. Moves(m, opened, e, does)
  BY <1>2, <1>3, <1>4, <1>5, HandleSteps
<1>7. does.res \in Replies(m, does.last, e, req)
  BY <1>2, <1>3, <1>4, <1>5, HandleSteps
<1>8. job = Ran(d, opened, does)
  BY <1>1, <1>4 DEF For
<1>9. Moves(m, d, e, job) /\ job.last = does.last /\ job.res = does.res
  BY <1>1, <1>6, <1>8, RanSteps
<1> QED
  BY <1>7, <1>9

-----------------------------------------------------------------------------
(* What each of a transition's changes keeps.                              *)

\* One of two machines' disks or visits is another one.
Now(F, m, x) == [F EXCEPT ![m] = x]

\* One machine's disk goes on (Step, Serve, Crash, Edit, Reseed).
LEMMA DiskKeeps ==
  ASSUME NEW D, NEW V, NEW L, Agree(D, V, L), NEW m \in Machine, NEW d, d = D[m],
         NEW e, e = D[Other(m)], NEW c, Sound(m, c, e), Grows(m, d, e, c),
         NEW B, B = Now(D, m, c)
  PROVE  Agree(B, V, L) /\ B[m] = c /\ B[Other(m)] = e
<1>1. /\ D = [x \in Machine |-> D[x]] /\ V = [x \in Machine |-> V[x]]
      /\ \A x \in Machine : Sound(x, D[x], D[Other(x)])
      /\ \A x \in Machine : VisitSound(x, V[x], D[x], D[Other(x)])
      /\ \A q \in L : /\ q = [from |-> q.from, req |-> q.req] /\ q.from \in Machine
                      /\ q.req \in Requests(q.from, D[q.from], D[Other(q.from)])
  BY DEF Agree
<1>2. /\ Other(m) \in Machine /\ Other(m) # m /\ Other(Other(m)) = m
      /\ \A x \in Machine : x = m \/ x = Other(m)
  BY TwoMachines
<1>3. B = [x \in Machine |-> B[x]] /\ B[m] = c /\ B[Other(m)] = e
  BY <1>1, <1>2 DEF Now
<1>4. Sound(m, d, e) /\ Sound(Other(m), e, d)
  BY <1>1, <1>2
<1>5. Shape(d) /\ Shape(c)
  BY <1>4 DEF Sound
<1>6. Sound(Other(m), e, c)
  BY <1>4, <1>5, OtherSound
<1>7. \A x \in Machine : Sound(x, B[x], B[Other(x)])
  BY <1>2, <1>3, <1>6
<1>8. Wider(m, d, e, c, e) /\ Wider(Other(m), e, d, e, c)
  BY GrowsWider
<1>9. VisitSound(m, V[m], c, e)
  <2>1. VisitSound(m, V[m], d, e)
    BY <1>1
  <2> QED
    BY <1>8, <2>1, VisitWider
<1>10. VisitSound(Other(m), V[Other(m)], e, c)
  <2>1. VisitSound(Other(m), V[Other(m)], e, d)
    BY <1>1, <1>2
  <2> QED
    BY <1>2, <1>8, <2>1, VisitWider
<1>11. \A x \in Machine : VisitSound(x, V[x], B[x], B[Other(x)])
  BY <1>2, <1>3, <1>9, <1>10
<1>12. /\ Requests(m, d, e) \subseteq Requests(m, c, e)
       /\ Requests(Other(m), e, d) \subseteq Requests(Other(m), e, c)
  BY <1>2, <1>8, RequestsWider
<1>13. \A q \in L : q.req \in Requests(q.from, B[q.from], B[Other(q.from)])
  <2> TAKE q \in L
  <2>1. CASE q.from = m
    BY <1>1, <1>3, <1>12, <2>1
  <2>2. CASE q.from = Other(m)
    BY <1>1, <1>2, <1>3, <1>12, <2>2
  <2> QED
    BY <1>1, <1>2, <2>1, <2>2
<1> QED
  BY <1>1, <1>3, <1>7, <1>11, <1>13 DEF Agree

\* One machine's visit goes on (Step, Serve, GiveUp).
LEMMA VisitKeeps ==
  ASSUME NEW D, NEW V, NEW L, Agree(D, V, L), NEW m \in Machine,
         NEW v, VisitSound(m, v, D[m], D[Other(m)]), NEW W, W = Now(V, m, v)
  PROVE  Agree(D, W, L)
<1>1. V = [x \in Machine |-> V[x]] /\ \A x \in Machine : VisitSound(x, V[x], D[x], D[Other(x)])
  BY DEF Agree
<1>2. W = [x \in Machine |-> W[x]] /\ \A x \in Machine : W[x] = IF x = m THEN v ELSE V[x]
  BY <1>1 DEF Now
<1>3. \A x \in Machine : VisitSound(x, W[x], D[x], D[Other(x)])
  BY <1>1, <1>2
<1> QED
  BY <1>2, <1>3 DEF Agree

\* Requests are served or lost (ServeLate, Crash), or their asker gives up.
LEMMA LateKeeps ==
  ASSUME NEW D, NEW V, NEW L, Agree(D, V, L), NEW K,
         \A q \in K : \/ q \in L
                      \/ /\ q = [from |-> q.from, req |-> q.req] /\ q.from \in Machine
                         /\ q.req \in Requests(q.from, D[q.from], D[Other(q.from)])
  PROVE  Agree(D, V, K)
BY DEF Agree

\* A visit's step, with the notices that follow it: what is left to show of a
\* transition is that the visit afterwards is sound (Step).
LEMMA StepKeeps ==
  ASSUME IInv, NEW m \in Machine, NEW d, d = disk[m], NEW e, e = disk[Other(m)],
         NEW v, v = visit[m], NEW job, job = Own(m), NEW c, c = Noticed(job.last),
         NEW D, D = Now(disk, m, c)
  PROVE  /\ Agree(D, visit, late) /\ D[m] = c /\ D[Other(m)] = e
         /\ Sound(m, c, e) /\ Sound(Other(m), e, c) /\ Grows(m, d, e, c)
         /\ Moves(m, d, e, job) /\ Sound(m, job.last, e) /\ VisitSound(m, v, c, e)
         /\ v.pc = "open" => job.res \in {None, Failed} \cup Chunked(Bodies(m, job.last, e))
         /\ v.pc = "work" /\ v.wait = "no" /\ v.push = None /\ v.pull = None => job.res = None
<1>1. Agree(disk, visit, late)
  BY DEF IInv
<1>2. Other(m) \in Machine /\ Other(Other(m)) = m
  BY TwoMachines
<1>3. Sound(m, d, e) /\ Sound(Other(m), e, d) /\ VisitSound(m, v, d, e)
  BY <1>1, <1>2 DEF Agree
<1>4. Moves(m, d, e, job)
  BY <1>3, OwnSteps
<1>5. /\ v.pc = "open" => job.res \in {None, Failed} \cup Chunked(Bodies(m, job.last, e))
      /\ v.pc = "work" /\ v.wait = "no" /\ v.push = None /\ v.pull = None => job.res = None
  BY <1>3, OwnSteps
<1>6. PICK last : last = job.last /\ last \in job.cuts
  BY <1>4 DEF Moves, Steps
<1>7. Sound(m, last, e) /\ Grows(m, d, e, last)
  BY <1>3, <1>4, <1>6, MovesGrow
<1>8. Sound(m, c, e) /\ Grows(m, last, e, c)
  BY <1>6, <1>7, NoticedGrows
<1>9. Shape(d) /\ Shape(last) /\ Shape(c)
  BY <1>3, <1>7, <1>8 DEF Sound
<1>10. Grows(m, d, e, c)
  BY <1>7, <1>8, <1>9, GrowsOn
<1>11. Agree(D, visit, late) /\ D[m] = c /\ D[Other(m)] = e
  <2>1. PICK B, V, L : B = disk /\ V = visit /\ L = late
    OBVIOUS
  <2>2. /\ Agree(B, V, L) /\ d = B[m] /\ e = B[Other(m)]
        /\ Sound(m, c, e) /\ Grows(m, d, e, c) /\ D = Now(B, m, c)
    BY <1>1, <1>8, <1>10, <2>1
  <2>3. Agree(D, V, L)
    BY <2>2, DiskKeeps
  <2>4. D[m] = c /\ D[Other(m)] = e
    BY <2>2, DiskKeeps
  <2> QED
    BY <2>1, <2>3, <2>4
<1>12. Sound(Other(m), e, c) /\ VisitSound(m, v, c, e)
  BY <1>2, <1>11 DEF Agree
<1> QED
  BY <1>4, <1>5, <1>6, <1>7, <1>8, <1>10, <1>11, <1>12

\* No visit, and the end of one (transfer_documents, flush_doc_receipts).
LEMMA EndSound ==
  ASSUME NEW m, NEW v, NEW d, NEW e
  PROVE  VisitSound(m, Idle, d, e) /\ VisitSound(m, End(v), d, e)
<1>1. PICK i : i = Idle
  OBVIOUS
<1>2. PICK w : w = End(v)
  OBVIOUS
<1>3. /\ i = [pc |-> i.pc, wait |-> i.wait, have |-> i.have, push |-> i.push, at |-> i.at,
              pull |-> i.pull, msg |-> i.msg, acks |-> i.acks]
      /\ i.pc = "idle" /\ i.wait = "no" /\ i.push = None /\ i.at = 0 /\ i.pull = None
      /\ i.acks = <<>>
  BY <1>1 DEF Idle
<1>4. /\ w = [pc |-> w.pc, wait |-> w.wait, have |-> w.have, push |-> w.push, at |-> w.at,
              pull |-> w.pull, msg |-> w.msg, acks |-> w.acks]
      /\ w.pc = "receipts" /\ w.wait = "no" /\ w.push = None /\ w.at = 0 /\ w.pull = None
      /\ w.acks = <<>>
  BY <1>2 DEF End, Idle
<1>5. PICK S : S = Passed(Other(m), e)
  OBVIOUS
<1>6. <<>> \in Short(S) /\ 0 \in 0..(Chunks - 1)
  <2>1. <<>> \in Seq(S) /\ Len(<<>>) = 0
    OBVIOUS
  <2>2. 0 \in 0..(Chunks - 1)
    BY TransferAssumption
  <2> QED
    BY <2>1, <2>2 DEF Short
<1>7. Heard(m, i, d, e) /\ Heard(m, w, d, e)
  BY <1>3, <1>4 DEF Heard
<1>8. VisitSound(m, i, d, e)
  BY <1>3, <1>5, <1>6, <1>7 DEF VisitSound
<1>9. VisitSound(m, w, d, e)
  BY <1>4, <1>5, <1>6, <1>7 DEF VisitSound
<1> QED
  BY <1>1, <1>2, <1>8, <1>9

\* A visit that goes on with nothing heard (Go).
LEMMA GoSound ==
  ASSUME NEW m, NEW v, NEW d, NEW e, VisitSound(m, v, d, e), v.have \in Report(e),
         NEW pc \in {"open", "work"}, NEW w, w = Go(v, pc)
  PROVE  VisitSound(m, w, d, e) /\ w.pc = pc /\ w.wait = "no" /\ w.have = v.have
         /\ w.push = v.push /\ w.pull = v.pull
<1>1. /\ w = [pc |-> pc, wait |-> "no", have |-> v.have, push |-> v.push, at |-> v.at,
              pull |-> v.pull, msg |-> None, acks |-> v.acks]
  BY DEF Go, VisitSound
<1>2. /\ w = [pc |-> w.pc, wait |-> w.wait, have |-> w.have, push |-> w.push, at |-> w.at,
              pull |-> w.pull, msg |-> w.msg, acks |-> w.acks]
      /\ w.pc = pc /\ w.wait = "no" /\ w.have = v.have /\ w.push = v.push /\ w.at = v.at
      /\ w.pull = v.pull /\ w.acks = v.acks
  BY <1>1
<1>3. Heard(m, w, d, e)
  BY <1>2 DEF Heard
<1> QED
  BY <1>2, <1>3 DEF VisitSound

\* What comes of pushing: the visit goes on at its place or ends (take_push_state).
LEMMA PushedSound ==
  ASSUME NEW m, NEW v, NEW d, NEW e, VisitSound(m, v, d, e), v.pc \in {"pull", "work"},
         v.wait = "no", NEW S, NEW state \in Received(S), NEW job, NEW w, w = Pushed(v, state, job)
  PROVE  /\ VisitSound(m, w, d, e)
         /\ w.pc = "receipts" \/ (w.pc = v.pc /\ w.wait = "no" /\ w.have = v.have)
<1>0. Heard(m, v, d, e)
      /\ v = [pc |-> v.pc, wait |-> v.wait, have |-> v.have, push |-> v.push, at |-> v.at,
              pull |-> v.pull, msg |-> v.msg, acks |-> v.acks]
  BY DEF VisitSound
<1>1. CASE state.k = "Complete" /\ ~Fails(job.res)
  <2>1. w = [pc |-> v.pc, wait |-> v.wait, have |-> v.have, push |-> None, at |-> v.at,
             pull |-> v.pull, msg |-> v.msg, acks |-> v.acks]
    BY <1>0, <1>1 DEF Pushed
  <2>2. /\ w = [pc |-> w.pc, wait |-> w.wait, have |-> w.have, push |-> w.push, at |-> w.at,
                pull |-> w.pull, msg |-> w.msg, acks |-> w.acks]
        /\ w.pc = v.pc /\ w.wait = "no" /\ w.have = v.have /\ w.push = None /\ w.at = v.at
        /\ w.pull = v.pull /\ w.acks = v.acks /\ w.msg = v.msg
    BY <2>1
  <2>3. Heard(m, w, d, e)
    BY <1>0, <2>2 DEF Heard
  <2> QED
    BY <2>2, <2>3 DEF VisitSound
<1>2. CASE state.k = "Stored"
  <2>1. PICK at : at = IF state.next = Chunks THEN Chunks - 1 ELSE state.next
    OBVIOUS
  <2>2. state.next \in 0..Chunks
    BY <1>2 DEF Received, Failure, Failed, Full, Missing, Apart
  <2>3. at \in 0..(Chunks - 1)
    BY <2>1, <2>2, TransferAssumption
  <2>4. w = [pc |-> v.pc, wait |-> v.wait, have |-> v.have, push |-> v.push, at |-> at,
             pull |-> v.pull, msg |-> v.msg, acks |-> v.acks]
    BY <1>0, <1>2, <2>1 DEF Pushed
  <2>5. /\ w = [pc |-> w.pc, wait |-> w.wait, have |-> w.have, push |-> w.push, at |-> w.at,
                pull |-> w.pull, msg |-> w.msg, acks |-> w.acks]
        /\ w.pc = v.pc /\ w.wait = "no" /\ w.have = v.have /\ w.push = v.push /\ w.at = at
        /\ w.pull = v.pull /\ w.acks = v.acks /\ w.msg = v.msg
    BY <2>4
  <2>6. Heard(m, w, d, e)
    BY <1>0, <2>5 DEF Heard
  <2> QED
    BY <2>3, <2>5, <2>6 DEF VisitSound
<1>3. CASE ~(state.k = "Complete" /\ ~Fails(job.res)) /\ state.k # "Stored"
  <2>1. w = v \/ w = End(v)
    BY <1>3 DEF Pushed
  <2>2. PICK gone : gone = End(v)
    OBVIOUS
  <2>3. gone.pc = "receipts"
    BY <2>2 DEF End, Idle
  <2>4. VisitSound(m, gone, d, e)
    BY <2>2, EndSound
  <2> QED
    BY <2>1, <2>2, <2>3, <2>4
<1> QED
  BY <1>1, <1>2, <1>3

\* What comes of pulling: the visit goes on at its place or ends (take_pull_state).
LEMMA PulledSound ==
  ASSUME NEW m, NEW v, NEW d, NEW e, VisitSound(m, v, d, e), v.pc = "work", v.wait = "no",
         NEW state, NEW w, w = Pulled(v, state)
  PROVE  /\ VisitSound(m, w, d, e)
         /\ w.pc = "receipts" \/ (w.pc = "work" /\ w.wait = "no" /\ w.have = v.have)
<1>0. Heard(m, v, d, e)
      /\ v = [pc |-> v.pc, wait |-> v.wait, have |-> v.have, push |-> v.push, at |-> v.at,
              pull |-> v.pull, msg |-> v.msg, acks |-> v.acks]
  BY DEF VisitSound
<1>1. CASE state.k = "Complete"
  <2>1. w = [pc |-> v.pc, wait |-> v.wait, have |-> v.have, push |-> v.push, at |-> v.at,
             pull |-> None, msg |-> v.msg, acks |-> v.acks]
    BY <1>0, <1>1 DEF Pulled
  <2>2. /\ w = [pc |-> w.pc, wait |-> w.wait, have |-> w.have, push |-> w.push, at |-> w.at,
                pull |-> w.pull, msg |-> w.msg, acks |-> w.acks]
        /\ w.pc = v.pc /\ w.wait = "no" /\ w.have = v.have /\ w.push = v.push /\ w.at = v.at
        /\ w.pull = None /\ w.acks = v.acks /\ w.msg = v.msg
    BY <2>1
  <2>3. Heard(m, w, d, e)
    BY <1>0, <2>2 DEF Heard
  <2> QED
    BY <2>2, <2>3 DEF VisitSound
<1>2. CASE state.k # "Complete"
  <2>1. w = v \/ w = End(v)
    BY <1>2 DEF Pulled
  <2>2. PICK gone : gone = End(v)
    OBVIOUS
  <2>3. gone.pc = "receipts"
    BY <2>2 DEF End, Idle
  <2>4. VisitSound(m, gone, d, e)
    BY <2>2, EndSound
  <2> QED
    BY <2>1, <2>2, <2>3, <2>4
<1> QED
  BY <1>1, <1>2

\* A body that is missing there has the visit start over (TransferState::Missing).
LEMMA AgainSound ==
  ASSUME NEW m, NEW v, NEW d, NEW e, VisitSound(m, v, d, e),
         v.pc = "receipts" \/ (v.pc \in {"open", "work"} /\ v.have \in Report(e)),
         NEW state, NEW w, w = Again(v, state)
  PROVE  /\ VisitSound(m, w, d, e)
         /\ w.pc = "receipts" \/ (w.pc \in {"open", "work"} /\ w.have \in Report(e))
<1>1. CASE w = v
  BY <1>1
<1>2. CASE v.pc # "receipts" /\ w = Go(v, "open")
  <2>1. PICK pc \in {"open", "work"} : pc = "open"
    OBVIOUS
  <2>2. w = Go(v, pc) /\ v.have \in Report(e)
    BY <1>2, <2>1
  <2>3. VisitSound(m, w, d, e) /\ w.pc = pc /\ w.have = v.have
    BY <2>2, GoSound
  <2> QED
    BY <2>2, <2>3
<1> QED
  BY <1>1, <1>2 DEF Again

\* What a visit waits for is a request of its machine's (request_doc_transfer).
LEMMA AskedRequest ==
  ASSUME NEW m, NEW v, NEW d, NEW e, VisitSound(m, v, d, e), v.wait = "asked"
  PROVE  v.msg \in Requests(m, d, e)
<1>1. Heard(m, v, d, e)
      /\ v.pc \in {"idle", "open", "answers", "push", "pull", "work", "receipts",
                   "confirm", "release"}
  BY DEF VisitSound
<1>2. \/ v.msg \in Exchanges(m, d, e) \/ v.msg \in Writes(m, d, e) \/ v.msg \in Reads(m, d, e)
      \/ v.msg \in Confirms(m, d) \/ v.msg \in Acknowledges(m, e)
  BY <1>1 DEF Heard
<1> QED
  BY <1>2 DEF Requests

\* A visit that asks for something (Ask).
LEMMA AskSound ==
  ASSUME NEW m, NEW v, NEW d, NEW e, VisitSound(m, v, d, e),
         NEW pc \in {"open", "work", "confirm", "release"},
         pc \in {"open", "work"} => v.have \in Report(e), NEW req,
         pc = "open" => req \in Exchanges(m, d, e),
         pc = "work" /\ v.push # None => req \in Writes(m, d, e),
         pc = "work" /\ v.push = None => req \in Reads(m, d, e),
         pc = "confirm" => req \in Confirms(m, d),
         pc = "release" => req \in Acknowledges(m, e),
         NEW w, w = Ask(v, pc, req)
  PROVE  VisitSound(m, w, d, e)
<1>1. w = [pc |-> pc, wait |-> "asked", have |-> v.have, push |-> v.push, at |-> v.at,
           pull |-> v.pull, msg |-> req, acks |-> v.acks]
  BY DEF Ask, VisitSound
<1>2. /\ w = [pc |-> w.pc, wait |-> w.wait, have |-> w.have, push |-> w.push, at |-> w.at,
              pull |-> w.pull, msg |-> w.msg, acks |-> w.acks]
      /\ w.pc = pc /\ w.wait = "asked" /\ w.have = v.have /\ w.push = v.push /\ w.at = v.at
      /\ w.pull = v.pull /\ w.msg = req /\ w.acks = v.acks
  BY <1>1
<1>3. Heard(m, w, d, e)
  BY <1>2 DEF Heard
<1> QED
  BY <1>2, <1>3 DEF VisitSound

\* A visit whose plan, or whose acknowledgements, are those.
Offering(v, push) == [v EXCEPT !.push = push]
Owed(v, acks) == [v EXCEPT !.acks = acks]

\* A visit that has its plan chosen (transfer_step), or its acknowledgements
\* (flush_doc_receipts).
LEMMA ChosenSound ==
  ASSUME NEW m, NEW v, NEW d, NEW e, VisitSound(m, v, d, e), v.wait = "no",
         v.pc \in {"open", "receipts"}, NEW push \in {None} \cup Bodies(m, d, e),
         NEW acks \in Short(Passed(Other(m), e))
  PROVE  /\ VisitSound(m, Offering(v, push), d, e) /\ Offering(v, push).have = v.have
         /\ VisitSound(m, Owed(v, acks), d, e)
<1>0. v = [pc |-> v.pc, wait |-> v.wait, have |-> v.have, push |-> v.push, at |-> v.at,
           pull |-> v.pull, msg |-> v.msg, acks |-> v.acks]
  BY DEF VisitSound
<1>1. PICK w : w = Offering(v, push)
  OBVIOUS
<1>2. w = [pc |-> v.pc, wait |-> v.wait, have |-> v.have, push |-> push, at |-> v.at,
           pull |-> v.pull, msg |-> v.msg, acks |-> v.acks]
  BY <1>0, <1>1 DEF Offering
<1>3. /\ w = [pc |-> w.pc, wait |-> w.wait, have |-> w.have, push |-> w.push, at |-> w.at,
              pull |-> w.pull, msg |-> w.msg, acks |-> w.acks]
      /\ w.pc = v.pc /\ w.wait = v.wait /\ w.have = v.have /\ w.push = push /\ w.at = v.at
      /\ w.pull = v.pull /\ w.msg = v.msg /\ w.acks = v.acks
  BY <1>2
<1>4. Heard(m, w, d, e)
  BY <1>3 DEF Heard
<1>5. VisitSound(m, w, d, e)
  BY <1>3, <1>4 DEF VisitSound
<1>6. PICK u : u = Owed(v, acks)
  OBVIOUS
<1>7. u = [pc |-> v.pc, wait |-> v.wait, have |-> v.have, push |-> v.push, at |-> v.at,
           pull |-> v.pull, msg |-> v.msg, acks |-> acks]
  BY <1>0, <1>6 DEF Owed
<1>8. /\ u = [pc |-> u.pc, wait |-> u.wait, have |-> u.have, push |-> u.push, at |-> u.at,
              pull |-> u.pull, msg |-> u.msg, acks |-> u.acks]
      /\ u.pc = v.pc /\ u.wait = v.wait /\ u.have = v.have /\ u.push = v.push /\ u.at = v.at
      /\ u.pull = v.pull /\ u.msg = v.msg /\ u.acks = acks
  BY <1>7
<1>9. Heard(m, u, d, e)
  BY <1>8 DEF Heard
<1>10. VisitSound(m, u, d, e)
  BY <1>8, <1>9 DEF VisitSound
<1> QED
  BY <1>1, <1>3, <1>5, <1>6, <1>10

\* Up to two receipts of a pending set (pending_proofs, pending_acks).
LEMMA TakenShort ==
  ASSUME NEW n, NEW S, NEW T, S \subseteq T, NEW list \in Taken(n, S)
  PROVE  list \in Short(T)
<1>1. CASE list = <<>>
  <2>1. list \in Seq(T) /\ Len(list) = 0
    BY <1>1
  <2> QED
    BY <2>1 DEF Short
<1>2. CASE \E x \in S : list = <<x>>
  <2>1. PICK x \in T : list = <<x>>
    BY <1>2
  <2>2. list \in Seq(T) /\ Len(list) = 1
    BY <2>1
  <2> QED
    BY <2>2 DEF Short
<1>3. CASE \E x, y \in S : list = <<x, y>>
  <2>1. PICK x \in T, y \in T : list = <<x, y>>
    BY <1>3
  <2>2. list \in Seq(T)
    BY <2>1
  <2>3. Len(list) <= 2
    BY <2>1
  <2> QED
    BY <2>2, <2>3 DEF Short
<1> QED
  BY <1>1, <1>2, <1>3 DEF Taken

\* The receipts a journal keeps: those it may give, and those it was given
\* (pending_proofs, pending_acks).
LEMMA PendingSound ==
  ASSUME NEW m \in Machine, NEW d, NEW e, Sound(m, d, e)
  PROVE  /\ PendingProofs(d) \subseteq Given(m, d)
         /\ PendingAcks(d) \subseteq Passed(Other(m), e)
<1>s. Shape(d) /\ OutSound(m, d, e) /\ InSound(m, d)
  BY DEF Sound
<1>1. ASSUME NEW r \in d.in, r.st = "Complete"
      PROVE  r.proof \in Given(m, d)
  <2>1. r.proof \in Truths(m, d) /\ r.proof.man = r.man
    BY <1>1, <1>s DEF InSound
  <2>2. \A s \in d.in : s.man = r.man => s = r
    BY <1>s DEF Shape, Valid
  <2>3. ~Begun(d, r.man)
    BY <1>1, <2>2 DEF Begun
  <2> QED
    BY <2>1, <2>3 DEF Given
<1>2. ASSUME NEW r \in d.out, r.st = "NeedAck"
      PROVE  r.proof \in Passed(Other(m), e)
  BY <1>2, <1>s DEF OutSound, Active
<1> QED
  BY <1>1, <1>2 DEF PendingProofs, PendingAcks

-----------------------------------------------------------------------------
(* One transition after the other.                                         *)

\* A visit's step keeps the invariant if the visit afterwards is sound (Step).
LEMMA StepDone ==
  ASSUME IInv, NEW m \in Machine, NEW e, e = disk[Other(m)], NEW job, job = Own(m),
         NEW c, c = Noticed(job.last), NEW w, VisitSound(m, w, c, e), Step(m, job, w)
  PROVE  IInv'
<1>1. PICK d, v, D : d = disk[m] /\ v = visit[m] /\ D = Now(disk, m, c)
  OBVIOUS
<1>2. Agree(D, visit, late)
  BY <1>1, StepKeeps
<1>3. D[m] = c /\ D[Other(m)] = e
  BY <1>1, StepKeeps
<1>4. /\ disk' = D /\ visit' = Now(visit, m, w)
      /\ world' = world /\ late' = late /\ faults' = faults
  BY <1>1 DEF Step, Now
<1>5. VisitSound(m, w, D[m], D[Other(m)])
  BY <1>3
<1>6. PICK W, V, L : W = Now(visit, m, w) /\ V = visit /\ L = late
  OBVIOUS
<1>7. Agree(D, W, L)
  BY <1>2, <1>5, <1>6, VisitKeeps
<1>8. Agree(disk', visit', late')
  BY <1>4, <1>6, <1>7
<1> QED
  BY <1>4, <1>8 DEF IInv

\* A visit begins with the other copy's report (sync_what_changed).
LEMMA StartVisitKeeps ==
  ASSUME IInv, NEW m \in Machine, StartVisit(m)
  PROVE  IInv'
<1>1. PICK e, there : e = disk[Other(m)] /\ there = Here(e)
  OBVIOUS
<1>2. PICK job, c : job = Own(m) /\ c = Noticed(job.last)
  OBVIOUS
<1>3. PICK w : w = [Go(Idle, "open") EXCEPT !.have = there]
  OBVIOUS
<1>4. Step(m, job, w)
  BY <1>1, <1>2, <1>3 DEF StartVisit
<1>5. /\ w = [pc |-> w.pc, wait |-> w.wait, have |-> w.have, push |-> w.push, at |-> w.at,
              pull |-> w.pull, msg |-> w.msg, acks |-> w.acks]
      /\ w.pc = "open" /\ w.wait = "no" /\ w.have = there /\ w.push = None /\ w.at = 0
      /\ w.pull = None /\ w.acks = <<>>
  <2>1. w = [pc |-> "open", wait |-> "no", have |-> there, push |-> None, at |-> 0,
             pull |-> None, msg |-> None, acks |-> <<>>]
    BY <1>3 DEF Go, Idle
  <2> QED
    BY <2>1
<1>6. Sound(Other(m), e, disk[m])
  BY <1>1, TwoMachines DEF IInv, Agree
<1>7. there \in Report(e)
  BY <1>1, <1>6, HereReport
<1>8. PICK i : i = Idle
  OBVIOUS
<1>9. VisitSound(m, i, c, e) /\ i.at = 0 /\ i.acks = <<>>
  BY <1>8, EndSound DEF Idle
<1>10. Heard(m, w, c, e)
  BY <1>5 DEF Heard
<1>11. VisitSound(m, w, c, e)
  BY <1>5, <1>7, <1>9, <1>10 DEF VisitSound
<1> QED
  BY <1>1, <1>2, <1>4, <1>11, StepDone

\* The exchange offers a plan that is open and receipts that are given
\* (transfer_step).
LEMMA OpenExchangeKeeps ==
  ASSUME IInv, NEW m \in Machine, OpenExchange(m)
  PROVE  IInv'
<1>1. PICK d, e, v, job, c, D :
        /\ d = disk[m] /\ e = disk[Other(m)] /\ v = visit[m] /\ job = Own(m)
        /\ c = Noticed(job.last) /\ D = Now(disk, m, c)
  OBVIOUS
<1>2. Sound(m, job.last, e) /\ Sound(m, c, e) /\ VisitSound(m, v, c, e)
  BY <1>1, StepKeeps
<1>3. v.pc = "open" /\ v.wait = "no" /\ v.have \in Report(e)
  BY <1>1, <1>2 DEF OpenExchange, At, VisitSound
<1>4. job.res \in {None, Failed} \cup Chunked(Bodies(m, job.last, e))
  BY <1>1, <1>3, StepKeeps
<1>a. CASE Step(m, job, End(v))
  <2>1. PICK w : w = End(v)
    OBVIOUS
  <2>2. VisitSound(m, w, c, e) /\ Step(m, job, w)
    BY <1>a, <2>1, EndSound
  <2> QED
    BY <1>1, <2>2, StepDone
<1>b. ASSUME ~Fails(job.res),
             NEW proofs \in Taken(1, PendingProofs(job.last)),
             NEW acks \in Taken(1, PendingAcks(job.last)),
             NEW push, push = IF job.res = None THEN None ELSE job.res.man,
             NEW req, req = [k |-> "Exchange", have |-> Here(job.last), offer |-> job.res,
                             proofs |-> proofs, acks |-> acks],
             Step(m, job, Ask([v EXCEPT !.push = push], "open", req))
      PROVE  IInv'
  <2>1. PICK last : last = job.last
    OBVIOUS
  <2>2. Bodies(m, last, e) \subseteq Bodies(m, c, e)
    BY <1>1, <1>2, <2>1, NoticedGrows DEF Grows
  <2>3. job.res \in {None} \cup Chunked(Bodies(m, c, e))
    BY <1>4, <1>b, <2>1, <2>2, Results DEF Chunked
  <2>4. push \in {None} \cup Bodies(m, c, e)
    BY <1>b, <2>3 DEF Chunked
  <2>5. Given(m, last) \subseteq Passed(m, c) /\ c.epoch = last.epoch /\ c.ver = last.ver
    BY <1>1, <1>2, <2>1, NoticedSound
  <2>6. PICK P : P = Passed(m, c)
    OBVIOUS
  <2>7. PICK Q : Q = Passed(Other(m), e)
    OBVIOUS
  <2>8. PendingProofs(last) \subseteq P /\ PendingAcks(last) \subseteq Q
    BY <1>2, <2>1, <2>5, <2>6, <2>7, PendingSound
  <2>9. proofs \in Short(P)
    BY <1>b, <2>1, <2>8, TakenShort
  <2>10. acks \in Short(Q)
    BY <1>b, <2>1, <2>8, TakenShort
  <2>11. Here(last) \in Report(c)
    <3>1. Here(c) \in Report(c)
      BY <1>2, HereReport
    <3> QED
      BY <2>5, <3>1 DEF Here
  <2>12. req \in Exchanges(m, c, e)
    BY <1>b, <2>1, <2>3, <2>6, <2>7, <2>9, <2>10, <2>11 DEF Exchanges
  <2>13. PICK u : u = Offering(v, push)
    OBVIOUS
  <2>14. acks \in Short(Passed(Other(m), e))
    BY <2>7, <2>10
  <2>15. VisitSound(m, u, c, e) /\ u.have = v.have
    BY <1>2, <1>3, <2>4, <2>13, <2>14, ChosenSound
  <2>16. PICK pc \in {"open", "work", "confirm", "release"} : pc = "open"
    OBVIOUS
  <2>17. PICK w : w = Ask(u, pc, req)
    OBVIOUS
  <2>18. /\ VisitSound(m, u, c, e) /\ (pc \in {"open", "work"} => u.have \in Report(e))
         /\ (pc = "open" => req \in Exchanges(m, c, e))
         /\ (pc = "work" /\ u.push # None => req \in Writes(m, c, e))
         /\ (pc = "work" /\ u.push = None => req \in Reads(m, c, e))
         /\ (pc = "confirm" => req \in Confirms(m, c))
         /\ (pc = "release" => req \in Acknowledges(m, e))
    BY <1>3, <2>12, <2>15, <2>16
  <2>19. VisitSound(m, w, c, e)
    BY <2>17, <2>18, AskSound
  <2>20. Step(m, job, w)
    BY <1>b, <2>13, <2>16, <2>17 DEF Offering
  <2> QED
    BY <1>1, <2>19, <2>20, StepDone
<1> QED
  BY <1>1, <1>a, <1>b DEF OpenExchange

\* The answer to the exchange is looked at where the epochs still agree
\* (transfer_step).
LEMMA TakeExchangedKeeps ==
  ASSUME IInv, NEW m \in Machine, TakeExchanged(m)
  PROVE  IInv'
<1>1. PICK d, e, v, job, c, D :
        /\ d = disk[m] /\ e = disk[Other(m)] /\ v = visit[m] /\ job = Own(m)
        /\ c = Noticed(job.last) /\ D = Now(disk, m, c)
  OBVIOUS
<1>2. VisitSound(m, v, c, e)
  BY <1>1, StepKeeps
<1>3. v.pc = "open" /\ v.wait = "heard"
  BY <1>1 DEF TakeExchanged, At
<1>4. v.msg \in Failure \cup Exchangeds(m, c, e)
  BY <1>2, <1>3 DEF VisitSound, Heard
<1>a. CASE Step(m, job, End(v))
  <2>1. PICK w : w = End(v)
    OBVIOUS
  <2>2. VisitSound(m, w, c, e) /\ Step(m, job, w)
    BY <1>a, <2>1, EndSound
  <2> QED
    BY <1>1, <2>2, StepDone
<1>b. ASSUME ~Fails(v.msg), NEW pull,
             pull = IF v.msg.offer = None THEN None ELSE v.msg.offer.man,
             Step(m, job, [v EXCEPT !.pc = "answers", !.wait = "no", !.have = v.msg.have,
                                    !.pull = pull])
      PROVE  IInv'
  <2>1. v.msg \in Exchangeds(m, c, e)
    BY <1>4, <1>b, Results DEF Failure
  <2>2. PICK w : w = [v EXCEPT !.pc = "answers", !.wait = "no", !.have = v.msg.have,
                               !.pull = pull]
    OBVIOUS
  <2>3. w = [pc |-> "answers", wait |-> "no", have |-> v.msg.have, push |-> v.push, at |-> v.at,
             pull |-> pull, msg |-> v.msg, acks |-> v.acks]
    BY <1>2, <2>2 DEF VisitSound
  <2>4. /\ w = [pc |-> w.pc, wait |-> w.wait, have |-> w.have, push |-> w.push, at |-> w.at,
                pull |-> w.pull, msg |-> w.msg, acks |-> w.acks]
        /\ w.pc = "answers" /\ w.wait = "no" /\ w.have = v.msg.have /\ w.push = v.push
        /\ w.at = v.at /\ w.pull = pull /\ w.msg = v.msg /\ w.acks = v.acks
    BY <2>3
  <2>5. v.msg.have \in Report(e) /\ pull \in {None} \cup Bodies(Other(m), e, c)
    BY <1>b, <2>1 DEF Exchangeds, Chunked
  <2>6. Heard(m, w, c, e)
    BY <2>1, <2>4 DEF Heard
  <2>7. VisitSound(m, w, c, e)
    BY <1>2, <2>4, <2>5, <2>6 DEF VisitSound
  <2>8. Step(m, job, w)
    BY <1>b, <2>2
  <2> QED
    BY <1>1, <2>7, <2>8, StepDone
<1> QED
  BY <1>1, <1>a, <1>b DEF TakeExchanged

\* A visit that goes to its next place with what it heard of the exchange.
Onto(v, pc) == [v EXCEPT !.pc = pc]

\* It stays sound (transfer_step).
LEMMA OntoSound ==
  ASSUME NEW m, NEW v, NEW d, NEW e, VisitSound(m, v, d, e), v.pc \in {"answers", "push"},
         NEW pc \in {"push", "pull"}, NEW w, w = Onto(v, pc)
  PROVE  /\ VisitSound(m, w, d, e) /\ w.pc = pc /\ w.wait = "no" /\ w.have = v.have
         /\ w.msg = v.msg /\ w.push = v.push
<1>0. Heard(m, v, d, e)
      /\ v = [pc |-> v.pc, wait |-> v.wait, have |-> v.have, push |-> v.push, at |-> v.at,
              pull |-> v.pull, msg |-> v.msg, acks |-> v.acks]
  BY DEF VisitSound
<1>1. w = [pc |-> pc, wait |-> v.wait, have |-> v.have, push |-> v.push, at |-> v.at,
           pull |-> v.pull, msg |-> v.msg, acks |-> v.acks]
  BY <1>0 DEF Onto
<1>2. /\ w = [pc |-> w.pc, wait |-> w.wait, have |-> w.have, push |-> w.push, at |-> w.at,
              pull |-> w.pull, msg |-> w.msg, acks |-> w.acks]
      /\ w.pc = pc /\ w.wait = v.wait /\ w.have = v.have /\ w.push = v.push
      /\ w.at = v.at /\ w.pull = v.pull /\ w.msg = v.msg /\ w.acks = v.acks
  BY <1>1
<1>3. v.wait = "no" /\ v.msg \in Exchangeds(m, d, e)
  BY <1>0 DEF Heard
<1>4. Heard(m, w, d, e)
  BY <1>2, <1>3 DEF Heard
<1>5. VisitSound(m, w, d, e)
  BY <1>2, <1>4 DEF VisitSound
<1> QED
  BY <1>2, <1>3, <1>5

\* The answers to our receipts are used, then the visit pushes
\* (take_receipt_answers).
LEMMA TakeAnswersKeeps ==
  ASSUME IInv, NEW m \in Machine, TakeAnswers(m)
  PROVE  IInv'
<1>1. PICK d, e, v, job, c, D :
        /\ d = disk[m] /\ e = disk[Other(m)] /\ v = visit[m] /\ job = Own(m)
        /\ c = Noticed(job.last) /\ D = Now(disk, m, c)
  OBVIOUS
<1>2. VisitSound(m, v, c, e)
  BY <1>1, StepKeeps
<1>3. v.pc = "answers"
  BY <1>1 DEF TakeAnswers, At
<1>4. PICK w : w = End(v)
  OBVIOUS
<1>5. PICK pc \in {"push", "pull"} : pc = "push"
  OBVIOUS
<1>6. PICK u : u = Onto(v, pc)
  OBVIOUS
<1>7. Step(m, job, w) \/ Step(m, job, u)
  BY <1>1, <1>4, <1>5, <1>6 DEF TakeAnswers, Onto
<1>8. VisitSound(m, w, c, e)
  BY <1>4, EndSound
<1>9. VisitSound(m, u, c, e)
  BY <1>2, <1>3, <1>6, OntoSound
<1> QED
  BY <1>1, <1>7, <1>8, <1>9, StepDone

\* What was said of the chunk that went with the offer is used (take_push_state).
LEMMA TakeReceivedKeeps ==
  ASSUME IInv, NEW m \in Machine, TakeReceived(m)
  PROVE  IInv'
<1>1. PICK d, e, v, job, c, D :
        /\ d = disk[m] /\ e = disk[Other(m)] /\ v = visit[m] /\ job = Own(m)
        /\ c = Noticed(job.last) /\ D = Now(disk, m, c)
  OBVIOUS
<1>2. VisitSound(m, v, c, e)
  BY <1>1, StepKeeps
<1>3. v.pc = "push"
  BY <1>1 DEF TakeReceived, At
<1>4. v.msg \in Exchangeds(m, c, e)
  BY <1>2, <1>3 DEF VisitSound, Heard
<1>5. PICK S : S = Passed(Other(m), e)
  OBVIOUS
<1>6. v.msg.received \in {None} \cup Received(S)
  BY <1>4, <1>5 DEF Exchangeds
<1>7. PICK pc \in {"push", "pull"} : pc = "pull"
  OBVIOUS
<1>8. PICK u : u = Onto(v, pc)
  OBVIOUS
<1>9. VisitSound(m, u, c, e)
  BY <1>2, <1>3, <1>8, OntoSound
<1>10. u.pc = pc /\ u.wait = "no"
  BY <1>2, <1>3, <1>8, OntoSound
<1>11. PICK state : state = v.msg.received
  OBVIOUS
<1>12. PICK w : w = Pushed(u, state, job)
  OBVIOUS
<1>13. IF state = None THEN Step(m, job, u) ELSE Step(m, job, w)
  BY <1>1, <1>7, <1>8, <1>11, <1>12 DEF TakeReceived, Onto
<1>14. ASSUME state # None
       PROVE  VisitSound(m, w, c, e)
  <2>1. state \in Received(S)
    BY <1>6, <1>11, <1>14
  <2>2. VisitSound(m, u, c, e) /\ u.pc \in {"pull", "work"} /\ u.wait = "no"
    BY <1>7, <1>9, <1>10
  <2> QED
    BY <1>12, <2>1, <2>2, PushedSound
<1>a. CASE state = None
  BY <1>1, <1>9, <1>13, <1>a, StepDone
<1>b. CASE state # None
  BY <1>1, <1>13, <1>14, <1>b, StepDone
<1> QED
  BY <1>a, <1>b

\* The offered chunk is taken, and the visit works or starts over (take_pull_state).
LEMMA TakeOfferKeeps ==
  ASSUME IInv, NEW m \in Machine, TakeOffer(m)
  PROVE  IInv'
<1>1. PICK d, e, v, job, c, D :
        /\ d = disk[m] /\ e = disk[Other(m)] /\ v = visit[m] /\ job = Own(m)
        /\ c = Noticed(job.last) /\ D = Now(disk, m, c)
  OBVIOUS
<1>2. VisitSound(m, v, c, e)
  BY <1>1, StepKeeps
<1>3. v.pc = "pull"
  BY <1>1 DEF TakeOffer, At
<1>4. v.have \in Report(e)
  BY <1>2, <1>3 DEF VisitSound
<1>5. PICK pc \in {"open", "work"} : pc = "work"
  OBVIOUS
<1>6. PICK u : u = Go(v, pc)
  OBVIOUS
<1>7. VisitSound(m, u, c, e)
  BY <1>2, <1>4, <1>6, GoSound
<1>8. u.pc = pc /\ u.wait = "no" /\ u.have = v.have
  BY <1>2, <1>4, <1>6, GoSound
<1>9. PICK state, told : state = job.res /\ told = v.msg.received
  OBVIOUS
<1>10. PICK p : p = Pulled(u, state)
  OBVIOUS
<1>11. VisitSound(m, p, c, e)
       /\ (p.pc = "receipts" \/ (p.pc = "work" /\ p.wait = "no" /\ p.have = u.have))
  <2>1. VisitSound(m, u, c, e) /\ u.pc = "work" /\ u.wait = "no"
    BY <1>5, <1>7, <1>8
  <2>2. VisitSound(m, p, c, e)
    BY <1>10, <2>1, PulledSound
  <2>3. p.pc = "receipts" \/ (p.pc = "work" /\ p.wait = "no" /\ p.have = u.have)
    BY <1>10, <2>1, PulledSound
  <2> QED
    BY <2>2, <2>3
<1>12. PICK x : x = IF state = None THEN u ELSE p
  OBVIOUS
<1>13. VisitSound(m, x, c, e)
       /\ (x.pc = "receipts" \/ (x.pc \in {"open", "work"} /\ x.have \in Report(e)))
  <2>1. CASE x = u
    BY <1>4, <1>5, <1>7, <1>8, <2>1
  <2>2. CASE x = p
    BY <1>4, <1>8, <1>11, <2>2
  <2> QED
    BY <1>12, <2>1, <2>2
<1>14. PICK y : y = Again(x, state)
  OBVIOUS
<1>15. VisitSound(m, y, c, e)
  BY <1>13, <1>14, AgainSound
<1>16. y.pc = "receipts" \/ (y.pc \in {"open", "work"} /\ y.have \in Report(e))
  BY <1>13, <1>14, AgainSound
<1>17. PICK w : w = Again(y, told)
  OBVIOUS
<1>18. VisitSound(m, w, c, e)
  BY <1>15, <1>16, <1>17, AgainSound
<1>19. Step(m, job, w)
  BY <1>1, <1>5, <1>6, <1>9, <1>10, <1>12, <1>14, <1>17 DEF TakeOffer
<1> QED
  BY <1>1, <1>18, <1>19, StepDone

\* Once it has started, a visit sends the next chunk of its plan or asks for the
\* next one of the other machine's (transfer_step).
LEMMA WorkKeeps ==
  ASSUME IInv, NEW m \in Machine, Work(m)
  PROVE  IInv'
<1>1. PICK d, e, v, job, c, D :
        /\ d = disk[m] /\ e = disk[Other(m)] /\ v = visit[m] /\ job = Own(m)
        /\ c = Noticed(job.last) /\ D = Now(disk, m, c)
  OBVIOUS
<1>2. VisitSound(m, v, c, e) /\ Sound(m, job.last, e)
  BY <1>1, StepKeeps
<1>3. v.pc = "work" /\ v.wait = "no"
  BY <1>1 DEF Work, At
<1>4. v.push = None /\ v.pull = None => job.res = None
  BY <1>1, <1>3, StepKeeps
<1>5. /\ v.have \in Report(e) /\ v.at \in Nat
      /\ v.push \in {None} \cup Bodies(m, c, e) /\ v.pull \in {None} \cup Bodies(Other(m), e, c)
  BY <1>2, <1>3, TransferAssumption DEF VisitSound
<1>6. PICK last, off : last = job.last /\ off = IF InRows(last, v.pull) = {} THEN 0
                                                ELSE Stored(last, v.pull)
  OBVIOUS
<1>7. off \in Nat
  <2>1. Stored(last, v.pull) \in 0..Chunks
    BY <1>2, <1>6, StoredCount
  <2> QED
    BY <1>6, <2>1, TransferAssumption
<1>8. PICK write, read : /\ write = [k |-> "Write", man |-> v.push, off |-> v.at]
                         /\ read = [k |-> "Read", man |-> v.pull, off |-> off]
  OBVIOUS
<1>9. PICK end, out, in, got : /\ end = End(v) /\ out = Ask(v, "work", write)
                               /\ in = Ask(v, "work", read) /\ got = Pulled(v, job.res)
  OBVIOUS
<1>10. \/ Step(m, job, end)
       \/ v.push # None /\ Step(m, job, out)
       \/ v.push = None /\ job.res # None /\ Step(m, job, in)
       \/ Step(m, job, got)
  <2>1. Step(m, job,
           CASE Fails(job.res) \/ job.res = None -> end
             [] ~Fails(job.res) /\ v.push # None -> out
             [] ~Fails(job.res) /\ v.push = None /\ job.res # None
                  /\ job.res.k \in {"Stored", "Missing"} -> in
             [] OTHER -> got)
    BY <1>1, <1>6, <1>8, <1>9 DEF Work
  <2> QED
    BY <2>1
<1>11. PICK pc \in {"open", "work", "confirm", "release"} : pc = "work"
  OBVIOUS
<1>a. VisitSound(m, end, c, e)
  BY <1>9, EndSound
<1>b. VisitSound(m, got, c, e)
  <2>1. PICK state : state = job.res
    OBVIOUS
  <2>2. got = Pulled(v, state)
    BY <1>9, <2>1
  <2> QED
    BY <1>2, <1>3, <2>2, PulledSound
<1>c. ASSUME v.push # None
      PROVE  VisitSound(m, out, c, e)
  <2>1. write \in Writes(m, c, e)
    BY <1>5, <1>8, <1>c DEF Writes
  <2>2. /\ VisitSound(m, v, c, e) /\ (pc \in {"open", "work"} => v.have \in Report(e))
        /\ (pc = "open" => write \in Exchanges(m, c, e))
        /\ (pc = "work" /\ v.push # None => write \in Writes(m, c, e))
        /\ (pc = "work" /\ v.push = None => write \in Reads(m, c, e))
        /\ (pc = "confirm" => write \in Confirms(m, c))
        /\ (pc = "release" => write \in Acknowledges(m, e))
        /\ out = Ask(v, pc, write)
    BY <1>2, <1>5, <1>9, <1>11, <1>c, <2>1
  <2> QED
    BY <2>2, AskSound
<1>d. ASSUME v.push = None, job.res # None
      PROVE  VisitSound(m, in, c, e)
  <2>1. read \in Reads(m, c, e)
    BY <1>4, <1>5, <1>7, <1>8, <1>d DEF Reads
  <2>2. /\ VisitSound(m, v, c, e) /\ (pc \in {"open", "work"} => v.have \in Report(e))
        /\ (pc = "open" => read \in Exchanges(m, c, e))
        /\ (pc = "work" /\ v.push # None => read \in Writes(m, c, e))
        /\ (pc = "work" /\ v.push = None => read \in Reads(m, c, e))
        /\ (pc = "confirm" => read \in Confirms(m, c))
        /\ (pc = "release" => read \in Acknowledges(m, e))
        /\ in = Ask(v, pc, read)
    BY <1>2, <1>5, <1>9, <1>11, <1>d, <2>1
  <2> QED
    BY <2>2, AskSound
<1>12. \E w : VisitSound(m, w, c, e) /\ Step(m, job, w)
  BY <1>10, <1>a, <1>b, <1>c, <1>d
<1> QED
  BY <1>1, <1>12, StepDone

\* The answer to a chunk that was sent, or the chunk that was asked for
\* (take_push_state, take_pull_state).
LEMMA TakeWorkKeeps ==
  ASSUME IInv, NEW m \in Machine, TakeWork(m)
  PROVE  IInv'
<1>1. PICK d, e, v, job, c, D :
        /\ d = disk[m] /\ e = disk[Other(m)] /\ v = visit[m] /\ job = Own(m)
        /\ c = Noticed(job.last) /\ D = Now(disk, m, c)
  OBVIOUS
<1>2. VisitSound(m, v, c, e)
  BY <1>1, StepKeeps
<1>3. v.pc = "work" /\ v.wait = "heard"
  BY <1>1 DEF TakeWork, At
<1>4. v.have \in Report(e)
  BY <1>2, <1>3 DEF VisitSound
<1>5. PICK pc \in {"open", "work"} : pc = "work"
  OBVIOUS
<1>6. PICK u : u = Go(v, pc)
  OBVIOUS
<1>7. VisitSound(m, u, c, e)
  BY <1>2, <1>4, <1>6, GoSound
<1>8. u.pc = pc /\ u.wait = "no" /\ u.have = v.have
  BY <1>2, <1>4, <1>6, GoSound
<1>9. PICK msg, res : msg = v.msg /\ res = job.res
  OBVIOUS
<1>10. PICK end, x, out, y, in :
        /\ end = End(v) /\ x = Pushed(u, msg, job) /\ out = Again(x, msg)
        /\ y = Pulled(u, res) /\ in = Again(y, res)
  OBVIOUS
<1>11. \/ Step(m, job, end)
       \/ v.push # None /\ Step(m, job, out)
       \/ Step(m, job, in)
  <2>1. Step(m, job, CASE Fails(msg) -> end
                       [] ~Fails(msg) /\ v.push # None -> out
                       [] OTHER -> in)
    BY <1>1, <1>5, <1>6, <1>9, <1>10 DEF TakeWork
  <2> QED
    BY <2>1
<1>12. VisitSound(m, u, c, e) /\ u.pc = "work" /\ u.pc \in {"pull", "work"} /\ u.wait = "no"
  BY <1>5, <1>7, <1>8
<1>a. VisitSound(m, end, c, e)
  BY <1>10, EndSound
<1>b. ASSUME v.push # None
      PROVE  VisitSound(m, out, c, e)
  <2>1. PICK S : S = Passed(Other(m), e)
    OBVIOUS
  <2>2. msg \in Received(S)
    BY <1>2, <1>3, <1>9, <1>b, <2>1 DEF VisitSound, Heard
  <2>3. VisitSound(m, x, c, e)
    BY <1>10, <1>12, <2>2, PushedSound
  <2>4. x.pc = "receipts" \/ (x.pc = u.pc /\ x.wait = "no" /\ x.have = u.have)
    BY <1>10, <1>12, <2>2, PushedSound
  <2>5. x.pc = "receipts" \/ (x.pc \in {"open", "work"} /\ x.have \in Report(e))
    BY <1>4, <1>8, <1>12, <2>4
  <2> QED
    BY <1>10, <2>3, <2>5, AgainSound
<1>c. VisitSound(m, in, c, e)
  <2>1. VisitSound(m, y, c, e)
    BY <1>10, <1>12, PulledSound
  <2>2. y.pc = "receipts" \/ (y.pc = "work" /\ y.wait = "no" /\ y.have = u.have)
    BY <1>10, <1>12, PulledSound
  <2>3. y.pc = "receipts" \/ (y.pc \in {"open", "work"} /\ y.have \in Report(e))
    BY <1>4, <1>8, <2>2
  <2> QED
    BY <1>10, <2>1, <2>3, AgainSound
<1>13. \E w : VisitSound(m, w, c, e) /\ Step(m, job, w)
  BY <1>11, <1>a, <1>b, <1>c
<1> QED
  BY <1>1, <1>13, StepDone

\* Receipts are confirmed, and acknowledged, as the journal has them
\* (flush_doc_receipts).
LEMMA ReceiptsKeeps ==
  ASSUME IInv, NEW m \in Machine, Receipts(m)
  PROVE  IInv'
<1>1. PICK d, e, v, job, c, D :
        /\ d = disk[m] /\ e = disk[Other(m)] /\ v = visit[m] /\ job = Own(m)
        /\ c = Noticed(job.last) /\ D = Now(disk, m, c)
  OBVIOUS
<1>2. VisitSound(m, v, c, e) /\ Sound(m, job.last, e)
  BY <1>1, StepKeeps
<1>3. v.pc = "receipts" /\ v.wait = "no"
  BY <1>1 DEF Receipts, At
<1>4. PICK last : last = job.last
  OBVIOUS
<1>5. Given(m, last) \subseteq Passed(m, c)
  BY <1>1, <1>2, <1>4, NoticedSound
<1>6. PICK P, Q : P = Passed(m, c) /\ Q = Passed(Other(m), e)
  OBVIOUS
<1>7. PendingProofs(last) \subseteq P /\ PendingAcks(last) \subseteq Q
  BY <1>2, <1>4, <1>5, <1>6, PendingSound
<1>8. PICK proofs \in Taken(2, PendingProofs(last)), acks \in Taken(2, PendingAcks(last)) :
        Step(m, job,
             CASE ~Fails(job.res) /\ proofs # <<>> ->
                    Ask([v EXCEPT !.acks = acks], "confirm", [k |-> "Confirm", list |-> proofs])
               [] ~Fails(job.res) /\ proofs = <<>> /\ acks # <<>> ->
                    Ask(v, "release", [k |-> "Acknowledge", list |-> acks])
               [] OTHER -> Idle)
  BY <1>1, <1>4 DEF Receipts
<1>9. proofs \in Short(P)
  BY <1>7, TakenShort
<1>10. acks \in Short(Q)
  BY <1>7, TakenShort
<1>11. PICK u : u = Owed(v, acks)
  OBVIOUS
<1>12. PICK confirm, release : /\ confirm = [k |-> "Confirm", list |-> proofs]
                               /\ release = [k |-> "Acknowledge", list |-> acks]
  OBVIOUS
<1>13. PICK one, two, idle : /\ one = Ask(u, "confirm", confirm) /\ two = Ask(v, "release", release)
                             /\ idle = Idle
  OBVIOUS
<1>14. Step(m, job, one) \/ Step(m, job, two) \/ Step(m, job, idle)
  <2>1. Step(m, job, CASE ~Fails(job.res) /\ proofs # <<>> -> one
                       [] ~Fails(job.res) /\ proofs = <<>> /\ acks # <<>> -> two
                       [] OTHER -> idle)
    BY <1>8, <1>11, <1>12, <1>13 DEF Owed
  <2> QED
    BY <2>1
<1>a. VisitSound(m, idle, c, e)
  BY <1>13, EndSound
<1>b. VisitSound(m, one, c, e)
  <2>1. PICK push : push = None
    OBVIOUS
  <2>2. acks \in Short(Passed(Other(m), e)) /\ push \in {None} \cup Bodies(m, c, e)
    BY <1>6, <1>10, <2>1
  <2>3. VisitSound(m, u, c, e)
    BY <1>2, <1>3, <1>11, <2>2, ChosenSound
  <2>4. PICK pc \in {"open", "work", "confirm", "release"} : pc = "confirm"
    OBVIOUS
  <2>5. confirm \in Confirms(m, c)
    BY <1>6, <1>9, <1>12 DEF Confirms
  <2>6. /\ VisitSound(m, u, c, e) /\ (pc \in {"open", "work"} => u.have \in Report(e))
        /\ (pc = "open" => confirm \in Exchanges(m, c, e))
        /\ (pc = "work" /\ u.push # None => confirm \in Writes(m, c, e))
        /\ (pc = "work" /\ u.push = None => confirm \in Reads(m, c, e))
        /\ (pc = "confirm" => confirm \in Confirms(m, c))
        /\ (pc = "release" => confirm \in Acknowledges(m, e))
        /\ one = Ask(u, pc, confirm)
    BY <1>13, <2>3, <2>4, <2>5
  <2> QED
    BY <2>6, AskSound
<1>c. VisitSound(m, two, c, e)
  <2>1. PICK pc \in {"open", "work", "confirm", "release"} : pc = "release"
    OBVIOUS
  <2>2. release \in Acknowledges(m, e)
    BY <1>6, <1>10, <1>12 DEF Acknowledges
  <2>3. /\ VisitSound(m, v, c, e) /\ (pc \in {"open", "work"} => v.have \in Report(e))
        /\ (pc = "open" => release \in Exchanges(m, c, e))
        /\ (pc = "work" /\ v.push # None => release \in Writes(m, c, e))
        /\ (pc = "work" /\ v.push = None => release \in Reads(m, c, e))
        /\ (pc = "confirm" => release \in Confirms(m, c))
        /\ (pc = "release" => release \in Acknowledges(m, e))
        /\ two = Ask(v, pc, release)
    BY <1>2, <1>13, <2>1, <2>2
  <2> QED
    BY <2>3, AskSound
<1>15. \E w : VisitSound(m, w, c, e) /\ Step(m, job, w)
  BY <1>14, <1>a, <1>b, <1>c
<1> QED
  BY <1>1, <1>15, StepDone

\* After the confirmations, the acknowledgements that were due with them
\* (flush_doc_receipts).
LEMMA TakeConfirmedKeeps ==
  ASSUME IInv, NEW m \in Machine, TakeConfirmed(m)
  PROVE  IInv'
<1>1. PICK d, e, v, job, c, D :
        /\ d = disk[m] /\ e = disk[Other(m)] /\ v = visit[m] /\ job = Own(m)
        /\ c = Noticed(job.last) /\ D = Now(disk, m, c)
  OBVIOUS
<1>2. VisitSound(m, v, c, e)
  BY <1>1, StepKeeps
<1>3. PICK idle, end, release : /\ idle = Idle /\ end = End(v)
                                /\ release = [k |-> "Acknowledge", list |-> v.acks]
  OBVIOUS
<1>4. PICK two : two = Ask(end, "release", release)
  OBVIOUS
<1>5. Step(m, job, idle) \/ Step(m, job, two) \/ Step(m, job, end)
  <2>1. Step(m, job, CASE Fails(v.msg) \/ Fails(job.res) -> idle
                       [] ~Fails(v.msg) /\ ~Fails(job.res) /\ v.acks # <<>> -> two
                       [] OTHER -> end)
    BY <1>1, <1>3, <1>4 DEF TakeConfirmed
  <2> QED
    BY <2>1
<1>a. VisitSound(m, idle, c, e)
  BY <1>3, EndSound
<1>b. VisitSound(m, end, c, e)
  BY <1>3, EndSound
<1>c. VisitSound(m, two, c, e)
  <2>1. PICK pc \in {"open", "work", "confirm", "release"} : pc = "release"
    OBVIOUS
  <2>2. release \in Acknowledges(m, e)
    BY <1>2, <1>3 DEF Acknowledges, VisitSound
  <2>3. /\ VisitSound(m, end, c, e) /\ (pc \in {"open", "work"} => end.have \in Report(e))
        /\ (pc = "open" => release \in Exchanges(m, c, e))
        /\ (pc = "work" /\ end.push # None => release \in Writes(m, c, e))
        /\ (pc = "work" /\ end.push = None => release \in Reads(m, c, e))
        /\ (pc = "confirm" => release \in Confirms(m, c))
        /\ (pc = "release" => release \in Acknowledges(m, e))
        /\ two = Ask(end, pc, release)
    BY <1>4, <1>b, <2>1, <2>2
  <2> QED
    BY <2>3, AskSound
<1>6. \E w : VisitSound(m, w, c, e) /\ Step(m, job, w)
  BY <1>5, <1>a, <1>b, <1>c
<1> QED
  BY <1>1, <1>6, StepDone

\* The answers to the acknowledgements end the round (flush_doc_receipts).
LEMMA TakeReleasedKeeps ==
  ASSUME IInv, NEW m \in Machine, TakeReleased(m)
  PROVE  IInv'
<1>1. PICK e, v, job, c : e = disk[Other(m)] /\ v = visit[m] /\ job = Own(m) /\ c = Noticed(job.last)
  OBVIOUS
<1>2. PICK idle, end : idle = Idle /\ end = End(v)
  OBVIOUS
<1>3. Step(m, job, idle) \/ Step(m, job, end)
  BY <1>1, <1>2 DEF TakeReleased
<1>4. VisitSound(m, idle, c, e)
  BY <1>2, EndSound
<1>5. VisitSound(m, end, c, e)
  BY <1>2, EndSound
<1> QED
  BY <1>1, <1>3, <1>4, <1>5, StepDone

\* What is answered is what the one who asked is waiting for, once the notices
\* of the step are delivered (answer_doc_transfer).
LEMMA RepliedHeard ==
  ASSUME NEW m \in Machine, NEW d, NEW last, Sound(Other(m), last, d), NEW c, c = Noticed(last),
         NEW v, VisitSound(m, v, d, c), v.wait = "asked",
         NEW res, res \in Replies(Other(m), last, d, v.msg)
  PROVE  /\ v.pc = "open" => res \in Failure \cup Exchangeds(m, d, c)
         /\ v.pc = "work" /\ v.push # None => res \in Received(Passed(Other(m), c))
         /\ v.pc = "work" /\ v.push = None => res \in Failure \cup Chunked(Bodies(Other(m), c, d))
         /\ v.pc = "confirm" => res \in Lists(Passed(m, d))
         /\ v.pc = "release" => res \in Lists(Answers(Passed(Other(m), c)))
<1>1. PICK n \in Machine : n = Other(m) /\ Other(n) = m
  BY TwoMachines
<1>2. Sound(n, last, d)
  BY <1>1
<1>3. Given(n, last) \subseteq Passed(n, c)
  BY <1>2, NoticedSound
<1>4. Grows(n, last, d, c)
  BY <1>2, NoticedGrows
<1>5. Heard(m, v, d, c)
  BY DEF VisitSound
<1>6. PICK G, P, Q : G = Given(n, last) /\ P = Passed(n, c) /\ Q = Passed(n, last)
  OBVIOUS
<1>7. G \subseteq P /\ Q \subseteq P
  BY <1>3, <1>4, <1>6 DEF Grows
<1>8. Received(G) \subseteq Received(P)
  BY <1>7, ReceivedGrow
<1>9. PICK AP, AQ : AP = Answers(P) /\ AQ = Answers(Q)
  OBVIOUS
<1>10. AQ \subseteq AP
  BY <1>7, <1>9, ReceivedGrow
<1>11. \A list \in Short(AQ) : list \in Short(AP)
  BY <1>10, ShortGrow
<1>12. Chunked(Bodies(n, last, d)) \subseteq Chunked(Bodies(n, c, d))
  BY <1>4 DEF Grows, Chunked
<1>13. Report(last) \subseteq Report(c)
  BY <1>4 DEF Grows
<1>a. ASSUME v.pc = "open"
      PROVE  res \in Failure \cup Exchangeds(m, d, c)
  <2>1. v.msg.k = "Exchange"
    BY <1>5, <1>a DEF Heard, Exchanges
  <2>2. res \in {Failed} \cup Replied(n, last, d)
    BY <1>1, <2>1 DEF Replies
  <2>3. PICK R, T : R = Received(G) /\ T = Received(P)
    OBVIOUS
  <2>4. PICK M : M = Passed(m, d)
    OBVIOUS
  <2>5. PICK BL, BC : BL = Chunked(Bodies(n, last, d)) /\ BC = Chunked(Bodies(n, c, d))
    OBVIOUS
  <2>6. Replied(n, last, d) =
          [k : {"Exchanged"}, have : Report(last), received : {None} \cup R,
           offer : {None} \cup BL, acks : Short(M), results : Short(AQ)]
    BY <1>1, <1>6, <1>9, <2>3, <2>4, <2>5 DEF Replied
  <2>7. Exchangeds(m, d, c) =
          [k : {"Exchanged"}, have : Report(c), received : {None} \cup T,
           offer : {None} \cup BC, acks : Short(M), results : Short(AP)]
    BY <1>1, <1>6, <1>9, <2>3, <2>4, <2>5 DEF Exchangeds
  <2>8. R \subseteq T /\ BL \subseteq BC
    BY <1>8, <1>12, <2>3, <2>5
  <2>9. Replied(n, last, d) \subseteq Exchangeds(m, d, c)
    BY <1>11, <1>13, <2>6, <2>7, <2>8
  <2> QED
    BY <2>2, <2>9 DEF Failure
<1>b. ASSUME v.pc = "work", v.push # None
      PROVE  res \in Received(Passed(Other(m), c))
  <2>1. v.msg.k = "Write"
    BY <1>5, <1>b DEF Heard, Writes
  <2>2. res \in Received(G)
    BY <1>1, <1>6, <2>1 DEF Replies
  <2> QED
    BY <1>1, <1>6, <1>8, <2>2
<1>c. ASSUME v.pc = "work", v.push = None
      PROVE  res \in Failure \cup Chunked(Bodies(Other(m), c, d))
  <2>1. v.msg.k = "Read"
    BY <1>5, <1>c DEF Heard, Reads
  <2>2. res \in {Failed} \cup Chunked(Bodies(n, last, d))
    BY <1>1, <2>1 DEF Replies
  <2> QED
    BY <1>1, <1>12, <2>2 DEF Failure
<1>d. ASSUME v.pc = "confirm"
      PROVE  res \in Lists(Passed(m, d))
  <2>1. v.msg.k = "Confirm"
    BY <1>5, <1>d DEF Heard, Confirms
  <2>2. res \in {Failed} \cup [k : {"All"}, list : Short(Passed(m, d))]
    BY <1>1, <2>1 DEF Replies
  <2> QED
    BY <2>2 DEF Lists, Failure
<1>e. ASSUME v.pc = "release"
      PROVE  res \in Lists(Answers(Passed(Other(m), c)))
  <2>1. v.msg.k = "Acknowledge"
    BY <1>5, <1>e DEF Heard, Acknowledges
  <2>2. res \in {Failed} \cup [k : {"All"}, list : Short(AQ)]
    BY <1>1, <1>6, <1>9, <2>1 DEF Replies
  <2>3. res \in Lists(AP)
    BY <1>11, <2>2 DEF Lists, Failure
  <2> QED
    BY <1>1, <1>6, <1>9, <2>3
<1> QED
  BY <1>a, <1>b, <1>c, <1>d, <1>e

\* What is done for a request, with the notices that follow it (answer_doc_transfer).
LEMMA ForKeeps ==
  ASSUME IInv, NEW m \in Machine, NEW d, d = disk[m], NEW e, e = disk[Other(m)],
         NEW req \in Requests(Other(m), e, d), NEW job, job = For(m, req),
         NEW c, c = Noticed(job.last), NEW D, D = Now(disk, m, c)
  PROVE  /\ Agree(D, visit, late) /\ D[m] = c /\ D[Other(m)] = e
         /\ Moves(m, d, e, job) /\ Sound(m, job.last, e)
         /\ job.res \in Replies(m, job.last, e, req)
<1>1. Agree(disk, visit, late)
  BY DEF IInv
<1>2. Other(m) \in Machine /\ Other(Other(m)) = m
  BY TwoMachines
<1>3. Sound(m, d, e) /\ Sound(Other(m), e, d)
  BY <1>1, <1>2 DEF Agree
<1>4. Moves(m, d, e, job)
  BY <1>3, ForSteps
<1>5. job.res \in Replies(m, job.last, e, req)
  BY <1>3, ForSteps
<1>6. PICK last : last = job.last /\ last \in job.cuts
  BY <1>4 DEF Moves, Steps
<1>7. Sound(m, last, e) /\ Grows(m, d, e, last)
  BY <1>3, <1>4, <1>6, MovesGrow
<1>8. Sound(m, c, e) /\ Grows(m, last, e, c)
  BY <1>6, <1>7, NoticedGrows
<1>9. Shape(d) /\ Shape(last) /\ Shape(c)
  BY <1>3, <1>7, <1>8 DEF Sound
<1>10. Grows(m, d, e, c)
  BY <1>7, <1>8, <1>9, GrowsOn
<1>11. PICK B, V, L : B = disk /\ V = visit /\ L = late
  OBVIOUS
<1>12. /\ Agree(B, V, L) /\ d = B[m] /\ e = B[Other(m)]
       /\ Sound(m, c, e) /\ Grows(m, d, e, c) /\ D = Now(B, m, c)
  BY <1>1, <1>8, <1>10, <1>11
<1>13. Agree(D, V, L)
  BY <1>12, DiskKeeps
<1>14. D[m] = c /\ D[Other(m)] = e
  BY <1>12, DiskKeeps
<1> QED
  BY <1>4, <1>5, <1>6, <1>7, <1>11, <1>13, <1>14

\* The answer reaches whoever still waits for it (answer_doc_transfer).
LEMMA ServeKeeps ==
  ASSUME IInv, NEW m \in Machine, Serve(m)
  PROVE  IInv'
<1>1. PICK n \in Machine : n = Other(m) /\ Other(n) = m
  BY TwoMachines
<1>2. PICK d, e, v, req, job, c, D :
        /\ d = disk[m] /\ e = disk[n] /\ v = visit[m] /\ req = v.msg /\ job = For(n, req)
        /\ c = Noticed(job.last) /\ D = Now(disk, n, c)
  OBVIOUS
<1>3. v.wait = "asked" /\ VisitSound(m, v, d, e)
  BY <1>1, <1>2 DEF Serve, IInv, Agree
<1>4. req \in Requests(m, d, e)
  BY <1>2, <1>3, AskedRequest
<1>5. e = disk[n] /\ d = disk[Other(n)] /\ req \in Requests(Other(n), d, e)
  BY <1>1, <1>2, <1>4
<1>6. Agree(D, visit, late)
  BY <1>2, <1>5, ForKeeps
<1>7. D[n] = c /\ D[Other(n)] = d
  BY <1>2, <1>5, ForKeeps
<1>8. Sound(n, job.last, d)
  BY <1>2, <1>5, ForKeeps
<1>9. job.res \in Replies(n, job.last, d, req)
  BY <1>2, <1>5, ForKeeps
<1>10. VisitSound(m, v, d, c)
  BY <1>1, <1>2, <1>6, <1>7 DEF Agree
<1>11. PICK last, res : last = job.last /\ res = job.res
  OBVIOUS
<1>12. /\ Sound(Other(m), last, d) /\ c = Noticed(last) /\ VisitSound(m, v, d, c)
       /\ v.wait = "asked" /\ res \in Replies(Other(m), last, d, v.msg)
  BY <1>1, <1>2, <1>3, <1>8, <1>9, <1>10, <1>11
<1>13. PICK w : w = [v EXCEPT !.wait = "heard", !.msg = res]
  OBVIOUS
<1>14. /\ w = [pc |-> w.pc, wait |-> w.wait, have |-> w.have, push |-> w.push, at |-> w.at,
               pull |-> w.pull, msg |-> w.msg, acks |-> w.acks]
       /\ w.pc = v.pc /\ w.wait = "heard" /\ w.have = v.have /\ w.push = v.push /\ w.at = v.at
       /\ w.pull = v.pull /\ w.msg = res /\ w.acks = v.acks
  <2>1. w = [pc |-> v.pc, wait |-> "heard", have |-> v.have, push |-> v.push, at |-> v.at,
             pull |-> v.pull, msg |-> res, acks |-> v.acks]
    BY <1>10, <1>13 DEF VisitSound
  <2> QED
    BY <2>1
<1>15. Heard(m, w, d, c)
  <2>1. v.pc = "open" => res \in Failure \cup Exchangeds(m, d, c)
    BY <1>12, RepliedHeard
  <2>2. v.pc = "work" /\ v.push # None => res \in Received(Passed(Other(m), c))
    BY <1>12, RepliedHeard
  <2>3. v.pc = "work" /\ v.push = None => res \in Failure \cup Chunked(Bodies(Other(m), c, d))
    BY <1>12, RepliedHeard
  <2>4. v.pc = "confirm" => res \in Lists(Passed(m, d))
    BY <1>12, RepliedHeard
  <2>5. v.pc = "release" => res \in Lists(Answers(Passed(Other(m), c)))
    BY <1>12, RepliedHeard
  <2>6. v.pc \notin {"answers", "push", "pull", "idle", "receipts"}
    BY <1>3, <1>10 DEF VisitSound, Heard
  <2> QED
    BY <1>14, <2>1, <2>2, <2>3, <2>4, <2>5, <2>6 DEF Heard
<1>16. VisitSound(m, w, d, c)
  BY <1>10, <1>14, <1>15 DEF VisitSound
<1>17. PICK W, V, L : W = Now(visit, m, w) /\ V = visit /\ L = late
  OBVIOUS
<1>18. VisitSound(m, w, D[m], D[Other(m)])
  BY <1>1, <1>7, <1>16
<1>19. Agree(D, W, L)
  BY <1>6, <1>17, <1>18, VisitKeeps
<1>20. /\ disk' = D /\ world' = world /\ late' = late /\ faults' = faults
       /\ visit' = [visit EXCEPT ![m].wait = "heard", ![m].msg = res]
  BY <1>1, <1>2, <1>11 DEF Serve, Now
<1>21. visit' = W
  <2>1. visit = [x \in Machine |-> visit[x]]
    BY DEF IInv, Agree
  <2>2. [visit EXCEPT ![m].wait = "heard", ![m].msg = res] = [visit EXCEPT ![m] = w]
    BY <1>2, <1>13, <2>1
  <2> QED
    BY <1>17, <1>20, <2>2 DEF Now
<1>22. Agree(disk', visit', late')
  BY <1>17, <1>19, <1>20, <1>21
<1> QED
  BY <1>20, <1>22 DEF IInv

\* Visits that end leave the invariant as it is (GiveUp, Crash).
LEMMA EndsKeep ==
  ASSUME NEW D, NEW V, NEW L, Agree(D, V, L), NEW W, W = [x \in Machine |-> W[x]],
         \A x \in Machine : W[x] \in {V[x], Idle, End(V[x])}
  PROVE  Agree(D, W, L)
<1>1. ASSUME NEW x \in Machine
      PROVE  VisitSound(x, W[x], D[x], D[Other(x)])
  <2>1. PICK v, d, e, idle, end : /\ v = V[x] /\ d = D[x] /\ e = D[Other(x)]
                                  /\ idle = Idle /\ end = End(v)
    OBVIOUS
  <2>2. VisitSound(x, v, d, e)
    BY <1>1, <2>1 DEF Agree
  <2>3. VisitSound(x, idle, d, e)
    BY <2>1, EndSound
  <2>4. VisitSound(x, end, d, e)
    BY <2>1, EndSound
  <2> QED
    BY <1>1, <2>1, <2>2, <2>3, <2>4
<1> QED
  BY <1>1 DEF Agree

\* What a machine waited for is a request that may still be served (Request).
LEMMA RequestKeeps ==
  ASSUME NEW D, NEW L, Agree(D, visit, L), NEW m \in Machine, NEW q \in Request(m)
  PROVE  /\ q = [from |-> q.from, req |-> q.req] /\ q.from = m /\ q.req = visit[m].msg
         /\ q.req \in Requests(m, D[m], D[Other(m)])
<1>1. visit[m].wait = "asked" /\ q = [from |-> m, req |-> visit[m].msg]
  BY Zenon DEF Request
<1>2. PICK v : v = visit[m]
  OBVIOUS
<1>3. VisitSound(m, v, D[m], D[Other(m)]) /\ v.wait = "asked"
  BY <1>1, <1>2 DEF Agree
<1>4. v.msg \in Requests(m, D[m], D[Other(m)])
  BY <1>3, AskedRequest
<1> QED
  BY <1>1, <1>2, <1>4

\* The count of faults stays in its bound (world).
LEMMA FaultCounts ==
  ASSUME IInv, faults < world.faults
  PROVE  faults + 1 \in 0..world.faults
<1>1. world.faults \in Nat
  BY TransferAssumption DEF IInv
<1> QED
  BY <1>1 DEF IInv

\* Whoever gives up leaves its request behind (GiveUp).
LEMMA GiveUpKeeps ==
  ASSUME IInv, NEW m \in Machine, GiveUp(m)
  PROVE  IInv'
<1>1. Agree(disk, visit, late)
  BY DEF IInv
<1>2. /\ world' = world /\ disk' = disk /\ faults' = faults + 1 /\ faults < world.faults
      /\ late' = late \cup Request(m)
  BY DEF GiveUp
<1>3. visit = [x \in Machine |-> visit[x]]
  BY <1>1 DEF Agree
<1>4. PICK end, idle : end = End(visit[m]) /\ idle = Idle
  OBVIOUS
<1>5. visit' = [visit EXCEPT ![m] = idle] \/ visit' = [visit EXCEPT ![m] = end]
  BY <1>4 DEF GiveUp
<1>6. PICK D, V, L, W, M : /\ D = disk /\ V = visit /\ L = late /\ W = visit'
                           /\ M = late \cup Request(m)
  OBVIOUS
<1>7. /\ Agree(D, V, L) /\ W = [x \in Machine |-> W[x]]
      /\ \A x \in Machine : W[x] \in {V[x], Idle, End(V[x])}
  BY <1>1, <1>3, <1>4, <1>5, <1>6
<1>8. Agree(D, W, L)
  BY <1>7, EndsKeep
<1>9. ASSUME NEW q \in M
      PROVE  \/ q \in L
             \/ /\ q = [from |-> q.from, req |-> q.req] /\ q.from \in Machine
                /\ q.req \in Requests(q.from, D[q.from], D[Other(q.from)])
  <2>1. CASE q \in Request(m)
    <3>1. /\ q = [from |-> q.from, req |-> q.req] /\ q.from = m
          /\ q.req \in Requests(m, D[m], D[Other(m)])
      BY <1>6, <1>7, <2>1, RequestKeeps
    <3> QED
      BY <3>1
  <2> QED
    BY <1>6, <1>9, <2>1
<1>10. Agree(D, W, M)
  BY <1>8, <1>9, LateKeeps
<1>11. Agree(disk', visit', late')
  BY <1>2, <1>6, <1>10
<1> QED
  BY <1>2, <1>11, FaultCounts DEF IInv

\* A request whose asker is gone does what it asks all the same (ServeLate).
LEMMA ServeLateKeeps ==
  ASSUME IInv, NEW q \in late, ServeLate(q)
  PROVE  IInv'
<1>1. /\ q.from \in Machine /\ q.req \in Requests(q.from, disk[q.from], disk[Other(q.from)])
  BY DEF IInv, Agree
<1>2. PICK n \in Machine : n = Other(q.from) /\ Other(n) = q.from
  BY <1>1, TwoMachines
<1>3. PICK d, e, req, job, c, D :
        /\ d = disk[n] /\ e = disk[Other(n)] /\ req = q.req /\ job = For(n, req)
        /\ c = Noticed(job.last) /\ D = Now(disk, n, c)
  OBVIOUS
<1>4. req \in Requests(Other(n), e, d)
  BY <1>1, <1>2, <1>3
<1>5. Agree(D, visit, late)
  BY <1>3, <1>4, ForKeeps
<1>6. PICK V, L, K : V = visit /\ L = late /\ K = late \ {q}
  OBVIOUS
<1>7. Agree(D, V, L) /\ \A r \in K : r \in L
  BY <1>5, <1>6
<1>8. Agree(D, V, K)
  BY <1>7, LateKeeps
<1>9. /\ disk' = D /\ visit' = visit /\ late' = K /\ world' = world /\ faults' = faults
  BY <1>2, <1>3, <1>6 DEF ServeLate, Now
<1>10. Agree(disk', visit', late')
  BY <1>6, <1>8, <1>9
<1> QED
  BY <1>9, <1>10 DEF IInv

\* Where a stop may leave a disk: any cut of any step it may have interrupted.
LEMMA CutKeeps ==
  ASSUME IInv, NEW m \in Machine, NEW d, d = disk[m], NEW e, e = disk[Other(m)],
         NEW job, Moves(m, d, e, job), NEW c \in job.cuts, NEW D, D = Now(disk, m, c)
  PROVE  Agree(D, visit, late) /\ D[m] = c /\ D[Other(m)] = e
<1>1. Agree(disk, visit, late) /\ Sound(m, d, e)
  BY DEF IInv, Agree
<1>2. Sound(m, c, e) /\ Grows(m, d, e, c)
  BY <1>1, MovesGrow
<1>3. PICK B, V, L : B = disk /\ V = visit /\ L = late
  OBVIOUS
<1>4. /\ Agree(B, V, L) /\ d = B[m] /\ e = B[Other(m)]
      /\ Sound(m, c, e) /\ Grows(m, d, e, c) /\ D = Now(B, m, c)
  BY <1>1, <1>2, <1>3
<1>5. Agree(D, V, L)
  BY <1>4, DiskKeeps
<1>6. D[m] = c /\ D[Other(m)] = e
  BY <1>4, DiskKeeps
<1> QED
  BY <1>3, <1>5, <1>6

\* The steps a stop may interrupt: the visit's own, or one for a request of the
\* other machine, which may have given up on it (Crash).
LEMMA CrashJob ==
  ASSUME IInv, NEW m \in Machine, NEW d, d = disk[m], NEW e, e = disk[Other(m)],
         NEW job \in {Own(m)} \cup {For(m, q.req) : q \in {q \in late : q.from # m}}
                              \cup {For(m, q.req) : q \in Request(Other(m))}
  PROVE  Moves(m, d, e, job)
<1>1. PICK n \in Machine : n = Other(m) /\ Other(n) = m /\ \A x \in Machine : x = m \/ x = n
  BY TwoMachines
<1>2. Agree(disk, visit, late)
  BY DEF IInv
<1>3. Sound(m, d, e) /\ Sound(Other(m), e, d)
  BY <1>1, <1>2 DEF Agree
<1>a. CASE job = Own(m)
  <2>1. PICK v : v = visit[m]
    OBVIOUS
  <2>2. VisitSound(m, v, d, e)
    BY <1>2, <2>1 DEF Agree
  <2> QED
    BY <1>3, <1>a, <2>1, <2>2, OwnSteps
<1>b. ASSUME NEW q \in late, q.from # m, job = For(m, q.req)
      PROVE  Moves(m, d, e, job)
  <2>1. q.from = n /\ q.req \in Requests(n, disk[n], disk[Other(n)])
    BY <1>1, <1>2, <1>b DEF Agree
  <2>2. PICK req : req = q.req
    OBVIOUS
  <2>3. req \in Requests(Other(m), e, d)
    BY <1>1, <2>1, <2>2
  <2> QED
    BY <1>3, <1>b, <2>2, <2>3, ForSteps
<1>c. ASSUME NEW q \in Request(Other(m)), job = For(m, q.req)
      PROVE  Moves(m, d, e, job)
  <2>1. PICK D, L : D = disk /\ L = late
    OBVIOUS
  <2>2. Agree(D, visit, L) /\ q \in Request(n)
    BY <1>1, <1>2, <1>c, <2>1
  <2>3. q.req \in Requests(n, D[n], D[Other(n)])
    BY <2>2, RequestKeeps
  <2>4. PICK req : req = q.req
    OBVIOUS
  <2>5. req \in Requests(Other(m), e, d)
    BY <1>1, <2>1, <2>3, <2>4
  <2> QED
    BY <1>3, <1>c, <2>4, <2>5, ForSteps
<1> QED
  BY <1>a, <1>b, <1>c

\* A stop leaves a cut, ends the visits that depended on the machine, and takes
\* the requests to it with it (Crash).
LEMMA CrashKeeps ==
  ASSUME IInv, NEW m \in Machine, Crash(m)
  PROVE  IInv'
<1>1. PICK d, e : d = disk[m] /\ e = disk[Other(m)]
  OBVIOUS
<1>2. PICK job \in {Own(m)} \cup {For(m, q.req) : q \in {q \in late : q.from # m}}
                            \cup {For(m, q.req) : q \in Request(Other(m))} :
        \E c \in job.cuts : disk' = [disk EXCEPT ![m] = c]
  BY DEF Crash
<1>3. PICK c \in job.cuts : disk' = [disk EXCEPT ![m] = c]
  BY <1>2
<1>4. Moves(m, d, e, job)
  BY <1>1, <1>2, CrashJob
<1>5. PICK D : D = Now(disk, m, c)
  OBVIOUS
<1>6. Agree(D, visit, late)
  BY <1>1, <1>3, <1>4, <1>5, CutKeeps
<1>7. PICK V, L, W, M :
        /\ V = visit /\ L = late
        /\ W = [x \in Machine |-> IF x = m \/ visit[x].wait = "asked" THEN Idle ELSE visit[x]]
        /\ M = {q \in late : q.from = m} \cup Request(m)
  OBVIOUS
<1>8. /\ disk' = D /\ visit' = W /\ late' = M /\ world' = world
      /\ faults < world.faults /\ faults' = faults + 1
  BY <1>3, <1>5, <1>7 DEF Crash, Now
<1>9. /\ Agree(D, V, L) /\ W = [x \in Machine |-> W[x]]
      /\ \A x \in Machine : W[x] \in {V[x], Idle, End(V[x])}
  BY <1>6, <1>7
<1>10. Agree(D, W, L)
  BY <1>9, EndsKeep
<1>11. ASSUME NEW q \in M
       PROVE  \/ q \in L
              \/ /\ q = [from |-> q.from, req |-> q.req] /\ q.from \in Machine
                 /\ q.req \in Requests(q.from, D[q.from], D[Other(q.from)])
  <2>1. CASE q \in Request(m)
    <3>1. Agree(D, visit, L)
      BY <1>7, <1>9
    <3>2. /\ q = [from |-> q.from, req |-> q.req] /\ q.from = m
          /\ q.req \in Requests(m, D[m], D[Other(m)])
      BY <2>1, <3>1, RequestKeeps
    <3> QED
      BY <3>2
  <2> QED
    BY <1>7, <1>11, <2>1
<1>12. Agree(D, W, M)
  BY <1>10, <1>11, LateKeeps
<1>13. Agree(disk', visit', late')
  BY <1>8, <1>12
<1> QED
  BY <1>8, <1>13, FaultCounts DEF IInv

\* Somebody changes the document (Edit).
LEMMA EditKeeps ==
  ASSUME IInv, NEW m \in Machine, Edit(m)
  PROVE  /\ IInv' /\ disk'[m].epoch = disk[m].epoch
         /\ disk'[m].in = disk[m].in /\ disk'[m].out = disk[m].out
         /\ disk'[m].ver = [disk[m].ver EXCEPT ![m] = @ + 1]
         /\ disk'[Other(m)] = disk[Other(m)]
<1>1. PICK d, e, ver : d = disk[m] /\ e = disk[Other(m)] /\ ver = [d.ver EXCEPT ![m] = @ + 1]
  OBVIOUS
<1>2. PICK c, D : c = [d EXCEPT !.ver = ver] /\ D = Now(disk, m, c)
  OBVIOUS
<1>3. Agree(disk, visit, late) /\ Sound(m, d, e) /\ disk = [x \in Machine |-> disk[x]]
  BY <1>1 DEF IInv, Agree
<1>4. /\ disk' = D /\ visit' = visit /\ late' = late /\ world' = world /\ faults' = faults
  BY <1>1, <1>2, <1>3 DEF Edit, Now
<1>5. Sound(m, c, e)
  BY <1>1, <1>2, <1>3, EditGrows
<1>6. Grows(m, d, e, c)
  BY <1>1, <1>2, <1>3, EditGrows
<1>7. c.epoch = d.epoch /\ c.in = d.in /\ c.out = d.out /\ c.ver = ver
  BY <1>1, <1>2, <1>3, EditGrows
<1>8. PICK B, V, L : B = disk /\ V = visit /\ L = late
  OBVIOUS
<1>9. /\ Agree(B, V, L) /\ d = B[m] /\ e = B[Other(m)]
      /\ Sound(m, c, e) /\ Grows(m, d, e, c) /\ D = Now(B, m, c)
  BY <1>1, <1>2, <1>3, <1>5, <1>6, <1>8
<1>10. Agree(D, V, L)
  BY <1>9, DiskKeeps
<1>11. D[m] = c /\ D[Other(m)] = e
  BY <1>9, DiskKeeps
<1>12. Agree(disk', visit', late')
  BY <1>4, <1>8, <1>10
<1> QED
  BY <1>1, <1>4, <1>7, <1>11, <1>12 DEF IInv

\* A copy is rebuilt in the next epoch (Reseed).
LEMMA ReseedKeeps ==
  ASSUME IInv, NEW m \in Machine, Reseed(m)
  PROVE  /\ IInv' /\ disk[m].epoch = 0 /\ disk'[m].epoch = 1
         /\ disk'[m].in = disk[m].in /\ disk'[m].out = disk[m].out
         /\ disk'[m].ver = [x \in Machine |->
              IF x = m /\ \E y \in Machine : disk[m].ver[y] > 0 THEN 1 ELSE 0]
         /\ disk'[Other(m)] = disk[Other(m)]
<1>1. PICK d, e, ver :
        /\ d = disk[m] /\ e = disk[Other(m)]
        /\ ver = [x \in Machine |->
                    IF x = m /\ \E y \in Machine : disk[m].ver[y] > 0 THEN 1 ELSE 0]
  OBVIOUS
<1>2. PICK c, D : c = [d EXCEPT !.epoch = 1, !.ver = ver] /\ D = Now(disk, m, c)
  OBVIOUS
<1>3. Agree(disk, visit, late) /\ Sound(m, d, e) /\ disk = [x \in Machine |-> disk[x]]
  BY <1>1 DEF IInv, Agree
<1>4. /\ disk' = D /\ visit' = visit /\ late' = late /\ world' = world /\ faults' = faults
      /\ d.epoch = 0
  BY <1>1, <1>2, <1>3 DEF Reseed, Now
<1>5. ver \in Version
  BY <1>1 DEF Version
<1>6. Sound(m, c, e)
  BY <1>2, <1>3, <1>4, <1>5, ReseedGrows
<1>7. Grows(m, d, e, c)
  BY <1>2, <1>3, <1>4, <1>5, ReseedGrows
<1>8. c.epoch = 1 /\ c.in = d.in /\ c.out = d.out /\ c.ver = ver
  <2>1. d = [out |-> d.out, in |-> d.in, blob |-> d.blob, ver |-> d.ver, epoch |-> d.epoch]
    BY <1>3 DEF Sound, Shape
  <2>2. c = [out |-> d.out, in |-> d.in, blob |-> d.blob, ver |-> ver, epoch |-> 1]
    BY <1>2, <2>1
  <2> QED
    BY <2>2
<1>9. PICK B, V, L : B = disk /\ V = visit /\ L = late
  OBVIOUS
<1>10. /\ Agree(B, V, L) /\ d = B[m] /\ e = B[Other(m)]
       /\ Sound(m, c, e) /\ Grows(m, d, e, c) /\ D = Now(B, m, c)
  BY <1>1, <1>2, <1>3, <1>6, <1>7, <1>9
<1>11. Agree(D, V, L)
  BY <1>10, DiskKeeps
<1>12. D[m] = c /\ D[Other(m)] = e
  BY <1>10, DiskKeeps
<1>13. Agree(disk', visit', late')
  BY <1>4, <1>9, <1>11
<1> QED
  BY <1>1, <1>4, <1>8, <1>12, <1>13 DEF IInv

-----------------------------------------------------------------------------
(* The invariant, and what follows from it.                                *)

\* At first there is nothing: an empty document and an empty journal (Init).
LEMMA InitSound ==
  ASSUME Init
  PROVE  IInv
<1>1. PICK none, blob : none = {} /\ blob = <<>>
  OBVIOUS
<1>2. PICK ver : ver = [x \in Machine |-> 0]
  OBVIOUS
<1>3. PICK d : d = [out |-> none, in |-> none, blob |-> blob, ver |-> ver, epoch |-> 0]
  OBVIOUS
<1>4. /\ d.out = none /\ d.in = none /\ d.blob = blob /\ d.ver = ver /\ d.epoch = 0
      /\ d = [out |-> d.out, in |-> d.in, blob |-> d.blob, ver |-> d.ver, epoch |-> d.epoch]
  BY <1>3
<1>5. disk = [m \in Machine |-> d] /\ visit = [m \in Machine |-> Idle] /\ late = {}
  BY <1>1, <1>2, <1>3 DEF Init
<1>6. Shape(d)
  <2>1. IsFiniteSet(none) /\ Cardinality(none) = 0
    BY <1>1, FS_EmptySet
  <2>2. ver \in Version
    BY <1>2 DEF Version
  <2>3. Valid(d)
    BY <1>1, <1>4, <2>1, TransferAssumption DEF Valid
  <2> QED
    BY <1>4, <2>1, <2>2, <2>3 DEF Shape
<1>7. ASSUME NEW m \in Machine
      PROVE  Sound(m, d, d)
  <2>1. OutSound(m, d, d) /\ InSound(m, d)
    BY <1>1, <1>4 DEF OutSound, InSound
  <2>2. DOMAIN blob = {}
    BY <1>1
  <2>3. BlobSound(m, d)
    BY <1>4, <2>2 DEF BlobSound
  <2> QED
    BY <1>6, <2>1, <2>3 DEF Sound
<1>8. \A m \in Machine : Other(m) \in Machine
  BY TwoMachines
<1>9. PICK idle : idle = Idle
  OBVIOUS
<1>10. \A m \in Machine : VisitSound(m, idle, d, d)
  BY <1>9, EndSound
<1>11. Agree(disk, visit, late)
  BY <1>5, <1>7, <1>8, <1>9, <1>10 DEF Agree
<1>12. world \in World /\ faults \in 0..world.faults
  BY TransferAssumption DEF Init
<1> QED
  BY <1>11, <1>12 DEF IInv

\* Every transition keeps the invariant (Next).
LEMMA NextKeeps ==
  ASSUME IInv, [Next]_vars
  PROVE  IInv'
<1>1. CASE UNCHANGED vars
  BY <1>1 DEF vars, IInv
<1>2. ASSUME NEW m \in Machine, Visit(m)
      PROVE  IInv'
  <2>1. CASE OpenExchange(m)
    BY <2>1, OpenExchangeKeeps
  <2>2. CASE TakeExchanged(m)
    BY <2>2, TakeExchangedKeeps
  <2>3. CASE TakeAnswers(m)
    BY <2>3, TakeAnswersKeeps
  <2>4. CASE TakeReceived(m)
    BY <2>4, TakeReceivedKeeps
  <2>5. CASE TakeOffer(m)
    BY <2>5, TakeOfferKeeps
  <2>6. CASE Work(m)
    BY <2>6, WorkKeeps
  <2>7. CASE TakeWork(m)
    BY <2>7, TakeWorkKeeps
  <2>8. CASE Receipts(m)
    BY <2>8, ReceiptsKeeps
  <2>9. CASE TakeConfirmed(m)
    BY <2>9, TakeConfirmedKeeps
  <2>10. CASE TakeReleased(m)
    BY <2>10, TakeReleasedKeeps
  <2> QED
    BY <1>2, <2>1, <2>2, <2>3, <2>4, <2>5, <2>6, <2>7, <2>8, <2>9, <2>10 DEF Visit
<1>3. ASSUME NEW m \in Machine, StartVisit(m)
      PROVE  IInv'
  BY <1>3, StartVisitKeeps
<1>4. ASSUME NEW m \in Machine, Serve(m)
      PROVE  IInv'
  BY <1>4, ServeKeeps
<1>5. ASSUME NEW m \in Machine, GiveUp(m)
      PROVE  IInv'
  BY <1>5, GiveUpKeeps
<1>6. ASSUME NEW m \in Machine, Crash(m)
      PROVE  IInv'
  BY <1>6, CrashKeeps
<1>7. ASSUME NEW m \in Machine, Edit(m)
      PROVE  IInv'
  BY <1>7, EditKeeps
<1>8. ASSUME NEW m \in Machine, Reseed(m)
      PROVE  IInv'
  BY <1>8, ReseedKeeps
<1>9. ASSUME NEW q \in late, ServeLate(q)
      PROVE  IInv'
  BY <1>9, ServeLateKeeps
<1> QED
  BY <1>1, <1>2, <1>3, <1>4, <1>5, <1>6, <1>7, <1>8, <1>9 DEF Next

\* The disks, the visits and the requests under way always agree: what the
\* journal writes at every cut, and what is said of it, is sound
\* (doc_transfer_state.rs, link_doc_transfer.rs).
THEOREM JournalsAgree == Spec => []IInv
<1>1. Init => IInv
  BY InitSound
<1>2. IInv /\ [Next]_vars => IInv'
  BY NextKeeps
<1> QED
  BY <1>1, <1>2, PTL DEF Spec

\* Records, bodies and visits are of their kinds, and a journal fits its format
\* (validate_records).
THEOREM TypeCorrect == Spec => []TypeOK
<1>1. IInv => TypeOK
  <2> SUFFICES ASSUME IInv, NEW m \in Machine
               PROVE  LET d == disk[m]
                      IN  /\ Valid(d) /\ d.epoch \in {0, 1} /\ d.ver \in [Machine -> Nat]
                          /\ \A r \in d.out : r.st \in {"Preparing", "Ready", "Accepted", "NeedAck"}
                                              /\ r.man.src = m
                          /\ \A r \in d.in : r.st \in {"Receiving", "Importing", "Complete", "Cleanup"}
                                             /\ r.man.dst = m
                          /\ \A man \in DOMAIN d.blob : d.blob[man] \in 0..Chunks
                          /\ visit[m].wait \in {"no", "asked", "heard"}
                          /\ visit[m].at \in 0..(Chunks - 1)
    BY DEF TypeOK, IInv
  <2>1. PICK d, e, v : d = disk[m] /\ e = disk[Other(m)] /\ v = visit[m]
    OBVIOUS
  <2>2. Sound(m, d, e) /\ VisitSound(m, v, d, e)
    BY <2>1 DEF IInv, Agree
  <2>3. Valid(d) /\ d.epoch \in {0, 1} /\ d.ver \in [Machine -> Nat]
    BY <2>2 DEF Sound, Shape, Version
  <2>4. \A r \in d.out : r.st \in {"Preparing", "Ready", "Accepted", "NeedAck"} /\ r.man.src = m
    BY <2>2 DEF Sound, OutSound, OutRecords, From
  <2>5. \A r \in d.in : r.st \in {"Receiving", "Importing", "Complete", "Cleanup"} /\ r.man.dst = m
    BY <2>2, InKinds DEF Sound, InSound, To
  <2>6. \A man \in DOMAIN d.blob : d.blob[man] \in 0..Chunks
    BY <2>2 DEF Sound, BlobSound
  <2>7. v.wait \in {"no", "asked", "heard"} /\ v.at \in 0..(Chunks - 1)
    BY <2>2 DEF VisitSound
  <2> QED
    BY <2>1, <2>3, <2>4, <2>5, <2>6, <2>7
<1> QED
  BY <1>1, JournalsAgree, PTL

\* No stop, at no cut, leaves a staged body that no record names: the journal
\* can always be opened again (reconcile_references).
THEOREM BodiesAreReferenced == Spec => []StagesReferenced
<1>1. IInv => StagesReferenced
  <2> SUFFICES ASSUME IInv, NEW m \in Machine
               PROVE  Referenced(disk[m])
    BY DEF StagesReferenced
  <2>1. BlobSound(m, disk[m])
    BY DEF IInv, Agree, Sound
  <2> QED
    BY <2>1 DEF BlobSound, Owned, Referenced
<1> QED
  BY <1>1, JournalsAgree, PTL

\* A receipt on any disk is true of the recipient's copy, whatever was lost or
\* cut short (completed, accept_checked, validate_completion).
THEOREM ReceiptsAreTruthful == Spec => []ReceiptsTruthful
<1>1. IInv => ReceiptsTruthful
  <2> SUFFICES ASSUME IInv, NEW m \in Machine, NEW p \in Receipts_of(m)
               PROVE  /\ Covers(p.ver, p.man.target)
                      /\ disk[p.man.dst].epoch = p.man.epoch => Covers(disk[p.man.dst].ver, p.ver)
    BY DEF ReceiptsTruthful
  <2>1. PICK r \in disk[m].out \cup disk[m].in : r.proof # None /\ p = r.proof
    BY DEF Receipts_of
  <2>2. PICK n \in Machine : n = Other(m) /\ Other(n) = m
    BY TwoMachines
  <2>3. PICK d, e : d = disk[m] /\ e = disk[n]
    OBVIOUS
  <2>4. Sound(m, d, e)
    BY <2>2, <2>3 DEF IInv, Agree
  <2>5. CASE r \in d.out
    <3>1. r \in OutRecords(m) /\ (~Active(r) => r.proof \in Passed(Other(m), e))
      BY <2>4, <2>5 DEF Sound, OutSound
    <3>2. ~Active(r)
      BY <2>1, <3>1 DEF OutRecords, Active
    <3>3. p \in Truths(n, e)
      BY <2>1, <2>2, <3>1, <3>2 DEF Passed, Given
    <3> QED
      BY <2>3, <3>3 DEF Truths, True, Grounded, To
  <2>6. CASE r \in d.in
    <3>1. r \in InRecords(m)
      BY <2>4, <2>6 DEF Sound, InSound
    <3>2. r.st \in {"Complete", "Cleanup"}
      BY <2>1, <3>1, InKinds
    <3>3. p \in Truths(m, d)
      BY <2>1, <2>4, <2>6, <3>2 DEF Sound, InSound
    <3> QED
      BY <2>3, <3>3 DEF Truths, True, Grounded, To
  <2> QED
    BY <2>1, <2>3, <2>5, <2>6
<1> QED
  BY <1>1, JournalsAgree, PTL

-----------------------------------------------------------------------------
(* What a transition may do to the disks.                                  *)

\* m's disk becomes c: a cut of a step, or its end with the notices delivered.
Carries(m, c) ==
  \E job, b : /\ Moves(m, disk[m], disk[Other(m)], job) /\ b \in job.cuts
              /\ c \in {b, Noticed(b)}

\* A visit's step ends with its notices (Step).
LEMMA StepCarries ==
  ASSUME IInv, NEW m \in Machine, NEW v, NEW job, job = Own(m), Step(m, job, v)
  PROVE  \E c : disk' = Now(disk, m, c) /\ Carries(m, c)
<1>1. PICK d, e, w, c, D, last :
        /\ d = disk[m] /\ e = disk[Other(m)] /\ w = visit[m]
        /\ last = job.last /\ c = Noticed(last) /\ D = Now(disk, m, c)
  OBVIOUS
<1>2. Moves(m, d, e, job)
  BY <1>1, StepKeeps
<1>3. last \in job.cuts
  BY <1>1, <1>2 DEF Moves, Steps
<1>4. Carries(m, c)
  BY <1>1, <1>2, <1>3 DEF Carries
<1>5. disk' = Now(disk, m, c)
  BY <1>1 DEF Step, Now
<1> QED
  BY <1>4, <1>5

\* So does a step for a request (Serve, ServeLate).
LEMMA ForCarries ==
  ASSUME IInv, NEW m \in Machine, NEW d, d = disk[m], NEW e, e = disk[Other(m)],
         NEW req \in Requests(Other(m), e, d), NEW job, job = For(m, req)
  PROVE  Carries(m, Noticed(job.last))
<1>1. PICK c, D, last : last = job.last /\ c = Noticed(last) /\ D = Now(disk, m, c)
  OBVIOUS
<1>2. Moves(m, d, e, job)
  BY <1>1, ForKeeps
<1>3. last \in job.cuts
  BY <1>1, <1>2 DEF Moves, Steps
<1> QED
  BY <1>1, <1>2, <1>3 DEF Carries

\* Every transition leaves the disks, edits or rebuilds a copy, or carries one
\* machine's disk on (Next).
LEMMA NextCarries ==
  ASSUME IInv, [Next]_vars
  PROVE  \/ disk' = disk
         \/ \E m \in Machine : Edit(m)
         \/ \E m \in Machine : Reseed(m)
         \/ \E m \in Machine : \E c : disk' = Now(disk, m, c) /\ Carries(m, c)
<1>1. CASE UNCHANGED vars
  BY <1>1 DEF vars
<1>2. ASSUME NEW m \in Machine, Visit(m) \/ StartVisit(m)
      PROVE  \E c : disk' = Now(disk, m, c) /\ Carries(m, c)
  <2>1. PICK job : job = Own(m)
    OBVIOUS
  <2>2. \E v : Step(m, job, v)
    <3>1. CASE StartVisit(m)
      BY <2>1, <3>1 DEF StartVisit
    <3>2. CASE OpenExchange(m)
      BY <2>1, <3>2 DEF OpenExchange
    <3>3. CASE TakeExchanged(m)
      BY <2>1, <3>3 DEF TakeExchanged
    <3>4. CASE TakeAnswers(m)
      BY <2>1, <3>4 DEF TakeAnswers
    <3>5. CASE TakeReceived(m)
      BY <2>1, <3>5 DEF TakeReceived
    <3>6. CASE TakeOffer(m)
      BY <2>1, <3>6 DEF TakeOffer
    <3>7. CASE Work(m)
      BY <2>1, <3>7 DEF Work
    <3>8. CASE TakeWork(m)
      BY <2>1, <3>8 DEF TakeWork
    <3>9. CASE Receipts(m)
      BY <2>1, <3>9 DEF Receipts
    <3>10. CASE TakeConfirmed(m)
      BY <2>1, <3>10 DEF TakeConfirmed
    <3>11. CASE TakeReleased(m)
      BY <2>1, <3>11 DEF TakeReleased
    <3> QED
      BY <1>2, <3>1, <3>2, <3>3, <3>4, <3>5, <3>6, <3>7, <3>8, <3>9, <3>10, <3>11 DEF Visit
  <2> QED
    BY <2>1, <2>2, StepCarries
<1>3. ASSUME NEW m \in Machine, Serve(m)
      PROVE  \E n \in Machine : \E c : disk' = Now(disk, n, c) /\ Carries(n, c)
  <2>1. PICK n \in Machine : n = Other(m) /\ Other(n) = m
    BY TwoMachines
  <2>2. PICK d, e, v, req, job :
          d = disk[n] /\ e = disk[m] /\ v = visit[m] /\ req = v.msg /\ job = For(n, req)
    OBVIOUS
  <2>3. v.wait = "asked" /\ VisitSound(m, v, e, d)
    BY <1>3, <2>1, <2>2 DEF Serve, IInv, Agree
  <2>4. req \in Requests(m, e, d)
    BY <2>2, <2>3, AskedRequest
  <2>5. e = disk[Other(n)] /\ req \in Requests(Other(n), e, d)
    BY <2>1, <2>2, <2>4
  <2>6. Carries(n, Noticed(job.last))
    BY <2>2, <2>5, ForCarries
  <2>7. disk' = Now(disk, n, Noticed(job.last))
    BY <1>3, <2>1, <2>2 DEF Serve, Now
  <2> QED
    BY <2>6, <2>7
<1>4. ASSUME NEW q \in late, ServeLate(q)
      PROVE  \E n \in Machine : \E c : disk' = Now(disk, n, c) /\ Carries(n, c)
  <2>1. q.from \in Machine /\ q.req \in Requests(q.from, disk[q.from], disk[Other(q.from)])
    BY DEF IInv, Agree
  <2>2. PICK n \in Machine : n = Other(q.from) /\ Other(n) = q.from
    BY <2>1, TwoMachines
  <2>3. PICK d, e, req, job :
          d = disk[n] /\ e = disk[Other(n)] /\ req = q.req /\ job = For(n, req)
    OBVIOUS
  <2>4. req \in Requests(Other(n), e, d)
    BY <2>1, <2>2, <2>3
  <2>5. Carries(n, Noticed(job.last))
    BY <2>3, <2>4, ForCarries
  <2>6. disk' = Now(disk, n, Noticed(job.last))
    BY <1>4, <2>2, <2>3 DEF ServeLate, Now
  <2> QED
    BY <2>5, <2>6
<1>5. ASSUME NEW m \in Machine, GiveUp(m)
      PROVE  disk' = disk
  BY <1>5 DEF GiveUp
<1>6. ASSUME NEW m \in Machine, Crash(m)
      PROVE  \E c : disk' = Now(disk, m, c) /\ Carries(m, c)
  <2>1. PICK d, e : d = disk[m] /\ e = disk[Other(m)]
    OBVIOUS
  <2>2. PICK job \in {Own(m)} \cup {For(m, q.req) : q \in {q \in late : q.from # m}}
                              \cup {For(m, q.req) : q \in Request(Other(m))} :
          \E c \in job.cuts : disk' = [disk EXCEPT ![m] = c]
    BY <1>6 DEF Crash
  <2>3. PICK c \in job.cuts : disk' = [disk EXCEPT ![m] = c]
    BY <2>2
  <2>4. Moves(m, d, e, job)
    BY <2>1, <2>2, CrashJob
  <2>5. Carries(m, c)
    BY <2>1, <2>3, <2>4 DEF Carries
  <2>6. disk' = Now(disk, m, c)
    BY <2>3 DEF Now
  <2> QED
    BY <2>5, <2>6
<1> QED
  BY <1>1, <1>2, <1>3, <1>4, <1>5, <1>6 DEF Next

\* A disk that is carried on keeps its epoch, lets go of delivered plans only,
\* takes in bodies of open plans only, and keeps a record that owes a notice.
LEMMA CarriedFacts ==
  ASSUME IInv, NEW m \in Machine, NEW d, d = disk[m], NEW e, e = disk[Other(m)],
         NEW c, Carries(m, c)
  PROVE  /\ Sound(m, c, e) /\ c.epoch = d.epoch
         /\ LetsGo(d, e, c) /\ Lands(m, d, e, c)
         /\ \A r \in d.in : r.notify /\ r.man.epoch = d.epoch
              => \E s \in c.in : s.man = r.man /\ s.st = "Complete"
<1>1. PICK job, b : Moves(m, d, e, job) /\ b \in job.cuts /\ c \in {b, Noticed(b)}
  BY DEF Carries
<1>2. Leads(m, d, e, b) /\ Lands(m, d, e, b)
  BY <1>1 DEF Moves, Steps
<1>3. Sound(m, b, e) /\ Onward(m, d, e, b) /\ Holds(d, b)
  BY <1>2 DEF Leads
<1>4. b.epoch = d.epoch /\ LetsGo(d, e, b)
  BY <1>3 DEF Onward
<1>5. InSound(m, d)
  BY DEF IInv, Agree, Sound
<1>6. \A r \in d.in : r.notify => r.st = "Complete"
  BY <1>5, InKinds DEF InSound
<1>7. \A r \in d.in : r.notify /\ r.man.epoch = d.epoch => r \in b.in /\ r.st = "Complete"
  BY <1>3, <1>6 DEF Holds
<1>8. CASE c = b
  BY <1>2, <1>3, <1>4, <1>7, <1>8
<1>9. CASE c = Noticed(b)
  <2>1. Sound(m, c, e)
    BY <1>3, <1>9, NoticedSound
  <2>2. c.epoch = b.epoch /\ c.ver = b.ver /\ c.out = b.out
    BY <1>3, <1>9, NoticedSound
  <2>3. \A r \in b.in : \E s \in c.in : s.man = r.man /\ s.st = r.st
    BY <1>3, <1>9, NoticedSound
  <2>4. LetsGo(d, e, c)
    BY <1>4, <2>2 DEF LetsGo, Open
  <2>5. Lands(m, d, e, c)
    BY <1>2, <2>2 DEF Lands
  <2>6. \A r \in d.in : r.notify /\ r.man.epoch = d.epoch
          => \E s \in c.in : s.man = r.man /\ s.st = "Complete"
    BY <1>7, <2>3
  <2> QED
    BY <1>4, <2>1, <2>2, <2>4, <2>5, <2>6
<1> QED
  BY <1>1, <1>8, <1>9

\* A transfer that owes a notice is not dropped before the notice is delivered,
\* unless the copy has been rebuilt (deliver_doc_notices, acknowledge).
THEOREM NoticesComeFirst == Spec => NoticeBeforeRelease
<1>1. ASSUME IInv, [Next]_vars, NEW m \in Machine, NEW r \in disk[m].in,
             r.notify, disk[m].epoch = r.man.epoch
      PROVE  \E s \in disk'[m].in : s.man = r.man /\ s.st = "Complete"
  <2>1. disk = [x \in Machine |-> disk[x]] /\ InSound(m, disk[m])
    BY <1>1 DEF IInv, Agree, Sound
  <2>2. r.st = "Complete"
    BY <1>1, <2>1, InKinds DEF InSound
  <2>3. CASE disk'[m].in = disk[m].in
    BY <2>2, <2>3
  <2>4. CASE \E n \in Machine : Edit(n)
    <3>1. PICK n \in Machine : Edit(n)
      BY <2>4
    <3>2. disk'[m].in = disk[m].in
      BY <1>1, <3>1, EditKeeps, TwoMachines
    <3> QED
      BY <2>3, <3>2
  <2>5. CASE \E n \in Machine : Reseed(n)
    <3>1. PICK n \in Machine : Reseed(n)
      BY <2>5
    <3>2. disk'[m].in = disk[m].in
      BY <1>1, <3>1, ReseedKeeps, TwoMachines
    <3> QED
      BY <2>3, <3>2
  <2>6. CASE \E n \in Machine : \E c : disk' = Now(disk, n, c) /\ Carries(n, c)
    <3>0. PICK n \in Machine : \E c : disk' = Now(disk, n, c) /\ Carries(n, c)
      BY <2>6
    <3>1. PICK c : disk' = Now(disk, n, c) /\ Carries(n, c)
      BY <3>0
    <3>2. disk'[n] = c /\ (m # n => disk'[m] = disk[m])
      BY <2>1, <3>1 DEF Now
    <3>3. CASE m = n
      <4>1. PICK d, e : d = disk[m] /\ e = disk[Other(m)]
        OBVIOUS
      <4>2. \A x \in d.in : x.notify /\ x.man.epoch = d.epoch
              => \E s \in c.in : s.man = x.man /\ s.st = "Complete"
        BY <1>1, <3>1, <3>3, <4>1, CarriedFacts
      <4> QED
        BY <1>1, <3>2, <3>3, <4>1, <4>2
    <3>4. CASE m # n
      BY <2>3, <3>2, <3>4
    <3> QED
      BY <3>3, <3>4
  <2> QED
    BY <1>1, <2>3, <2>4, <2>5, <2>6, NextCarries
<1>2. IInv /\ [Next]_vars =>
        [\A m \in Machine : \A r \in disk[m].in :
           r.notify /\ disk[m].epoch = r.man.epoch
             => \E s \in disk'[m].in : s.man = r.man /\ s.st = "Complete"]_vars
  BY <1>1
<1> QED
  BY <1>2, JournalsAgree, PTL DEF Spec, NoticeBeforeRelease

-----------------------------------------------------------------------------
(* The journal keeps what DocDelivery promises.                            *)

\* The plans that are published, on either machine (Kept).
LEMMA KeptOpen ==
  /\ \A man : man \in Kept <=> \E m \in Machine : man \in Open(disk[m])
  /\ \A man : man \in Kept' <=> \E m \in Machine : man \in Open(disk'[m])
BY DEF Kept, Open

\* An operation of a machine's own is a change to its copy (Edit).
LEMMA EditDelivers ==
  ASSUME IInv, NEW m \in Machine, Edit(m)
  PROVE  Delivery!Change(m)
<1>1. /\ disk'[m].epoch = disk[m].epoch /\ disk'[m].out = disk[m].out
      /\ disk'[m].ver = [disk[m].ver EXCEPT ![m] = @ + 1]
      /\ disk'[Other(m)] = disk[Other(m)]
  BY EditKeeps
<1>2. \A x \in Machine : x = m \/ x = Other(m)
  BY TwoMachines
<1>3. \A x \in Machine : /\ disk'[x].epoch = disk[x].epoch /\ disk'[x].out = disk[x].out
                         /\ x # m => disk'[x].ver = disk[x].ver
  BY <1>1, <1>2
<1>4. [x \in Machine |-> disk'[x].ver] =
        [[x \in Machine |-> disk[x].ver] EXCEPT ![m][m] = @ + 1]
  BY <1>1, <1>3
<1>5. [x \in Machine |-> disk'[x].epoch] = [x \in Machine |-> disk[x].epoch]
  BY <1>3
<1>6. Kept' = Kept
  BY <1>3 DEF Kept
<1> QED
  BY <1>4, <1>5, <1>6 DEF Delivery!Change

\* A copy that is given the new epoch is rebuilt (Reseed).
LEMMA ReseedDelivers ==
  ASSUME IInv, NEW m \in Machine, Reseed(m)
  PROVE  Delivery!Rebuild(m)
<1>1. /\ disk[m].epoch = 0 /\ disk'[m].epoch = 1 /\ disk'[m].out = disk[m].out
      /\ disk'[m].ver = [x \in Machine |->
           IF x = m /\ \E y \in Machine : disk[m].ver[y] > 0 THEN 1 ELSE 0]
      /\ disk'[Other(m)] = disk[Other(m)]
  BY ReseedKeeps
<1>2. \A x \in Machine : x = m \/ x = Other(m)
  BY TwoMachines
<1>3. \A x \in Machine : /\ disk'[x].out = disk[x].out
                         /\ x # m => disk'[x].ver = disk[x].ver /\ disk'[x].epoch = disk[x].epoch
  BY <1>1, <1>2
<1>4. PICK n \in {0, 1} : n = IF \E y \in Machine : disk[m].ver[y] > 0 THEN 1 ELSE 0
  OBVIOUS
<1>5. disk'[m].ver = [x \in Machine |-> IF x = m THEN n ELSE 0]
  BY <1>1, <1>4
<1>6. [x \in Machine |-> disk'[x].ver] =
        [[x \in Machine |-> disk[x].ver] EXCEPT ![m] = [x \in Machine |-> IF x = m THEN n ELSE 0]]
  BY <1>3, <1>5
<1>7. [x \in Machine |-> disk'[x].epoch] =
        [[x \in Machine |-> disk[x].epoch] EXCEPT ![m] = @ + 1]
  <2>1. PICK eps, one : eps = [x \in Machine |-> disk[x].epoch] /\ one = eps[m] + 1
    OBVIOUS
  <2>2. one = 1
    BY <1>1, <2>1
  <2>3. [x \in Machine |-> disk'[x].epoch] = [eps EXCEPT ![m] = one]
    BY <1>1, <1>3, <2>1, <2>2
  <2> QED
    BY <2>1, <2>3
<1>8. Kept' = Kept
  BY <1>3 DEF Kept
<1> QED
  BY <1>6, <1>7, <1>8 DEF Delivery!Rebuild

\* Everything else a disk goes through lets go of delivered plans, takes in open
\* ones and publishes at most one (accept_checked, receive, offer).
LEMMA CarriedDelivers ==
  ASSUME IInv, NEW m \in Machine, NEW c, disk' = Now(disk, m, c), Carries(m, c)
  PROVE  Delivery!Transfer(m)
<1>1. PICK n \in Machine : /\ n = Other(m) /\ Other(n) = m /\ m # n
                           /\ \A x \in Machine : x = m \/ x = n
  BY TwoMachines
<1>2. PICK d, e : d = disk[m] /\ e = disk[n]
  OBVIOUS
<1>3. /\ disk = [x \in Machine |-> disk[x]] /\ Sound(m, d, e) /\ Sound(n, e, d)
  BY <1>1, <1>2 DEF IInv, Agree
<1>4. disk'[m] = c /\ disk'[n] = e
  BY <1>1, <1>2, <1>3 DEF Now
<1>5. Sound(m, c, e) /\ c.epoch = d.epoch
  BY <1>1, <1>2, CarriedFacts
<1>6. LetsGo(d, e, c)
  BY <1>1, <1>2, CarriedFacts
<1>7. Lands(m, d, e, c)
  BY <1>1, <1>2, CarriedFacts
<1>8. /\ \A man : man \in Kept <=> man \in Open(d) \/ man \in Open(e)
      /\ \A man : man \in Kept' <=> man \in Open(c) \/ man \in Open(e)
  BY <1>1, <1>2, <1>4, KeptOpen
<1>9. /\ \A man \in Open(d) \cup Open(c) : man.src = m /\ man.dst = n
      /\ \A man \in Open(e) : man.src = n
  <2>1. /\ \A r \in d.out \cup c.out : r.man.src = m /\ r.man.dst = n
        /\ \A r \in e.out : r.man.src = n
    <3>1. d.out \subseteq OutRecords(m) /\ c.out \subseteq OutRecords(m) /\ e.out \subseteq OutRecords(n)
      BY <1>3, <1>5 DEF Sound, OutSound
    <3> QED
      BY <1>1, <3>1 DEF OutRecords, From, Plans
  <2> QED
    BY <2>1 DEF Open
<1>10. PICK ver, vers, eps, epochs :
         /\ ver = [x \in Machine |-> disk[x].ver] /\ vers = [x \in Machine |-> disk'[x].ver]
         /\ eps = [x \in Machine |-> disk[x].epoch] /\ epochs = [x \in Machine |-> disk'[x].epoch]
  OBVIOUS
<1>11. /\ ver[m] = d.ver /\ ver[n] = e.ver /\ vers[m] = c.ver /\ vers[n] = e.ver
       /\ eps[m] = d.epoch /\ eps[n] = e.epoch
  BY <1>2, <1>4, <1>10
<1>12. epochs = eps
  BY <1>1, <1>2, <1>4, <1>5, <1>10
<1>a. \A man \in Kept \ Kept' : /\ man.src = m
                                /\ eps[man.dst] = man.epoch => Covers(ver[man.dst], man.target)
  <2>1. \A man \in Kept \ Kept' : man \in Open(d) \ Open(c)
    BY <1>8
  <2> QED
    BY <1>6, <1>9, <1>11, <2>1 DEF LetsGo, Arrived
<1>b. \/ vers = ver
      \/ \E man \in Kept : /\ man.dst = m /\ eps[m] = man.epoch /\ Covers(ver[m], man.base)
                           /\ vers = [ver EXCEPT ![m] = Join(@, man.target)]
  <2>1. CASE c.ver = d.ver
    BY <1>1, <1>2, <1>4, <1>10, <2>1
  <2>2. CASE c.ver # d.ver
    <3>1. PICK man \in Open(e) : /\ man.dst = m /\ man.epoch = d.epoch /\ Covers(d.ver, man.base)
                                 /\ c.ver = Join(d.ver, man.target)
      BY <1>7, <2>2 DEF Lands
    <3>2. vers = [ver EXCEPT ![m] = Join(@, man.target)]
      BY <1>1, <1>2, <1>4, <1>10, <3>1
    <3> QED
      BY <1>8, <1>11, <3>1, <3>2
  <2> QED
    BY <2>1, <2>2
<1>c. \A man \in Kept' \ Kept :
        /\ man.src = m /\ man.epoch <= eps[m] /\ ~Covers(man.base, man.target)
        /\ man.epoch = eps[m] => Covers(vers[m], man.target)
        /\ \A other \in Kept' : other.src = m => other = man
  <2> SUFFICES ASSUME NEW man \in Kept' \ Kept
               PROVE  /\ man.src = m /\ man.epoch <= eps[m] /\ ~Covers(man.base, man.target)
                      /\ man.epoch = eps[m] => Covers(vers[m], man.target)
                      /\ \A other \in Kept' : other.src = m => other = man
    OBVIOUS
  <2>1. man \in Open(c)
    BY <1>8
  <2>2. PICK r \in c.out : r.st = "Ready" /\ r.man = man
    BY <2>1 DEF Open
  <2>3. OutSound(m, c, e) /\ Active(r)
    BY <1>5, <2>2 DEF Sound, Active
  <2>4. /\ man.epoch <= c.epoch /\ ~Covers(man.base, man.target)
        /\ man.epoch = c.epoch => Covers(c.ver, man.target)
    BY <2>2, <2>3 DEF OutSound
  <2>5. ASSUME NEW other \in Kept', other.src = m
        PROVE  other = man
    <3>1. other \in Open(c)
      BY <1>1, <1>8, <1>9, <2>5
    <3>2. PICK s \in c.out : s.st = "Ready" /\ s.man = other
      BY <3>1 DEF Open
    <3>3. Active(s) /\ Valid(c)
      BY <1>5, <3>2 DEF Active, Sound, Shape
    <3> QED
      BY <2>2, <2>3, <3>2, <3>3 DEF Valid
  <2> QED
    BY <1>5, <1>9, <1>11, <2>1, <2>4, <2>5
<1>13. /\ \A v, w : Delivery!Covers(v, w) <=> Covers(v, w)
       /\ \A v, w : Delivery!Join(v, w) = Join(v, w)
  BY DEF Delivery!Covers, Covers, Delivery!Join, Join
<1> QED
  BY <1>10, <1>12, <1>13, <1>a, <1>b, <1>c DEF Delivery!Transfer, Delivery!Land, Delivery!Delivered

\* The journal, with its crashes, lost answers and late requests, keeps what
\* DocDelivery promises: no plan is let go of before its target is there, and a
\* copy takes in nothing but what an open plan carries (offer, receive,
\* accept_checked, recover_completed_cleanup).
THEOREM JournalDelivers == Spec => ImplementsDocDelivery
<1>1. Init => Delivery!Init
  <2> SUFFICES ASSUME Init
               PROVE  Delivery!Init
    OBVIOUS
  <2>1. \A m \in Machine : /\ disk[m].out = {} /\ disk[m].epoch = 0
                           /\ disk[m].ver = [x \in Machine |-> 0]
    BY DEF Init
  <2>2. Kept = {}
    BY <2>1 DEF Kept
  <2> QED
    BY <2>1, <2>2 DEF Delivery!Init
<1>2. IInv /\ [Next]_vars =>
        [Delivery!Next]_<<[m \in Machine |-> disk[m].ver], [m \in Machine |-> disk[m].epoch], Kept>>
  <2> SUFFICES ASSUME IInv, [Next]_vars
               PROVE  \/ Delivery!Next
                      \/ /\ [m \in Machine |-> disk'[m].ver] = [m \in Machine |-> disk[m].ver]
                         /\ [m \in Machine |-> disk'[m].epoch] = [m \in Machine |-> disk[m].epoch]
                         /\ Kept' = Kept
    OBVIOUS
  <2>1. CASE disk' = disk
    BY <2>1 DEF Kept
  <2>2. ASSUME NEW m \in Machine, Edit(m)
        PROVE  Delivery!Next
    BY <2>2, EditDelivers DEF Delivery!Next
  <2>3. ASSUME NEW m \in Machine, Reseed(m)
        PROVE  Delivery!Next
    BY <2>3, ReseedDelivers DEF Delivery!Next
  <2>4. ASSUME NEW m \in Machine, NEW c, disk' = Now(disk, m, c), Carries(m, c)
        PROVE  Delivery!Next
    BY <2>4, CarriedDelivers DEF Delivery!Next
  <2> QED
    BY <2>1, <2>2, <2>3, <2>4, NextCarries
<1> QED
  BY <1>1, <1>2, JournalsAgree, PTL DEF Spec, ImplementsDocDelivery, Delivery!Spec
=============================================================================
