-------------------------- MODULE DocTransferSteps --------------------------
(***************************************************************************)
(* What a step of DocTransfer on one machine's disk keeps, whatever the    *)
(* other machine and the visits do: the invariant of a disk, the relation  *)
(* between a disk and each of the cuts a step may leave, and a lemma for   *)
(* every operation of the journal.  DocTransferProofs has the theorems.    *)
(*                                                                         *)
(* m is the machine that makes the step, d its disk before, c its disk     *)
(* after or at a cut, e the disk of the other machine, which stays.        *)
(***************************************************************************)
EXTENDS DocTransfer, FiniteSetTheorems, SequenceTheorems, TLAPS

-----------------------------------------------------------------------------
(* Plans and receipts.                                                     *)

Plans == {man \in Manifests : man.dst = Other(man.src)}
From(m) == {man \in Plans : man.src = m}
To(m) == {man \in Plans : man.dst = m}

\* The plans that are published, and the ones whose target is not wanted there.
Open(d) == {r.man : r \in {r \in d.out : r.st = "Ready"}}
Arrived(e, man) == man.epoch = e.epoch => Covers(e.ver, man.target)

\* What m offers, pushes or is asked for: plans that are open or done with.
Bodies(m, d, e) ==
  {man \in From(m) : /\ man.epoch <= d.epoch /\ man.epoch <= e.epoch
                     /\ man \in Open(d) \/ Arrived(e, man)}

\* A receipt for m's copy that is true of it.
True(d, p) ==
  /\ p.man.epoch <= d.epoch
  /\ p.man.epoch = d.epoch => Covers(d.ver, p.ver)
Grounded(p) == Covers(p.ver, p.man.base) /\ Covers(p.ver, p.man.target)
Truths(m, d) == {p \in Proofs : p.man \in To(m) /\ Grounded(p) /\ True(d, p)}

\* A transfer that has been taken up and not completed; one with a notice due.
Begun(d, man) == \E r \in d.in : r.man = man /\ man.epoch = d.epoch
                                 /\ r.st \in {"Receiving", "Importing"}
Owing(d, man) == \E r \in d.in : r.man = man /\ man.epoch = d.epoch /\ r.notify

\* The receipts a step may give out, and those it may have given out before.
Given(m, d) == {p \in Truths(m, d) : ~Begun(d, p.man)}
Passed(m, d) == {p \in Given(m, d) : ~Owing(d, p.man)}

-----------------------------------------------------------------------------
(* The invariant of a disk.                                                *)

OutRecords(m) ==
  [st : {"Preparing", "Ready"}, man : From(m), proof : {None}]
    \cup [st : {"Accepted", "NeedAck"}, man : From(m), proof : Proofs]

InRecords(m) ==
  [st : {"Receiving"}, man : To(m), proof : {None}, notify : {FALSE}, before : {None}]
    \cup [st : {"Importing"}, man : To(m), proof : {None}, notify : {FALSE}, before : Version]
    \cup [st : {"Complete"}, man : To(m), proof : Proofs, notify : BOOLEAN, before : {None}]
    \cup [st : {"Cleanup"}, man : To(m), proof : Proofs, notify : {FALSE}, before : {None}]

Shape(d) ==
  /\ d = [out |-> d.out, in |-> d.in, blob |-> d.blob, ver |-> d.ver, epoch |-> d.epoch]
  /\ d.ver \in Version /\ d.epoch \in {0, 1}
  /\ IsFiniteSet(d.out) /\ IsFiniteSet(d.in)
  /\ Valid(d)

\* A plan's body is what the other copy wanted; an open one's target is here,
\* unless the copy was rebuilt; a receipt is one the other machine has given.
OutSound(m, d, e) ==
  /\ d.out \subseteq OutRecords(m)
  /\ \A r \in d.out :
       /\ r.man.epoch <= d.epoch /\ r.man.epoch <= e.epoch
       /\ Active(r) /\ r.man.epoch = d.epoch => Covers(d.ver, r.man.target)
       /\ r.st = "Ready" => ~Covers(r.man.base, r.man.target)
       /\ ~Active(r) => r.proof \in Passed(Other(m), e) /\ r.proof.man = r.man

InSound(m, d) ==
  /\ d.in \subseteq InRecords(m)
  /\ \A r \in d.in :
       /\ r.man.epoch <= d.epoch
       /\ r.st \in {"Complete", "Cleanup"} => r.proof \in Truths(m, d) /\ r.proof.man = r.man

\* A staged body has a record that will see to its end.
Owned(d, man) ==
  \/ \E r \in d.in : r.man = man
  \/ \E r \in d.out : r.man = man /\ r.st # "NeedAck"

BlobSound(m, d) ==
  \A man \in DOMAIN d.blob :
    /\ d.blob[man] \in 0..Chunks
    /\ Owned(d, man)
    /\ man.src = m => ~Covers(man.base, man.target)

Sound(m, d, e) == Shape(d) /\ OutSound(m, d, e) /\ InSound(m, d) /\ BlobSound(m, d)

-----------------------------------------------------------------------------
(* What a step may do to a disk.                                           *)

\* A plan goes once its target has arrived.
LetsGo(d, e, c) == \A man \in Open(d) \ Open(c) : Arrived(e, man)

\* A transfer is taken up, or a notice made due, only where it was before or
\* where no receipt can be about.
Unclaimed(d, man) ==
  Begun(d, man) \/ ~Covers(d.ver, man.base) \/ ~Covers(d.ver, man.target)
TakesUp(d, c) ==
  /\ \A man \in Plans : Begun(c, man) => Unclaimed(d, man)
  /\ \A man \in Plans : Owing(c, man) => Owing(d, man) \/ Unclaimed(d, man)

\* A record that owes a notice stays as it is.
Holds(d, c) == \A r \in d.in : r.notify /\ r.man.epoch = d.epoch => r \in c.in

Onward(m, d, e, c) ==
  /\ c.epoch = d.epoch /\ Covers(c.ver, d.ver)
  /\ LetsGo(d, e, c)
  /\ Given(m, d) \subseteq Given(m, c) /\ Passed(m, d) \subseteq Passed(m, c)

\* The copy stays, or it takes in a body of a plan that is open.
Lands(m, d, e, c) ==
  \/ c.ver = d.ver
  \/ \E man \in Open(e) : /\ man.dst = m /\ man.epoch = d.epoch /\ Covers(d.ver, man.base)
                          /\ c.ver = Join(d.ver, man.target)

Leads(m, d, e, c) == Sound(m, c, e) /\ Onward(m, d, e, c) /\ Holds(d, c)

\* A step that may be cut anywhere.
Steps(m, d, e, step) ==
  /\ step = [cuts |-> step.cuts, last |-> step.last, res |-> step.res]
  /\ step.last \in step.cuts
  /\ \A c \in step.cuts : Leads(m, d, e, c)
Still(d, step) == \A c \in step.cuts : c.ver = d.ver

-----------------------------------------------------------------------------
(* Results, requests and replies.                                          *)

Short(S) == {list \in Seq(S) : Len(list) <= 2}
Report(e) == {h \in [epoch : {0, 1}, ver : Version] : h.epoch <= e.epoch}
Failure == {Failed, Full}
Answers(S) == [k : {"Released", "Absent", "Reconfirm"}, proof : S]
Chunked(S) == [k : {"Chunk"}, man : S, off : Nat]

\* What a body's sender is told of it, with a receipt of S at best.
Received(S) ==
  Failure \cup {Missing, Apart} \cup [k : {"Stored"}, next : 0..Chunks]
    \cup [k : {"Complete"}, proof : S]

\* m's requests to the other machine.
Exchanges(m, d, e) ==
  [k : {"Exchange"}, have : Report(d), offer : {None} \cup Chunked(Bodies(m, d, e)),
   proofs : Short(Passed(m, d)), acks : Short(Passed(Other(m), e))]
Writes(m, d, e) == [k : {"Write"}, man : Bodies(m, d, e), off : Nat]
Reads(m, d, e) == [k : {"Read"}, man : Bodies(Other(m), e, d), off : Nat]
Confirms(m, d) == [k : {"Confirm"}, list : Short(Passed(m, d))]
Acknowledges(m, e) == [k : {"Acknowledge"}, list : Short(Passed(Other(m), e))]
Requests(m, d, e) ==
  Exchanges(m, d, e) \cup Writes(m, d, e) \cup Reads(m, d, e)
    \cup Confirms(m, d) \cup Acknowledges(m, e)

\* What m hears from the other machine.
Exchangeds(m, d, e) ==
  [k : {"Exchanged"}, have : Report(e), received : {None} \cup Received(Passed(Other(m), e)),
   offer : {None} \cup Chunked(Bodies(Other(m), e, d)),
   acks : Short(Passed(m, d)), results : Short(Answers(Passed(Other(m), e)))]
Lists(S) == Failure \cup [k : {"All"}, list : Short(S)]

-----------------------------------------------------------------------------
(* Machines, versions and small counts.                                    *)

\* There are two machines, and each is the other's other (Other).
LEMMA TwoMachines ==
  ASSUME NEW m \in Machine
  PROVE  /\ Other(m) \in Machine /\ Other(m) # m /\ Other(Other(m)) = m
         /\ \A x \in Machine : x = m \/ x = Other(m)
<1>1. PICK a, b \in Machine : a # b /\ Machine = {a, b}
  BY TransferAssumption
<1>2. \E n \in Machine : n # m
  BY <1>1
<1>3. Other(m) \in Machine /\ Other(m) # m
  BY <1>2 DEF Other
<1>4. \A x \in Machine : x = m \/ x = Other(m)
  BY <1>1, <1>3
<1>5. \E n \in Machine : n # Other(m)
  BY <1>3
<1>6. Other(Other(m)) \in Machine /\ Other(Other(m)) # Other(m)
  BY <1>5 DEF Other
<1> QED
  BY <1>3, <1>4, <1>6

\* Covers is an order, and Join an upper bound in it (Covers, Join).
LEMMA Versions ==
  /\ \A v \in Version : Covers(v, v)
  /\ \A u, v, w \in Version : Covers(u, v) /\ Covers(v, w) => Covers(u, w)
  /\ \A v, w \in Version : /\ Join(v, w) \in Version
                           /\ Covers(Join(v, w), v) /\ Covers(Join(v, w), w)
<1>1. \A v \in Version : Covers(v, v)
  BY DEF Version, Covers
<1>2. \A u, v, w \in Version : Covers(u, v) /\ Covers(v, w) => Covers(u, w)
  <2> SUFFICES ASSUME NEW u \in Version, NEW v \in Version, NEW w \in Version,
                      Covers(u, v), Covers(v, w), NEW x \in Machine
               PROVE  u[x] >= w[x]
    BY DEF Covers
  <2>1. u[x] \in Nat /\ v[x] \in Nat /\ w[x] \in Nat
    BY DEF Version
  <2>2. u[x] >= v[x] /\ v[x] >= w[x]
    BY DEF Covers
  <2> QED
    BY <2>1, <2>2
<1>3. \A v, w \in Version : /\ Join(v, w) \in Version
                            /\ Covers(Join(v, w), v) /\ Covers(Join(v, w), w)
  <2> SUFFICES ASSUME NEW v \in Version, NEW w \in Version
               PROVE  /\ Join(v, w) \in Version
                      /\ Covers(Join(v, w), v) /\ Covers(Join(v, w), w)
    OBVIOUS
  <2>1. \A x \in Machine : v[x] \in Nat /\ w[x] \in Nat
    BY DEF Version
  <2>2. Join(v, w) \in Version
    BY <2>1 DEF Join, Version
  <2>3. \A x \in Machine : Join(v, w)[x] >= v[x] /\ Join(v, w)[x] >= w[x]
    BY <2>1 DEF Join
  <2> QED
    BY <2>2, <2>3 DEF Covers
<1> QED
  BY <1>1, <1>2, <1>3

\* Some records give way to one: there are no more than before (PutOut, PutIn).
LEMMA Replaced ==
  ASSUME NEW S, IsFiniteSet(S), NEW N \in Nat, Cardinality(S) <= N,
         NEW old, old \cap S # {}, NEW x
  PROVE  IsFiniteSet((S \ old) \cup {x}) /\ Cardinality((S \ old) \cup {x}) <= N
<1>1. PICK r \in S : r \in old
  OBVIOUS
<1>2. IsFiniteSet(S \ {r}) /\ Cardinality(S \ {r}) = Cardinality(S) - 1
  BY <1>1, FS_RemoveElement
<1>3. S \ old \in SUBSET (S \ {r})
  BY <1>1
<1>4. IsFiniteSet(S \ old) /\ Cardinality(S \ old) <= Cardinality(S \ {r})
  BY <1>2, <1>3, FS_Subset
<1>5. /\ IsFiniteSet((S \ old) \cup {x})
      /\ \/ Cardinality((S \ old) \cup {x}) = Cardinality(S \ old)
         \/ Cardinality((S \ old) \cup {x}) = Cardinality(S \ old) + 1
  BY <1>4, FS_AddElement
<1>6. Cardinality(S) \in Nat /\ Cardinality(S \ {r}) \in Nat /\ Cardinality(S \ old) \in Nat
  BY <1>2, <1>4, FS_CardinalityType
<1>7. Cardinality((S \ old) \cup {x}) <= Cardinality(S)
  BY <1>2, <1>4, <1>5, <1>6
<1>8. Cardinality((S \ old) \cup {x}) \in Nat
  BY <1>5, FS_CardinalityType
<1> QED
  BY <1>5, <1>6, <1>7, <1>8

\* Some records go (PutOut, PutIn).
LEMMA Removed ==
  ASSUME NEW S, IsFiniteSet(S), NEW N \in Nat, Cardinality(S) <= N, NEW T \in SUBSET S
  PROVE  IsFiniteSet(T) /\ Cardinality(T) <= N
<1>1. IsFiniteSet(T) /\ Cardinality(T) <= Cardinality(S)
  BY FS_Subset
<1>2. Cardinality(S) \in Nat /\ Cardinality(T) \in Nat
  BY <1>1, FS_CardinalityType
<1> QED
  BY <1>1, <1>2

\* Each record gives way to one: there are no more than before (Opened, Noticed).
LEMMA Rewritten ==
  ASSUME NEW S, IsFiniteSet(S), NEW N \in Nat, Cardinality(S) <= N, NEW f
  PROVE  IsFiniteSet({f[r] : r \in S}) /\ Cardinality({f[r] : r \in S}) <= N
<1> DEFINE T == {f[r] : r \in S}
           g == [r \in S |-> f[r]]
<1>1. g \in Surjection(S, T)
  BY DEF Surjection
<1>2. IsFiniteSet(T) /\ Cardinality(T) <= Cardinality(S)
  BY <1>1, FS_Surjection
<1>3. Cardinality(S) \in Nat /\ Cardinality(T) \in Nat
  BY <1>2, FS_CardinalityType
<1> QED
  BY <1>2, <1>3

\* A record added leaves the set finite (PutOut, PutIn).
LEMMA Added ==
  ASSUME NEW S, IsFiniteSet(S), NEW x
  PROVE  IsFiniteSet(S \cup {x})
BY FS_AddElement

-----------------------------------------------------------------------------
(* The relation between a disk and a cut.                                  *)

\* Nothing is true of a copy that was not, and what was stays so (True).
LEMMA TruthsGrow ==
  ASSUME NEW m, NEW d, NEW c, d.ver \in Version, c.ver \in Version,
         c.epoch = d.epoch, Covers(c.ver, d.ver)
  PROVE  Truths(m, d) \subseteq Truths(m, c)
<1> SUFFICES ASSUME NEW p \in Truths(m, d)
             PROVE  p.man.epoch = c.epoch => Covers(c.ver, p.ver)
  BY DEF Truths, True
<1>1. p.ver \in Version /\ (p.man.epoch = d.epoch => Covers(d.ver, p.ver))
  BY DEF Truths, True, Proofs
<1> QED
  BY <1>1, Versions

\* The receipts given out stay good ones where nothing they tell of is taken up
\* (completed, receive).
LEMMA PassedGrow ==
  ASSUME NEW m, NEW d, NEW c, d.ver \in Version, c.ver \in Version,
         c.epoch = d.epoch, Covers(c.ver, d.ver), TakesUp(d, c)
  PROVE  Given(m, d) \subseteq Given(m, c) /\ Passed(m, d) \subseteq Passed(m, c)
<1> SUFFICES ASSUME NEW p \in Given(m, d)
             PROVE  p \in Given(m, c) /\ (p \in Passed(m, d) => p \in Passed(m, c))
  BY DEF Passed
<1>1. p \in Truths(m, d) /\ ~Begun(d, p.man)
  BY DEF Given
<1>2. /\ p.man \in Plans /\ p.man \in Manifests /\ p.ver \in Version
      /\ Covers(p.ver, p.man.base) /\ Covers(p.ver, p.man.target)
      /\ p.man.epoch = d.epoch => Covers(d.ver, p.ver)
  BY <1>1 DEF Truths, Grounded, True, To, Plans, Proofs
<1>3. p.man.base \in Version /\ p.man.target \in Version
  BY <1>2 DEF Manifests
<1>4. p.man.epoch = d.epoch => ~Unclaimed(d, p.man)
  BY <1>1, <1>2, <1>3, Versions DEF Unclaimed
<1>5. p.man.epoch # d.epoch => ~Begun(c, p.man) /\ ~Owing(c, p.man)
  BY DEF Begun, Owing
<1>6. ~Begun(c, p.man) /\ (Owing(c, p.man) => Owing(d, p.man))
  BY <1>2, <1>4, <1>5 DEF TakesUp
<1>7. p \in Truths(m, c)
  BY <1>1, TruthsGrow
<1> QED
  BY <1>6, <1>7 DEF Given, Passed

\* What a step does is its cuts in a row (After, Then).
LEMMA LeadsOn ==
  ASSUME NEW m, NEW d, NEW e, NEW c, NEW b,
         Shape(d), Leads(m, d, e, c), Leads(m, c, e, b)
  PROVE  Leads(m, d, e, b)
<1>1. Sound(m, b, e) /\ b.epoch = d.epoch
  BY DEF Leads, Onward
<1>2. d.ver \in Version /\ c.ver \in Version /\ b.ver \in Version
  BY DEF Leads, Sound, Shape
<1>3. Covers(b.ver, d.ver)
  BY <1>2, Versions DEF Leads, Onward
<1>4. LetsGo(d, e, b)
  BY DEF Leads, Onward, LetsGo
<1>5. Given(m, d) \subseteq Given(m, b) /\ Passed(m, d) \subseteq Passed(m, b)
  BY DEF Leads, Onward
<1>6. Holds(d, b)
  BY DEF Leads, Onward, Holds
<1> QED
  BY <1>1, <1>3, <1>4, <1>5, <1>6 DEF Leads, Onward

\* A cut that leaves the copy as it is, with the document's version unchanged.
LEMMA LeadsStill ==
  ASSUME NEW m, NEW d, NEW e, NEW c, Shape(d), Sound(m, c, e),
         c.epoch = d.epoch, c.ver = d.ver, LetsGo(d, e, c), TakesUp(d, c), Holds(d, c)
  PROVE  Leads(m, d, e, c)
<1>1. d.ver \in Version /\ Covers(c.ver, d.ver)
  BY Versions DEF Shape
<1> QED
  BY <1>1, PassedGrow DEF Leads, Onward

\* The disk before the step is one of its cuts (Did).
LEMMA LeadsSame ==
  ASSUME NEW m, NEW d, NEW e, Sound(m, d, e)
  PROVE  Leads(m, d, e, d)
<1>1. Shape(d) /\ LetsGo(d, e, d) /\ Holds(d, d)
  BY DEF Sound, LetsGo, Holds
<1>2. TakesUp(d, d)
  BY DEF TakesUp, Unclaimed
<1> QED
  BY <1>1, <1>2, LeadsStill

-----------------------------------------------------------------------------
(* Opening the state, and the notices.                                     *)

\* The rows a step may find or leave, kind by kind (Outgoing, Incoming).
LEMMA OutKinds ==
  ASSUME NEW m, NEW r \in OutRecords(m)
  PROVE  /\ r = Outgoing(r.st, r.man, r.proof)
         /\ r.man \in From(m) /\ r.man \in Plans
         /\ r.st \in {"Preparing", "Ready", "Accepted", "NeedAck"}
         /\ r.st \in {"Preparing", "Ready"} <=> r.proof = None
         /\ r.proof # None => r.proof \in Proofs
<1>1. r.st \in {"Preparing", "Ready"} => r.proof = None
  BY NoneAssumption DEF OutRecords
<1>2. r.st \in {"Accepted", "NeedAck"} => r.proof \in Proofs /\ r.proof # None
  BY NoneAssumption DEF OutRecords
<1>3. r.st \in {"Preparing", "Ready", "Accepted", "NeedAck"} /\ r.man \in From(m)
  BY DEF OutRecords
<1>4. r = Outgoing(r.st, r.man, r.proof)
  BY DEF OutRecords, Outgoing
<1> QED
  BY <1>1, <1>2, <1>3, <1>4 DEF From

\* What the incoming records of each kind have (Incoming).
LEMMA InKinds ==
  ASSUME NEW m, NEW r \in InRecords(m)
  PROVE  /\ r = Incoming(r.st, r.man, r.proof, r.notify, r.before)
         /\ r.man \in To(m) /\ r.man \in Plans
         /\ r.st \in {"Receiving", "Importing", "Complete", "Cleanup"}
         /\ r.st \in {"Receiving", "Importing"} => r.proof = None
         /\ r.st \in {"Complete", "Cleanup"} => r.proof \in Proofs /\ r.proof # None
         /\ r.notify \in BOOLEAN /\ (r.notify => r.st = "Complete")
<1>1. r.st \in {"Complete", "Cleanup"} => r.proof \in Proofs /\ r.proof # None
  BY NoneAssumption DEF InRecords
<1>2. /\ r.st \in {"Receiving", "Importing", "Complete", "Cleanup"} /\ r.man \in To(m)
      /\ r.notify \in BOOLEAN /\ (r.notify => r.st = "Complete")
  BY DEF InRecords
<1>3. r.st \in {"Receiving", "Importing"} => r.proof = None
  BY DEF InRecords
<1>4. r = Incoming(r.st, r.man, r.proof, r.notify, r.before)
  BY DEF InRecords, Incoming
<1> QED
  BY <1>1, <1>2, <1>3, <1>4 DEF To

\* Opening the state clears up after a crash, and what it makes durable on the
\* way is sound (recover_completed_cleanup).
LEMMA OpenedLeads ==
  ASSUME NEW m \in Machine, NEW d, NEW e, Sound(m, d, e)
  PROVE  \A c \in {d, [d EXCEPT !.blob = Opened(d).blob], Opened(d)} :
           Leads(m, d, e, c) /\ c.ver = d.ver
<1> DEFINE accepted == {r \in d.out : r.st = "Accepted"}
           cleanup  == {r \in d.in : r.st = "Cleanup"}
           gone     == {r.man : r \in accepted \cup cleanup}
           out      == (d.out \ accepted) \cup {Outgoing("NeedAck", r.man, r.proof) : r \in accepted}
           blob     == [x \in (DOMAIN d.blob) \ gone |-> d.blob[x]]
           c        == [out |-> out, in |-> d.in \ cleanup, blob |-> blob,
                        ver |-> d.ver, epoch |-> d.epoch]
           b        == [out |-> d.out, in |-> d.in, blob |-> blob,
                        ver |-> d.ver, epoch |-> d.epoch]
<1>s. Shape(d) /\ OutSound(m, d, e) /\ InSound(m, d) /\ BlobSound(m, d)
  BY DEF Sound
<1>d. d = [out |-> d.out, in |-> d.in, blob |-> d.blob, ver |-> d.ver, epoch |-> d.epoch]
  BY <1>s DEF Shape
<1>1. Opened(d) = c
  <2>1. Opened(d) = [d EXCEPT !.out = out, !.in = d.in \ cleanup, !.blob = blob]
    BY DEF Opened
  <2> HIDE DEF out, blob, cleanup
  <2> QED
    BY <1>d, <2>1
<1>2. [d EXCEPT !.blob = Opened(d).blob] = b
  <2>1. Opened(d).blob = blob
    BY <1>1
  <2> HIDE DEF blob
  <2> QED
    BY <1>d, <2>1
<1>3. /\ c.out = out /\ c.in = d.in \ cleanup /\ c.blob = blob /\ c.ver = d.ver /\ c.epoch = d.epoch
      /\ b.out = d.out /\ b.in = d.in /\ b.blob = blob /\ b.ver = d.ver /\ b.epoch = d.epoch
  OBVIOUS
<1>4. /\ DOMAIN blob = (DOMAIN d.blob) \ gone
      /\ \A x \in (DOMAIN d.blob) \ gone : blob[x] = d.blob[x]
  OBVIOUS
<1>5. /\ c = [out |-> c.out, in |-> c.in, blob |-> c.blob, ver |-> c.ver, epoch |-> c.epoch]
      /\ b = [out |-> b.out, in |-> b.in, blob |-> b.blob, ver |-> b.ver, epoch |-> b.epoch]
  BY <1>3
<1> HIDE DEF c, b, blob
<1>6. Shape(b) /\ OutSound(m, b, e) /\ InSound(m, b)
  BY <1>3, <1>5, <1>s DEF Shape, Valid, OutSound, InSound, Truths, True
<1>7. BlobSound(m, b)
  BY <1>3, <1>4, <1>s DEF BlobSound, Owned
<1>8. Leads(m, d, e, b)
  <2>1. LetsGo(d, e, b) /\ Holds(d, b)
    BY <1>3 DEF LetsGo, Open, Holds
  <2>2. TakesUp(d, b)
    BY <1>3 DEF TakesUp, Unclaimed, Begun, Owing
  <2> QED
    BY <1>3, <1>6, <1>7, <2>1, <2>2, <1>s, LeadsStill DEF Sound
<1>9. \A r \in d.out : r \in OutRecords(m)
  BY <1>s DEF OutSound
<1> DEFINE f == [r \in d.out |-> IF r.st = "Accepted" THEN Outgoing("NeedAck", r.man, r.proof) ELSE r]
<1>10. out = {f[r] : r \in d.out}
  OBVIOUS
<1>11. \A r \in out : \E s \in d.out :
         /\ r = f[s] /\ r.man = s.man /\ r.proof = s.proof
         /\ (r.st = s.st /\ r = s) \/ (s.st = "Accepted" /\ r.st = "NeedAck")
  <2> SUFFICES ASSUME NEW s \in d.out
               PROVE  /\ f[s].man = s.man /\ f[s].proof = s.proof
                      /\ (f[s].st = s.st /\ f[s] = s) \/ (s.st = "Accepted" /\ f[s].st = "NeedAck")
    <3> HIDE DEF f, out
    <3> QED
      BY <1>10
  <2>1. f[s] = IF s.st = "Accepted" THEN Outgoing("NeedAck", s.man, s.proof) ELSE s
    OBVIOUS
  <2> HIDE DEF f
  <2>2. CASE s.st = "Accepted"
    BY <2>1, <2>2 DEF Outgoing
  <2>3. CASE s.st # "Accepted"
    <3>1. f[s] = s
      BY <2>1, <2>3
    <3> QED
      BY <3>1
  <2> QED
    BY <2>2, <2>3
<1>12. IsFiniteSet(out) /\ Cardinality(out) <= MaxRecords
  <2>1. IsFiniteSet(d.out) /\ Cardinality(d.out) <= MaxRecords /\ MaxRecords \in Nat
    BY <1>s, TransferAssumption DEF Shape, Valid
  <2> HIDE DEF f, out
  <2> QED
    BY <1>10, <2>1, Rewritten
<1>13. IsFiniteSet(d.in \ cleanup) /\ Cardinality(d.in \ cleanup) <= MaxRecords
  <2>1. IsFiniteSet(d.in) /\ Cardinality(d.in) <= MaxRecords /\ MaxRecords \in Nat
    BY <1>s, TransferAssumption DEF Shape, Valid
  <2>2. d.in \ cleanup \in SUBSET d.in
    OBVIOUS
  <2> QED
    BY <2>1, <2>2, Removed
<1>14. \A r, s \in out : r # s => /\ ~(Active(r) /\ Active(s))
                                  /\ r.man = s.man => "Preparing" \in {r.st, s.st}
  <2> SUFFICES ASSUME NEW r \in out, NEW s \in out, r # s
               PROVE  /\ ~(Active(r) /\ Active(s))
                      /\ r.man = s.man => "Preparing" \in {r.st, s.st}
    OBVIOUS
  <2>1. PICK p \in d.out : /\ r = f[p] /\ r.man = p.man
                           /\ r.st = p.st \/ (p.st = "Accepted" /\ r.st = "NeedAck")
    BY <1>11
  <2>2. PICK q \in d.out : /\ s = f[q] /\ s.man = q.man
                           /\ s.st = q.st \/ (q.st = "Accepted" /\ s.st = "NeedAck")
    BY <1>11
  <2> HIDE DEF f
  <2>3. p # q
    BY <2>1, <2>2
  <2>4. ~(Active(p) /\ Active(q)) /\ (p.man = q.man => "Preparing" \in {p.st, q.st})
    BY <2>3, <1>s DEF Shape, Valid
  <2> QED
    BY <2>1, <2>2, <2>4 DEF Active
<1>15. Shape(c)
  <2>1. \A r, s \in d.in \ cleanup : r # s => r.man # s.man
    BY <1>s DEF Shape, Valid
  <2>2. Valid(c)
    BY <1>3, <1>12, <1>13, <1>14, <2>1 DEF Valid
  <2> QED
    BY <1>3, <1>5, <1>12, <1>13, <2>2, <1>s DEF Shape
<1>16. OutSound(m, c, e)
  <2> SUFFICES ASSUME NEW r \in out
               PROVE  /\ r \in OutRecords(m)
                      /\ r.man.epoch <= d.epoch /\ r.man.epoch <= e.epoch
                      /\ Active(r) /\ r.man.epoch = d.epoch => Covers(d.ver, r.man.target)
                      /\ r.st = "Ready" => ~Covers(r.man.base, r.man.target)
                      /\ ~Active(r) => r.proof \in Passed(Other(m), e) /\ r.proof.man = r.man
    BY <1>3 DEF OutSound
  <2>1. PICK s \in d.out : /\ r.man = s.man /\ r.proof = s.proof
                           /\ (r.st = s.st /\ r = s) \/ (s.st = "Accepted" /\ r.st = "NeedAck")
                           /\ r = f[s]
    BY <1>11
  <2>2. CASE r = s
    BY <2>2, <1>s DEF OutSound
  <2>3. CASE s.st = "Accepted" /\ r.st = "NeedAck"
    <3>1. r = Outgoing("NeedAck", s.man, s.proof) /\ s \in OutRecords(m)
      BY <2>1, <2>3, <1>9
    <3>2. r \in OutRecords(m)
      BY <3>1, <2>3 DEF OutRecords, Outgoing
    <3> QED
      BY <3>2, <2>1, <2>3, <1>s DEF OutSound, Active
  <2> QED
    BY <2>1, <2>2, <2>3
<1>17. InSound(m, c)
  BY <1>3, <1>s DEF InSound, Truths, True
<1>18. BlobSound(m, c)
  <2> SUFFICES ASSUME NEW man \in DOMAIN blob
               PROVE  /\ blob[man] \in 0..Chunks /\ Owned(c, man)
                      /\ man.src = m => ~Covers(man.base, man.target)
    BY <1>3 DEF BlobSound
  <2>1. man \in DOMAIN d.blob /\ man \notin gone /\ blob[man] = d.blob[man] /\ Owned(d, man)
    BY <1>4, <1>s DEF BlobSound
  <2>2. \A r \in d.in : r.man = man => r \in c.in
    BY <2>1, <1>3
  <2>3. \A r \in d.out : r.man = man => r \in c.out
    BY <2>1, <1>3
  <2> QED
    BY <2>1, <2>2, <2>3, <1>s DEF BlobSound, Owned
<1>19. Leads(m, d, e, c)
  <2>1. \A r \in d.out : r.st = "Ready" => r \in c.out
    BY <1>3
  <2>2. LetsGo(d, e, c)
    BY <2>1 DEF LetsGo, Open
  <2>3. \A r \in d.in : r.notify => r \in c.in
    BY <1>3, <1>s DEF InSound, InRecords
  <2>4. Holds(d, c)
    BY <2>3 DEF Holds
  <2>5. TakesUp(d, c)
    BY <1>3 DEF TakesUp, Unclaimed, Begun, Owing
  <2> QED
    BY <1>3, <1>15, <1>16, <1>17, <1>18, <2>2, <2>4, <2>5, <1>s, LeadsStill DEF Sound
<1> QED
  BY <1>1, <1>2, <1>3, <1>8, <1>19, LeadsSame

\* The notices that are due are delivered: nothing else changes, and what the
\* step gave out may now be known elsewhere (deliver_doc_notices).
LEMMA NoticedSound ==
  ASSUME NEW m \in Machine, NEW d, NEW e, Sound(m, d, e), NEW c, c = Noticed(d)
  PROVE  /\ Sound(m, c, e)
         /\ c.epoch = d.epoch /\ c.ver = d.ver /\ c.out = d.out /\ c.blob = d.blob
         /\ Given(m, d) \subseteq Passed(m, c)
         /\ \A r \in d.in : \E s \in c.in : s.man = r.man /\ s.st = r.st
<1> DEFINE due == {r \in d.in : r.notify /\ r.man.epoch = d.epoch /\ Covers(d.ver, r.proof.ver)}
           f == [r \in d.in |-> IF r \in due THEN [r EXCEPT !.notify = FALSE] ELSE r]
           in == (d.in \ due) \cup {[r EXCEPT !.notify = FALSE] : r \in due}
<1>s. Shape(d) /\ OutSound(m, d, e) /\ InSound(m, d) /\ BlobSound(m, d)
  BY DEF Sound
<1>d. d = [out |-> d.out, in |-> d.in, blob |-> d.blob, ver |-> d.ver, epoch |-> d.epoch]
  BY <1>s DEF Shape
<1>1. c = [out |-> d.out, in |-> in, blob |-> d.blob, ver |-> d.ver, epoch |-> d.epoch]
  <2>1. c = [d EXCEPT !.in = in]
    BY DEF Noticed, PutIn
  <2> HIDE DEF in
  <2> QED
    BY <1>d, <2>1
<1>2. \A r \in d.in : f[r] = IF r \in due THEN [r EXCEPT !.notify = FALSE] ELSE r
  OBVIOUS
<1>3. in = {f[r] : r \in d.in}
  OBVIOUS
<1>4. \A r \in due : r \in d.in /\ r.notify /\ r.man.epoch = d.epoch /\ Covers(d.ver, r.proof.ver)
  OBVIOUS
<1>5. \A r \in d.in \ due : ~(r.notify /\ r.man.epoch = d.epoch /\ Covers(d.ver, r.proof.ver))
  OBVIOUS
<1> HIDE DEF due, f, in
<1>6. /\ c.out = d.out /\ c.in = in /\ c.blob = d.blob /\ c.ver = d.ver /\ c.epoch = d.epoch
      /\ c = [out |-> c.out, in |-> c.in, blob |-> c.blob, ver |-> c.ver, epoch |-> c.epoch]
  BY <1>1
<1>7. \A r \in d.in : r \in InRecords(m)
  BY <1>s DEF InSound
<1>8. \A r \in d.in : /\ f[r].man = r.man /\ f[r].st = r.st /\ f[r].proof = r.proof
                      /\ f[r] \in InRecords(m)
                      /\ f[r].notify => r.notify /\ r \notin due
  <2> SUFFICES ASSUME NEW r \in d.in
               PROVE  /\ f[r].man = r.man /\ f[r].st = r.st /\ f[r].proof = r.proof
                      /\ f[r] \in InRecords(m)
                      /\ f[r].notify => r.notify /\ r \notin due
    OBVIOUS
  <2>1. CASE r \in due
    <3>1. f[r] = [r EXCEPT !.notify = FALSE] /\ r.st = "Complete" /\ r \in InRecords(m)
      BY <1>2, <1>4, <1>7, <2>1, InKinds
    <3>2. r \in [st : {"Complete"}, man : To(m), proof : Proofs, notify : BOOLEAN, before : {None}]
      BY <3>1 DEF InRecords
    <3>3. /\ f[r].man = r.man /\ f[r].st = r.st /\ f[r].proof = r.proof /\ f[r].notify = FALSE
          /\ f[r] \in [st : {"Complete"}, man : To(m), proof : Proofs, notify : BOOLEAN,
                       before : {None}]
      BY <3>1, <3>2
    <3> QED
      BY <3>3 DEF InRecords
  <2>2. CASE r \notin due
    <3>1. f[r] = r
      BY <1>2, <2>2
    <3> QED
      BY <3>1, <2>2, <1>7
  <2> QED
    BY <2>1, <2>2
<1>9. \A s \in in : \E r \in d.in : s = f[r]
  BY <1>3
<1>10. Shape(c)
  <2>1. IsFiniteSet(d.in) /\ Cardinality(d.in) <= MaxRecords /\ MaxRecords \in Nat
    BY <1>s, TransferAssumption DEF Shape, Valid
  <2>2. IsFiniteSet(in) /\ Cardinality(in) <= MaxRecords
    BY <1>3, <2>1, Rewritten
  <2>3. \A r, s \in in : r # s => r.man # s.man
    <3> SUFFICES ASSUME NEW r \in in, NEW s \in in, r # s PROVE r.man # s.man
      OBVIOUS
    <3>1. PICK p \in d.in : r = f[p]
      BY <1>9
    <3>2. PICK q \in d.in : s = f[q]
      BY <1>9
    <3>3. p # q
      BY <3>1, <3>2
    <3>4. p.man # q.man
      BY <3>3, <1>s DEF Shape, Valid
    <3> QED
      BY <3>1, <3>2, <3>4, <1>8
  <2>4. Valid(c)
    BY <1>6, <2>2, <2>3, <1>s DEF Shape, Valid
  <2> QED
    BY <1>6, <2>2, <2>4, <1>s DEF Shape
<1>11. OutSound(m, c, e)
  BY <1>6, <1>s DEF OutSound
<1>12. InSound(m, c)
  <2> SUFFICES ASSUME NEW s \in in
               PROVE  /\ s \in InRecords(m) /\ s.man.epoch <= d.epoch
                      /\ s.st \in {"Complete", "Cleanup"} =>
                           s.proof \in Truths(m, c) /\ s.proof.man = s.man
    BY <1>6 DEF InSound
  <2>1. PICK r \in d.in : s = f[r]
    BY <1>9
  <2>2. Truths(m, c) = Truths(m, d)
    BY <1>6 DEF Truths, True
  <2>3. /\ r.man.epoch <= d.epoch
        /\ r.st \in {"Complete", "Cleanup"} => r.proof \in Truths(m, d) /\ r.proof.man = r.man
    BY <1>s DEF InSound
  <2> QED
    BY <2>1, <2>2, <2>3, <1>8
<1>13. \A r \in d.in : f[r] \in c.in
  BY <1>3, <1>6
<1>14. BlobSound(m, c)
  <2> SUFFICES ASSUME NEW man \in DOMAIN d.blob
               PROVE  Owned(c, man)
    BY <1>6, <1>s DEF BlobSound
  <2>1. Owned(d, man)
    BY <1>s DEF BlobSound
  <2> QED
    BY <2>1, <1>6, <1>8, <1>13 DEF Owned
<1>15. \A man : ~Owing(c, man)
  <2> SUFFICES ASSUME NEW s \in c.in, s.notify, s.man.epoch = c.epoch PROVE FALSE
    BY DEF Owing
  <2>1. PICK r \in d.in : s = f[r]
    BY <1>6, <1>9
  <2>2. r.notify /\ r \notin due /\ r.man.epoch = d.epoch
    BY <2>1, <1>6, <1>8
  <2>3. r.st = "Complete"
    BY <1>7, <2>2, InKinds
  <2>4. r.proof \in Truths(m, d) /\ r.proof.man = r.man
    BY <2>3, <1>s DEF InSound
  <2>5. Covers(d.ver, r.proof.ver)
    BY <2>2, <2>4 DEF Truths, True
  <2> QED
    BY <2>2, <2>5, <1>5
<1>16. \A man : Begun(c, man) => Begun(d, man)
  <2> SUFFICES ASSUME NEW s \in c.in, s.man.epoch = c.epoch, s.st \in {"Receiving", "Importing"}
               PROVE  Begun(d, s.man)
    BY DEF Begun
  <2>1. PICK r \in d.in : s = f[r]
    BY <1>6, <1>9
  <2> QED
    BY <2>1, <1>6, <1>8 DEF Begun
<1>17. Given(m, d) \subseteq Passed(m, c)
  BY <1>6, <1>15, <1>16 DEF Given, Passed, Truths, True
<1> QED
  BY <1>6, <1>8, <1>10, <1>11, <1>12, <1>13, <1>14, <1>17 DEF Sound

\* A result is something, and only two of them stop a step (TransferStep's errors).
LEMMA Results ==
  /\ Failed # None /\ Full # None /\ Missing # None /\ Apart # None
  /\ \A n \in Nat : StoredAt(n) # None
  /\ \A p \in Proofs : Complete(p) # None /\ p # None
  /\ Fails(Failed) /\ Fails(Full) /\ ~Fails(None) /\ ~Fails(Missing) /\ ~Fails(Apart)
<1>1. /\ None \notin [k : {"Failed", "Full", "Missing", "Apart"}]
      /\ None \notin [k : {"Stored"}, next : Nat]
      /\ None \notin [k : {"Complete"}, proof : Proofs] /\ None \notin Proofs
  BY NoneAssumption
<1>2. {Failed, Full, Missing, Apart} \subseteq [k : {"Failed", "Full", "Missing", "Apart"}]
  BY DEF Failed, Full, Missing, Apart
<1>3. \A n \in Nat : StoredAt(n) \in [k : {"Stored"}, next : Nat]
  BY DEF StoredAt
<1>4. \A p \in Proofs : Complete(p) \in [k : {"Complete"}, proof : Proofs]
  BY DEF Complete
<1>5. Failed.k = "Failed" /\ Full.k = "Full" /\ Missing.k = "Missing" /\ Apart.k = "Apart"
  BY DEF Failed, Full, Missing, Apart
<1>6. Failed # None /\ Full # None /\ Missing # None /\ Apart # None
  BY <1>1, <1>2
<1>7. \A n \in Nat : StoredAt(n) # None
  BY <1>1, <1>3
<1>8. \A p \in Proofs : Complete(p) # None /\ p # None
  BY <1>1, <1>4
<1>9. Fails(Failed) /\ Fails(Full) /\ ~Fails(None) /\ ~Fails(Missing) /\ ~Fails(Apart)
  BY <1>5, <1>6 DEF Fails
<1> QED
  BY <1>6, <1>7, <1>8, <1>9

-----------------------------------------------------------------------------
(* Steps in a row.                                                         *)

\* A step's disks, its last one and its result (Did, After, Then).
LEMMA DidFields ==
  ASSUME NEW cuts, NEW last, NEW res
  PROVE  /\ Did(cuts, last, res).last = last /\ Did(cuts, last, res).res = res
         /\ Did(cuts, last, res).cuts = cuts \cup {last}
BY DEF Did

\* Two steps in a row: the cuts of both, the end of the second (After).
LEMMA AfterFields ==
  ASSUME NEW step, NEW more,
         more = [cuts |-> more.cuts, last |-> more.last, res |-> more.res]
  PROVE  /\ After(step, more).last = more.last /\ After(step, more).res = more.res
         /\ After(step, more).cuts = more.cuts \cup step.cuts
         /\ After(step, more) = [cuts |-> more.cuts \cup step.cuts, last |-> more.last,
                                 res |-> more.res]
BY DEF After

\* The second is made only where the first did not fail (Then).
LEMMA ThenFields ==
  ASSUME NEW step, NEW more,
         more = [cuts |-> more.cuts, last |-> more.last, res |-> more.res]
  PROVE  /\ Fails(step.res) => Then(step, more) = step
         /\ ~Fails(step.res) =>
              /\ Then(step, more).last = more.last /\ Then(step, more).res = more.res
              /\ Then(step, more).cuts = more.cuts \cup step.cuts
              /\ Then(step, more) = After(step, more)
BY AfterFields DEF Then

\* A step that makes some disks durable (Did).
LEMMA DidSteps ==
  ASSUME NEW m, NEW d, NEW e, NEW cuts, NEW last, NEW res,
         Leads(m, d, e, last), \A c \in cuts : Leads(m, d, e, c)
  PROVE  Steps(m, d, e, Did(cuts, last, res))
BY DEF Steps, Did

\* A step after another (After).
LEMMA AfterSteps ==
  ASSUME NEW m, NEW d, NEW e, Shape(d), NEW step, NEW more,
         Steps(m, d, e, step), Steps(m, step.last, e, more)
  PROVE  Steps(m, d, e, After(step, more))
<1>1. more = [cuts |-> more.cuts, last |-> more.last, res |-> more.res]
  BY DEF Steps
<1>2. /\ After(step, more).last = more.last /\ After(step, more).res = more.res
      /\ After(step, more).cuts = more.cuts \cup step.cuts
      /\ After(step, more) = [cuts |-> more.cuts \cup step.cuts, last |-> more.last,
                              res |-> more.res]
  BY <1>1, AfterFields
<1>3. Leads(m, d, e, step.last)
  BY DEF Steps
<1>4. \A c \in more.cuts : Leads(m, d, e, c)
  BY <1>3, LeadsOn DEF Steps
<1>5. \A c \in step.cuts : Leads(m, d, e, c)
  BY DEF Steps
<1>6. more.last \in more.cuts
  BY DEF Steps
<1> QED
  BY <1>2, <1>4, <1>5, <1>6 DEF Steps

\* A step after another that did not fail (Then).
LEMMA ThenSteps ==
  ASSUME NEW m, NEW d, NEW e, Shape(d), NEW step, NEW more,
         Steps(m, d, e, step), ~Fails(step.res) => Steps(m, step.last, e, more)
  PROVE  Steps(m, d, e, Then(step, more))
<1>1. CASE Fails(step.res)
  BY <1>1 DEF Then
<1>2. CASE ~Fails(step.res)
  BY <1>2, AfterSteps DEF Then
<1> QED
  BY <1>1, <1>2

\* Nothing is done.
LEMMA NoSteps ==
  ASSUME NEW m, NEW d, NEW e, Sound(m, d, e), NEW res
  PROVE  /\ Steps(m, d, e, Did({}, d, res)) /\ Still(d, Did({}, d, res))
         /\ Did({}, d, res).last = d /\ Did({}, d, res).res = res
<1>1. PICK cuts : cuts = {}
  OBVIOUS
<1>2. Leads(m, d, e, d) /\ \A c \in cuts : Leads(m, d, e, c)
  BY <1>1, LeadsSame
<1>3. Steps(m, d, e, Did(cuts, d, res))
  BY <1>2, DidSteps
<1>4. /\ Did(cuts, d, res).last = d /\ Did(cuts, d, res).res = res
      /\ Did(cuts, d, res).cuts = cuts \cup {d}
  BY DidFields
<1> QED
  BY <1>1, <1>3, <1>4 DEF Still

-----------------------------------------------------------------------------
(* Records and staged bodies.                                              *)

\* The fields of a disk that is written to (PutOut, PutIn, Staged, Cancel).
LEMMA OutFields ==
  ASSUME NEW d, Shape(d), NEW S, NEW T
  PROVE  PutOut(d, S, T) = [out |-> (d.out \ S) \cup T, in |-> d.in, blob |-> d.blob,
                            ver |-> d.ver, epoch |-> d.epoch]
<1>1. d = [out |-> d.out, in |-> d.in, blob |-> d.blob, ver |-> d.ver, epoch |-> d.epoch]
  BY DEF Shape
<1> QED
  BY <1>1 DEF PutOut

\* The fields of a disk whose incoming records are written (PutIn).
LEMMA InFields ==
  ASSUME NEW d, Shape(d), NEW S, NEW T
  PROVE  PutIn(d, S, T) = [out |-> d.out, in |-> (d.in \ S) \cup T, blob |-> d.blob,
                           ver |-> d.ver, epoch |-> d.epoch]
<1>1. d = [out |-> d.out, in |-> d.in, blob |-> d.blob, ver |-> d.ver, epoch |-> d.epoch]
  BY DEF Shape
<1> QED
  BY <1>1 DEF PutIn

\* The fields of a disk whose staged bodies change (Staged, Cancel).
LEMMA BlobFields ==
  ASSUME NEW d, Shape(d), NEW b
  PROVE  [d EXCEPT !.blob = b] = [out |-> d.out, in |-> d.in, blob |-> b,
                                  ver |-> d.ver, epoch |-> d.epoch]
<1>1. d = [out |-> d.out, in |-> d.in, blob |-> d.blob, ver |-> d.ver, epoch |-> d.epoch]
  BY DEF Shape
<1> QED
  BY <1>1

\* A change to the outgoing records alone (save).
LEMMA OutLeads ==
  ASSUME NEW m, NEW d, NEW e, NEW c, NEW out, Sound(m, d, e),
         c = [out |-> out, in |-> d.in, blob |-> d.blob, ver |-> d.ver, epoch |-> d.epoch],
         IsFiniteSet(out), Valid(c), OutSound(m, c, e), LetsGo(d, e, c),
         \A man \in DOMAIN d.blob : Owned(c, man)
  PROVE  Leads(m, d, e, c) /\ c.ver = d.ver
<1>1. /\ c.out = out /\ c.in = d.in /\ c.blob = d.blob /\ c.ver = d.ver /\ c.epoch = d.epoch
      /\ c = [out |-> c.out, in |-> c.in, blob |-> c.blob, ver |-> c.ver, epoch |-> c.epoch]
  OBVIOUS
<1>2. Shape(d) /\ InSound(m, d) /\ BlobSound(m, d)
  BY DEF Sound
<1>3. Shape(c)
  BY <1>1, <1>2 DEF Shape
<1>4. InSound(m, c)
  BY <1>1, <1>2 DEF InSound, Truths, True
<1>5. BlobSound(m, c)
  BY <1>1, <1>2 DEF BlobSound
<1>6. TakesUp(d, c) /\ Holds(d, c)
  BY <1>1 DEF TakesUp, Holds, Begun, Owing, Unclaimed
<1> QED
  BY <1>1, <1>2, <1>3, <1>4, <1>5, <1>6, LeadsStill DEF Sound

\* A change to the incoming records alone (save).
LEMMA InLeads ==
  ASSUME NEW m, NEW d, NEW e, NEW c, NEW in, Sound(m, d, e),
         c = [out |-> d.out, in |-> in, blob |-> d.blob, ver |-> d.ver, epoch |-> d.epoch],
         IsFiniteSet(in), Valid(c), InSound(m, c), TakesUp(d, c), Holds(d, c),
         \A man \in DOMAIN d.blob : Owned(c, man)
  PROVE  Leads(m, d, e, c) /\ c.ver = d.ver
<1>1. /\ c.out = d.out /\ c.in = in /\ c.blob = d.blob /\ c.ver = d.ver /\ c.epoch = d.epoch
      /\ c = [out |-> c.out, in |-> c.in, blob |-> c.blob, ver |-> c.ver, epoch |-> c.epoch]
  OBVIOUS
<1>2. Shape(d) /\ OutSound(m, d, e) /\ BlobSound(m, d)
  BY DEF Sound
<1>3. Shape(c)
  BY <1>1, <1>2 DEF Shape
<1>4. OutSound(m, c, e)
  BY <1>1, <1>2 DEF OutSound
<1>5. BlobSound(m, c)
  BY <1>1, <1>2 DEF BlobSound
<1>6. LetsGo(d, e, c)
  BY <1>1 DEF LetsGo, Open
<1> QED
  BY <1>1, <1>2, <1>3, <1>4, <1>5, <1>6, LeadsStill DEF Sound

\* A change to the staged bodies alone (append, cancel).
LEMMA BlobLeads ==
  ASSUME NEW m, NEW d, NEW e, NEW c, NEW blob, Sound(m, d, e),
         c = [out |-> d.out, in |-> d.in, blob |-> blob, ver |-> d.ver, epoch |-> d.epoch],
         BlobSound(m, c)
  PROVE  Leads(m, d, e, c) /\ c.ver = d.ver
<1>1. /\ c.out = d.out /\ c.in = d.in /\ c.blob = blob /\ c.ver = d.ver /\ c.epoch = d.epoch
      /\ c = [out |-> c.out, in |-> c.in, blob |-> c.blob, ver |-> c.ver, epoch |-> c.epoch]
  OBVIOUS
<1>2. Shape(d) /\ OutSound(m, d, e) /\ InSound(m, d)
  BY DEF Sound
<1>3. Shape(c)
  BY <1>1, <1>2 DEF Shape, Valid
<1>4. OutSound(m, c, e) /\ InSound(m, c)
  BY <1>1, <1>2 DEF OutSound, InSound, Truths, True
<1>5. TakesUp(d, c) /\ Holds(d, c) /\ LetsGo(d, e, c)
  BY <1>1 DEF TakesUp, Holds, Begun, Owing, Unclaimed, LetsGo, Open
<1> QED
  BY <1>1, <1>2, <1>3, <1>4, <1>5, LeadsStill DEF Sound

\* A chunk more of a body that a record owns (append).
LEMMA StagedLeads ==
  ASSUME NEW m, NEW d, NEW e, Sound(m, d, e), NEW man, Owned(d, man),
         man.src = m => ~Covers(man.base, man.target), NEW n \in 0..Chunks,
         NEW c, c = Staged(d, man, n)
  PROVE  /\ Leads(m, d, e, c)
         /\ c.out = d.out /\ c.in = d.in /\ c.ver = d.ver /\ c.epoch = d.epoch
<1> DEFINE blob == [x \in {man} \cup DOMAIN d.blob |-> IF x = man THEN n ELSE d.blob[x]]
<1>1. DOMAIN blob = {man} \cup DOMAIN d.blob
      /\ \A x \in DOMAIN blob : blob[x] = IF x = man THEN n ELSE d.blob[x]
  OBVIOUS
<1>2. c = [out |-> d.out, in |-> d.in, blob |-> blob, ver |-> d.ver, epoch |-> d.epoch]
  <2>1. Shape(d)
    BY DEF Sound
  <2>2. c = [d EXCEPT !.blob = blob]
    BY DEF Staged
  <2> HIDE DEF blob
  <2> QED
    BY <2>1, <2>2, BlobFields
<1> HIDE DEF blob
<1>3. c.out = d.out /\ c.in = d.in /\ c.blob = blob /\ c.ver = d.ver /\ c.epoch = d.epoch
  BY <1>2
<1>4. BlobSound(m, d)
  BY DEF Sound
<1>5. BlobSound(m, c)
  BY <1>1, <1>3, <1>4 DEF BlobSound, Owned
<1> QED
  BY <1>2, <1>3, <1>5, BlobLeads

\* A body is dropped (cancel).
LEMMA CancelLeads ==
  ASSUME NEW m, NEW d, NEW e, Sound(m, d, e), NEW man, NEW c, c = Cancel(d, man)
  PROVE  /\ Leads(m, d, e, c)
         /\ c.out = d.out /\ c.in = d.in /\ c.ver = d.ver /\ c.epoch = d.epoch
         /\ DOMAIN c.blob = (DOMAIN d.blob) \ {man}
<1> DEFINE blob == [x \in (DOMAIN d.blob) \ {man} |-> d.blob[x]]
<1>1. DOMAIN blob = (DOMAIN d.blob) \ {man} /\ \A x \in DOMAIN blob : blob[x] = d.blob[x]
  OBVIOUS
<1>2. c = [out |-> d.out, in |-> d.in, blob |-> blob, ver |-> d.ver, epoch |-> d.epoch]
  <2>1. Shape(d)
    BY DEF Sound
  <2>2. c = [d EXCEPT !.blob = blob]
    BY DEF Cancel
  <2> HIDE DEF blob
  <2> QED
    BY <2>1, <2>2, BlobFields
<1> HIDE DEF blob
<1>3. c.out = d.out /\ c.in = d.in /\ c.blob = blob /\ c.ver = d.ver /\ c.epoch = d.epoch
  BY <1>2
<1>4. BlobSound(m, d)
  BY DEF Sound
<1>5. BlobSound(m, c)
  BY <1>1, <1>3, <1>4 DEF BlobSound, Owned
<1> QED
  BY <1>1, <1>2, <1>3, <1>5, BlobLeads

-----------------------------------------------------------------------------
(* The sender's side.                                                      *)

\* What is read of a plan is an open plan's (read_outgoing).
LEMMA ReadOpen ==
  ASSUME NEW m, NEW d, NEW e, Sound(m, d, e), NEW man, NEW off \in Nat,
         NEW res, res = ReadOutgoing(d, man, off)
  PROVE  \/ res = Failed
         \/ /\ res \in Chunked(Bodies(m, d, e)) /\ res.man = man
            /\ man \in DOMAIN d.blob
<1>1. CASE res = Failed
  BY <1>1
<1>2. CASE res # Failed
  <2>1. /\ \E r \in d.out : r.st = "Ready" /\ r.man = man
        /\ man \in DOMAIN d.blob /\ res = Chunk(man, off)
    BY <1>2 DEF ReadOutgoing
  <2>2. PICK r \in d.out : r.st = "Ready" /\ r.man = man
    BY <2>1
  <2>3. OutSound(m, d, e)
    BY DEF Sound
  <2>4. man \in From(m) /\ man.epoch <= d.epoch /\ man.epoch <= e.epoch
    BY <2>2, <2>3, OutKinds DEF OutSound
  <2>5. man \in Bodies(m, d, e)
    BY <2>2, <2>4 DEF Bodies, Open
  <2> QED
    BY <2>1, <2>5 DEF Chunk, Chunked
<1> QED
  BY <1>1, <1>2

\* A plan's manifest is fixed when it is made (prepare).
LEMMA ManifestFrom ==
  ASSUME NEW m \in Machine, NEW d, Shape(d), NEW have \in Version
  PROVE  /\ Manifest(m, d, have) \in From(m)
         /\ Manifest(m, d, have).base = have /\ Manifest(m, d, have).target = d.ver
         /\ Manifest(m, d, have).epoch = d.epoch
<1>1. d.ver \in Version /\ d.epoch \in {0, 1}
  BY DEF Shape
<1> QED
  BY <1>1, TwoMachines DEF Manifest, Manifests, From, Plans

\* A plan is recorded before its body is staged (offer_encoded).
LEMMA BegunLeads ==
  ASSUME NEW m \in Machine, NEW d, NEW e, Sound(m, d, e), NEW man \in From(m),
         man.target = d.ver, man.epoch = d.epoch, d.epoch <= e.epoch,
         NEW prep, prep = Outgoing("Preparing", man, None),
         NEW none, none = {}, NEW c, c = PutOut(d, none, {prep}), Valid(c)
  PROVE  /\ Leads(m, d, e, c) /\ c.ver = d.ver /\ c.epoch = d.epoch
         /\ c.out = d.out \cup {prep} /\ c.in = d.in /\ c.blob = d.blob
<1>s. Shape(d) /\ OutSound(m, d, e) /\ BlobSound(m, d)
  BY DEF Sound
<1>1. c = [out |-> d.out \cup {prep}, in |-> d.in, blob |-> d.blob, ver |-> d.ver,
           epoch |-> d.epoch]
  <2>1. (d.out \ none) \cup {prep} = d.out \cup {prep}
    OBVIOUS
  <2>2. PICK new : new = {prep}
    OBVIOUS
  <2>3. c = PutOut(d, none, new)
    BY <2>2
  <2>4. \A S, T : PutOut(d, S, T) = [out |-> (d.out \ S) \cup T, in |-> d.in, blob |-> d.blob,
                                     ver |-> d.ver, epoch |-> d.epoch]
    BY <1>s, OutFields
  <2>5. PICK one : one = (d.out \ none) \cup new
    OBVIOUS
  <2>6. c = [out |-> one, in |-> d.in, blob |-> d.blob, ver |-> d.ver, epoch |-> d.epoch]
    BY <2>3, <2>4, <2>5
  <2>7. one = d.out \cup {prep}
    BY <2>1, <2>2, <2>5
  <2> QED
    BY <2>6, <2>7
<1>2. /\ c.out = d.out \cup {prep} /\ c.in = d.in /\ c.blob = d.blob /\ c.ver = d.ver
      /\ c.epoch = d.epoch
  BY <1>1
<1>3. d.ver \in Version /\ d.epoch \in {0, 1}
  BY <1>s DEF Shape
<1>6. prep.st = "Preparing" /\ prep.man = man /\ prep \in OutRecords(m)
  BY DEF Outgoing, OutRecords
<1>7. OutSound(m, c, e)
  <2>1. Covers(d.ver, d.ver) /\ d.epoch <= d.epoch
    BY <1>3, Versions
  <2> SUFFICES ASSUME NEW r \in c.out
               PROVE  /\ r \in OutRecords(m)
                      /\ r.man.epoch <= d.epoch /\ r.man.epoch <= e.epoch
                      /\ Active(r) /\ r.man.epoch = d.epoch => Covers(d.ver, r.man.target)
                      /\ r.st = "Ready" => ~Covers(r.man.base, r.man.target)
                      /\ ~Active(r) => r.proof \in Passed(Other(m), e) /\ r.proof.man = r.man
    BY <1>2 DEF OutSound
  <2>2. CASE r = prep
    BY <1>6, <2>1, <2>2 DEF Active
  <2>3. CASE r \in d.out
    BY <2>3, <1>s DEF OutSound
  <2> QED
    BY <1>2, <2>2, <2>3
<1>8. LetsGo(d, e, c)
  BY <1>2 DEF LetsGo, Open
<1>9. \A x \in DOMAIN d.blob : Owned(c, x)
  BY <1>2, <1>s DEF BlobSound, Owned
<1>10. IsFiniteSet(d.out \cup {prep})
  BY <1>s, Added DEF Shape
<1> QED
  BY <1>1, <1>2, <1>7, <1>8, <1>9, <1>10, OutLeads

\* A plan whose body is whole is published (offer_encoded).
LEMMA PublishLeads ==
  ASSUME NEW m, NEW d, NEW e, Sound(m, d, e), NEW r \in d.out, r.st = "Preparing",
         ~Covers(r.man.base, r.man.target),
         NEW c, c = PutOut(d, {r}, {Outgoing("Ready", r.man, None)}), Valid(c)
  PROVE  /\ Leads(m, d, e, c) /\ c.ver = d.ver /\ c.epoch = d.epoch /\ c.in = d.in
         /\ r.man \in Bodies(m, c, e)
<1> DEFINE new == Outgoing("Ready", r.man, None)
<1>s. Shape(d) /\ OutSound(m, d, e) /\ BlobSound(m, d)
  BY DEF Sound
<1>1. c = [out |-> (d.out \ {r}) \cup {new}, in |-> d.in, blob |-> d.blob, ver |-> d.ver,
           epoch |-> d.epoch]
  BY <1>s, OutFields
<1>2. new.st = "Ready" /\ new.man = r.man /\ new \in OutRecords(m)
  <2>1. r.man \in From(m)
    BY <1>s, OutKinds DEF OutSound
  <2> QED
    BY <2>1 DEF Outgoing, OutRecords
<1> HIDE DEF new
<1>3. /\ c.out = (d.out \ {r}) \cup {new} /\ c.in = d.in /\ c.blob = d.blob /\ c.ver = d.ver
      /\ c.epoch = d.epoch
  BY <1>1
<1>4. OutSound(m, c, e)
  BY <1>2, <1>3, <1>s DEF OutSound, Active
<1>5. LetsGo(d, e, c)
  BY <1>3 DEF LetsGo, Open
<1>6. \A x \in DOMAIN d.blob : Owned(c, x)
  BY <1>2, <1>3, <1>s DEF BlobSound, Owned
<1>7. IsFiniteSet((d.out \ {r}) \cup {new})
  <2>1. IsFiniteSet(d.out \ {r})
    BY <1>s, FS_RemoveElement DEF Shape
  <2> QED
    BY <2>1, Added
<1>8. r.man \in Bodies(m, c, e)
  <2>1. /\ new \in c.out /\ r.man.epoch <= c.epoch /\ r.man.epoch <= e.epoch
        /\ r.man \in From(m)
    BY <1>2, <1>3, <1>4, OutKinds DEF OutSound
  <2> QED
    BY <1>2, <2>1 DEF Bodies, Open
<1> QED
  BY <1>1, <1>3, <1>4, <1>5, <1>6, <1>7, <1>8, OutLeads

\* A plan that was never offered goes with its body (offer_encoded).
LEMMA DropLeads ==
  ASSUME NEW m, NEW d, NEW e, Sound(m, d, e), NEW r \in d.out, r.st = "Preparing",
         r.man \notin DOMAIN d.blob, NEW c, c = PutOut(d, {r}, {})
  PROVE  Leads(m, d, e, c) /\ c.ver = d.ver /\ c.epoch = d.epoch /\ c.in = d.in
<1>s. Shape(d) /\ OutSound(m, d, e) /\ BlobSound(m, d)
  BY DEF Sound
<1>1. c = [out |-> d.out \ {r}, in |-> d.in, blob |-> d.blob, ver |-> d.ver, epoch |-> d.epoch]
  <2>1. PICK none : none = {}
    OBVIOUS
  <2>2. PutOut(d, {r}, none) = [out |-> (d.out \ {r}) \cup none, in |-> d.in, blob |-> d.blob,
                                ver |-> d.ver, epoch |-> d.epoch]
    BY <1>s, OutFields
  <2>3. (d.out \ {r}) \cup none = d.out \ {r}
    BY <2>1
  <2> QED
    BY <2>1, <2>2, <2>3
<1>2. /\ c.out = d.out \ {r} /\ c.in = d.in /\ c.blob = d.blob /\ c.ver = d.ver
      /\ c.epoch = d.epoch
  BY <1>1
<1>3. OutSound(m, c, e)
  BY <1>2, <1>s DEF OutSound
<1>4. LetsGo(d, e, c)
  BY <1>2 DEF LetsGo, Open
<1>5. \A x \in DOMAIN d.blob : Owned(c, x)
  BY <1>2, <1>s DEF BlobSound, Owned
<1>6. IsFiniteSet(c.out) /\ Cardinality(c.out) <= MaxRecords
  <2>1. IsFiniteSet(d.out) /\ Cardinality(d.out) <= MaxRecords /\ MaxRecords \in Nat
    BY <1>s, TransferAssumption DEF Shape, Valid
  <2>2. c.out \in SUBSET d.out
    BY <1>2
  <2> QED
    BY <2>1, <2>2, Removed
<1>7. Valid(c)
  BY <1>2, <1>6, <1>s DEF Shape, Valid
<1> QED
  BY <1>1, <1>2, <1>3, <1>4, <1>5, <1>6, <1>7, OutLeads

\* What an offer does: the copy and the incoming records stay.
Offers(m, d, e, step) ==
  /\ Steps(m, d, e, step) /\ Still(d, step)
  /\ step.last.in = d.in
  /\ step.res \in {None, Failed} \cup Chunked(Bodies(m, step.last, e))

\* A new plan is recorded, staged and published, or none is (offer_encoded).
LEMMA NewPlanSteps ==
  ASSUME NEW m \in Machine, NEW d, NEW e, Sound(m, d, e), NEW have \in Version,
         d.epoch <= e.epoch, NEW step, step = NewPlan(m, d, have)
  PROVE  Offers(m, d, e, step)
<1>s. Shape(d) /\ BlobSound(m, d)
  BY DEF Sound
<1>1. PICK man : man = Manifest(m, d, have)
  OBVIOUS
<1>2. PICK prep : prep = Outgoing("Preparing", man, None)
  OBVIOUS
<1>3. PICK begun : begun = PutOut(d, {}, {prep})
  OBVIOUS
<1> DEFINE staged(n) == Staged(begun, man, n)
           ready == PutOut(staged(Chunks), {prep}, {Outgoing("Ready", man, None)})
           parts == {begun} \cup {staged(n) : n \in Stored(d, man)..Chunks}
<1>4. step = CASE ~Valid(begun) -> Did({}, d, Failed)
               [] Valid(begun) /\ Covers(have, d.ver) -> Did({begun}, d, None)
               [] Valid(begun) /\ ~Covers(have, d.ver) /\ ~Room(d, man) ->
                    Did({}, begun, Failed)
               [] OTHER -> IF Valid(ready) THEN Did(parts, ready, Chunk(man, 0))
                                           ELSE Did(parts, staged(Chunks), Failed)
  BY <1>1, <1>2, <1>3, Zenon DEF NewPlan
<1>a. CASE ~Valid(begun)
  <2>1. step = Did({}, d, Failed)
    BY <1>a, <1>4
  <2>2. Steps(m, d, e, step) /\ Still(d, step) /\ step.last = d /\ step.res = Failed
    BY <2>1, NoSteps
  <2> QED
    BY <2>2 DEF Offers
<1>b. CASE Valid(begun)
  <2>1. /\ Leads(m, d, e, begun) /\ begun.ver = d.ver /\ begun.epoch = d.epoch
        /\ begun.out = d.out \cup {prep} /\ begun.in = d.in /\ begun.blob = d.blob
        /\ prep.man = man /\ prep.st = "Preparing"
        /\ man \in From(m) /\ man.base = have /\ man.target = d.ver /\ man.epoch = d.epoch
    <3>1. /\ man \in From(m) /\ man.base = have /\ man.target = d.ver
          /\ man.epoch = d.epoch
      BY <1>1, <1>s, ManifestFrom
    <3>2. PICK none : none = {}
      OBVIOUS
    <3>3. begun = PutOut(d, none, {prep})
      BY <1>3, <3>2
    <3>4. prep.st = "Preparing" /\ prep.man = man
      BY <1>2 DEF Outgoing
    <3>5. Leads(m, d, e, begun)
      BY <1>b, <1>2, <3>1, <3>2, <3>3, BegunLeads
    <3>6. begun = [out |-> (d.out \ none) \cup {prep}, in |-> d.in, blob |-> d.blob,
                   ver |-> d.ver, epoch |-> d.epoch]
      BY <1>s, <3>3, OutFields
    <3>7. /\ begun.ver = d.ver /\ begun.epoch = d.epoch
          /\ begun.out = d.out \cup {prep} /\ begun.in = d.in /\ begun.blob = d.blob
      BY <3>2, <3>6
    <3> QED
      BY <3>1, <3>4, <3>5, <3>7
  <2>a. CASE Covers(have, d.ver)
    <3>1. step = Did({begun}, d, None)
      BY <1>4, <1>b, <2>a
    <3>2. Leads(m, d, e, d) /\ \A c \in {begun} : Leads(m, d, e, c)
      BY <2>1, LeadsSame
    <3>3. Steps(m, d, e, step)
      BY <3>1, <3>2, DidSteps
    <3>4. step.last = d /\ step.res = None /\ step.cuts = {begun} \cup {d}
      BY <3>1, DidFields
    <3> QED
      BY <2>1, <3>3, <3>4 DEF Still, Offers
  <2>b. CASE ~Covers(have, d.ver) /\ ~Room(d, man)
    <3>1. step = Did({}, begun, Failed)
      BY <1>4, <1>b, <2>b
    <3>2. PICK cuts : cuts = {}
      OBVIOUS
    <3>3. Steps(m, d, e, Did(cuts, begun, Failed))
      BY <2>1, <3>2, DidSteps
    <3>4. step.last = begun /\ step.res = Failed /\ step.cuts = cuts \cup {begun}
      BY <3>1, <3>2, DidFields
    <3> QED
      BY <2>1, <3>1, <3>2, <3>3, <3>4 DEF Still, Offers
  <2>c. CASE ~Covers(have, d.ver) /\ Room(d, man)
    <3>1. step = IF Valid(ready) THEN Did(parts, ready, Chunk(man, 0))
                                 ELSE Did(parts, staged(Chunks), Failed)
      BY <1>4, <1>b, <2>c
    <3>2. Sound(m, begun, e)
      BY <2>1 DEF Leads
    <3>3. Owned(begun, man) /\ ~Covers(man.base, man.target)
      BY <2>1, <2>c DEF Owned
    <3>4. Stored(d, man) \in 0..Chunks
      BY <1>s, TransferAssumption DEF BlobSound, Stored
    <3>5. \A n \in 0..Chunks :
            /\ Leads(m, d, e, staged(n)) /\ staged(n).out = begun.out /\ staged(n).in = d.in
            /\ staged(n).ver = d.ver /\ staged(n).epoch = d.epoch
      <4> SUFFICES ASSUME NEW n \in 0..Chunks
                   PROVE  /\ Leads(m, d, e, Staged(begun, man, n))
                          /\ Staged(begun, man, n).out = begun.out
                          /\ Staged(begun, man, n).in = d.in
                          /\ Staged(begun, man, n).ver = d.ver
                          /\ Staged(begun, man, n).epoch = d.epoch
        OBVIOUS
      <4>1. PICK c : c = Staged(begun, man, n)
        OBVIOUS
      <4>2. /\ Leads(m, begun, e, c)
            /\ c.out = begun.out /\ c.in = begun.in /\ c.ver = begun.ver
            /\ c.epoch = begun.epoch
        BY <3>2, <3>3, <4>1, StagedLeads
      <4>3. Leads(m, d, e, c)
        BY <1>s, <2>1, <4>2, LeadsOn
      <4> QED
        BY <2>1, <4>1, <4>2, <4>3
    <3>6. PICK full : full = staged(Chunks)
      OBVIOUS
    <3>7. /\ Leads(m, d, e, full) /\ full.out = begun.out /\ full.in = d.in
          /\ full.ver = d.ver /\ full.epoch = d.epoch
      BY <3>5, <3>6, TransferAssumption
    <3>8. \A c \in parts : Leads(m, d, e, c) /\ c.ver = d.ver
      <4>1. \A n \in Stored(d, man)..Chunks : n \in 0..Chunks
        BY <3>4, TransferAssumption
      <4> QED
        BY <2>1, <3>5, <4>1
    <3>9. PICK cuts : cuts = parts
      OBVIOUS
    <3>10. \A c \in cuts : Leads(m, d, e, c) /\ c.ver = d.ver
      BY <3>8, <3>9
    <3>d. CASE ~Valid(ready)
      <4>1. step = Did(cuts, full, Failed)
        BY <3>1, <3>6, <3>9, <3>d
      <4>2. Steps(m, d, e, step)
        BY <3>7, <3>10, <4>1, DidSteps
      <4>3. step.last = full /\ step.res = Failed /\ step.cuts = cuts \cup {full}
        BY <4>1, DidFields
      <4> QED
        BY <3>7, <3>10, <4>2, <4>3 DEF Still, Offers
    <3>e. CASE Valid(ready)
      <4>1. PICK c : c = ready
        OBVIOUS
      <4>2. step = Did(cuts, c, Chunk(man, 0))
        BY <3>1, <3>9, <3>e, <4>1
      <4>3. c = PutOut(full, {prep}, {Outgoing("Ready", prep.man, None)}) /\ Valid(c)
        BY <2>1, <3>6, <3>e, <4>1
      <4>4. prep \in full.out /\ Sound(m, full, e)
        BY <2>1, <3>7 DEF Leads
      <4>5. /\ Leads(m, full, e, c) /\ c.ver = full.ver /\ c.epoch = full.epoch
            /\ c.in = full.in /\ man \in Bodies(m, c, e)
        BY <2>1, <3>3, <4>3, <4>4, PublishLeads
      <4>6. Leads(m, d, e, c)
        BY <1>s, <3>7, <4>5, LeadsOn
      <4>7. Steps(m, d, e, step)
        BY <3>10, <4>2, <4>6, DidSteps
      <4>8. step.last = c /\ step.res = Chunk(man, 0) /\ step.cuts = cuts \cup {c}
        BY <4>2, DidFields
      <4>9. step.res \in Chunked(Bodies(m, step.last, e))
        BY <4>5, <4>8 DEF Chunk, Chunked
      <4> QED
        BY <3>7, <3>10, <4>5, <4>7, <4>8, <4>9 DEF Still, Offers
    <3> QED
      BY <3>d, <3>e
  <2> QED
    BY <2>a, <2>b, <2>c
<1> QED
  BY <1>a, <1>b DEF Offers

\* An open plan is offered again; one that was never offered is published or
\* dropped, and then a new one may be made (offer).
LEMMA OfferSteps ==
  ASSUME NEW m \in Machine, NEW d, NEW e, Sound(m, d, e), NEW have \in Version,
         d.epoch <= e.epoch, NEW step, step = Offer(m, d, have)
  PROVE  Offers(m, d, e, step)
<1> DEFINE ready == {r \in d.out : r.st = "Ready"}
           prep  == {r \in d.out : r.st = "Preparing"}
<1>s. Shape(d) /\ BlobSound(m, d) /\ OutSound(m, d, e)
  BY DEF Sound
<1>a. CASE ready # {}
  <2>1. PICK r : r = CHOOSE s \in ready : TRUE
    OBVIOUS
  <2>2. PICK res : res = ReadOutgoing(d, r.man, 0)
    OBVIOUS
  <2>3. step = Did({}, d, res)
    BY <1>a, <2>1, <2>2 DEF Offer
  <2>4. res \in {None, Failed} \cup Chunked(Bodies(m, d, e))
    BY <2>2, ReadOpen
  <2>5. Steps(m, d, e, step) /\ Still(d, step) /\ step.last = d /\ step.res = res
    BY <2>3, NoSteps
  <2> QED
    BY <2>4, <2>5 DEF Offers
<1>b. CASE ready = {} /\ prep # {}
  <2>1. PICK r : r = CHOOSE s \in prep : TRUE
    OBVIOUS
  <2>2. r \in d.out /\ r.st = "Preparing"
    BY <1>b, <2>1
  <2>3. PICK full : full = PutOut(d, {r}, {Outgoing("Ready", r.man, None)})
    OBVIOUS
  <2>4. PICK freed : freed = Cancel(d, r.man)
    OBVIOUS
  <2>5. PICK gone : gone = PutOut(freed, {r}, {})
    OBVIOUS
  <2>6. PICK new : new = NewPlan(m, gone, have)
    OBVIOUS
  <2>7. PICK res : res = ReadOutgoing(full, r.man, 0)
    OBVIOUS
  <2>8. step = IF r.man \in DOMAIN d.blob /\ Stored(d, r.man) = Chunks
               THEN IF Valid(full) THEN Did({}, full, res) ELSE Did({}, d, Failed)
               ELSE After(Did({freed}, gone, None), new)
    BY <1>b, <2>1, <2>3, <2>4, <2>5, <2>6, <2>7 DEF Offer
  <2>9. r.man \in From(m)
    BY <2>2, <1>s, OutKinds DEF OutSound
  <2>a. CASE r.man \in DOMAIN d.blob /\ Stored(d, r.man) = Chunks /\ ~Valid(full)
    <3>1. step = Did({}, d, Failed)
      BY <2>8, <2>a
    <3>2. Steps(m, d, e, step) /\ Still(d, step) /\ step.last = d /\ step.res = Failed
      BY <3>1, NoSteps
    <3> QED
      BY <3>2 DEF Offers
  <2>b. CASE r.man \in DOMAIN d.blob /\ Stored(d, r.man) = Chunks /\ Valid(full)
    <3>1. PICK cuts : cuts = {}
      OBVIOUS
    <3>2. step = Did(cuts, full, res)
      BY <2>8, <2>b, <3>1
    <3>3. ~Covers(r.man.base, r.man.target)
      BY <2>9, <2>b, <1>s DEF BlobSound, From
    <3>4. Leads(m, d, e, full)
      BY <2>2, <2>3, <2>b, <3>3, PublishLeads
    <3>5. full = [out |-> (d.out \ {r}) \cup {Outgoing("Ready", r.man, None)}, in |-> d.in,
                  blob |-> d.blob, ver |-> d.ver, epoch |-> d.epoch]
      BY <1>s, <2>3, OutFields
    <3>6. full.ver = d.ver /\ full.in = d.in
      BY <3>5
    <3>7. Steps(m, d, e, step)
      BY <3>1, <3>2, <3>4, DidSteps
    <3>8. step.last = full /\ step.res = res /\ step.cuts = cuts \cup {full}
      BY <3>2, DidFields
    <3>9. res \in {None, Failed} \cup Chunked(Bodies(m, full, e))
      BY <2>7, <3>4, ReadOpen DEF Leads
    <3> QED
      BY <3>1, <3>6, <3>7, <3>8, <3>9 DEF Offers, Still
  <2>c. CASE ~(r.man \in DOMAIN d.blob /\ Stored(d, r.man) = Chunks)
    <3>1. step = After(Did({freed}, gone, None), new)
      BY <2>8, <2>c
    <3>2. Leads(m, d, e, freed)
      BY <2>4, CancelLeads
    <3>3. /\ freed.out = d.out /\ freed.in = d.in /\ freed.ver = d.ver /\ freed.epoch = d.epoch
      BY <2>4, CancelLeads
    <3>4. DOMAIN freed.blob = (DOMAIN d.blob) \ {r.man}
      BY <2>4, CancelLeads
    <3>5. Sound(m, freed, e) /\ Shape(freed)
      BY <3>2 DEF Leads, Sound
    <3>6. Leads(m, freed, e, gone)
      BY <2>2, <2>5, <3>3, <3>4, <3>5, DropLeads
    <3>7. PICK none : none = {}
      OBVIOUS
    <3>8. gone = [out |-> (freed.out \ {r}) \cup none, in |-> freed.in, blob |-> freed.blob,
                  ver |-> freed.ver, epoch |-> freed.epoch]
      BY <2>5, <3>5, <3>7, OutFields
    <3>9. gone.in = d.in /\ gone.ver = d.ver /\ gone.epoch = d.epoch
      BY <3>3, <3>8
    <3>10. Leads(m, d, e, gone)
      BY <1>s, <3>2, <3>6, LeadsOn
    <3>11. PICK first : first = Did({freed}, gone, None)
      OBVIOUS
    <3>12. Steps(m, d, e, first)
      BY <3>2, <3>10, <3>11, DidSteps
    <3>13. first.last = gone /\ first.cuts = {freed} \cup {gone}
      BY <3>11, DidFields
    <3>14. Offers(m, gone, e, new)
      BY <2>6, <3>9, <3>10, NewPlanSteps DEF Leads
    <3>15. Steps(m, d, e, step)
      BY <1>s, <3>1, <3>11, <3>12, <3>13, <3>14, AfterSteps DEF Offers
    <3>16. new = [cuts |-> new.cuts, last |-> new.last, res |-> new.res]
      BY <3>14 DEF Offers, Steps
    <3>17. /\ step.last = new.last /\ step.res = new.res
           /\ step.cuts = new.cuts \cup first.cuts
      BY <3>1, <3>11, <3>16, AfterFields
    <3>18. Still(d, step)
      BY <3>3, <3>9, <3>13, <3>14, <3>17 DEF Still, Offers
    <3> QED
      BY <3>9, <3>14, <3>15, <3>17, <3>18 DEF Offers
  <2> QED
    BY <2>a, <2>b, <2>c
<1>c. CASE ready = {} /\ prep = {}
  <2>1. step = NewPlan(m, d, have)
    BY <1>c DEF Offer
  <2> QED
    BY <2>1, NewPlanSteps
<1> QED
  BY <1>a, <1>b, <1>c

\* A receipt the recipient gives out is about a body from here that has arrived
\* there (validate_completion).
LEMMA PassedPlan ==
  ASSUME NEW m \in Machine, NEW e, e.ver \in Version, NEW p \in Passed(Other(m), e)
  PROVE  /\ p \in Proofs /\ p.man \in From(m) /\ p.man.epoch <= e.epoch
         /\ Arrived(e, p.man) /\ p # None /\ ~Fails(p)
<1>1. /\ p \in Proofs /\ p.man \in To(Other(m)) /\ p.man.epoch <= e.epoch
      /\ p.man.epoch = e.epoch => Covers(e.ver, p.ver)
      /\ Covers(p.ver, p.man.target)
  BY DEF Passed, Given, Truths, Grounded, True
<1>2. p.man \in From(m)
  BY <1>1, TwoMachines DEF To, From, Plans, Manifests
<1>3. p.ver \in Version /\ p.man.target \in Version /\ p.k = "Proof"
  BY <1>1 DEF Proofs, Manifests
<1>4. Arrived(e, p.man)
  BY <1>1, <1>3, Versions DEF Arrived
<1>5. p # None
  BY <1>1, NoneAssumption
<1> QED
  BY <1>1, <1>2, <1>3, <1>4, <1>5 DEF Fails

\* A plan gives way to its receipt, or a receipt goes (accept_checked, finish).
LEMMA RetireLeads ==
  ASSUME NEW m \in Machine, NEW d, NEW e, Sound(m, d, e), e.ver \in Version,
         NEW p \in Passed(Other(m), e),
         NEW old, \A r \in d.out \cap old : r.man = p.man /\ r.st # "Preparing",
         NEW new,
         \A r \in new : /\ r \in {Outgoing("Accepted", p.man, p), Outgoing("NeedAck", p.man, p)}
                        /\ p.man.epoch <= d.epoch /\ OutRows(d, p.man) \subseteq old,
         \A r, s \in new : r = s,
         NEW c, c = PutOut(d, old, new), IsFiniteSet(c.out), Cardinality(c.out) <= MaxRecords,
         p.man \in DOMAIN d.blob => Owned(c, p.man)
  PROVE  Leads(m, d, e, c) /\ c.ver = d.ver
<1>s. Shape(d) /\ OutSound(m, d, e) /\ BlobSound(m, d)
  BY DEF Sound
<1>1. c = [out |-> (d.out \ old) \cup new, in |-> d.in, blob |-> d.blob, ver |-> d.ver,
           epoch |-> d.epoch]
  BY <1>s, OutFields
<1>2. /\ c.out = (d.out \ old) \cup new /\ c.in = d.in /\ c.blob = d.blob /\ c.ver = d.ver
      /\ c.epoch = d.epoch
  BY <1>1
<1>3. /\ p \in Proofs /\ p.man \in From(m) /\ p.man.epoch <= e.epoch /\ Arrived(e, p.man)
  BY PassedPlan
<1>4. \A r \in new : /\ r \in OutRecords(m) /\ r.man = p.man /\ r.proof = p
                     /\ r.st \in {"Accepted", "NeedAck"}
  BY <1>3 DEF Outgoing, OutRecords
<1>5. OutSound(m, c, e)
  <2> SUFFICES ASSUME NEW r \in c.out
               PROVE  /\ r \in OutRecords(m)
                      /\ r.man.epoch <= d.epoch /\ r.man.epoch <= e.epoch
                      /\ Active(r) /\ r.man.epoch = d.epoch => Covers(d.ver, r.man.target)
                      /\ r.st = "Ready" => ~Covers(r.man.base, r.man.target)
                      /\ ~Active(r) => r.proof \in Passed(Other(m), e) /\ r.proof.man = r.man
    BY <1>2 DEF OutSound
  <2>1. CASE r \in new
    BY <1>3, <1>4, <2>1 DEF Active
  <2>2. CASE r \in d.out
    BY <2>2, <1>s DEF OutSound
  <2> QED
    BY <1>2, <2>1, <2>2
<1>6. \A r, s \in c.out : r # s => /\ ~(Active(r) /\ Active(s))
                                   /\ r.man = s.man => "Preparing" \in {r.st, s.st}
  <2> SUFFICES ASSUME NEW r \in c.out, NEW s \in c.out, r # s
               PROVE  /\ ~(Active(r) /\ Active(s))
                      /\ r.man = s.man => "Preparing" \in {r.st, s.st}
    OBVIOUS
  <2>1. CASE r \in d.out /\ s \in d.out
    BY <2>1, <1>s DEF Shape, Valid
  <2>2. CASE r \in new /\ s \notin new
    <3>1. s \in d.out /\ s \notin old
      BY <1>2, <2>2
    <3>2. s.man = p.man => s.st = "Preparing"
      BY <2>2, <3>1 DEF OutRows
    <3> QED
      BY <2>2, <3>2, <1>4 DEF Active
  <2>3. CASE s \in new /\ r \notin new
    <3>1. r \in d.out /\ r \notin old
      BY <1>2, <2>3
    <3>2. r.man = p.man => r.st = "Preparing"
      BY <2>3, <3>1 DEF OutRows
    <3> QED
      BY <2>3, <3>2, <1>4 DEF Active
  <2> QED
    BY <1>2, <2>1, <2>2, <2>3
<1>7. Valid(c)
  BY <1>2, <1>6, <1>s DEF Shape, Valid
<1>8. LetsGo(d, e, c)
  <2> SUFFICES ASSUME NEW r \in d.out, r.st = "Ready", r.man \notin Open(c)
               PROVE  Arrived(e, r.man)
    BY DEF LetsGo, Open
  <2>1. r \in old
    BY <1>2 DEF Open
  <2> QED
    BY <2>1, <1>3
<1>9. \A x \in DOMAIN d.blob : Owned(c, x)
  <2> SUFFICES ASSUME NEW x \in DOMAIN d.blob, x # p.man PROVE Owned(c, x)
    OBVIOUS
  <2>1. Owned(d, x)
    BY <1>s DEF BlobSound
  <2> QED
    BY <2>1, <1>2 DEF Owned
<1> QED
  BY <1>1, <1>2, <1>5, <1>7, <1>8, <1>9, OutLeads

\* What a step on the sender's own records does: the copy stays, and the step
\* answers with the receipt it was given, if with anything (accept).
Settles(m, d, e, step, p) ==
  /\ Steps(m, d, e, step) /\ Still(d, step)
  /\ step.res \in {None, Failed, p}

\* A receipt retires its plan and the plan's body (accept_checked).
LEMMA AcceptCheckedSteps ==
  ASSUME NEW m \in Machine, NEW d, NEW e, Sound(m, d, e), e.ver \in Version,
         NEW p \in Passed(Other(m), e), p.man.epoch <= d.epoch, NEW confirmation \in BOOLEAN,
         NEW step, step = AcceptChecked(d, p, confirmation)
  PROVE  Settles(m, d, e, step, p) /\ step.res # None
<1>s. Shape(d)
  BY DEF Sound
<1>p. p # None
  BY PassedPlan
<1>1. PICK rows : rows = OutRows(d, p.man)
  OBVIOUS
<1>2. PICK row : row = Outgoing("Accepted", p.man, p)
  OBVIOUS
<1>3. PICK acc : acc = PutOut(d, rows, {row})
  OBVIOUS
<1>4. PICK free : free = Cancel(acc, p.man)
  OBVIOUS
<1>5. PICK new : new = IF confirmation THEN {} ELSE {Outgoing("NeedAck", p.man, p)}
  OBVIOUS
<1>6. PICK last : last = PutOut(free, {row}, new)
  OBVIOUS
<1>7. step = IF rows # {} THEN Did({acc, free}, last, p)
                          ELSE Did({}, d, IF confirmation THEN p ELSE Failed)
  BY <1>1, <1>2, <1>3, <1>4, <1>5, <1>6 DEF AcceptChecked
<1>a. CASE rows = {}
  <2>1. PICK res : res = IF confirmation THEN p ELSE Failed
    OBVIOUS
  <2>2. step = Did({}, d, res)
    BY <1>7, <1>a, <2>1
  <2>3. Steps(m, d, e, step) /\ Still(d, step) /\ step.res = res
    BY <2>2, NoSteps
  <2>4. Failed # None
    BY Results
  <2> QED
    BY <2>1, <2>3, <2>4, <1>p DEF Settles
<1>b. CASE rows # {}
  <2>1. /\ rows \subseteq d.out /\ \A r \in rows : r.man = p.man /\ r.st # "Preparing"
    BY <1>1 DEF OutRows
  <2>2. acc = [out |-> (d.out \ rows) \cup {row}, in |-> d.in, blob |-> d.blob,
               ver |-> d.ver, epoch |-> d.epoch]
    BY <1>s, <1>3, OutFields
  <2>3. acc.out = (d.out \ rows) \cup {row} /\ acc.ver = d.ver /\ acc.epoch = d.epoch
    BY <2>2
  <2>4. IsFiniteSet(acc.out) /\ Cardinality(acc.out) <= MaxRecords
    <3>1. IsFiniteSet(d.out) /\ Cardinality(d.out) <= MaxRecords /\ MaxRecords \in Nat
      BY <1>s, TransferAssumption DEF Shape, Valid
    <3>2. rows \cap d.out # {}
      BY <1>b, <2>1
    <3>3. /\ IsFiniteSet((d.out \ rows) \cup {row})
          /\ Cardinality((d.out \ rows) \cup {row}) <= MaxRecords
      BY <3>1, <3>2, Replaced
    <3> QED
      BY <2>3, <3>3
  <2>5. row.st = "Accepted" /\ row.man = p.man
    BY <1>2 DEF Outgoing
  <2>6. Owned(acc, p.man)
    BY <2>3, <2>5 DEF Owned
  <2>7. Leads(m, d, e, acc)
    <3>1. PICK one : one = {row}
      OBVIOUS
    <3>2. \A r \in one : /\ r \in {Outgoing("Accepted", p.man, p), Outgoing("NeedAck", p.man, p)}
                         /\ p.man.epoch <= d.epoch /\ OutRows(d, p.man) \subseteq rows
      BY <3>1, <1>1, <1>2
    <3>3. \A r, s \in one : r = s
      BY <3>1
    <3>4. acc = PutOut(d, rows, one)
      BY <3>1, <1>3
    <3>5. \A r \in d.out \cap rows : r.man = p.man /\ r.st # "Preparing"
      BY <2>1
    <3> QED
      BY <3>2, <3>3, <3>4, <3>5, <2>4, <2>6, RetireLeads
  <2>8. Sound(m, acc, e) /\ Shape(acc)
    BY <2>7 DEF Leads, Sound
  <2>9. Leads(m, acc, e, free)
    BY <2>8, <1>4, CancelLeads
  <2>10. /\ free.out = acc.out /\ free.ver = acc.ver /\ free.epoch = acc.epoch
    BY <2>8, <1>4, CancelLeads
  <2>11. DOMAIN free.blob = (DOMAIN acc.blob) \ {p.man}
    BY <2>8, <1>4, CancelLeads
  <2>12. Sound(m, free, e) /\ Shape(free)
    BY <2>9 DEF Leads, Sound
  <2>13. last = [out |-> (free.out \ {row}) \cup new, in |-> free.in, blob |-> free.blob,
                 ver |-> free.ver, epoch |-> free.epoch]
    BY <2>12, <1>6, OutFields
  <2>14. last.out = (free.out \ {row}) \cup new /\ last.ver = free.ver
    BY <2>13
  <2>15. IsFiniteSet(last.out) /\ Cardinality(last.out) <= MaxRecords
    <3>1. IsFiniteSet(free.out) /\ Cardinality(free.out) <= MaxRecords /\ MaxRecords \in Nat
      BY <2>4, <2>10, TransferAssumption
    <3>2. CASE confirmation
      <4>1. last.out \in SUBSET free.out
        BY <3>2, <2>14, <1>5
      <4> QED
        BY <3>1, <4>1, Removed
    <3>3. CASE ~confirmation
      <4>1. last.out = (free.out \ {row}) \cup {Outgoing("NeedAck", p.man, p)}
        BY <3>3, <2>14, <1>5
      <4>2. {row} \cap free.out # {}
        BY <2>3, <2>10
      <4>3. \A x : /\ IsFiniteSet((free.out \ {row}) \cup {x})
                   /\ Cardinality((free.out \ {row}) \cup {x}) <= MaxRecords
        BY <3>1, <4>2, Replaced
      <4> QED
        BY <4>1, <4>3
    <3> QED
      BY <3>2, <3>3
  <2>16. Leads(m, free, e, last)
    <3>1. PICK one : one = {row}
      OBVIOUS
    <3>2. OutRows(free, p.man) \subseteq one
      BY <3>1, <1>1, <2>3, <2>10 DEF OutRows
    <3>3. \A r \in new : /\ r \in {Outgoing("Accepted", p.man, p), Outgoing("NeedAck", p.man, p)}
                         /\ p.man.epoch <= free.epoch /\ OutRows(free, p.man) \subseteq one
      BY <3>2, <1>5, <2>3, <2>10
    <3>4. \A r, s \in new : r = s
      BY <1>5
    <3>5. last = PutOut(free, one, new)
      BY <3>1, <1>6
    <3>6. \A r \in free.out \cap one : r.man = p.man /\ r.st # "Preparing"
      BY <3>1, <2>5
    <3>7. p.man \notin DOMAIN free.blob
      BY <2>11
    <3> QED
      BY <3>3, <3>4, <3>5, <3>6, <3>7, <2>12, <2>15, RetireLeads
  <2>17. Leads(m, d, e, free)
    BY <1>s, <2>7, <2>9, LeadsOn
  <2>18. Leads(m, d, e, last)
    BY <1>s, <2>16, <2>17, LeadsOn
  <2>19. PICK cuts : cuts = {acc, free}
    OBVIOUS
  <2>20. step = Did(cuts, last, p)
    BY <1>7, <1>b, <2>19
  <2>21. Steps(m, d, e, step)
    BY <2>7, <2>17, <2>18, <2>19, <2>20, DidSteps
  <2>22. step.res = p /\ step.cuts = cuts \cup {last}
    BY <2>20, DidFields
  <2> QED
    BY <1>p, <2>3, <2>10, <2>14, <2>19, <2>21, <2>22 DEF Settles, Still
<1> QED
  BY <1>a, <1>b

\* A receipt is accepted only for what is here (accept_confirmation, accept).
LEMMA AcceptSteps ==
  ASSUME NEW m \in Machine, NEW d, NEW e, Sound(m, d, e), e.ver \in Version,
         NEW p \in Passed(Other(m), e), NEW confirmation \in BOOLEAN,
         NEW step, step = Accept(d, p, confirmation)
  PROVE  Settles(m, d, e, step, p) /\ step.res # None
<1>1. d.epoch \in {0, 1}
  BY DEF Sound, Shape
<1>2. CASE Completes(d, p)
  BY <1>1, <1>2, AcceptCheckedSteps DEF Accept, Completes
<1>3. CASE ~Completes(d, p)
  <2>1. step = Did({}, d, Failed)
    BY <1>3 DEF Accept
  <2>2. Steps(m, d, e, step) /\ Still(d, step) /\ step.res = Failed
    BY <2>1, NoSteps
  <2> QED
    BY <2>2, Results DEF Settles
<1> QED
  BY <1>2, <1>3

\* The receipt of a body just sent: another visit may have retired its plan,
\* and then only the receipt is kept (accept_sent).
LEMMA AcceptSentSteps ==
  ASSUME NEW m \in Machine, NEW d, NEW e, Sound(m, d, e), e.ver \in Version,
         NEW p \in Passed(Other(m), e), NEW sent, NEW step, step = AcceptSent(d, sent, p)
  PROVE  Settles(m, d, e, step, p) /\ step.res # None
<1>s. Shape(d)
  BY DEF Sound
<1>1. d.epoch \in {0, 1}
  BY <1>s DEF Shape
<1>p. p # None
  BY PassedPlan
<1>2. PICK new : new = {Outgoing("NeedAck", p.man, p)}
  OBVIOUS
<1>3. PICK none : none = {}
  OBVIOUS
<1>4. PICK kept : kept = PutOut(d, none, new)
  OBVIOUS
<1>5. \/ step = Did({}, d, Failed)
      \/ Completes(d, p) /\ step = AcceptChecked(d, p, FALSE)
      \/ /\ Completes(d, p) /\ OutRows(d, p.man) = {} /\ Valid(kept)
         /\ step = Did({}, kept, p)
  BY <1>2, <1>3, <1>4 DEF AcceptSent
<1>a. CASE step = Did({}, d, Failed)
  <2>1. Steps(m, d, e, step) /\ Still(d, step) /\ step.res = Failed
    BY <1>a, NoSteps
  <2> QED
    BY <2>1, Results DEF Settles
<1>b. CASE Completes(d, p) /\ step = AcceptChecked(d, p, FALSE)
  <2>1. p.man.epoch <= d.epoch
    BY <1>1, <1>b DEF Completes
  <2>2. PICK no \in BOOLEAN : no = FALSE
    OBVIOUS
  <2>3. step = AcceptChecked(d, p, no)
    BY <1>b, <2>2
  <2> QED
    BY <2>1, <2>3, AcceptCheckedSteps
<1>c. CASE /\ Completes(d, p) /\ OutRows(d, p.man) = {} /\ Valid(kept)
           /\ step = Did({}, kept, p)
  <2>1. kept = [out |-> (d.out \ none) \cup new, in |-> d.in, blob |-> d.blob,
                ver |-> d.ver, epoch |-> d.epoch]
    BY <1>s, <1>4, OutFields
  <2>2. kept.out = d.out \cup new /\ kept.ver = d.ver
    BY <1>3, <2>1
  <2>3. IsFiniteSet(kept.out) /\ Cardinality(kept.out) <= MaxRecords
    <3>1. IsFiniteSet(d.out)
      BY <1>s DEF Shape
    <3>2. IsFiniteSet(d.out \cup new)
      BY <3>1, <1>2, Added
    <3> QED
      BY <2>2, <3>2, <1>c DEF Valid
  <2>4. p.man \in DOMAIN d.blob => Owned(kept, p.man)
    <3>1. p.man \in DOMAIN d.blob => Owned(d, p.man)
      BY DEF Sound, BlobSound
    <3> QED
      BY <2>1, <2>2, <3>1 DEF Owned
  <2>5. \A r \in new : /\ r \in {Outgoing("Accepted", p.man, p), Outgoing("NeedAck", p.man, p)}
                       /\ p.man.epoch <= d.epoch /\ OutRows(d, p.man) \subseteq none
    BY <1>1, <1>2, <1>c DEF Completes
  <2>6. \A r, s \in new : r = s
    BY <1>2
  <2>7. \A r \in d.out \cap none : r.man = p.man /\ r.st # "Preparing"
    BY <1>3
  <2>8. Leads(m, d, e, kept)
    BY <1>4, <2>3, <2>4, <2>5, <2>6, <2>7, RetireLeads
  <2>9. step = Did(none, kept, p)
    BY <1>3, <1>c
  <2>10. Steps(m, d, e, step)
    BY <1>3, <2>8, <2>9, DidSteps
  <2>11. step.res = p /\ step.cuts = none \cup {kept}
    BY <2>9, DidFields
  <2> QED
    BY <1>3, <1>p, <2>2, <2>10, <2>11 DEF Settles, Still
<1> QED
  BY <1>5, <1>a, <1>b, <1>c

\* The recipient's answer ends the wait for it, or names the receipt to take
\* instead (acknowledged).
LEMMA AcknowledgedSteps ==
  ASSUME NEW m \in Machine, NEW d, NEW e, Sound(m, d, e), e.ver \in Version,
         NEW result \in Answers(Passed(Other(m), e)),
         NEW step, step = Acknowledged(d, result)
  PROVE  Settles(m, d, e, step, result.proof)
<1>s. Shape(d)
  BY DEF Sound
<1>1. PICK p \in Passed(Other(m), e) : p = result.proof
  BY DEF Answers
<1>2. PICK old : old = {Outgoing("NeedAck", p.man, p)}
  OBVIOUS
<1>3. PICK none : none = {}
  OBVIOUS
<1>4. PICK left : left = PutOut(d, old, none)
  OBVIOUS
<1>5. \/ step = Accept(d, p, FALSE)
      \/ step = Did(none, left, None)
      \/ step = Did({}, d, None)
  BY <1>1, <1>2, <1>3, <1>4 DEF Acknowledged
<1>a. CASE step = Accept(d, p, FALSE)
  BY <1>1, <1>a, AcceptSteps
<1>b. CASE step = Did({}, d, None)
  <2>1. Steps(m, d, e, step) /\ Still(d, step) /\ step.res = None
    BY <1>b, NoSteps
  <2> QED
    BY <2>1 DEF Settles
<1>c. CASE step = Did(none, left, None)
  <2>1. left = [out |-> (d.out \ old) \cup none, in |-> d.in, blob |-> d.blob,
                ver |-> d.ver, epoch |-> d.epoch]
    BY <1>s, <1>4, OutFields
  <2>2. left.out = d.out \ old /\ left.in = d.in /\ left.ver = d.ver
    BY <1>3, <2>1
  <2>3. IsFiniteSet(left.out) /\ Cardinality(left.out) <= MaxRecords
    <3>1. IsFiniteSet(d.out) /\ Cardinality(d.out) <= MaxRecords /\ MaxRecords \in Nat
      BY <1>s, TransferAssumption DEF Shape, Valid
    <3>2. left.out \in SUBSET d.out
      BY <2>2
    <3> QED
      BY <3>1, <3>2, Removed
  <2>4. \A r \in old : r.man = p.man /\ r.st = "NeedAck"
    BY <1>2 DEF Outgoing
  <2>5. p.man \in DOMAIN d.blob => Owned(left, p.man)
    <3>1. p.man \in DOMAIN d.blob => Owned(d, p.man)
      BY DEF Sound, BlobSound
    <3> QED
      BY <2>2, <2>4, <3>1 DEF Owned
  <2>6. \A r \in none : /\ r \in {Outgoing("Accepted", p.man, p), Outgoing("NeedAck", p.man, p)}
                        /\ p.man.epoch <= d.epoch /\ OutRows(d, p.man) \subseteq old
    BY <1>3
  <2>7. \A r, s \in none : r = s
    BY <1>3
  <2>8. \A r \in d.out \cap old : r.man = p.man /\ r.st # "Preparing"
    BY <2>4
  <2>9. Leads(m, d, e, left)
    BY <1>4, <2>3, <2>5, <2>6, <2>7, <2>8, RetireLeads
  <2>10. Steps(m, d, e, step)
    BY <1>3, <2>9, <1>c, DidSteps
  <2>11. step.res = None /\ step.cuts = none \cup {left}
    BY <1>c, DidFields
  <2> QED
    BY <1>3, <2>2, <2>10, <2>11 DEF Settles, Still
<1> QED
  BY <1>1, <1>5, <1>a, <1>b, <1>c

-----------------------------------------------------------------------------
(* The recipient's side.                                                   *)

\* A body from the other machine is for this one (validate_manifest).
LEMMA BodyTo ==
  ASSUME NEW m \in Machine, NEW d, NEW e, NEW man \in Bodies(Other(m), e, d)
  PROVE  /\ man \in To(m) /\ man \in Plans /\ man.src # m /\ man.dst = m
         /\ man.epoch <= d.epoch /\ man.base \in Version /\ man.target \in Version
         /\ man \in Open(e) \/ Arrived(d, man)
<1>1. /\ man \in Manifests /\ man.dst = Other(man.src) /\ man.src = Other(m)
      /\ man.epoch <= d.epoch /\ (man \in Open(e) \/ Arrived(d, man))
  BY DEF Bodies, From, Plans
<1> QED
  BY <1>1, TwoMachines DEF To, Plans, Manifests

\* The record of one body gives way to another, or goes (save): only a record
\* that owes no notice, and a transfer is taken up only where no receipt is out.
LEMMA TakeLeads ==
  ASSUME NEW m \in Machine, NEW d, NEW e, Sound(m, d, e),
         NEW man \in To(m), man.epoch <= d.epoch,
         NEW old, old = InRows(d, man), \A r \in old : ~(r.notify /\ man.epoch = d.epoch),
         NEW new,
         \A r \in new :
           /\ r \in InRecords(m) /\ r.man = man
           /\ r.st \in {"Complete", "Cleanup"} => r.proof \in Truths(m, d) /\ r.proof.man = man
           /\ r.st \in {"Receiving", "Importing"} \/ r.notify => Unclaimed(d, man),
         \A r, s \in new : r = s,
         NEW c, c = PutIn(d, old, new), IsFiniteSet(c.in), Cardinality(c.in) <= MaxRecords,
         man \in DOMAIN d.blob => Owned(c, man)
  PROVE  Leads(m, d, e, c) /\ c.ver = d.ver
<1>s. Shape(d) /\ InSound(m, d) /\ BlobSound(m, d)
  BY DEF Sound
<1>1. c = [out |-> d.out, in |-> (d.in \ old) \cup new, blob |-> d.blob, ver |-> d.ver,
           epoch |-> d.epoch]
  BY <1>s, InFields
<1>2. /\ c.out = d.out /\ c.in = (d.in \ old) \cup new /\ c.blob = d.blob /\ c.ver = d.ver
      /\ c.epoch = d.epoch
  BY <1>1
<1>3. \A r \in c.in : r \in new \/ (r \in d.in /\ r.man # man)
  BY <1>2 DEF InRows
<1>4. Truths(m, c) = Truths(m, d)
  BY <1>2 DEF Truths, True
<1>5. InSound(m, c)
  <2> SUFFICES ASSUME NEW r \in c.in
               PROVE  /\ r \in InRecords(m) /\ r.man.epoch <= d.epoch
                      /\ r.st \in {"Complete", "Cleanup"} =>
                           r.proof \in Truths(m, c) /\ r.proof.man = r.man
    BY <1>2 DEF InSound
  <2>1. CASE r \in new
    BY <1>4, <2>1
  <2>2. CASE r \in d.in
    BY <1>4, <2>2, <1>s DEF InSound
  <2> QED
    BY <1>3, <2>1, <2>2
<1>6. \A r, s \in c.in : r # s => r.man # s.man
  <2> SUFFICES ASSUME NEW r \in c.in, NEW s \in c.in, r # s
               PROVE  r.man # s.man
    OBVIOUS
  <2>1. CASE r \in d.in /\ s \in d.in
    BY <2>1, <1>s DEF Shape, Valid
  <2> QED
    BY <2>1, <1>3
<1>7. Valid(c)
  BY <1>2, <1>6, <1>s DEF Shape, Valid
<1>8. TakesUp(d, c)
  <2>1. ASSUME NEW x \in Plans, Begun(c, x) PROVE Unclaimed(d, x)
    <3>1. PICK r \in c.in : r.man = x /\ x.epoch = c.epoch /\ r.st \in {"Receiving", "Importing"}
      BY <2>1 DEF Begun
    <3>2. CASE r \in new
      BY <3>1, <3>2
    <3>3. CASE r \in d.in
      BY <3>1, <3>3, <1>2 DEF Begun, Unclaimed
    <3> QED
      BY <1>3, <3>2, <3>3
  <2>2. ASSUME NEW x \in Plans, Owing(c, x) PROVE Owing(d, x) \/ Unclaimed(d, x)
    <3>1. PICK r \in c.in : r.man = x /\ x.epoch = c.epoch /\ r.notify
      BY <2>2 DEF Owing
    <3>2. CASE r \in new
      BY <3>1, <3>2
    <3>3. CASE r \in d.in
      BY <3>1, <3>3, <1>2 DEF Owing
    <3> QED
      BY <1>3, <3>2, <3>3
  <2> QED
    BY <2>1, <2>2 DEF TakesUp
<1>9. Holds(d, c)
  BY <1>2 DEF Holds, InRows
<1>10. \A x \in DOMAIN d.blob : Owned(c, x)
  <2> SUFFICES ASSUME NEW x \in DOMAIN d.blob, x # man PROVE Owned(c, x)
    OBVIOUS
  <2>1. Owned(d, x)
    BY <1>s DEF BlobSound
  <2> QED
    BY <2>1, <1>2 DEF Owned, InRows
<1> QED
  BY <1>1, <1>2, <1>5, <1>7, <1>8, <1>9, <1>10, InLeads

\* A body's record is the only one, and its receipt is true (in_rows).
LEMMA RowKinds ==
  ASSUME NEW m \in Machine, NEW d, NEW e, Sound(m, d, e), NEW man,
         NEW r \in InRows(d, man)
  PROVE  /\ r \in d.in /\ r.man = man /\ r \in InRecords(m)
         /\ \A s \in d.in : s.man = man => s = r
         /\ r.st \in {"Complete", "Cleanup"} => r.proof \in Truths(m, d) /\ r.proof.man = man
         /\ r.proof # None => r.st \in {"Complete", "Cleanup"}
         /\ r.notify => r.st = "Complete"
<1>1. r \in d.in /\ r.man = man
  BY DEF InRows
<1>2. InSound(m, d) /\ Valid(d)
  BY DEF Sound, Shape
<1>3. r \in InRecords(m)
  BY <1>1, <1>2 DEF InSound
<1>4. \A s \in d.in : s.man = man => s = r
  BY <1>1, <1>2 DEF Valid
<1>5. r.st \in {"Complete", "Cleanup"} => r.proof \in Truths(m, d) /\ r.proof.man = man
  BY <1>1, <1>2 DEF InSound
<1>6. r.proof # None => r.st \in {"Complete", "Cleanup"}
  BY <1>3, InKinds
<1>7. r.notify => r.st = "Complete"
  BY <1>3, InKinds
<1> QED
  BY <1>1, <1>3, <1>4, <1>5, <1>6, <1>7

\* There are no more records than before where a body's record changes, or the
\* code has counted them (validate_records).
LEMMA RowsFit ==
  ASSUME NEW d, Shape(d), NEW man, NEW r,
         NEW c, c.in = (d.in \ InRows(d, man)) \cup {r},
         InRows(d, man) # {} \/ Cardinality(c.in) <= MaxRecords
  PROVE  IsFiniteSet(c.in) /\ Cardinality(c.in) <= MaxRecords
<1>1. IsFiniteSet(d.in) /\ Cardinality(d.in) <= MaxRecords /\ MaxRecords \in Nat
  BY TransferAssumption DEF Shape, Valid
<1>2. CASE InRows(d, man) # {}
  <2>1. InRows(d, man) \cap d.in # {}
    BY <1>2 DEF InRows
  <2>2. /\ IsFiniteSet((d.in \ InRows(d, man)) \cup {r})
        /\ Cardinality((d.in \ InRows(d, man)) \cup {r}) <= MaxRecords
    BY <1>1, <2>1, Replaced
  <2> QED
    BY <2>2
<1>3. CASE InRows(d, man) = {}
  <2>1. c.in = d.in \cup {r}
    BY <1>3
  <2>2. IsFiniteSet(d.in \cup {r})
    BY <1>1, Added
  <2> QED
    BY <1>3, <2>1, <2>2
<1> QED
  BY <1>2, <1>3

\* A body's record is replaced by one that is good for it.
LEMMA PutLeads ==
  ASSUME NEW m \in Machine, NEW d, NEW e, Sound(m, d, e),
         NEW man \in To(m), man.epoch <= d.epoch,
         \A r \in InRows(d, man) : ~(r.notify /\ man.epoch = d.epoch),
         NEW r \in InRecords(m), r.man = man,
         r.st \in {"Complete", "Cleanup"} => r.proof \in Truths(m, d) /\ r.proof.man = man,
         r.st \in {"Receiving", "Importing"} \/ r.notify => Unclaimed(d, man),
         NEW c, c = PutIn(d, InRows(d, man), {r}),
         InRows(d, man) # {} \/ Cardinality(c.in) <= MaxRecords
  PROVE  /\ Leads(m, d, e, c) /\ c.ver = d.ver /\ c.epoch = d.epoch
         /\ c.out = d.out /\ c.blob = d.blob /\ InRows(c, man) = {r}
<1>s. Shape(d)
  BY DEF Sound
<1>1. c = [out |-> d.out, in |-> (d.in \ InRows(d, man)) \cup {r}, blob |-> d.blob,
           ver |-> d.ver, epoch |-> d.epoch]
  BY <1>s, InFields
<1>2. /\ c.in = (d.in \ InRows(d, man)) \cup {r} /\ c.ver = d.ver /\ c.epoch = d.epoch
      /\ c.out = d.out /\ c.blob = d.blob
  BY <1>1
<1>3. IsFiniteSet(c.in) /\ Cardinality(c.in) <= MaxRecords
  <2>1. c.in = (d.in \ InRows(d, man)) \cup {r}
    BY <1>2
  <2>2. IsFiniteSet(c.in)
    BY <1>s, <2>1, RowsFit
  <2>3. Cardinality(c.in) <= MaxRecords
    BY <1>s, <2>1, RowsFit
  <2> QED
    BY <2>2, <2>3
<1>4. InRows(c, man) = {r}
  BY <1>2 DEF InRows
<1>5. Owned(c, man)
  BY <1>2 DEF Owned
<1>6. PICK new : new = {r}
  OBVIOUS
<1>7. PICK old : old = InRows(d, man)
  OBVIOUS
<1>8. c = PutIn(d, old, new)
  BY <1>6, <1>7
<1>9. \A x \in new :
        /\ x \in InRecords(m) /\ x.man = man
        /\ x.st \in {"Complete", "Cleanup"} => x.proof \in Truths(m, d) /\ x.proof.man = man
        /\ x.st \in {"Receiving", "Importing"} \/ x.notify => Unclaimed(d, man)
  BY <1>6
<1>10. \A x, y \in new : x = y
  BY <1>6
<1>11. Leads(m, d, e, c)
  BY <1>3, <1>5, <1>7, <1>8, <1>9, <1>10, TakeLeads
<1> QED
  BY <1>2, <1>4, <1>11

\* What is here already gets its receipt, or had one (completed).
Completing(m, d, e, man, step) ==
  /\ Steps(m, d, e, step) /\ Still(d, step)
  /\ step.res \in {None, Failed, Full} \cup [k : {"Complete"}, proof : Given(m, step.last)]
  /\ step.res = None =>
       /\ step.last = d
       /\ ~Covers(d.ver, man.base) \/ ~Covers(d.ver, man.target)
       /\ \A r \in InRows(d, man) : r.st # "Complete"

\* The receipt on record is given again, or one is made for what is here
\* already (completed).
LEMMA CompletedSteps ==
  ASSUME NEW m \in Machine, NEW d, NEW e, Sound(m, d, e), NEW man \in To(m),
         man.epoch = d.epoch, NEW step, step = Completed(d, man)
  PROVE  Completing(m, d, e, man, step)
<1>s. Shape(d) /\ d.ver \in Version /\ d.epoch \in {0, 1} /\ man \in Manifests
  BY DEF Sound, Shape, To, Plans
<1>1. PICK rows : rows = InRows(d, man)
  OBVIOUS
<1> DEFINE done == {r \in rows : r.st = "Complete"}
<1>2. PICK p : p = Proof(man, d.ver, "Equivalent")
  OBVIOUS
<1>3. PICK told \in BOOLEAN : told = \E r \in rows : r.st = "Importing" /\ r.before # d.ver
  OBVIOUS
<1>4. PICK row : row = Incoming("Complete", man, p, told, None)
  OBVIOUS
<1>5. PICK new : new = PutIn(d, rows, {row})
  OBVIOUS
<1>6. step =
        CASE done # {} ->
               LET r == CHOOSE r \in done : TRUE
               IN  Did({}, d, IF Covers(d.ver, r.proof.ver) THEN Complete(r.proof) ELSE Failed)
          [] done = {} /\ Covers(d.ver, man.base) /\ Covers(d.ver, man.target) ->
               IF Valid(new) THEN Did({}, new, Complete(p)) ELSE Did({}, d, Full)
          [] OTHER -> Did({}, d, None)
  BY <1>1, <1>2, <1>3, <1>4, <1>5 DEF Completed
<1>a. CASE done # {}
  <2>1. PICK r : r = CHOOSE s \in done : TRUE
    OBVIOUS
  <2>2. r \in rows /\ r.st = "Complete"
    BY <1>a, <2>1
  <2>3. PICK res : res = IF Covers(d.ver, r.proof.ver) THEN Complete(r.proof) ELSE Failed
    OBVIOUS
  <2>4. step = Did({}, d, res)
    BY <1>6, <1>a, <2>1, <2>3
  <2>5. Steps(m, d, e, step) /\ Still(d, step) /\ step.last = d /\ step.res = res
    BY <2>4, NoSteps
  <2>6. r.proof \in Truths(m, d) /\ r.proof.man = man /\ \A s \in d.in : s.man = man => s = r
    BY <1>1, <2>2, RowKinds
  <2>7. r.proof \in Given(m, d)
    BY <2>2, <2>6 DEF Given, Begun
  <2>8. res \in {Failed} \cup [k : {"Complete"}, proof : Given(m, d)]
    BY <2>3, <2>7 DEF Complete
  <2>9. r.proof \in Proofs
    BY <2>6 DEF Truths
  <2>10. res # None
    BY <2>3, <2>9, Results
  <2> QED
    BY <2>5, <2>8, <2>10 DEF Completing
<1>b. CASE done = {} /\ Covers(d.ver, man.base) /\ Covers(d.ver, man.target)
  <2>1. /\ p.man = man /\ p.ver = d.ver /\ p \in Proofs
    BY <1>s, <1>2 DEF Proof, Proofs
  <2>2. p \in Truths(m, d)
    <3>1. Covers(d.ver, d.ver) /\ man.epoch <= d.epoch
      BY <1>s, Versions
    <3> QED
      BY <1>b, <2>1, <3>1 DEF Truths, Grounded, True
  <2>3. CASE ~Valid(new)
    <3>1. step = Did({}, d, Full)
      BY <1>6, <1>b, <2>3
    <3>2. Steps(m, d, e, step) /\ Still(d, step) /\ step.res = Full
      BY <3>1, NoSteps
    <3> QED
      BY <3>2, Results DEF Completing
  <2>4. CASE Valid(new)
    <3>1. PICK none : none = {}
      OBVIOUS
    <3>2. step = Did(none, new, Complete(p))
      BY <1>6, <1>b, <2>4, <3>1
    <3>3. row \in InRecords(m) /\ row.man = man /\ row.st = "Complete" /\ row.proof = p
          /\ (row.notify <=> told)
      BY <1>3, <1>4, <2>1 DEF Incoming, InRecords
    <3>4. told => Unclaimed(d, man)
      <4> SUFFICES ASSUME NEW r \in rows, r.st = "Importing"
                   PROVE  Unclaimed(d, man)
        BY <1>3
      <4>1. r \in d.in /\ r.man = man
        BY <1>1 DEF InRows
      <4> QED
        BY <4>1 DEF Unclaimed, Begun
    <3>5. \A r \in InRows(d, man) : ~(r.notify /\ man.epoch = d.epoch)
      BY <1>1, <1>b, RowKinds
    <3>6. Leads(m, d, e, new) /\ new.ver = d.ver /\ new.epoch = d.epoch /\ InRows(new, man) = {row}
      <4>1. man.epoch <= d.epoch
        BY <1>s
      <4>2. row.st \in {"Complete", "Cleanup"} => row.proof \in Truths(m, d) /\ row.proof.man = man
        BY <2>1, <2>2, <3>3
      <4>3. row.st \in {"Receiving", "Importing"} \/ row.notify => Unclaimed(d, man)
        BY <3>3, <3>4
      <4>4. Cardinality(new.in) <= MaxRecords
        BY <2>4 DEF Valid
      <4>5. new = PutIn(d, InRows(d, man), {row})
        BY <1>1, <1>5
      <4> QED
        BY <3>3, <3>5, <4>1, <4>2, <4>3, <4>4, <4>5, PutLeads
    <3>7. p \in Given(m, new)
      <4>1. p \in Truths(m, new)
        BY <2>2, <3>6 DEF Truths, True
      <4>2. ~Begun(new, man)
        BY <3>3, <3>6 DEF Begun, InRows
      <4> QED
        BY <2>1, <4>1, <4>2 DEF Given
    <3>8. Steps(m, d, e, step)
      BY <3>1, <3>2, <3>6, DidSteps
    <3>9. step.last = new /\ step.res = Complete(p) /\ step.cuts = none \cup {new}
      BY <3>2, DidFields
    <3>10. step.res # None /\ step.res \in [k : {"Complete"}, proof : Given(m, step.last)]
      BY <2>1, <3>7, <3>9, Results DEF Complete
    <3>11. Still(d, step)
      BY <3>1, <3>6, <3>9 DEF Still
    <3> QED
      BY <3>8, <3>10, <3>11 DEF Completing
  <2> QED
    BY <2>3, <2>4
<1>c. CASE done = {} /\ ~(Covers(d.ver, man.base) /\ Covers(d.ver, man.target))
  <2>1. step = Did({}, d, None)
    BY <1>6, <1>c
  <2>2. Steps(m, d, e, step) /\ Still(d, step) /\ step.last = d /\ step.res = None
    BY <2>1, NoSteps
  <2> QED
    BY <1>1, <1>c, <2>2 DEF Completing
<1> QED
  BY <1>a, <1>b, <1>c

\* What a step for an incoming body does: the copy stays or takes in one open
\* plan, and the receipt it answers with is one to give.
Takes(m, d, e, step) ==
  /\ Steps(m, d, e, step)
  /\ \A c \in step.cuts : Lands(m, d, e, c)
  /\ step.res \in Received(Given(m, step.last))

\* A verified body is taken in: the copy covers it afterwards, and what it had
\* (import).
LEMMA LandLeads ==
  ASSUME NEW m \in Machine, NEW d, NEW e, Sound(m, d, e), NEW man \in Bodies(Other(m), e, d),
         man.epoch = d.epoch, Covers(d.ver, man.base), NEW ver, ver = Join(d.ver, man.target),
         NEW c, c = [d EXCEPT !.ver = ver]
  PROVE  /\ Leads(m, d, e, c) /\ Lands(m, d, e, c)
         /\ c.in = d.in /\ c.epoch = d.epoch /\ c.ver = ver
<1>s. Shape(d) /\ OutSound(m, d, e) /\ InSound(m, d) /\ BlobSound(m, d) /\ d.ver \in Version
  BY DEF Sound, Shape
<1>1. c = [out |-> d.out, in |-> d.in, blob |-> d.blob, ver |-> ver, epoch |-> d.epoch]
  <2>1. d = [out |-> d.out, in |-> d.in, blob |-> d.blob, ver |-> d.ver, epoch |-> d.epoch]
    BY <1>s DEF Shape
  <2> QED
    BY <2>1
<1>2. /\ c.out = d.out /\ c.in = d.in /\ c.blob = d.blob /\ c.ver = ver /\ c.epoch = d.epoch
      /\ c = [out |-> c.out, in |-> c.in, blob |-> c.blob, ver |-> c.ver, epoch |-> c.epoch]
  BY <1>1
<1>3. man.dst = m /\ man.base \in Version /\ man.target \in Version
      /\ (man \in Open(e) \/ Arrived(d, man))
  BY BodyTo
<1>4. ver \in Version /\ Covers(ver, d.ver)
  BY <1>s, <1>3, Versions
<1>5. Shape(c)
  BY <1>2, <1>4, <1>s DEF Shape, Valid
<1>6. OutSound(m, c, e)
  <2> SUFFICES ASSUME NEW r \in d.out
               PROVE  Active(r) /\ r.man.epoch = d.epoch => Covers(ver, r.man.target)
    BY <1>2, <1>s DEF OutSound
  <2>1. r \in OutRecords(m) /\ (Active(r) /\ r.man.epoch = d.epoch => Covers(d.ver, r.man.target))
    BY <1>s DEF OutSound
  <2>2. r.man.target \in Version
    BY <2>1, OutKinds DEF Plans, Manifests
  <2> QED
    BY <1>4, <1>s, <2>1, <2>2, Versions
<1>7. Truths(m, d) \subseteq Truths(m, c)
  BY <1>2, <1>4, <1>s, TruthsGrow
<1>8. InSound(m, c)
  BY <1>2, <1>7, <1>s DEF InSound
<1>9. BlobSound(m, c)
  BY <1>2, <1>s DEF BlobSound, Owned
<1>10. LetsGo(d, e, c) /\ Holds(d, c) /\ TakesUp(d, c)
  BY <1>2 DEF LetsGo, Open, Holds, TakesUp, Begun, Owing, Unclaimed
<1>11. Given(m, d) \subseteq Given(m, c) /\ Passed(m, d) \subseteq Passed(m, c)
  <2>1. c.ver \in Version /\ c.epoch = d.epoch /\ Covers(c.ver, d.ver) /\ TakesUp(d, c)
    BY <1>2, <1>4, <1>10
  <2>2. Given(m, d) \subseteq Given(m, c)
    BY <2>1, <1>s, PassedGrow
  <2>3. Passed(m, d) \subseteq Passed(m, c)
    BY <2>1, <1>s, PassedGrow
  <2> QED
    BY <2>2, <2>3
<1>12. Leads(m, d, e, c)
  BY <1>2, <1>4, <1>5, <1>6, <1>8, <1>9, <1>10, <1>11 DEF Leads, Sound, Onward
<1>13. Lands(m, d, e, c)
  <2>1. CASE man \in Open(e)
    BY <1>2, <1>3, <2>1 DEF Lands
  <2>2. CASE Arrived(d, man)
    <3>1. Covers(d.ver, man.target)
      BY <2>2 DEF Arrived
    <3>2. \A x \in Machine : ver[x] = d.ver[x]
      BY <3>1 DEF Join, Covers
    <3>3. ver = d.ver
      BY <3>2, <1>4, <1>s DEF Version
    <3> QED
      BY <1>2, <3>3 DEF Lands
  <2> QED
    BY <1>3, <2>1, <2>2
<1> QED
  BY <1>2, <1>12, <1>13

\* The body is imported, and its receipt recorded when it is durable (receive).
LEMMA ImportSteps ==
  ASSUME NEW m \in Machine, NEW d, NEW e, Sound(m, d, e), NEW man \in Bodies(Other(m), e, d),
         man.epoch = d.epoch, InRows(d, man) # {}, \A r \in InRows(d, man) : r.st # "Complete",
         Unclaimed(d, man), NEW step, step = Import(d, man)
  PROVE  Takes(m, d, e, step)
<1>s. Shape(d) /\ d.ver \in Version /\ d.epoch \in {0, 1}
  BY DEF Sound, Shape
<1>1. /\ man \in To(m) /\ man.epoch <= d.epoch /\ man.base \in Version /\ man.target \in Version
      /\ man \in Manifests /\ man \in Plans
  <2>1. man \in To(m) /\ man.epoch <= d.epoch
    BY BodyTo
  <2>2. man.base \in Version /\ man.target \in Version /\ man \in Plans
    BY BodyTo
  <2> QED
    BY <2>1, <2>2 DEF Plans
<1>2. PICK row : row = Incoming("Importing", man, None, FALSE, d.ver)
  OBVIOUS
<1>3. PICK busy : busy = PutIn(d, InRows(d, man), {row})
  OBVIOUS
<1>4. PICK ver : ver = Join(d.ver, man.target)
  OBVIOUS
<1>5. PICK here : here = [busy EXCEPT !.ver = ver]
  OBVIOUS
<1>6. PICK p : p = Proof(man, ver, "Applied")
  OBVIOUS
<1>7. PICK told \in BOOLEAN : told = (ver # d.ver)
  OBVIOUS
<1>8. PICK new : new = Incoming("Complete", man, p, told, None)
  OBVIOUS
<1>9. PICK done : done = PutIn(here, InRows(here, man), {new})
  OBVIOUS
<1>10. step = IF Covers(d.ver, man.base) THEN Did({busy, here}, done, Complete(p))
                                         ELSE Did({}, busy, Failed)
  BY <1>2, <1>3, <1>4, <1>5, <1>6, <1>7, <1>8, <1>9 DEF Import
<1>11. row \in InRecords(m) /\ row.man = man /\ row.st = "Importing" /\ row.notify = FALSE
  BY <1>1, <1>2, <1>s DEF Incoming, InRecords
<1>12. \A r \in InRows(d, man) : ~(r.notify /\ man.epoch = d.epoch)
  BY RowKinds
<1>13. /\ Leads(m, d, e, busy) /\ busy.ver = d.ver /\ busy.epoch = d.epoch
       /\ InRows(busy, man) = {row}
  BY <1>1, <1>3, <1>11, <1>12, PutLeads
<1>a. CASE ~Covers(d.ver, man.base)
  <2>1. PICK cuts : cuts = {}
    OBVIOUS
  <2>2. step = Did(cuts, busy, Failed)
    BY <1>10, <1>a, <2>1
  <2>3. Steps(m, d, e, step)
    BY <1>13, <2>1, <2>2, DidSteps
  <2>4. step.res = Failed /\ step.cuts = cuts \cup {busy}
    BY <2>2, DidFields
  <2>5. \A c \in step.cuts : Lands(m, d, e, c)
    BY <1>13, <2>1, <2>4 DEF Lands
  <2> QED
    BY <2>3, <2>4, <2>5 DEF Takes, Received, Failure
<1>b. CASE Covers(d.ver, man.base)
  <2>1. Sound(m, busy, e)
    BY <1>13 DEF Leads
  <2>2. man \in Bodies(Other(m), e, busy)
    BY <1>13 DEF Bodies, Arrived
  <2>3. Leads(m, busy, e, here) /\ Lands(m, busy, e, here)
    BY <1>4, <1>5, <1>13, <1>b, <2>1, <2>2, LandLeads
  <2>4. here.in = busy.in /\ here.epoch = d.epoch /\ here.ver = ver
    BY <1>4, <1>5, <1>13, <1>b, <2>1, <2>2, LandLeads
  <2>5. Leads(m, d, e, here)
    BY <1>13, <1>s, <2>3, LeadsOn
  <2>6. Lands(m, d, e, here)
    BY <1>13, <2>3 DEF Lands
  <2>7. Sound(m, here, e)
    BY <2>3 DEF Leads
  <2>8. InRows(here, man) = {row}
    BY <1>13, <2>4 DEF InRows
  <2>9. /\ p.man = man /\ p.ver = ver /\ p \in Proofs /\ ver \in Version
    BY <1>1, <1>4, <1>6, <1>s, Versions DEF Proof, Proofs
  <2>10. p \in Truths(m, here)
    <3>1. Covers(ver, ver) /\ Covers(ver, d.ver) /\ Covers(ver, man.target)
      BY <1>1, <1>4, <1>s, Versions
    <3>2. Covers(ver, man.base)
      BY <1>1, <1>b, <1>s, <2>9, <3>1, Versions
    <3> QED
      BY <1>1, <2>4, <2>9, <3>1, <3>2 DEF Truths, Grounded, True
  <2>11. new \in InRecords(m) /\ new.man = man /\ new.st = "Complete" /\ new.proof = p
    BY <1>1, <1>8, <2>9 DEF Incoming, InRecords
  <2>12. Unclaimed(here, man)
    BY <1>11, <2>4, <2>8 DEF Unclaimed, Begun, InRows
  <2>13. /\ Leads(m, here, e, done) /\ done.ver = here.ver /\ done.epoch = here.epoch
         /\ InRows(done, man) = {new}
    <3>1. man.epoch <= here.epoch /\ InRows(here, man) # {}
      BY <1>1, <2>4, <2>8
    <3>2. \A r \in InRows(here, man) : ~(r.notify /\ man.epoch = here.epoch)
      BY <1>11, <2>8
    <3>3. new.st \in {"Complete", "Cleanup"} => new.proof \in Truths(m, here) /\ new.proof.man = man
      BY <2>9, <2>10, <2>11
    <3> QED
      BY <1>1, <1>9, <2>7, <2>11, <2>12, <3>1, <3>2, <3>3, PutLeads
  <2>14. Leads(m, d, e, done)
    BY <1>s, <2>5, <2>13, LeadsOn
  <2>15. Lands(m, d, e, done)
    BY <2>6, <2>13 DEF Lands
  <2>16. p \in Given(m, done)
    <3>1. p \in Truths(m, done)
      BY <2>10, <2>13 DEF Truths, True
    <3>2. ~Begun(done, man)
      BY <2>11, <2>13 DEF Begun, InRows
    <3> QED
      BY <2>9, <3>1, <3>2 DEF Given
  <2>17. PICK cuts : cuts = {busy, here}
    OBVIOUS
  <2>18. step = Did(cuts, done, Complete(p))
    BY <1>10, <1>b, <2>17
  <2>19. Steps(m, d, e, step)
    BY <1>13, <2>5, <2>14, <2>17, <2>18, DidSteps
  <2>20. step.last = done /\ step.res = Complete(p) /\ step.cuts = cuts \cup {done}
    BY <2>18, DidFields
  <2>21. \A c \in step.cuts : Lands(m, d, e, c)
    BY <1>13, <2>6, <2>15, <2>17, <2>20 DEF Lands
  <2>22. step.res \in [k : {"Complete"}, proof : Given(m, step.last)]
    BY <2>16, <2>20 DEF Complete
  <2> QED
    BY <2>19, <2>21, <2>22 DEF Takes, Received
<1> QED
  BY <1>a, <1>b

\* A chunk at its place is appended, one behind it passed over; the last one is
\* followed by the import (append_body).
LEMMA AppendChunkSteps ==
  ASSUME NEW m \in Machine, NEW d, NEW e, Sound(m, d, e), NEW man \in Bodies(Other(m), e, d),
         man.epoch = d.epoch, InRows(d, man) # {}, \A r \in InRows(d, man) : r.st # "Complete",
         Unclaimed(d, man), NEW at \in 0..Chunks, NEW off \in Nat,
         NEW step, step = AppendChunk(d, man, off, at)
  PROVE  Takes(m, d, e, step)
<1>s. Shape(d) /\ d.epoch \in {0, 1}
  BY DEF Sound, Shape
<1>1. PICK next : next = IF off = at /\ at < Chunks THEN at + 1 ELSE at
  OBVIOUS
<1>2. next \in 0..Chunks
  BY <1>1, TransferAssumption
<1>3. PICK held : held = Staged(d, man, next)
  OBVIOUS
<1>4. PICK first : first = Did({d}, held, None)
  OBVIOUS
<1>5. PICK more : more = Import(held, man)
  OBVIOUS
<1>6. step = IF next < Chunks THEN Did({d}, held, StoredAt(next)) ELSE After(first, more)
  BY <1>1, <1>3, <1>4, <1>5 DEF AppendChunk
<1>7. Owned(d, man) /\ man.src # m
  BY BodyTo DEF InRows, Owned
<1>8. Leads(m, d, e, held)
  BY <1>2, <1>3, <1>7, StagedLeads
<1>9. held.in = d.in /\ held.ver = d.ver /\ held.epoch = d.epoch
  BY <1>2, <1>3, <1>7, StagedLeads
<1>10. Leads(m, d, e, d)
  BY LeadsSame
<1>11. PICK cuts : cuts = {d}
  OBVIOUS
<1>a. CASE next < Chunks
  <2>1. step = Did(cuts, held, StoredAt(next))
    BY <1>6, <1>11, <1>a
  <2>2. Steps(m, d, e, step)
    BY <1>8, <1>10, <1>11, <2>1, DidSteps
  <2>3. step.res = StoredAt(next) /\ step.cuts = cuts \cup {held}
    BY <2>1, DidFields
  <2>4. \A c \in step.cuts : Lands(m, d, e, c)
    BY <1>9, <1>11, <2>3 DEF Lands
  <2>5. step.res \in [k : {"Stored"}, next : 0..Chunks]
    BY <1>2, <2>3 DEF StoredAt
  <2> QED
    BY <2>2, <2>4, <2>5 DEF Takes, Received
<1>b. CASE ~(next < Chunks)
  <2>1. step = After(first, more)
    BY <1>6, <1>b
  <2>2. Steps(m, d, e, first)
    BY <1>4, <1>8, <1>10, DidSteps
  <2>3. first.last = held /\ first.cuts = {d} \cup {held}
    BY <1>4, DidFields
  <2>4. Sound(m, held, e)
    BY <1>8 DEF Leads
  <2>5. man \in Bodies(Other(m), e, held) /\ InRows(held, man) = InRows(d, man)
        /\ Unclaimed(held, man)
    BY <1>9 DEF Bodies, Arrived, InRows, Unclaimed, Begun
  <2>6. Takes(m, held, e, more)
    BY <1>5, <1>9, <2>4, <2>5, ImportSteps
  <2>7. Steps(m, d, e, step)
    BY <1>s, <2>1, <2>2, <2>3, <2>6, AfterSteps DEF Takes
  <2>8. more = [cuts |-> more.cuts, last |-> more.last, res |-> more.res]
    BY <2>6 DEF Takes, Steps
  <2>9. step.last = more.last /\ step.res = more.res /\ step.cuts = more.cuts \cup first.cuts
    BY <2>1, <2>8, AfterFields
  <2>10. \A c \in step.cuts : Lands(m, d, e, c)
    BY <1>9, <2>3, <2>6, <2>9 DEF Lands, Takes
  <2> QED
    BY <2>6, <2>7, <2>9, <2>10 DEF Takes
<1> QED
  BY <1>a, <1>b

\* What is staged of a body is no more than the body (body length).
LEMMA StoredCount ==
  ASSUME NEW m, NEW d, NEW e, Sound(m, d, e), NEW man
  PROVE  Stored(d, man) \in 0..Chunks
BY TransferAssumption DEF Sound, BlobSound, Stored

\* What is done for what is here already stands for the whole step.
LEMMA CompletingTakes ==
  ASSUME NEW m, NEW d, NEW e, NEW man, NEW step, Completing(m, d, e, man, step),
         step.res # None
  PROVE  Takes(m, d, e, step)
<1>1. Steps(m, d, e, step) /\ \A c \in step.cuts : c.ver = d.ver
  BY DEF Completing, Still
<1>2. step.res \in {None, Failed, Full} \cup [k : {"Complete"}, proof : Given(m, step.last)]
  BY DEF Completing
<1> QED
  BY <1>1, <1>2 DEF Takes, Lands, Received, Failure

\* A disk the step may leave, and a result that has no receipt.
LEMMA LeftTakes ==
  ASSUME NEW m, NEW d, NEW e, NEW c, Leads(m, d, e, c), c.ver = d.ver,
         NEW res \in Failure \cup {Missing, Apart} \cup [k : {"Stored"}, next : 0..Chunks],
         NEW step, step = Did({}, c, res)
  PROVE  Takes(m, d, e, step)
<1>1. PICK cuts : cuts = {}
  OBVIOUS
<1>2. step = Did(cuts, c, res)
  BY <1>1
<1>3. Steps(m, d, e, step)
  BY <1>1, <1>2, DidSteps
<1>4. step.res = res /\ step.cuts = cuts \cup {c}
  BY <1>2, DidFields
<1> QED
  BY <1>1, <1>3, <1>4 DEF Takes, Lands, Received

\* A chunk of a body from the other machine (receive).
LEMMA ReceiveSteps ==
  ASSUME NEW m \in Machine, NEW d, NEW e, Sound(m, d, e), NEW man \in Bodies(Other(m), e, d),
         NEW off \in Nat, NEW create \in BOOLEAN, NEW step, step = Receive(d, man, off, create)
  PROVE  Takes(m, d, e, step)
<1>s. Shape(d) /\ d.epoch \in {0, 1}
  BY DEF Sound, Shape
<1>m. man \in To(m) /\ man.epoch <= d.epoch
  BY BodyTo
<1>1. PICK row : row = Incoming("Receiving", man, None, FALSE, None)
  OBVIOUS
<1>2. PICK known : known = IF InRows(d, man) # {} THEN d ELSE PutIn(d, {}, {row})
  OBVIOUS
<1>3. PICK done : done = Completed(d, man)
  OBVIOUS
<1>4. PICK more : more = AppendChunk(known, man, off, Stored(d, man))
  OBVIOUS
<1>5. \/ step = Did({}, d, Missing)
      \/ step = Did({}, d, Apart)
      \/ /\ man.epoch = d.epoch
         /\ step = IF done.res # None THEN done
                   ELSE IF ~Valid(known) THEN Did({}, d, Full)
                   ELSE IF man \notin DOMAIN d.blob /\ ~create THEN Did({}, known, Missing)
                   ELSE IF ~Room(known, man) \/ off > Stored(d, man) THEN Did({}, known, Failed)
                   ELSE more
  BY <1>1, <1>2, <1>3, <1>4 DEF Receive
<1>6. Leads(m, d, e, d)
  BY LeadsSame
<1>a. CASE step = Did({}, d, Missing)
  BY <1>6, <1>a, LeftTakes
<1>b. CASE step = Did({}, d, Apart)
  BY <1>6, <1>b, LeftTakes
<1>c. CASE man.epoch = d.epoch
  <2>1. Completing(m, d, e, man, done)
    BY <1>3, <1>m, <1>c, CompletedSteps
  <2>a. CASE done.res # None
    <3>1. step = done \/ step = Did({}, d, Missing) \/ step = Did({}, d, Apart)
      BY <1>5, <2>a
    <3> QED
      BY <3>1, <2>1, <2>a, <1>a, <1>b, CompletingTakes
  <2>b. CASE done.res = None
    <3>1. /\ ~Covers(d.ver, man.base) \/ ~Covers(d.ver, man.target)
          /\ \A r \in InRows(d, man) : r.st # "Complete"
      BY <2>1, <2>b DEF Completing
    <3>2. CASE ~Valid(known)
      <4>1. step = Did({}, d, Full) \/ step = Did({}, d, Missing) \/ step = Did({}, d, Apart)
        BY <1>5, <2>b, <3>2
      <4>2. Full \in Failure
        BY DEF Failure
      <4> QED
        BY <4>1, <4>2, <1>6, <1>a, <1>b, LeftTakes
    <3>3. CASE Valid(known)
      <4>1. /\ Leads(m, d, e, known) /\ known.ver = d.ver /\ known.epoch = d.epoch
            /\ known.blob = d.blob
            /\ InRows(known, man) # {} /\ \A r \in InRows(known, man) : r.st # "Complete"
        <5>1. CASE InRows(d, man) # {}
          BY <5>1, <1>2, <1>6, <3>1
        <5>2. CASE InRows(d, man) = {}
          <6>1. known = PutIn(d, InRows(d, man), {row})
            BY <5>2, <1>2
          <6>2. row \in InRecords(m) /\ row.man = man /\ row.st = "Receiving" /\ row.notify = FALSE
            BY <1>1, <1>m DEF Incoming, InRecords
          <6>3. Unclaimed(d, man)
            BY <3>1 DEF Unclaimed
          <6>4. Cardinality(known.in) <= MaxRecords
            BY <3>3 DEF Valid
          <6>5. /\ Leads(m, d, e, known) /\ known.ver = d.ver /\ known.epoch = d.epoch
                /\ known.blob = d.blob /\ InRows(known, man) = {row}
            <7>1. \A r \in InRows(d, man) : ~(r.notify /\ man.epoch = d.epoch)
              BY <5>2
            <7>2. row.st \in {"Complete", "Cleanup"} =>
                    row.proof \in Truths(m, d) /\ row.proof.man = man
              BY <6>2
            <7>3. row.st \in {"Receiving", "Importing"} \/ row.notify => Unclaimed(d, man)
              BY <6>3
            <7>4. InRows(d, man) # {} \/ Cardinality(known.in) <= MaxRecords
              BY <6>4
            <7>5. Leads(m, d, e, known)
              BY <1>m, <6>1, <6>2, <7>1, <7>2, <7>3, <7>4, PutLeads
            <7>6. known = [out |-> d.out, in |-> (d.in \ InRows(d, man)) \cup {row},
                           blob |-> d.blob, ver |-> d.ver, epoch |-> d.epoch]
              BY <1>s, <6>1, InFields
            <7>7. /\ known.in = (d.in \ InRows(d, man)) \cup {row}
                  /\ known.ver = d.ver /\ known.epoch = d.epoch /\ known.blob = d.blob
              BY <7>6
            <7>8. InRows(known, man) = {row}
              BY <6>2, <7>7 DEF InRows
            <7> QED
              BY <7>5, <7>7, <7>8
          <6> QED
            BY <6>2, <6>5
        <5> QED
          BY <5>1, <5>2
      <4>2. CASE step = Did({}, known, Missing)
        BY <4>1, <4>2, LeftTakes
      <4>3. CASE step = Did({}, known, Failed)
        <5>1. Failed \in Failure
          BY DEF Failure
        <5> QED
          BY <4>1, <4>3, <5>1, LeftTakes
      <4>4. CASE step = more
        <5>1. Sound(m, known, e)
          BY <4>1 DEF Leads
        <5>2. man \in Bodies(Other(m), e, known) /\ Unclaimed(known, man)
          BY <3>1, <4>1 DEF Bodies, Arrived, Unclaimed
        <5>3. Stored(d, man) \in 0..Chunks
          BY StoredCount
        <5>4. Takes(m, known, e, more)
          BY <1>4, <1>c, <4>1, <5>1, <5>2, <5>3, AppendChunkSteps
        <5>5. Steps(m, d, e, more)
          BY <1>s, <4>1, <5>4, LeadsOn DEF Takes, Steps
        <5>6. \A c \in more.cuts : Lands(m, d, e, c)
          BY <4>1, <5>4 DEF Takes, Lands
        <5> QED
          BY <4>4, <5>4, <5>5, <5>6 DEF Takes
      <4> QED
        BY <1>5, <1>a, <1>b, <2>b, <3>3, <4>2, <4>3, <4>4
    <3> QED
      BY <3>2, <3>3
  <2> QED
    BY <2>a, <2>b
<1> QED
  BY <1>5, <1>a, <1>b, <1>c

\* The recipient says how far a body is, or that it is here (status).
LEMMA StatusSteps ==
  ASSUME NEW m \in Machine, NEW d, NEW e, Sound(m, d, e), NEW man \in Bodies(Other(m), e, d),
         NEW step, step = Status(d, man)
  PROVE  Takes(m, d, e, step) /\ step.res # None
<1>s. Shape(d)
  BY DEF Sound
<1>m. man \in To(m)
  BY BodyTo
<1>1. PICK done : done = Completed(d, man)
  OBVIOUS
<1>2. PICK res : res = IF InRows(d, man) # {} /\ man \in DOMAIN d.blob
                       THEN StoredAt(Stored(d, man)) ELSE Missing
  OBVIOUS
<1>3. step = IF man.epoch # d.epoch THEN Did({}, d, Apart)
             ELSE IF done.res # None THEN done ELSE Did({}, d, res)
  BY <1>1, <1>2 DEF Status
<1>4. Leads(m, d, e, d)
  BY LeadsSame
<1>5. Stored(d, man) \in 0..Chunks
  BY StoredCount
<1>6. res \in {Missing} \cup [k : {"Stored"}, next : 0..Chunks] /\ res # None
  BY <1>2, <1>5, Results DEF StoredAt
<1>a. CASE man.epoch # d.epoch
  <2>1. step = Did({}, d, Apart)
    BY <1>3, <1>a
  <2>2. Takes(m, d, e, step)
    BY <2>1, <1>4, LeftTakes
  <2>3. step.res = Apart
    BY <2>1, NoSteps
  <2> QED
    BY <2>2, <2>3, Results
<1>b. CASE man.epoch = d.epoch /\ done.res # None
  <2>1. Completing(m, d, e, man, done)
    BY <1>1, <1>m, <1>b, CompletedSteps
  <2> QED
    BY <1>3, <1>b, <2>1, CompletingTakes
<1>c. CASE man.epoch = d.epoch /\ done.res = None
  <2>1. step = Did({}, d, res)
    BY <1>3, <1>c
  <2>2. Takes(m, d, e, step)
    BY <2>1, <1>4, <1>6, LeftTakes
  <2>3. step.res = res
    BY <2>1, NoSteps
  <2> QED
    BY <2>2, <2>3, <1>6
<1> QED
  BY <1>a, <1>b, <1>c

\* The sender has the receipt: record and body go, or the sender is told which
\* receipt is the one (acknowledge).
LEMMA AcknowledgeSteps ==
  ASSUME NEW m \in Machine, NEW d, NEW e, Sound(m, d, e), NEW p \in Passed(m, d),
         NEW step, step = Acknowledge(d, p)
  PROVE  /\ Steps(m, d, e, step) /\ Still(d, step)
         /\ step.res \in {Failed} \cup Answers(Passed(m, step.last))
<1>s. Shape(d)
  BY DEF Sound
<1>p. /\ p \in Truths(m, d) /\ p.man \in To(m) /\ p.man.epoch <= d.epoch /\ p # None
      /\ ~Begun(d, p.man) /\ ~Owing(d, p.man)
  <2>1. p \in Truths(m, d) /\ ~Begun(d, p.man) /\ ~Owing(d, p.man)
    BY DEF Passed, Given
  <2>2. p.man \in To(m) /\ p.man.epoch <= d.epoch /\ p \in Proofs
    BY <2>1 DEF Truths, True
  <2> QED
    BY <2>1, <2>2, Results
<1>1. PICK rows : rows = InRows(d, p.man)
  OBVIOUS
<1>2. PICK r : r = CHOOSE s \in rows : TRUE
  OBVIOUS
<1>3. PICK own : own = r.proof
  OBVIOUS
<1>4. PICK row : row = Incoming("Cleanup", p.man, own, FALSE, None)
  OBVIOUS
<1>5. PICK clean : clean = PutIn(d, rows, {row})
  OBVIOUS
<1>6. PICK freed : freed = Cancel(clean, p.man)
  OBVIOUS
<1>7. PICK none : none = {}
  OBVIOUS
<1>8. PICK last : last = PutIn(freed, {row}, none)
  OBVIOUS
<1>9. PICK res : res = [k |-> "Released", proof |-> p]
  OBVIOUS
<1>10. step = CASE rows = {} -> Did({}, d, [k |-> "Absent", proof |-> p])
                [] rows # {} /\ own = None -> Did({}, d, Failed)
                [] rows # {} /\ own \notin {None, p} ->
                     Did({}, d, [k |-> "Reconfirm", proof |-> own])
                [] OTHER -> Did({clean, freed}, last, res)
  BY <1>1, <1>2, <1>3, <1>4, <1>5, <1>6, <1>7, <1>8, <1>9 DEF Acknowledge
<1>a. ASSUME NEW x \in {Failed} \cup Answers(Passed(m, d)), step = Did({}, d, x)
      PROVE  /\ Steps(m, d, e, step) /\ Still(d, step)
             /\ step.res \in {Failed} \cup Answers(Passed(m, step.last))
  <2>1. Steps(m, d, e, step) /\ Still(d, step) /\ step.last = d /\ step.res = x
    BY <1>a, NoSteps
  <2> QED
    BY <1>a, <2>1
<1>b. CASE rows = {}
  <2>1. [k |-> "Absent", proof |-> p] \in Answers(Passed(m, d))
    BY DEF Answers
  <2> QED
    BY <1>10, <1>a, <1>b, <2>1
<1>c. CASE rows # {}
  <2>1. r \in InRows(d, p.man)
    BY <1>1, <1>2, <1>c
  <2>2. /\ \A s \in d.in : s.man = p.man => s = r
        /\ r.st \in {"Complete", "Cleanup"} => r.proof \in Truths(m, d) /\ r.proof.man = p.man
        /\ r.proof # None => r.st \in {"Complete", "Cleanup"}
        /\ r \in d.in /\ r.man = p.man
    BY <2>1, RowKinds
  <2>3. own # None => own \in Passed(m, d)
    BY <1>3, <1>p, <2>2 DEF Passed, Given
  <2>d. CASE own = None
    BY <1>10, <1>a, <1>c, <2>d
  <2>e. CASE own \notin {None, p}
    <3>1. [k |-> "Reconfirm", proof |-> own] \in Answers(Passed(m, d))
      BY <2>3, <2>e DEF Answers
    <3> QED
      BY <1>10, <1>a, <1>c, <2>e, <3>1
  <2>f. CASE own = p
    <3>1. step = Did({clean, freed}, last, res)
      BY <1>10, <1>c, <1>p, <2>f
    <3>2. row \in InRecords(m) /\ row.man = p.man /\ row.st = "Cleanup" /\ row.proof = p
          /\ row.notify = FALSE
      BY <1>4, <1>p, <2>f DEF Incoming, InRecords, Truths
    <3>3. \A s \in InRows(d, p.man) : ~(s.notify /\ p.man.epoch = d.epoch)
      BY <1>p DEF Owing, InRows
    <3>4. clean = PutIn(d, InRows(d, p.man), {row}) /\ InRows(d, p.man) # {}
      BY <1>1, <1>5, <1>c
    <3>5. row.st \in {"Complete", "Cleanup"} => row.proof \in Truths(m, d) /\ row.proof.man = p.man
      BY <1>p, <3>2
    <3>6. /\ Leads(m, d, e, clean) /\ clean.ver = d.ver /\ clean.epoch = d.epoch
          /\ InRows(clean, p.man) = {row}
      BY <1>p, <3>2, <3>3, <3>4, <3>5, PutLeads
    <3>7. Sound(m, clean, e)
      BY <3>6 DEF Leads
    <3>8. Leads(m, clean, e, freed)
      BY <1>6, <3>7, CancelLeads
    <3>9. freed.in = clean.in /\ freed.ver = d.ver /\ freed.epoch = d.epoch
      BY <1>6, <3>6, <3>7, CancelLeads
    <3>10. DOMAIN freed.blob = (DOMAIN clean.blob) \ {p.man}
      BY <1>6, <3>7, CancelLeads
    <3>11. Sound(m, freed, e) /\ Shape(freed)
      BY <3>8 DEF Leads, Sound
    <3>12. PICK old : old = {row}
      OBVIOUS
    <3>13. old = InRows(freed, p.man) /\ last = PutIn(freed, old, none)
      BY <1>8, <3>6, <3>9, <3>12 DEF InRows
    <3>14. last = [out |-> freed.out, in |-> (freed.in \ old) \cup none, blob |-> freed.blob,
                   ver |-> freed.ver, epoch |-> freed.epoch]
      BY <3>11, <3>13, InFields
    <3>15. last.in \in SUBSET freed.in /\ last.ver = d.ver /\ last.epoch = d.epoch
      BY <1>7, <3>9, <3>14
    <3>16. IsFiniteSet(last.in) /\ Cardinality(last.in) <= MaxRecords
      <4>1. IsFiniteSet(freed.in) /\ Cardinality(freed.in) <= MaxRecords /\ MaxRecords \in Nat
        BY <3>11, TransferAssumption DEF Shape, Valid
      <4> QED
        BY <3>15, <4>1, Removed
    <3>17. Leads(m, freed, e, last)
      <4>1. \A s \in old : ~(s.notify /\ p.man.epoch = freed.epoch)
        BY <3>2, <3>12
      <4>2. /\ \A s \in none :
                 /\ s \in InRecords(m) /\ s.man = p.man
                 /\ s.st \in {"Complete", "Cleanup"} =>
                      s.proof \in Truths(m, freed) /\ s.proof.man = p.man
                 /\ s.st \in {"Receiving", "Importing"} \/ s.notify => Unclaimed(freed, p.man)
            /\ \A s, t \in none : s = t
        BY <1>7
      <4>3. p.man.epoch <= freed.epoch /\ p.man \notin DOMAIN freed.blob
        BY <1>p, <3>9, <3>10
      <4> QED
        BY <1>p, <3>11, <3>13, <3>16, <4>1, <4>2, <4>3, TakeLeads
    <3>18. Leads(m, d, e, freed)
      BY <1>s, <3>6, <3>8, LeadsOn
    <3>19. Leads(m, d, e, last)
      BY <1>s, <3>17, <3>18, LeadsOn
    <3>20. PICK cuts : cuts = {clean, freed}
      OBVIOUS
    <3>21. step = Did(cuts, last, res)
      BY <3>1, <3>20
    <3>22. Steps(m, d, e, step)
      BY <3>6, <3>18, <3>19, <3>20, <3>21, DidSteps
    <3>23. step.last = last /\ step.res = res /\ step.cuts = cuts \cup {last}
      BY <3>21, DidFields
    <3>24. p \in Passed(m, last)
      BY <3>19 DEF Leads, Onward
    <3>25. step.res \in Answers(Passed(m, step.last))
      BY <1>9, <3>23, <3>24 DEF Answers
    <3>26. Still(d, step)
      BY <3>6, <3>9, <3>15, <3>20, <3>23 DEF Still
    <3> QED
      BY <3>22, <3>25, <3>26
  <2> QED
    BY <2>d, <2>e, <2>f
<1> QED
  BY <1>b, <1>c

-----------------------------------------------------------------------------
(* Lists of receipts, acknowledgements and answers.                        *)

\* The function of Each, up to a place of the list.
Upto(what, d, list, f) ==
  [i \in 0..Len(list) |-> IF i = 0 THEN Did({}, d, All(<<>>)) ELSE Turn(what, f[i - 1], list[i])]

\* A list of at most two is handled one after the other (the loops over proofs,
\* acks and results).
LEMMA EachTurns ==
  ASSUME NEW what, NEW d, NEW list, Len(list) \in 0..2
  PROVE  /\ Len(list) = 0 => Each(what, d, list) = Did({}, d, All(<<>>))
         /\ Len(list) = 1 => Each(what, d, list) = Turn(what, Did({}, d, All(<<>>)), list[1])
         /\ Len(list) = 2 => Each(what, d, list) =
              Turn(what, Turn(what, Did({}, d, All(<<>>)), list[1]), list[2])
<1> DEFINE f == CHOOSE f : f = Upto(what, d, list, f)
<1>1. Each(what, d, list) = f[Len(list)]
  BY Zenon DEF Each, Upto
<1>2. PICK start : start = Did({}, d, All(<<>>))
  OBVIOUS
<1>3. PICK first : first = Turn(what, start, list[1])
  OBVIOUS
<1>4. PICK second : second = Turn(what, first, list[2])
  OBVIOUS
<1>5. \E g : g = Upto(what, d, list, g)
  <2> DEFINE g == [i \in 0..Len(list) |-> IF i = 0 THEN start ELSE IF i = 1 THEN first ELSE second]
  <2>1. \A i \in 0..Len(list) : i # 0 => i - 1 \in 0..Len(list)
    OBVIOUS
  <2>2. \A i \in 0..Len(list) :
          g[i] = IF i = 0 THEN start ELSE Turn(what, g[i - 1], list[i])
    <3> SUFFICES ASSUME NEW i \in 0..Len(list)
                 PROVE  g[i] = IF i = 0 THEN start ELSE Turn(what, g[i - 1], list[i])
      OBVIOUS
    <3>1. CASE i = 0
      BY <3>1
    <3>2. CASE i = 1
      <4>1. g[i] = first /\ g[i - 1] = start
        BY <3>2
      <4> QED
        BY <1>3, <3>2, <4>1
    <3>3. CASE i = 2
      <4>1. g[i] = second /\ g[i - 1] = first
        BY <3>3
      <4> QED
        BY <1>4, <3>3, <4>1
    <3> QED
      BY <3>1, <3>2, <3>3
  <2>3. g = Upto(what, d, list, g)
    BY <1>2, <2>2, Zenon DEF Upto
  <2> QED
    BY <2>3
<1>6. PICK g : g = Upto(what, d, list, g) /\ Each(what, d, list) = g[Len(list)]
  BY <1>1, <1>5
<1>7. /\ g[0] = start
      /\ \A i \in 0..Len(list) : i # 0 => g[i] = Turn(what, g[i - 1], list[i])
  BY <1>2, <1>6 DEF Upto
<1>8. Len(list) >= 1 => g[1] = first
  BY <1>3, <1>7
<1>9. Len(list) = 2 => g[2] = second
  BY <1>4, <1>7, <1>8
<1> QED
  BY <1>2, <1>3, <1>4, <1>6, <1>7, <1>8, <1>9

\* What a list has done so far: the copy stays, and each of its first n entries
\* has a result in S, or one of them failed.
Listed(m, d, e, S, n, done) ==
  /\ Steps(m, d, e, done) /\ Still(d, done)
  /\ done.res \in {Failed} \cup [k : {"All"}, list : {list \in Seq(S) : Len(list) = n}]

\* Nothing of the list has been handled.
LEMMA NoneListed ==
  ASSUME NEW m, NEW d, NEW e, Sound(m, d, e), NEW S, NEW done, done = Did({}, d, All(<<>>))
  PROVE  Listed(m, d, e, S, 0, done) /\ done.last = d
<1>1. /\ Steps(m, d, e, done) /\ Still(d, done) /\ done.last = d /\ done.res = All(<<>>)
  BY NoSteps
<1>2. PICK empty : empty = <<>>
  OBVIOUS
<1>3. empty \in Seq(S) /\ Len(empty) = 0
  BY <1>2
<1>4. done.res = [k |-> "All", list |-> empty]
  BY <1>1, <1>2 DEF All
<1>5. PICK lists : lists = {list \in Seq(S) : Len(list) = 0}
  OBVIOUS
<1>6. empty \in lists
  BY <1>3, <1>5
<1>7. done.res \in [k : {"All"}, list : lists]
  BY <1>4, <1>6
<1> QED
  BY <1>1, <1>5, <1>7 DEF Listed

\* A list that failed does nothing more.
LEMMA FailedTurn ==
  ASSUME NEW what, NEW done, Fails(done.res), NEW x
  PROVE  Turn(what, done, x) = done
BY DEF Turn, Then

\* One more of a list is handled.
LEMMA TurnListed ==
  ASSUME NEW m, NEW d, NEW e, Shape(d), NEW S, NEW T, S \subseteq T, \A y \in T : ~Fails(y),
         NEW n \in Nat, NEW done, Listed(m, d, e, S, n, done), ~Fails(done.res),
         NEW what, NEW x, NEW one, one = One(what, done.last, x),
         Steps(m, done.last, e, one), Still(done.last, one), one.res \in {Failed} \cup T,
         NEW turn, turn = Turn(what, done, x)
  PROVE  Listed(m, d, e, T, n + 1, turn) /\ turn.last = one.last
<1>1. PICK told : told = Did({}, one.last, All(Append(done.res.list, one.res)))
  OBVIOUS
<1>2. PICK more : more = Then(one, told)
  OBVIOUS
<1>3. turn = After(done, more)
  BY <1>1, <1>2 DEF Turn, Gathered, Then
<1>4. Leads(m, done.last, e, one.last)
  BY DEF Steps
<1>5. Sound(m, one.last, e)
  BY <1>4 DEF Leads
<1>6. /\ Steps(m, one.last, e, told) /\ Still(one.last, told) /\ told.last = one.last
      /\ told.res = All(Append(done.res.list, one.res))
  BY <1>1, <1>5, NoSteps
<1>7. Leads(m, d, e, done.last) /\ done.last.ver = d.ver /\ one.last.ver = d.ver
  BY DEF Steps, Listed, Still
<1>8. Shape(done.last)
  BY <1>7 DEF Leads, Sound
<1>9. Steps(m, done.last, e, more)
  BY <1>2, <1>6, <1>8, ThenSteps
<1>10. told = [cuts |-> told.cuts, last |-> told.last, res |-> told.res]
  BY <1>6 DEF Steps
<1>11. /\ more.last = one.last
       /\ \A c \in more.cuts : c.ver = d.ver
       /\ IF Fails(one.res) THEN more.res = one.res ELSE more.res = told.res
  <2>1. CASE Fails(one.res)
    <3>1. more = one
      BY <1>2, <2>1 DEF Then
    <3> QED
      BY <1>7, <2>1, <3>1 DEF Still
  <2>2. CASE ~Fails(one.res)
    <3>1. more.last = told.last /\ more.res = told.res /\ more.cuts = told.cuts \cup one.cuts
      BY <1>2, <1>10, <2>2, ThenFields
    <3> QED
      BY <1>6, <1>7, <2>2, <3>1 DEF Still
  <2> QED
    BY <2>1, <2>2
<1>12. Steps(m, d, e, turn)
  BY <1>3, <1>9, AfterSteps DEF Listed
<1>13. more = [cuts |-> more.cuts, last |-> more.last, res |-> more.res]
  BY <1>9 DEF Steps
<1>14. turn.last = more.last /\ turn.res = more.res /\ turn.cuts = more.cuts \cup done.cuts
  BY <1>3, <1>13, AfterFields
<1>15. Still(d, turn)
  BY <1>11, <1>14 DEF Still, Listed
<1>16. turn.res \in {Failed} \cup [k : {"All"}, list : {list \in Seq(T) : Len(list) = n + 1}]
  <2>1. CASE Fails(one.res)
    BY <1>11, <1>14, <2>1
  <2>2. CASE ~Fails(one.res)
    <3>1. one.res \in T
      BY <2>2, Results
    <3>2. done.res \in [k : {"All"}, list : {list \in Seq(S) : Len(list) = n}]
      BY Results DEF Listed
    <3>3. PICK list \in Seq(S) : list = done.res.list /\ Len(list) = n
      BY <3>2
    <3>4. list \in Seq(T)
      BY <3>3
    <3>5. Append(list, one.res) \in Seq(T) /\ Len(Append(list, one.res)) = n + 1
      BY <3>1, <3>3, <3>4
    <3>6. turn.res = [k |-> "All", list |-> Append(list, one.res)]
      BY <1>6, <1>11, <1>14, <2>2, <3>3 DEF All
    <3> QED
      BY <3>5, <3>6
  <2> QED
    BY <2>1, <2>2
<1> QED
  BY <1>11, <1>12, <1>14, <1>15, <1>16 DEF Listed

\* What a list may hold, and what its entries give.
Inputs(what, m, d, e) ==
  CASE what = "confirm" -> Passed(Other(m), e)
    [] what = "acknowledge" -> Passed(m, d)
    [] what = "answered" -> Answers(Passed(Other(m), e))
Outputs(what, m, d, e) ==
  CASE what = "confirm" -> Passed(Other(m), e)
    [] what = "acknowledge" -> Answers(Passed(m, d))
    [] what = "answered" -> {None} \cup Proofs
Kinds == {"confirm", "acknowledge", "answered"}

\* What could be handled before a step can be handled after it, and no result
\* is a failure.
LEMMA InputsGrow ==
  ASSUME NEW m \in Machine, NEW d, NEW e, e.ver \in Version, NEW c, Leads(m, d, e, c),
         NEW what \in Kinds
  PROVE  /\ Inputs(what, m, d, e) \subseteq Inputs(what, m, c, e)
         /\ Outputs(what, m, d, e) \subseteq Outputs(what, m, c, e)
         /\ \A y \in Outputs(what, m, d, e) : ~Fails(y)
<1>1. Passed(m, d) \subseteq Passed(m, c)
  BY DEF Leads, Onward
<1>2. \A S : \A y \in Answers(S) : ~Fails(y)
  BY DEF Answers, Fails
<1>3. \A p \in Proofs : ~Fails(p)
  BY DEF Proofs, Fails
<1>4. \A p \in Passed(Other(m), e) : ~Fails(p)
  BY <1>3 DEF Passed, Given, Truths
<1>a. CASE what = "confirm"
  BY <1>a, <1>4 DEF Inputs, Outputs
<1>b. CASE what = "acknowledge"
  BY <1>b, <1>1, <1>2 DEF Inputs, Outputs, Answers
<1>c. CASE what = "answered"
  BY <1>c, <1>3, Results DEF Inputs, Outputs
<1> QED
  BY <1>a, <1>b, <1>c DEF Kinds

\* One entry of a list (accept_confirmation, acknowledge, acknowledged).
LEMMA OneSteps ==
  ASSUME NEW m \in Machine, NEW d, NEW e, Sound(m, d, e), e.ver \in Version,
         NEW what \in Kinds, NEW x \in Inputs(what, m, d, e), NEW one, one = One(what, d, x)
  PROVE  /\ Steps(m, d, e, one) /\ Still(d, one)
         /\ one.res \in {Failed} \cup Outputs(what, m, one.last, e)
<1>a. CASE what = "confirm"
  <2>1. PICK yes \in BOOLEAN : yes = TRUE
    OBVIOUS
  <2>2. x \in Passed(Other(m), e) /\ one = Accept(d, x, yes)
    BY <1>a, <2>1 DEF Inputs, One
  <2>3. Settles(m, d, e, one, x) /\ one.res # None
    BY <2>2, AcceptSteps
  <2> QED
    BY <1>a, <2>2, <2>3 DEF Settles, Outputs
<1>b. CASE what = "acknowledge"
  <2>1. x \in Passed(m, d) /\ one = Acknowledge(d, x)
    BY <1>b DEF Inputs, One
  <2>2. Steps(m, d, e, one) /\ Still(d, one)
    BY <2>1, AcknowledgeSteps
  <2>3. one.res \in {Failed} \cup Answers(Passed(m, one.last))
    BY <2>1, AcknowledgeSteps
  <2> QED
    BY <1>b, <2>2, <2>3 DEF Outputs
<1>c. CASE what = "answered"
  <2>1. x \in Answers(Passed(Other(m), e)) /\ one = Acknowledged(d, x)
    BY <1>c DEF Inputs, One
  <2>2. Settles(m, d, e, one, x.proof)
    BY <2>1, AcknowledgedSteps
  <2>3. x.proof \in Proofs
    BY <2>1 DEF Answers, Passed, Given, Truths
  <2> QED
    BY <1>c, <2>2, <2>3 DEF Settles, Outputs
<1> QED
  BY <1>a, <1>b, <1>c DEF Kinds

\* One more entry, whether or not the list has failed.
LEMMA NextListed ==
  ASSUME NEW m \in Machine, NEW d, NEW e, Shape(d), e.ver \in Version,
         NEW what \in Kinds, NEW n \in Nat, NEW done,
         Listed(m, d, e, Outputs(what, m, done.last, e), n, done),
         NEW x \in Inputs(what, m, d, e), NEW turn, turn = Turn(what, done, x)
  PROVE  Listed(m, d, e, Outputs(what, m, turn.last, e), n + 1, turn)
<1>1. Leads(m, d, e, done.last)
  BY DEF Listed, Steps
<1>a. CASE Fails(done.res)
  <2>1. turn = done
    BY <1>a, FailedTurn
  <2>2. done.res = Failed
    BY <1>a DEF Listed, Fails
  <2> QED
    BY <2>1, <2>2 DEF Listed
<1>b. CASE ~Fails(done.res)
  <2>1. PICK one : one = One(what, done.last, x)
    OBVIOUS
  <2>2. Sound(m, done.last, e)
    BY <1>1 DEF Leads
  <2>3. x \in Inputs(what, m, done.last, e)
    BY <1>1, InputsGrow
  <2>4. Steps(m, done.last, e, one) /\ Still(done.last, one)
    BY <2>1, <2>2, <2>3, OneSteps
  <2>5. one.res \in {Failed} \cup Outputs(what, m, one.last, e)
    BY <2>1, <2>2, <2>3, OneSteps
  <2>6. Leads(m, done.last, e, one.last)
    BY <2>4 DEF Steps
  <2>7. Outputs(what, m, done.last, e) \subseteq Outputs(what, m, one.last, e)
    BY <2>6, InputsGrow
  <2>8. \A y \in Outputs(what, m, one.last, e) : ~Fails(y)
    <3>1. Leads(m, one.last, e, one.last)
      BY <2>6, LeadsSame DEF Leads
    <3> QED
      BY <3>1, InputsGrow
  <2>9. PICK S : S = Outputs(what, m, done.last, e)
    OBVIOUS
  <2>10. PICK T : T = Outputs(what, m, one.last, e)
    OBVIOUS
  <2>11. Listed(m, d, e, T, n + 1, turn) /\ turn.last = one.last
    BY <1>b, <2>1, <2>4, <2>5, <2>7, <2>8, <2>9, <2>10, TurnListed
  <2> QED
    BY <2>10, <2>11
<1> QED
  BY <1>a, <1>b

\* A list of at most two (the loops over proofs, acks and results).
LEMMA EachSteps ==
  ASSUME NEW m \in Machine, NEW d, NEW e, Sound(m, d, e), e.ver \in Version,
         NEW what \in Kinds, NEW list \in Short(Inputs(what, m, d, e)),
         NEW step, step = Each(what, d, list)
  PROVE  /\ Steps(m, d, e, step) /\ Still(d, step)
         /\ step.res \in {Failed} \cup [k : {"All"}, list : Short(Outputs(what, m, step.last, e))]
<1>s. Shape(d)
  BY DEF Sound
<1>1. list \in Seq(Inputs(what, m, d, e)) /\ Len(list) \in 0..2
  <2>1. PICK S : S = Inputs(what, m, d, e)
    OBVIOUS
  <2>2. list \in Seq(S) /\ Len(list) <= 2
    BY <2>1 DEF Short
  <2>3. Len(list) \in Nat
    BY <2>2
  <2>4. Len(list) \in 0..2
    <3>1. PICK n : n = Len(list)
      OBVIOUS
    <3>2. n \in Nat /\ n <= 2
      BY <2>2, <2>3, <3>1
    <3> QED
      BY <3>1, <3>2
  <2>5. list \in Seq(Inputs(what, m, d, e))
    BY <2>1, <2>2, Zenon
  <2> QED
    BY <2>4, <2>5
<1>2. /\ Len(list) >= 1 => list[1] \in Inputs(what, m, d, e)
      /\ Len(list) = 2 => list[2] \in Inputs(what, m, d, e)
  BY <1>1
<1>3. PICK start : start = Did({}, d, All(<<>>))
  OBVIOUS
<1>4. PICK first : first = Turn(what, start, list[1])
  OBVIOUS
<1>5. PICK second : second = Turn(what, first, list[2])
  OBVIOUS
<1>6. /\ Len(list) = 0 => step = start
      /\ Len(list) = 1 => step = first
      /\ Len(list) = 2 => step = second
  BY <1>1, <1>3, <1>4, <1>5, EachTurns
<1>7. Listed(m, d, e, Outputs(what, m, start.last, e), 0, start)
  BY <1>3, NoneListed
<1>8. Len(list) >= 1 => Listed(m, d, e, Outputs(what, m, first.last, e), 1, first)
  <2> SUFFICES ASSUME Len(list) >= 1
               PROVE  Listed(m, d, e, Outputs(what, m, first.last, e), 0 + 1, first)
    OBVIOUS
  <2> QED
    BY <1>s, <1>2, <1>4, <1>7, NextListed
<1>9. Len(list) = 2 => Listed(m, d, e, Outputs(what, m, second.last, e), 2, second)
  <2> SUFFICES ASSUME Len(list) = 2
               PROVE  Listed(m, d, e, Outputs(what, m, second.last, e), 1 + 1, second)
    OBVIOUS
  <2>1. Listed(m, d, e, Outputs(what, m, first.last, e), 1, first)
    BY <1>8
  <2> QED
    BY <1>s, <1>2, <1>5, <2>1, NextListed
<1>10. PICK n \in 0..2 : Listed(m, d, e, Outputs(what, m, step.last, e), n, step)
  BY <1>1, <1>6, <1>7, <1>8, <1>9
<1>11. PICK S : S = Outputs(what, m, step.last, e)
  OBVIOUS
<1>12. {l \in Seq(S) : Len(l) = n} \subseteq Short(S)
  BY DEF Short
<1>13. step.res \in {Failed} \cup [k : {"All"}, list : {l \in Seq(S) : Len(l) = n}]
  BY <1>10, <1>11 DEF Listed
<1>14. step.res \in {Failed} \cup [k : {"All"}, list : Short(S)]
  BY <1>12, <1>13
<1> QED
  BY <1>10, <1>11, <1>14 DEF Listed

-----------------------------------------------------------------------------
(* Requests from the other machine.                                        *)

\* A step in which the copy stays, or takes in one open plan.
Moves(m, d, e, step) ==
  Steps(m, d, e, step) /\ \A c \in step.cuts : Lands(m, d, e, c)

\* Such a step comes after one in which the copy stayed (Then).
LEMMA MovesThen ==
  ASSUME NEW m, NEW d, NEW e, Shape(d), NEW step, NEW more,
         Steps(m, d, e, step), Still(d, step),
         ~Fails(step.res) => Moves(m, step.last, e, more)
  PROVE  Moves(m, d, e, Then(step, more))
<1>1. CASE Fails(step.res)
  <2>1. Then(step, more) = step
    BY <1>1 DEF Then
  <2> QED
    BY <2>1 DEF Moves, Lands, Still
<1>2. CASE ~Fails(step.res)
  <2>1. Steps(m, step.last, e, more) /\ \A c \in more.cuts : Lands(m, step.last, e, c)
    BY <1>2 DEF Moves
  <2>2. Steps(m, d, e, Then(step, more))
    BY <1>2, <2>1, ThenSteps
  <2>3. more = [cuts |-> more.cuts, last |-> more.last, res |-> more.res]
    BY <2>1 DEF Steps
  <2>4. Then(step, more).cuts = more.cuts \cup step.cuts
    BY <1>2, <2>3, ThenFields
  <2>5. step.last.ver = d.ver /\ step.last.epoch = d.epoch
    BY DEF Steps, Still, Leads, Onward
  <2>6. \A c \in Then(step, more).cuts : Lands(m, d, e, c)
    BY <2>1, <2>4, <2>5 DEF Lands, Still
  <2> QED
    BY <2>2, <2>6 DEF Moves
<1> QED
  BY <1>1, <1>2

\* Such a step comes before one in which the copy stays (After).
LEMMA MovesAfter ==
  ASSUME NEW m, NEW d, NEW e, Shape(d), NEW step, NEW more,
         Moves(m, d, e, step), Steps(m, step.last, e, more), Still(step.last, more)
  PROVE  Moves(m, d, e, After(step, more))
<1>1. Steps(m, d, e, After(step, more))
  BY AfterSteps DEF Moves
<1>2. more = [cuts |-> more.cuts, last |-> more.last, res |-> more.res]
  BY DEF Steps
<1>3. After(step, more).cuts = more.cuts \cup step.cuts
  BY <1>2, AfterFields
<1>4. Lands(m, d, e, step.last)
  BY DEF Moves, Steps
<1>5. \A c \in After(step, more).cuts : Lands(m, d, e, c)
  BY <1>3, <1>4 DEF Moves, Lands, Still
<1> QED
  BY <1>1, <1>5 DEF Moves

\* A sound disk is reported as it is (Here).
LEMMA HereReport ==
  ASSUME NEW m, NEW d, NEW e, Sound(m, d, e)
  PROVE  Here(d) \in Report(d)
<1>1. d.ver \in Version /\ d.epoch \in {0, 1}
  BY DEF Sound, Shape
<1> QED
  BY <1>1 DEF Here, Report

\* More receipts make for more lists of them, and of what a list gives.
LEMMA ShortGrow ==
  ASSUME NEW S, NEW T, S \subseteq T, NEW list \in Short(S)
  PROVE  list \in Short(T)
<1>1. \A l \in Seq(S) : l \in Seq(T)
  OBVIOUS
<1> QED
  BY <1>1 DEF Short

\* More receipts make for more results of a chunk and answers to an
\* acknowledgement.
LEMMA ReceivedGrow ==
  ASSUME NEW S, NEW T, S \subseteq T
  PROVE  Received(S) \subseteq Received(T) /\ Answers(S) \subseteq Answers(T)
BY DEF Received, Answers

\* The answer to an exchange, before the notices are delivered.
Replied(m, d, e) ==
  [k : {"Exchanged"}, have : Report(d), received : {None} \cup Received(Given(m, d)),
   offer : {None} \cup Chunked(Bodies(m, d, e)),
   acks : Short(Passed(Other(m), e)), results : Short(Answers(Passed(m, d)))]

\* The end of an exchange: our own offer, and the reply (handle).
LEMMA OwnOffer ==
  ASSUME NEW m \in Machine, NEW d, NEW e, Sound(m, d, e), NEW have \in Report(e),
         NEW got \in {None} \cup Received(Given(m, d)),
         NEW mine, mine = CASE have.epoch # d.epoch -> Did({}, d, None)
                            [] have.epoch = d.epoch /\ got = Full
                                 /\ ~\E r \in d.out : r.st = "Ready" -> Did({}, d, Failed)
                            [] OTHER -> Offer(m, d, have.ver)
  PROVE  Offers(m, d, e, mine)
<1>1. have.ver \in Version /\ have.epoch <= e.epoch
  BY DEF Report
<1>2. \/ mine = Did({}, d, None)
      \/ mine = Did({}, d, Failed)
      \/ have.epoch = d.epoch /\ mine = Offer(m, d, have.ver)
  OBVIOUS
<1>3. ASSUME NEW res \in {None, Failed}, mine = Did({}, d, res)
      PROVE  Offers(m, d, e, mine)
  <2>1. Steps(m, d, e, mine) /\ Still(d, mine) /\ mine.last = d /\ mine.res = res
    BY <1>3, NoSteps
  <2> QED
    BY <2>1 DEF Offers
<1>4. CASE have.epoch = d.epoch /\ mine = Offer(m, d, have.ver)
  BY <1>1, <1>4, OfferSteps
<1> QED
  BY <1>2, <1>3, <1>4

\* An exchange: receipts, the offered chunk, our own offer (handle).
LEMMA ExchangedSteps ==
  ASSUME NEW m \in Machine, NEW d, NEW e, Sound(m, d, e), e.ver \in Version,
         NEW req \in Exchanges(Other(m), e, d), NEW step, step = Exchanged(m, d, req)
  PROVE  /\ Moves(m, d, e, step)
         /\ step.res \in {Failed} \cup Replied(m, step.last, e)
<1>s. Shape(d)
  BY DEF Sound
<1>1. /\ req.have \in Report(e) /\ req.offer \in {None} \cup Chunked(Bodies(Other(m), e, d))
      /\ req.proofs \in Short(Passed(Other(m), e)) /\ req.acks \in Short(Passed(m, d))
  BY TwoMachines DEF Exchanges
<1>2. PICK proofs : proofs = Confirmed(d, req.proofs)
  OBVIOUS
<1>3. PICK acks : acks = Released(proofs.last, req.acks)
  OBVIOUS
<1>4. PICK got : got = TakenIn(acks.last, req)
  OBVIOUS
<1>5. PICK mine : mine = Offered(m, req, got)
  OBVIOUS
<1>6. PICK reply : reply = Reply(proofs, acks, got, mine)
  OBVIOUS
<1>7. PICK end : end = Did({}, mine.last, reply)
  OBVIOUS
<1>8. PICK fourth : fourth = Then(mine, end)
  OBVIOUS
<1>9. PICK third : third = After(got, fourth)
  OBVIOUS
<1>10. PICK second : second = Then(acks, third)
  OBVIOUS
<1>11. step = Then(proofs, second)
  BY <1>2, <1>3, <1>4, <1>5, <1>6, <1>7, <1>8, <1>9, <1>10 DEF Exchanged
<1>12. /\ Steps(m, d, e, proofs) /\ Still(d, proofs)
       /\ proofs.res \in {Failed} \cup [k : {"All"}, list : Short(Passed(Other(m), e))]
  <2>1. PICK what \in Kinds : what = "confirm"
    BY DEF Kinds
  <2>2. proofs = Each(what, d, req.proofs) /\ req.proofs \in Short(Inputs(what, m, d, e))
    BY <1>1, <1>2, <2>1 DEF Confirmed, Inputs
  <2>3. /\ Steps(m, d, e, proofs) /\ Still(d, proofs)
        /\ proofs.res \in {Failed} \cup [k : {"All"}, list : Short(Outputs(what, m, proofs.last, e))]
    BY <2>2, EachSteps
  <2> QED
    BY <2>1, <2>3 DEF Outputs
<1>13. Sound(m, proofs.last, e) /\ Shape(proofs.last) /\ Leads(m, d, e, proofs.last)
  BY <1>12 DEF Steps, Leads, Sound
<1>14. /\ Steps(m, proofs.last, e, acks) /\ Still(proofs.last, acks)
       /\ acks.res \in {Failed} \cup [k : {"All"}, list : Short(Answers(Passed(m, acks.last)))]
  <2>1. PICK what \in Kinds : what = "acknowledge"
    BY DEF Kinds
  <2>2. Passed(m, d) \subseteq Passed(m, proofs.last)
    BY <1>13 DEF Leads, Onward
  <2>3. req.acks \in Short(Passed(m, proofs.last))
    BY <1>1, <2>2, ShortGrow
  <2>4. acks = Each(what, proofs.last, req.acks)
        /\ req.acks \in Short(Inputs(what, m, proofs.last, e))
    BY <1>3, <2>1, <2>3 DEF Released, Inputs
  <2>5. /\ Steps(m, proofs.last, e, acks) /\ Still(proofs.last, acks)
        /\ acks.res \in {Failed} \cup [k : {"All"}, list : Short(Outputs(what, m, acks.last, e))]
    BY <1>13, <2>4, EachSteps
  <2> QED
    BY <2>1, <2>5 DEF Outputs
<1>15. Sound(m, acks.last, e) /\ Shape(acks.last) /\ Leads(m, proofs.last, e, acks.last)
  BY <1>14 DEF Steps, Leads, Sound
<1>16. /\ acks.last.epoch = d.epoch /\ acks.last.ver = d.ver
  BY <1>12, <1>13, <1>14, <1>15 DEF Steps, Still, Leads, Onward
<1>17. /\ Moves(m, acks.last, e, got)
       /\ got.res \in {None} \cup Received(Given(m, got.last))
  <2>1. CASE req.offer = None
    <3>1. got = Did({}, acks.last, None)
      BY <1>4, <2>1 DEF TakenIn
    <3>2. Steps(m, acks.last, e, got) /\ Still(acks.last, got) /\ got.res = None
      BY <1>15, <3>1, NoSteps
    <3> QED
      BY <3>2 DEF Moves, Lands, Still
  <2>2. CASE req.offer # None
    <3>1. PICK man : man = req.offer.man
      OBVIOUS
    <3>2. PICK yes \in BOOLEAN : yes = TRUE
      OBVIOUS
    <3>3. man \in Bodies(Other(m), e, d)
      BY <1>1, <2>2, <3>1 DEF Chunked
    <3>4. man \in Bodies(Other(m), e, acks.last)
      BY <1>16, <3>3 DEF Bodies, Arrived
    <3>5. got = Receive(acks.last, man, 0, yes)
      BY <1>4, <2>2, <3>1, <3>2 DEF TakenIn
    <3>6. Takes(m, acks.last, e, got)
      BY <1>15, <3>4, <3>5, ReceiveSteps
    <3> QED
      BY <3>6 DEF Takes, Moves
  <2> QED
    BY <2>1, <2>2
<1>18. Sound(m, got.last, e) /\ Shape(got.last) /\ Leads(m, acks.last, e, got.last)
  BY <1>17 DEF Moves, Steps, Leads, Sound
<1>19. Offers(m, got.last, e, mine)
  BY <1>1, <1>5, <1>17, <1>18, OwnOffer DEF Offered
<1>20. /\ Steps(m, got.last, e, mine) /\ Still(got.last, mine)
       /\ mine.res \in {None, Failed} \cup Chunked(Bodies(m, mine.last, e))
  BY <1>19 DEF Offers
<1>21. Sound(m, mine.last, e) /\ Shape(mine.last) /\ Leads(m, got.last, e, mine.last)
  BY <1>20 DEF Steps, Leads, Sound
<1>22. /\ Steps(m, mine.last, e, end) /\ Still(mine.last, end)
       /\ end.last = mine.last /\ end.res = reply
  BY <1>7, <1>21, NoSteps
<1>23. Steps(m, got.last, e, fourth)
  BY <1>8, <1>18, <1>20, <1>22, ThenSteps
<1>24. end = [cuts |-> end.cuts, last |-> end.last, res |-> end.res]
  BY <1>22 DEF Steps
<1>25. /\ fourth.last = mine.last /\ Still(got.last, fourth)
       /\ IF Fails(mine.res) THEN fourth.res = mine.res ELSE fourth.res = reply
  <2>1. CASE Fails(mine.res)
    <3>1. fourth = mine
      BY <1>8, <2>1 DEF Then
    <3> QED
      BY <1>20, <2>1, <3>1
  <2>2. CASE ~Fails(mine.res)
    <3>1. /\ fourth.last = end.last /\ fourth.res = end.res
          /\ fourth.cuts = end.cuts \cup mine.cuts
      BY <1>8, <1>24, <2>2, ThenFields
    <3>2. mine.last.ver = got.last.ver
      BY <1>20 DEF Steps, Still
    <3>3. Still(got.last, fourth)
      BY <1>20, <1>22, <3>1, <3>2 DEF Still
    <3> QED
      BY <1>22, <2>2, <3>1, <3>3
  <2> QED
    BY <2>1, <2>2
<1>26. Moves(m, acks.last, e, third)
  BY <1>9, <1>15, <1>17, <1>23, <1>25, MovesAfter
<1>27. third.last = mine.last /\ third.res = fourth.res
  <2>1. fourth = [cuts |-> fourth.cuts, last |-> fourth.last, res |-> fourth.res]
    BY <1>23 DEF Steps
  <2> QED
    BY <1>9, <1>25, <2>1, AfterFields
<1>28. Moves(m, proofs.last, e, second)
  BY <1>10, <1>13, <1>14, <1>26, MovesThen
<1>29. Moves(m, d, e, step)
  BY <1>11, <1>12, <1>28, <1>s, MovesThen
<1>30. IF Fails(acks.res) THEN second.res = acks.res
                          ELSE second.res = third.res /\ second.last = mine.last
  <2>1. third = [cuts |-> third.cuts, last |-> third.last, res |-> third.res]
    BY <1>26 DEF Moves, Steps
  <2>2. CASE Fails(acks.res)
    BY <1>10, <2>2 DEF Then
  <2>3. CASE ~Fails(acks.res)
    BY <1>10, <1>27, <2>1, <2>3, ThenFields
  <2> QED
    BY <2>2, <2>3
<1>31. IF Fails(proofs.res) THEN step.res = proofs.res
                            ELSE step.res = second.res /\ step.last = second.last
  <2>1. second = [cuts |-> second.cuts, last |-> second.last, res |-> second.res]
    BY <1>28 DEF Moves, Steps
  <2>2. CASE Fails(proofs.res)
    BY <1>11, <2>2 DEF Then
  <2>3. CASE ~Fails(proofs.res)
    BY <1>11, <2>1, <2>3, ThenFields
  <2> QED
    BY <2>2, <2>3
<1>32. /\ Fails(proofs.res) => proofs.res = Failed
       /\ Fails(acks.res) => acks.res = Failed
       /\ Fails(mine.res) => mine.res = Failed
  BY <1>12, <1>14, <1>20, Results DEF Fails, Chunked
<1>33. ~Fails(proofs.res) /\ ~Fails(acks.res) /\ ~Fails(mine.res) => reply \in Replied(m, mine.last, e)
  <2> SUFFICES ASSUME ~Fails(proofs.res), ~Fails(acks.res), ~Fails(mine.res)
               PROVE  reply \in Replied(m, mine.last, e)
    OBVIOUS
  <2>1. proofs.res.list \in Short(Passed(Other(m), e))
    BY <1>12, Results
  <2>2. acks.res.list \in Short(Answers(Passed(m, mine.last)))
    <3>1. acks.res.list \in Short(Answers(Passed(m, acks.last)))
      BY <1>14, Results
    <3>2. Passed(m, acks.last) \subseteq Passed(m, mine.last)
      BY <1>18, <1>21 DEF Leads, Onward
    <3>3. Answers(Passed(m, acks.last)) \subseteq Answers(Passed(m, mine.last))
      BY <3>2, ReceivedGrow
    <3>4. PICK A : A = Answers(Passed(m, acks.last))
      OBVIOUS
    <3>5. PICK B : B = Answers(Passed(m, mine.last))
      OBVIOUS
    <3>6. acks.res.list \in Short(A) /\ A \subseteq B
      BY <3>1, <3>3, <3>4, <3>5
    <3>7. acks.res.list \in Short(B)
      BY <3>6, ShortGrow
    <3> QED
      BY <3>5, <3>7
  <2>3. Here(got.last) \in Report(mine.last)
    <3>1. Here(got.last) \in Report(got.last)
      BY <1>18, HereReport
    <3> QED
      BY <3>1, <1>21 DEF Report, Leads, Onward
  <2>4. got.res \in {None} \cup Received(Given(m, mine.last))
    <3>1. Given(m, got.last) \subseteq Given(m, mine.last)
      BY <1>21 DEF Leads, Onward
    <3> QED
      BY <1>17, <3>1, ReceivedGrow
  <2>5. mine.res \in {None} \cup Chunked(Bodies(m, mine.last, e))
    BY <1>20, Results
  <2> QED
    BY <1>6, <2>1, <2>2, <2>3, <2>4, <2>5 DEF Replied, Reply
<1>34. step.res \in {Failed} \cup Replied(m, step.last, e)
  BY <1>25, <1>27, <1>30, <1>31, <1>32, <1>33
<1> QED
  BY <1>29, <1>34

\* What a request is answered with, before the notices are delivered.
Replies(m, d, e, req) ==
  CASE req.k = "Exchange" -> {Failed} \cup Replied(m, d, e)
    [] req.k = "Write" -> Received(Given(m, d))
    [] req.k = "Read" -> {Failed} \cup Chunked(Bodies(m, d, e))
    [] req.k = "Confirm" -> {Failed} \cup [k : {"All"}, list : Short(Passed(Other(m), e))]
    [] req.k = "Acknowledge" -> {Failed} \cup [k : {"All"}, list : Short(Answers(Passed(m, d)))]

\* Any request of the other machine (handle).
LEMMA HandleSteps ==
  ASSUME NEW m \in Machine, NEW d, NEW e, Sound(m, d, e), e.ver \in Version,
         NEW req \in Requests(Other(m), e, d), NEW step, step = Handle(m, d, req)
  PROVE  Moves(m, d, e, step) /\ step.res \in Replies(m, step.last, e, req)
<1>s. Shape(d)
  BY DEF Sound
<1>a. CASE req \in Exchanges(Other(m), e, d)
  <2>1. req.k = "Exchange" /\ step = Exchanged(m, d, req)
    BY <1>a DEF Exchanges, Handle
  <2>2. Moves(m, d, e, step)
    BY <1>a, <2>1, ExchangedSteps
  <2>3. step.res \in {Failed} \cup Replied(m, step.last, e)
    BY <1>a, <2>1, ExchangedSteps
  <2> QED
    BY <2>1, <2>2, <2>3 DEF Replies
<1>b. CASE req \in Writes(Other(m), e, d)
  <2>1. PICK no \in BOOLEAN : no = FALSE
    OBVIOUS
  <2>2. /\ req.k = "Write" /\ req.man \in Bodies(Other(m), e, d) /\ req.off \in Nat
        /\ step = Receive(d, req.man, req.off, no)
    BY <1>b, <2>1 DEF Writes, Handle
  <2>3. Takes(m, d, e, step)
    BY <2>2, ReceiveSteps
  <2> QED
    BY <2>2, <2>3 DEF Takes, Moves, Replies
<1>c. CASE req \in Reads(Other(m), e, d)
  <2>1. PICK res : res = ReadOutgoing(d, req.man, req.off)
    OBVIOUS
  <2>2. req.k = "Read" /\ req.off \in Nat /\ step = Did({}, d, res)
    BY <1>c, <2>1 DEF Reads, Handle
  <2>3. Steps(m, d, e, step) /\ Still(d, step) /\ step.last = d /\ step.res = res
    BY <2>2, NoSteps
  <2>4. res \in {Failed} \cup Chunked(Bodies(m, d, e))
    BY <2>1, <2>2, ReadOpen
  <2> QED
    BY <2>2, <2>3, <2>4 DEF Moves, Still, Lands, Replies
<1>d. CASE req \in Confirms(Other(m), e)
  <2>1. PICK what \in Kinds : what = "confirm"
    BY DEF Kinds
  <2>2. /\ req.k = "Confirm" /\ req.list \in Short(Inputs(what, m, d, e))
        /\ step = Each(what, d, req.list)
    BY <1>d, <2>1 DEF Confirms, Handle, Confirmed, Inputs
  <2>3. /\ Steps(m, d, e, step) /\ Still(d, step)
        /\ step.res \in {Failed} \cup [k : {"All"}, list : Short(Outputs(what, m, step.last, e))]
    BY <2>2, EachSteps
  <2> QED
    BY <2>1, <2>2, <2>3 DEF Moves, Still, Lands, Replies, Outputs
<1>e. CASE req \in Acknowledges(Other(m), d)
  <2>1. PICK what \in Kinds : what = "acknowledge"
    BY DEF Kinds
  <2>2. /\ req.k = "Acknowledge" /\ req.list \in Short(Inputs(what, m, d, e))
        /\ step = Each(what, d, req.list)
    BY <1>e, <2>1, TwoMachines DEF Acknowledges, Handle, Released, Inputs
  <2>3. /\ Steps(m, d, e, step) /\ Still(d, step)
        /\ step.res \in {Failed} \cup [k : {"All"}, list : Short(Outputs(what, m, step.last, e))]
    BY <2>2, EachSteps
  <2> QED
    BY <2>1, <2>2, <2>3 DEF Moves, Still, Lands, Replies, Outputs
<1> QED
  BY <1>a, <1>b, <1>c, <1>d, <1>e DEF Requests

\* A sound disk is one whose state can be opened, and every step begins with
\* that (doc_step).
LEMMA RanSteps ==
  ASSUME NEW m \in Machine, NEW d, NEW e, Sound(m, d, e), NEW opened, opened = Opened(d),
         NEW job, Moves(m, opened, e, job), NEW step, step = Ran(d, opened, job)
  PROVE  Moves(m, d, e, step) /\ step.last = job.last /\ step.res = job.res
<1>s. Shape(d)
  BY DEF Sound
<1>1. Referenced(d)
  BY DEF Referenced, Sound, BlobSound, Owned
<1>2. PICK cuts : cuts = {d, [d EXCEPT !.blob = opened.blob], opened}
  OBVIOUS
<1>3. \A c \in cuts : Leads(m, d, e, c) /\ c.ver = d.ver
  BY <1>2, OpenedLeads
<1>4. step = [job EXCEPT !.cuts = @ \cup cuts]
  BY <1>1, <1>2 DEF Ran
<1>5. job = [cuts |-> job.cuts, last |-> job.last, res |-> job.res]
  BY DEF Moves, Steps
<1>6. /\ step = [cuts |-> job.cuts \cup cuts, last |-> job.last, res |-> job.res]
  BY <1>4, <1>5
<1>7. step.cuts = job.cuts \cup cuts /\ step.last = job.last /\ step.res = job.res
  BY <1>6
<1>8. Leads(m, d, e, opened) /\ opened.ver = d.ver /\ opened.epoch = d.epoch
  BY <1>2, <1>3 DEF Leads, Onward
<1>9. \A c \in job.cuts : Leads(m, d, e, c)
  BY <1>8, <1>s, LeadsOn DEF Moves, Steps
<1>10. \A c \in job.cuts : Lands(m, d, e, c)
  BY <1>8 DEF Moves, Lands
<1>11. \A c \in step.cuts : Leads(m, d, e, c)
  BY <1>3, <1>7, <1>9
<1>12. \A c \in step.cuts : Lands(m, d, e, c)
  BY <1>3, <1>7, <1>10 DEF Lands
<1>13. Steps(m, d, e, step)
  BY <1>6, <1>7, <1>11 DEF Moves, Steps
<1> QED
  BY <1>7, <1>12, <1>13 DEF Moves
=============================================================================
