------------------------- MODULE DeviceTableProofs -------------------------
(***************************************************************************)
(* What the operations on a device table and on the rosters in it return,  *)
(* for tables of any size.                                                 *)
(***************************************************************************)
EXTENDS DeviceTable, TLAPS, WellFoundedInduction

(* A table as the store holds it.  Nothing bounds how many entries it has, *)
(* but something bounds their stamps and the numbers in their rosters.     *)
Register(V) == [val : V, t : Nat, p : Nat]
Slots == {None} \cup (Nat \X Machine)
Entry == [slot : Slots, roster : SignedRoster, live : BOOLEAN, t : Nat, p : Nat]
Table ==
  [row  : [Machine -> Register({TRUE, None})],
   gone : [Machine -> Register({TRUE, FALSE, None})],
   cert : [Machine -> Register(Certificate \cup {None})],
   trust : SUBSET Entry]

BoundedBy(d, n) ==
  /\ \A x \in Machine : d.row[x].t <= n /\ d.gone[x].t <= n /\ d.cert[x].t <= n
  /\ \A e \in d.trust : /\ e.t <= n /\ e.p <= n
                        /\ e.roster.seq <= n /\ e.roster.date <= n /\ e.roster.tail <= n

TableOK(d) == d \in Table /\ \E n \in Nat : BoundedBy(d, n)

Stamps == [t : Nat, p : Nat]

\* The rosters of a table, deleted or not.
RostersIn(d) == {e.roster : e \in d.trust}

\* A bounded set of numbers has a greatest one.
LEMMA BoundedMax ==
  ASSUME NEW S \in SUBSET Nat, S # {}, NEW n \in Nat, \A x \in S : x <= n
  PROVE  \E m \in S : \A x \in S : x <= m
<1> DEFINE B == {k \in Nat : \A x \in S : x <= k}
<1>1. B # {} /\ B \subseteq Nat
  OBVIOUS
<1>2. PICK k \in B : \A j \in B : ~(<<j, k>> \in OpToRel(<, Nat))
  BY <1>1, NatLessThanWellFounded, WFMin
<1>3. \A j \in B : ~(j < k)
  BY <1>2 DEF OpToRel
<1>4. CASE k \in S
  BY <1>4
<1>5. CASE k \notin S
  <2>1. \A x \in S : x < k
    BY <1>5
  <2>2. PICK x \in S : TRUE
    OBVIOUS
  <2>3. x \in Nat /\ x < k /\ k \in Nat
    BY <2>1, <2>2
  <2>4. k - 1 \in Nat /\ \A y \in S : y <= k - 1
    BY <2>1, <2>3
  <2>5. k - 1 \in B
    BY <2>4
  <2> QED
    BY <1>3, <2>3, <2>5
<1> QED
  BY <1>4, <1>5

\* The next stamp is later than anything in the table (the Lamport clock).
LEMMA StampIs ==
  ASSUME NEW d, TableOK(d), NEW m \in Machine
  PROVE  /\ Stamp(d, m) \in Stamps
         /\ Stamp(d, m).p = Rank[m]
         /\ \A x \in Machine : /\ d.row[x].t < Stamp(d, m).t
                               /\ d.gone[x].t < Stamp(d, m).t
                               /\ d.cert[x].t < Stamp(d, m).t
         /\ \A e \in d.trust : e.t < Stamp(d, m).t
<1> DEFINE seen == {d[f][x].t : f \in Fields, x \in Machine} \cup {e.t : e \in d.trust} \cup {0}
           top == CHOOSE a \in seen : \A b \in seen : b <= a
<1>1. \A x \in Machine : d["row"][x].t \in Nat /\ d["gone"][x].t \in Nat /\ d["cert"][x].t \in Nat
  BY DEF TableOK, Table, Register
<1>2. \A e \in d.trust : e.t \in Nat
  BY DEF TableOK, Table, Entry
<1>3. seen \subseteq Nat
  BY <1>1, <1>2 DEF Fields
<1>4. PICK n \in Nat : BoundedBy(d, n)
  BY DEF TableOK
<1>5. \A a \in seen : a <= n
  <2>1. \A f \in Fields, x \in Machine : d[f][x].t <= n
    BY <1>4 DEF Fields, BoundedBy
  <2>2. \A e \in d.trust : e.t <= n
    BY <1>4 DEF BoundedBy
  <2> QED
    BY <2>1, <2>2
<1>6. \E a \in seen : \A b \in seen : b <= a
  <2>1. seen # {} /\ seen \in SUBSET Nat
    BY <1>3
  <2> HIDE DEF seen
  <2> QED
    BY <1>5, <2>1, BoundedMax
<1>7. top \in seen /\ \A b \in seen : b <= top
  BY <1>6
<1>8. Stamp(d, m) = [t |-> 1 + top, p |-> Rank[m]]
  BY DEF Stamp
<1>9. \A x \in Machine : d["row"][x].t \in seen /\ d["gone"][x].t \in seen /\ d["cert"][x].t \in seen
  BY DEF Fields
<1>10. \A e \in d.trust : e.t \in seen
  OBVIOUS
<1> HIDE DEF seen, top
<1>11. top \in Nat
  BY <1>3, <1>7
<1>12. \A b \in seen : b < 1 + top
  BY <1>3, <1>7, <1>11
<1> QED
  BY <1>8, <1>9, <1>10, <1>11, <1>12, RankAssumption DEF Stamps


EntryBoundedBy(e, n) ==
  e.t <= n /\ e.p <= n /\ e.roster.seq <= n /\ e.roster.date <= n /\ e.roster.tail <= n

\* A table put together from the registers and entries of two tables and
\* from newly written ones.
LEMMA PutTogether ==
  ASSUME NEW a, TableOK(a), NEW b, TableOK(b), NEW c \in Table, NEW k \in Nat,
         \A x \in Machine :
           /\ c.row[x] \in {a.row[x], b.row[x]} \/ c.row[x].t <= k
           /\ c.gone[x] \in {a.gone[x], b.gone[x]} \/ c.gone[x].t <= k
           /\ c.cert[x] \in {a.cert[x], b.cert[x]} \/ c.cert[x].t <= k,
         \A e \in c.trust : e \in a.trust \/ e \in b.trust \/ EntryBoundedBy(e, k)
  PROVE  TableOK(c)
<1>1. PICK m \in Nat : BoundedBy(a, m)
  BY DEF TableOK
<1>2. PICK n \in Nat : BoundedBy(b, n)
  BY DEF TableOK
<1> DEFINE z == m + n + k
<1>3. z \in Nat /\ m <= z /\ n <= z /\ k <= z
  OBVIOUS
<1>4. /\ \A x \in Machine : /\ c.row[x].t \in Nat /\ a.row[x].t \in Nat /\ b.row[x].t \in Nat
                            /\ c.gone[x].t \in Nat /\ a.gone[x].t \in Nat /\ b.gone[x].t \in Nat
                            /\ c.cert[x].t \in Nat /\ a.cert[x].t \in Nat /\ b.cert[x].t \in Nat
      /\ \A e \in c.trust : /\ e.t \in Nat /\ e.p \in Nat /\ e.roster.seq \in Nat
                            /\ e.roster.date \in Nat /\ e.roster.tail \in Nat
  BY DEF TableOK, Table, Register, Entry, SignedRoster
<1> HIDE DEF z
<1>5. \A x \in Machine : c.row[x].t <= z
  BY <1>1, <1>2, <1>3, <1>4 DEF BoundedBy
<1>6. \A x \in Machine : c.gone[x].t <= z
  BY <1>1, <1>2, <1>3, <1>4 DEF BoundedBy
<1>7. \A x \in Machine : c.cert[x].t <= z
  BY <1>1, <1>2, <1>3, <1>4 DEF BoundedBy
<1>8. \A e \in c.trust : EntryBoundedBy(e, z)
  <2> SUFFICES ASSUME NEW e \in c.trust PROVE EntryBoundedBy(e, z)
    OBVIOUS
  <2>1. EntryBoundedBy(e, m) \/ EntryBoundedBy(e, n) \/ EntryBoundedBy(e, k)
    BY <1>1, <1>2 DEF BoundedBy, EntryBoundedBy
  <2> QED
    BY <1>3, <1>4, <2>1 DEF EntryBoundedBy
<1>9. BoundedBy(c, z)
  BY <1>5, <1>6, <1>7, <1>8 DEF BoundedBy, EntryBoundedBy
<1> QED
  BY <1>3, <1>9 DEF TableOK

\* The setters write one register of their own field.
LEMMA UpsertIs ==
  ASSUME NEW d, TableOK(d), NEW s \in Stamps, NEW x \in Machine
  PROVE  /\ TableOK(Upsert(d, s, x))
         /\ Upsert(d, s, x).gone = d.gone
         /\ Upsert(d, s, x).cert = d.cert
         /\ Upsert(d, s, x).trust = d.trust
         /\ \A y \in Machine : y # x => Upsert(d, s, x).row[y] = d.row[y]
         /\ Upsert(d, s, x).row[x].val = TRUE
<1>1. CASE d.row[x].val = TRUE
  BY <1>1 DEF Upsert, Set
<1>2. CASE d.row[x].val # TRUE
  <2> DEFINE c == [d EXCEPT !.row = [@ EXCEPT ![x] = Written(TRUE, s)]]
  <2>1. Upsert(d, s, x) = c
    BY <1>2 DEF Upsert, Set
  <2>2. Written(TRUE, s) \in Register({TRUE, None}) /\ Written(TRUE, s).val = TRUE
    BY DEF Written, Register, Stamps
  <2>3. /\ c \in Table /\ c.gone = d.gone /\ c.cert = d.cert /\ c.trust = d.trust
        /\ \A y \in Machine : y # x => c.row[y] = d.row[y]
        /\ c.row[x] = Written(TRUE, s)
    BY <2>2 DEF TableOK, Table
  <2> HIDE DEF c
  <2>4. c.row[x].t <= s.t /\ s.t \in Nat
    BY <2>3 DEF Written, Stamps
  <2>5. \A y \in Machine : c.row[y] = d.row[y] \/ c.row[y].t <= s.t
    BY <2>3, <2>4
  <2>6. TableOK(c)
    BY <2>3, <2>4, <2>5, PutTogether
  <2> QED
    BY <2>1, <2>2, <2>3, <2>6
<1> QED
  BY <1>1, <1>2

\* Writing a certificate leaves every other register and the rosters alone.
LEMMA SetCertIs ==
  ASSUME NEW d, TableOK(d), NEW s \in Stamps, NEW x \in Machine,
         NEW v \in Certificate \cup {None}
  PROVE  /\ TableOK(SetCert(d, s, x, v))
         /\ SetCert(d, s, x, v).gone = d.gone
         /\ SetCert(d, s, x, v).row = d.row
         /\ SetCert(d, s, x, v).trust = d.trust
         /\ \A y \in Machine : y # x => SetCert(d, s, x, v).cert[y] = d.cert[y]
<1>1. CASE v = None \/ d.cert[x].val = v
  BY <1>1 DEF SetCert, Set
<1>2. CASE v # None /\ d.cert[x].val # v
  <2> DEFINE c == [d EXCEPT !.cert = [@ EXCEPT ![x] = Written(v, s)]]
  <2>1. SetCert(d, s, x, v) = c
    BY <1>2 DEF SetCert, Set
  <2>2. Written(v, s) \in Register(Certificate \cup {None}) /\ Written(v, s).val = v
    BY DEF Written, Register, Stamps
  <2>3. /\ c \in Table /\ c.gone = d.gone /\ c.row = d.row /\ c.trust = d.trust
        /\ \A y \in Machine : y # x => c.cert[y] = d.cert[y]
        /\ c.cert[x] = Written(v, s)
    BY <2>2 DEF TableOK, Table
  <2> HIDE DEF c
  <2>4. c.cert[x].t <= s.t /\ s.t \in Nat
    BY <2>3 DEF Written, Stamps
  <2>5. \A y \in Machine : c.cert[y] = d.cert[y] \/ c.cert[y].t <= s.t
    BY <2>3, <2>4
  <2>6. TableOK(c)
    BY <2>3, <2>4, <2>5, PutTogether
  <2> QED
    BY <2>1, <2>2, <2>3, <2>6
<1> QED
  BY <1>1, <1>2

\* Marking a machine gone, and clearing the mark.
Marked(d, s, x) == SetGone(d, s, x, TRUE)
Cleared(d, s, x) == SetGone(d, s, x, FALSE)

\* Writing the mark of a removed machine leaves the rest of the table alone.
LEMMA MarkGoneIs ==
  ASSUME NEW d, TableOK(d), NEW s \in Stamps, NEW x \in Machine
  PROVE  /\ TableOK(Marked(d, s, x))
         /\ Marked(d, s, x).row = d.row
         /\ Marked(d, s, x).cert = d.cert
         /\ Marked(d, s, x).trust = d.trust
         /\ \A y \in Machine : y # x => Marked(d, s, x).gone[y] = d.gone[y]
         /\ Marked(d, s, x).gone[x].val = TRUE
<1>1. CASE d.gone[x].val = TRUE
  BY <1>1 DEF Marked, SetGone, Set
<1>2. CASE d.gone[x].val # TRUE
  <2> DEFINE c == [d EXCEPT !.gone = [@ EXCEPT ![x] = Written(TRUE, s)]]
  <2>1. Marked(d, s, x) = c
    BY <1>2 DEF Marked, SetGone, Set
  <2>2. Written(TRUE, s) \in Register({TRUE, FALSE, None}) /\ Written(TRUE, s).val = TRUE
    BY DEF Written, Register, Stamps
  <2>3. /\ c \in Table /\ c.row = d.row /\ c.cert = d.cert /\ c.trust = d.trust
        /\ \A y \in Machine : y # x => c.gone[y] = d.gone[y]
        /\ c.gone[x] = Written(TRUE, s)
    BY <2>2 DEF TableOK, Table
  <2> HIDE DEF c
  <2>4. c.gone[x].t <= s.t /\ s.t \in Nat
    BY <2>3 DEF Written, Stamps
  <2>5. \A y \in Machine : c.gone[y] = d.gone[y] \/ c.gone[y].t <= s.t
    BY <2>3, <2>4
  <2>6. TableOK(c)
    BY <2>3, <2>4, <2>5, PutTogether
  <2> QED
    BY <2>1, <2>2, <2>3, <2>6
<1> QED
  BY <1>1, <1>2

\* Taking a machine back clears its mark and leaves the rest of the table alone.
LEMMA ClearGoneIs ==
  ASSUME NEW d, TableOK(d), NEW s \in Stamps, NEW x \in Machine
  PROVE  /\ TableOK(Cleared(d, s, x))
         /\ Cleared(d, s, x).row = d.row
         /\ Cleared(d, s, x).cert = d.cert
         /\ Cleared(d, s, x).trust = d.trust
         /\ \A y \in Machine : y # x => Cleared(d, s, x).gone[y] = d.gone[y]
         /\ \/ Cleared(d, s, x).gone[x].val = FALSE
            \/ Cleared(d, s, x) = d /\ d.gone[x].val = None
<1>1. CASE d.gone[x].val \in {FALSE, None}
  BY <1>1 DEF Cleared, SetGone, Set
<1>2. CASE d.gone[x].val \notin {FALSE, None}
  <2> DEFINE c == [d EXCEPT !.gone = [@ EXCEPT ![x] = Written(FALSE, s)]]
  <2>1. Cleared(d, s, x) = c
    BY <1>2 DEF Cleared, SetGone, Set
  <2>2. Written(FALSE, s) \in Register({TRUE, FALSE, None}) /\ Written(FALSE, s).val = FALSE
    BY DEF Written, Register, Stamps
  <2>3. /\ c \in Table /\ c.row = d.row /\ c.cert = d.cert /\ c.trust = d.trust
        /\ \A y \in Machine : y # x => c.gone[y] = d.gone[y]
        /\ c.gone[x] = Written(FALSE, s)
    BY <2>2 DEF TableOK, Table
  <2> HIDE DEF c
  <2>4. c.gone[x].t <= s.t /\ s.t \in Nat
    BY <2>3 DEF Written, Stamps
  <2>5. \A y \in Machine : c.gone[y] = d.gone[y] \/ c.gone[y].t <= s.t
    BY <2>3, <2>4
  <2>6. TableOK(c)
    BY <2>3, <2>4, <2>5, PutTogether
  <2> QED
    BY <2>1, <2>2, <2>3, <2>6
<1> QED
  BY <1>1, <1>2

\* Deleting the rows of others takes every tombstone but the own one along.
LEMMA KeepOnlyIs ==
  ASSUME NEW d, TableOK(d), NEW s \in Stamps, NEW x \in Machine
  PROVE  /\ TableOK(KeepOnly(d, s, x))
         /\ KeepOnly(d, s, x).trust = d.trust
         /\ Ids(KeepOnly(d, s, x)) \subseteq {x}
         /\ KeepOnly(d, s, x).gone[x] = d.gone[x]
<1> DEFINE c == KeepOnly(d, s, x)
           Clear(f) == [y \in Machine |->
                          IF y = x \/ d[f][y].val = None THEN d[f][y] ELSE Written(None, s)]
<1>1. c = [row |-> Clear("row"), gone |-> Clear("gone"), cert |-> Clear("cert"),
           trust |-> d.trust]
  BY DEF KeepOnly
<1>2. /\ \A V : None \in V => Written(None, s) \in Register(V)
      /\ Written(None, s).t = s.t /\ s.t \in Nat /\ Written(None, s).val = None
  BY DEF Written, Register, Stamps
<1>3. /\ Clear("row") \in [Machine -> Register({TRUE, None})]
      /\ Clear("gone") \in [Machine -> Register({TRUE, FALSE, None})]
      /\ Clear("cert") \in [Machine -> Register(Certificate \cup {None})]
  BY <1>2 DEF TableOK, Table
<1>4. c \in Table
  <2> HIDE DEF c, Clear
  <2>1. d.trust \in SUBSET Entry
    BY DEF TableOK, Table
  <2> QED
    BY <1>1, <1>3, <2>1 DEF Table
<1>5. \A y \in Machine : /\ c.row[y] = d.row[y] \/ c.row[y] = Written(None, s)
                         /\ c.gone[y] = d.gone[y] \/ c.gone[y] = Written(None, s)
                         /\ c.cert[y] = d.cert[y] \/ c.cert[y] = Written(None, s)
                         /\ y # x => /\ c.row[y].val = None /\ c.gone[y].val = None
                                     /\ c.cert[y].val = None
  BY <1>1, <1>2
<1>6. c.trust = d.trust /\ c.gone[x] = d.gone[x]
  BY <1>1
<1> HIDE DEF c
<1>7. \A y \in Machine : /\ c.row[y] = d.row[y] \/ c.row[y].t <= s.t
                         /\ c.gone[y] = d.gone[y] \/ c.gone[y].t <= s.t
                         /\ c.cert[y] = d.cert[y] \/ c.cert[y].t <= s.t
  BY <1>2, <1>5
<1>8. TableOK(c)
  BY <1>2, <1>4, <1>6, <1>7, PutTogether
<1>9. Ids(c) \subseteq {x}
  BY <1>5 DEF Ids, Fields
<1> QED
  BY <1>6, <1>8, <1>9 DEF c

-----------------------------------------------------------------------------
(* The TRUST map. *)

\* The register maps of a table.
Registers(d) == <<d.row, d.gone, d.cert>>

\* Storing a roster under a slot shows it there, and hides only what the slot
\* held.
LEMMA PutEntryIs ==
  ASSUME NEW d, TableOK(d), NEW s \in Stamps, NEW slot \in Slots, NEW r \in SignedRoster
  PROVE  /\ TableOK(PutEntry(d, s, slot, r))
         /\ Registers(PutEntry(d, s, slot, r)) = Registers(d)
         /\ \E e \in Live(PutEntry(d, s, slot, r)) : e.slot = slot /\ e.roster = r
         /\ \A e \in PutEntry(d, s, slot, r).trust :
              e \in d.trust \/ (e.live /\ e.slot = slot /\ e.roster = r)
         /\ \A e \in d.trust :
              e \in PutEntry(d, s, slot, r).trust \/ (e.slot = slot /\ e.roster = r)
<1>1. CASE \E e \in Live(d) : e.slot = slot /\ e.roster = r
  BY <1>1 DEF PutEntry
<1>2. CASE ~\E e \in Live(d) : e.slot = slot /\ e.roster = r
  <2> DEFINE new == [slot |-> slot, roster |-> r, live |-> TRUE, t |-> s.t, p |-> s.p]
             T == {e \in d.trust : ~(e.slot = slot /\ e.roster = r)} \cup {new}
             c == [d EXCEPT !.trust = T]
             k == s.t + s.p + r.seq + r.date + r.tail
  <2>1. PutEntry(d, s, slot, r) = c
    BY <1>2 DEF PutEntry
  <2>2. new \in Entry
    BY DEF Entry, Stamps
  <2>3. T \in SUBSET Entry
    BY <2>2 DEF TableOK, Table
  <2>4. c \in Table /\ c.row = d.row /\ c.gone = d.gone /\ c.cert = d.cert /\ c.trust = T
    <3> HIDE DEF T
    <3> QED
      BY <2>3 DEF TableOK, Table
  <2>5. k \in Nat /\ EntryBoundedBy(new, k)
    BY DEF EntryBoundedBy, Stamps, SignedRoster
  <2>6. \A e \in T : e \in d.trust \/ (e = new /\ EntryBoundedBy(e, k))
    BY <2>5
  <2>7. /\ new \in T /\ new.live /\ new.slot = slot /\ new.roster = r
        /\ \A e \in d.trust : e \in T \/ (e.slot = slot /\ e.roster = r)
    OBVIOUS
  <2> HIDE DEF T, c, k, new
  <2>8. TableOK(c)
    BY <2>4, <2>5, <2>6, PutTogether
  <2> QED
    BY <2>1, <2>4, <2>6, <2>7, <2>8 DEF Registers, Live
<1> QED
  BY <1>1, <1>2

\* Deleting rosters keeps their bytes in the history and shows none of them.
LEMMA DropEntriesIs ==
  ASSUME NEW d, TableOK(d), NEW s \in Stamps, NEW E \in SUBSET d.trust
  PROVE  /\ TableOK(DropEntries(d, s, E))
         /\ Registers(DropEntries(d, s, E)) = Registers(d)
         /\ \A e \in DropEntries(d, s, E).trust :
              \/ e \in d.trust \ E
              \/ ~e.live /\ \E f \in E : e.roster = f.roster
         /\ d.trust \ E \subseteq DropEntries(d, s, E).trust
         /\ RostersIn(DropEntries(d, s, E)) = RostersIn(d)
<1> DEFINE Dead(e) == [e EXCEPT !.live = FALSE, !.t = s.t, !.p = s.p]
           T == (d.trust \ E) \cup {Dead(e) : e \in E}
           c == DropEntries(d, s, E)
<1>1. \A e \in E : /\ Dead(e) \in Entry /\ Dead(e).live = FALSE /\ Dead(e).roster = e.roster
                   /\ Dead(e).t = s.t /\ Dead(e).p = s.p
  <2> SUFFICES ASSUME NEW e \in Entry
               PROVE  /\ Dead(e) \in Entry /\ Dead(e).live = FALSE /\ Dead(e).roster = e.roster
                      /\ Dead(e).t = s.t /\ Dead(e).p = s.p
    BY DEF TableOK, Table
  <2> QED
    BY DEF Entry, Stamps
<1> HIDE DEF Dead
<1>2. T \in SUBSET Entry
  BY <1>1 DEF TableOK, Table
<1>3. c \in Table /\ c.row = d.row /\ c.gone = d.gone /\ c.cert = d.cert /\ c.trust = T
  <2>1. c = [d EXCEPT !.trust = T]
    BY DEF DropEntries, Dead
  <2> HIDE DEF T
  <2> QED
    BY <1>2, <2>1 DEF TableOK, Table
<1> HIDE DEF c
<1>4. PICK n \in Nat : BoundedBy(d, n)
  BY DEF TableOK
<1> DEFINE k == n + s.t + s.p
<1>5. k \in Nat /\ n <= k /\ s.t <= k /\ s.p <= k
  BY DEF Stamps
<1> HIDE DEF k
<1>6. \A e \in E : EntryBoundedBy(Dead(e), k)
  <2> SUFFICES ASSUME NEW e \in E PROVE EntryBoundedBy(Dead(e), k)
    OBVIOUS
  <2>1. e.roster.seq <= n /\ e.roster.date <= n /\ e.roster.tail <= n
    BY <1>4 DEF BoundedBy
  <2>2. e.roster.seq \in Nat /\ e.roster.date \in Nat /\ e.roster.tail \in Nat
    BY DEF TableOK, Table, Entry, SignedRoster
  <2> QED
    BY <1>1, <1>5, <2>1, <2>2 DEF EntryBoundedBy, Stamps
<1>7. \A e \in T : e \in d.trust \/ EntryBoundedBy(e, k)
  BY <1>6
<1>8. TableOK(c)
  BY <1>3, <1>5, <1>7, PutTogether
<1>9. /\ \A e \in T : e \in d.trust \ E \/ (~e.live /\ \E f \in E : e.roster = f.roster)
      /\ d.trust \ E \subseteq T
  BY <1>1
<1>10. {e.roster : e \in T} = {e.roster : e \in d.trust}
  BY <1>1
<1> QED
  BY <1>3, <1>8, <1>9, <1>10 DEF Registers, RostersIn, c

\* What storing roster r makes of the TRUST map of table d: the roster is
\* there, lower versions are deleted, and what is live besides it was live
\* before.
StoredIn(d, c, r) ==
  /\ \E e \in Live(c) : e.roster = r
  /\ \A e \in c.trust :
       e \in d.trust \/ (e.live /\ e.roster = r) \/ (~e.live /\ e.roster.seq < r.seq)
  /\ RostersIn(c) = RostersIn(d) \cup {r}
  /\ \A e \in Live(d) : e.roster.seq >= r.seq => \E f \in Live(c) : f.roster = e.roster

\* store_roster_at does that, and touches no row.
LEMMA StoreRosterIs ==
  ASSUME NEW d, TableOK(d), NEW s \in Stamps, NEW r \in SignedRoster
  PROVE  /\ TableOK(StoreRoster(d, s, r))
         /\ Registers(StoreRoster(d, s, r)) = Registers(d)
         /\ StoredIn(d, StoreRoster(d, s, r), r)
<1> DEFINE put == PutEntry(d, s, None, r)
           E == {e \in Live(put) : e.slot = None /\ e.roster.seq < r.seq}
           c == DropEntries(put, s, E)
<1>1. c = StoreRoster(d, s, r)
  BY DEF StoreRoster
<1>2. None \in Slots
  BY DEF Slots
<1>3. /\ TableOK(put) /\ Registers(put) = Registers(d)
      /\ \E e \in Live(put) : e.slot = None /\ e.roster = r
      /\ \A e \in put.trust : e \in d.trust \/ (e.live /\ e.slot = None /\ e.roster = r)
      /\ \A e \in d.trust : e \in put.trust \/ (e.slot = None /\ e.roster = r)
  BY <1>2, PutEntryIs
<1> HIDE DEF put
<1>4. E \in SUBSET put.trust
  BY DEF Live
<1>5. /\ TableOK(c) /\ Registers(c) = Registers(put)
      /\ \A e \in c.trust : e \in put.trust \ E \/ (~e.live /\ \E f \in E : e.roster = f.roster)
      /\ put.trust \ E \subseteq c.trust
      /\ RostersIn(c) = RostersIn(put)
  <2> HIDE DEF E
  <2> QED
    BY <1>3, <1>4, DropEntriesIs
<1> HIDE DEF c
<1>6. \A e \in put.trust : e.roster.seq \in Nat
  BY <1>3 DEF TableOK, Table, Entry, SignedRoster
<1>7. r.seq \in Nat
  BY DEF SignedRoster
<1>8. PICK e0 \in Live(put) : e0.slot = None /\ e0.roster = r
  BY <1>3
<1>9. e0 \in Live(c)
  BY <1>5, <1>7, <1>8 DEF Live
<1>10. \A e \in c.trust :
         e \in d.trust \/ (e.live /\ e.roster = r) \/ (~e.live /\ e.roster.seq < r.seq)
  BY <1>3, <1>5
<1>11. RostersIn(put) = RostersIn(d) \cup {r}
  BY <1>3 DEF RostersIn, Live
<1>12. \A e \in Live(d) : e.roster.seq >= r.seq => \E f \in Live(c) : f.roster = e.roster
  <2> SUFFICES ASSUME NEW e \in Live(d), e.roster.seq >= r.seq
               PROVE  \E f \in Live(c) : f.roster = e.roster
    OBVIOUS
  <2>1. CASE e.slot = None /\ e.roster = r
    BY <1>8, <1>9, <2>1
  <2>2. CASE e \in put.trust
    <3>1. e.roster.seq \in Nat /\ e.live
      BY <1>6, <2>2 DEF Live
    <3>2. e \notin E
      BY <1>7, <3>1
    <3> QED
      BY <1>5, <2>2, <3>1, <3>2 DEF Live
  <2> QED
    BY <1>3, <2>1, <2>2 DEF Live
<1> QED
  BY <1>1, <1>3, <1>5, <1>8, <1>9, <1>10, <1>11, <1>12 DEF StoredIn

\* Only the TRUST maps matter to that.
LEMMA StoredInTrust ==
  ASSUME NEW d, NEW c, NEW r, StoredIn(d, c, r),
         NEW d2, NEW c2, d2.trust = d.trust, c2.trust = c.trust
  PROVE  StoredIn(d2, c2, r)
<1>1. /\ Live(d2) = Live(d) /\ Live(c2) = Live(c)
      /\ RostersIn(d2) = RostersIn(d) /\ RostersIn(c2) = RostersIn(c)
  BY DEF Live, RostersIn
<1> QED
  BY <1>1 DEF StoredIn


-----------------------------------------------------------------------------
(* Merging. *)

\* Of the entries under one key, one is not older than any other.
LEMMA LatestExists ==
  ASSUME NEW T \in SUBSET Entry, NEW n \in Nat, \A e \in T : e.t <= n /\ e.p <= n,
         NEW a \in T
  PROVE  \E f \in T : Slot(f) = Slot(a) /\ \A b \in T : Slot(f) = Slot(b) => ~Newer(b, f)
<1> DEFINE C == {e \in T : Slot(e) = Slot(a)}
           times == {e.t : e \in C}
<1>1. \A e \in T : e.t \in Nat /\ e.p \in Nat
  BY DEF Entry
<1>2. times # {} /\ times \in SUBSET Nat /\ \A x \in times : x <= n
  BY <1>1
<1>3. PICK t \in times : \A x \in times : x <= t
  <2> HIDE DEF times
  <2> QED
    BY <1>2, BoundedMax
<1> DEFINE L == {e \in C : e.t = t}
           ranks == {e.p : e \in L}
<1>4. ranks # {} /\ ranks \in SUBSET Nat /\ \A x \in ranks : x <= n
  BY <1>1
<1>5. PICK p \in ranks : \A x \in ranks : x <= p
  <2> HIDE DEF ranks
  <2> QED
    BY <1>4, BoundedMax
<1>6. PICK f \in L : f.p = p
  OBVIOUS
<1>7. \A b \in C : ~Newer(b, f)
  <2> SUFFICES ASSUME NEW b \in C, Newer(b, f) PROVE FALSE
    OBVIOUS
  <2>1. b.t \in Nat /\ b.p \in Nat /\ f.t \in Nat /\ f.p \in Nat /\ f.t = t
    BY <1>1, <1>6
  <2>2. b.t <= t
    BY <1>3
  <2>3. b.t = f.t /\ b.p > f.p
    BY <2>1, <2>2 DEF Newer
  <2>4. b.p <= p
    BY <1>5, <2>1, <2>3
  <2> QED
    BY <1>6, <2>1, <2>3, <2>4
<1> QED
  BY <1>6, <1>7

\* Merging keeps, of every register and of every key of the TRUST map, what
\* one of the sides has, and drops no key.
LEMMA MergeIs ==
  ASSUME NEW d, TableOK(d), NEW o, TableOK(o)
  PROVE  /\ TableOK(Merge(d, o))
         /\ \A x \in Machine :
              /\ Merge(d, o).row[x] = IF Newer(o.row[x], d.row[x]) THEN o.row[x] ELSE d.row[x]
              /\ Merge(d, o).gone[x] = IF Newer(o.gone[x], d.gone[x]) THEN o.gone[x] ELSE d.gone[x]
              /\ Merge(d, o).cert[x] = IF Newer(o.cert[x], d.cert[x]) THEN o.cert[x] ELSE d.cert[x]
         /\ Merge(d, o).trust \subseteq d.trust \cup o.trust
         /\ \A a \in d.trust \cup o.trust :
              \E f \in Merge(d, o).trust : f.slot = a.slot /\ f.roster = a.roster
         /\ RostersIn(Merge(d, o)) = RostersIn(d) \cup RostersIn(o)
<1> DEFINE both == d.trust \cup o.trust
           T == {a \in both : \A b \in both : Slot(a) = Slot(b) => ~Newer(b, a)}
           Row == [x \in Machine |-> IF Newer(o.row[x], d.row[x]) THEN o.row[x] ELSE d.row[x]]
           Gone == [x \in Machine |-> IF Newer(o.gone[x], d.gone[x]) THEN o.gone[x] ELSE d.gone[x]]
           Cert == [x \in Machine |-> IF Newer(o.cert[x], d.cert[x]) THEN o.cert[x] ELSE d.cert[x]]
           c == Merge(d, o)
<1>1. c = [row |-> Row, gone |-> Gone, cert |-> Cert, trust |-> T]
  BY DEF Merge
<1>2. /\ Row \in [Machine -> Register({TRUE, None})]
      /\ Gone \in [Machine -> Register({TRUE, FALSE, None})]
      /\ Cert \in [Machine -> Register(Certificate \cup {None})]
  BY DEF TableOK, Table
<1>3. both \in SUBSET Entry
  BY DEF TableOK, Table
<1>4. T \in SUBSET Entry
  BY <1>3
<1>5. c \in Table /\ c.row = Row /\ c.gone = Gone /\ c.cert = Cert /\ c.trust = T
  <2> HIDE DEF Row, Gone, Cert, T, c
  <2> QED
    BY <1>1, <1>2, <1>4 DEF Table
<1>6. \A x \in Machine : /\ Row[x] \in {d.row[x], o.row[x]}
                         /\ Gone[x] \in {d.gone[x], o.gone[x]}
                         /\ Cert[x] \in {d.cert[x], o.cert[x]}
  OBVIOUS
<1>7. TableOK(c)
  <2>1. \A e \in T : e \in d.trust \/ e \in o.trust
    OBVIOUS
  <2> HIDE DEF Row, Gone, Cert, T, c
  <2> QED
    BY <1>5, <1>6, <2>1, 0 \in Nat, PutTogether
<1>8. PICK m \in Nat : BoundedBy(d, m)
  BY DEF TableOK
<1>9. PICK n \in Nat : BoundedBy(o, n)
  BY DEF TableOK
<1>10. \A e \in both : e.t <= m + n /\ e.p <= m + n
  <2>1. \A e \in both : e.t \in Nat /\ e.p \in Nat
    BY <1>3 DEF Entry
  <2>2. \A e \in both : (e.t <= m /\ e.p <= m) \/ (e.t <= n /\ e.p <= n)
    BY <1>8, <1>9 DEF BoundedBy
  <2> HIDE DEF both
  <2> QED
    BY <2>1, <2>2
<1>11. \A a \in both : \E f \in T : f.slot = a.slot /\ f.roster = a.roster
  <2> SUFFICES ASSUME NEW a \in both PROVE \E f \in T : f.slot = a.slot /\ f.roster = a.roster
    OBVIOUS
  <2>1. m + n \in Nat
    OBVIOUS
  <2>2. PICK f \in both : Slot(f) = Slot(a) /\ \A b \in both : Slot(f) = Slot(b) => ~Newer(b, f)
    <3> HIDE DEF both
    <3> QED
      BY <1>3, <1>10, <2>1, LatestExists
  <2> QED
    BY <2>2 DEF Slot
<1>12. {e.roster : e \in T} = {e.roster : e \in both}
  BY <1>11
<1> QED
  BY <1>5, <1>7, <1>11, <1>12 DEF RostersIn, c

-----------------------------------------------------------------------------
(* The newest roster. *)

\* Among different records of one root with bounded numbers there is a newest,
\* whatever decides: version, date or bytes.
LEMMA NewestIs ==
  ASSUME NEW S \in SUBSET SignedRoster, S # {},
         NEW n \in Nat, \A r \in S : r.seq <= n /\ r.date <= n /\ r.tail <= n,
         \A a, b \in S : a = b \/ Later(a, b) \/ Later(b, a)
  PROVE  Newest(S) \in S /\ \A q \in S \ {Newest(S)} : Later(Newest(S), q)
<1>1. \A r \in S : r.seq \in Nat /\ r.date \in Nat /\ r.tail \in Nat
  BY DEF SignedRoster
<1> DEFINE seqs == {r.seq : r \in S}
<1>2. PICK a \in S : \A r \in S : r.seq <= a.seq
  <2>1. seqs # {} /\ seqs \in SUBSET Nat /\ \A x \in seqs : x <= n
    BY <1>1
  <2>2. \E m \in seqs : \A x \in seqs : x <= m
    <3> HIDE DEF seqs
    <3> QED
      BY <2>1, BoundedMax
  <2> QED
    BY <2>2
<1> DEFINE A == {r \in S : r.seq = a.seq}
           dates == {r.date : r \in A}
<1>3. PICK b \in A : \A r \in A : r.date <= b.date
  <2>1. dates # {} /\ dates \in SUBSET Nat /\ \A x \in dates : x <= n
    BY <1>1
  <2>2. \E m \in dates : \A x \in dates : x <= m
    <3> HIDE DEF dates
    <3> QED
      BY <2>1, BoundedMax
  <2> QED
    BY <2>2
<1> DEFINE B == {r \in A : r.date = b.date}
           tails == {r.tail : r \in B}
<1>4. PICK c \in B : \A r \in B : r.tail <= c.tail
  <2>1. tails # {} /\ tails \in SUBSET Nat /\ \A x \in tails : x <= n
    BY <1>1
  <2>2. \E m \in tails : \A x \in tails : x <= m
    <3> HIDE DEF tails
    <3> QED
      BY <2>1, BoundedMax
  <2> QED
    BY <2>2
<1>5. \A q \in S \ {c} : Later(c, q)
  <2> SUFFICES ASSUME NEW q \in S, q # c PROVE Later(c, q)
    OBVIOUS
  <2>1. Later(c, q) \/ Later(q, c)
    BY <1>4
  <2>2. CASE Later(q, c)
    <3>1. q.seq <= c.seq /\ c.seq = a.seq
      BY <1>2, <1>4
    <3>2. q.seq = c.seq => q.date <= c.date
      BY <1>3, <1>4, <3>1
    <3>3. q.seq = c.seq /\ q.date = c.date => q.tail <= c.tail
      BY <1>3, <1>4, <3>1
    <3>4. /\ q.seq \in Nat /\ q.date \in Nat /\ q.tail \in Nat
          /\ c.seq \in Nat /\ c.date \in Nat /\ c.tail \in Nat
      BY <1>1, <1>4
    <3> QED
      BY <2>2, <3>1, <3>2, <3>3, <3>4 DEF Later
  <2> QED
    BY <2>1, <2>2
<1>6. \E r \in S : \A q \in S \ {r} : Later(r, q)
  BY <1>4, <1>5
<1>7. Newest(S) = CHOOSE r \in S : \A q \in S \ {r} : Later(r, q)
  BY DEF Newest
<1> QED
  BY <1>6, <1>7

\* The rosters of a root are different records.
Differ(S, root) ==
  \A a, b \in S : a.root = root /\ b.root = root => a = b \/ Later(a, b) \/ Later(b, a)

\* newest_in returns a live roster of the root with the highest seq.
LEMMA NewestUnderIs ==
  ASSUME NEW d, TableOK(d), NEW root, Differ(RostersIn(d), root)
  PROVE  \/ /\ NewestUnder(Rosters(d), root) = None
            /\ \A e \in Live(d) : e.roster.root # root
         \/ /\ NewestUnder(Rosters(d), root) \in SignedRoster
            /\ NewestUnder(Rosters(d), root).root = root
            /\ NewestUnder(Rosters(d), root) # None
            /\ \E e \in Live(d) : e.roster = NewestUnder(Rosters(d), root)
            /\ \A e \in Live(d) : e.roster.root = root =>
                 /\ e.roster.seq <= NewestUnder(Rosters(d), root).seq
                 /\ e.roster = NewestUnder(Rosters(d), root) \/
                      Later(NewestUnder(Rosters(d), root), e.roster)
<1> DEFINE S == {r \in Rosters(d) : r.root = root}
<1>1. NewestUnder(Rosters(d), root) = Newest(S)
  BY DEF NewestUnder
<1>2. S \in SUBSET SignedRoster
  BY DEF Rosters, Live, TableOK, Table, Entry
<1>3. PICK n \in Nat : BoundedBy(d, n)
  BY DEF TableOK
<1>4. \A r \in S : r.seq <= n /\ r.date <= n /\ r.tail <= n
  BY <1>3 DEF BoundedBy, Rosters, Live
<1>5. \A a, b \in S : a = b \/ Later(a, b) \/ Later(b, a)
  BY DEF Differ, RostersIn, Rosters, Live
<1>6. \A e \in Live(d) : e.roster.root = root => e.roster \in S
  BY DEF Rosters
<1>7. \A r \in S : r.root = root /\ \E e \in Live(d) : e.roster = r
  BY DEF Rosters
<1> HIDE DEF S
<1>8. CASE S = {}
  BY <1>1, <1>6, <1>8 DEF Newest
<1>9. CASE S # {}
  <2> DEFINE w == Newest(S)
  <2>1. w \in S /\ \A q \in S \ {w} : Later(w, q)
    BY <1>2, <1>4, <1>5, <1>9, NewestIs
  <2> HIDE DEF w
  <2>2. w # None
    BY <1>2, <2>1, RosterAssumption
  <2>3. \A q \in S : q.seq <= w.seq
    <3>1. \A q \in S : q.seq \in Nat
      BY <1>2 DEF SignedRoster
    <3> QED
      BY <2>1, <3>1 DEF Later
  <2> QED
    BY <1>1, <1>2, <1>6, <1>7, <2>1, <2>2, <2>3 DEF w
<1> QED
  BY <1>8, <1>9

-----------------------------------------------------------------------------
(* A table on top of a root: every deleted roster of it was superseded by  *)
(* one that is live.                                                       *)
TopLive(d, root) ==
  \A e \in d.trust : e.roster.root = root =>
    \E f \in Live(d) : /\ f.roster.root = root /\ f.roster.seq >= e.roster.seq
                       /\ ~e.live => f.roster.seq > e.roster.seq

\* Storing a roster as new as any that is live leaves the table on top.
LEMMA TopStore ==
  ASSUME NEW d, TableOK(d), NEW c, TableOK(c), NEW r \in SignedRoster, StoredIn(d, c, r),
         TopLive(d, r.root), \A e \in Live(d) : e.roster.root = r.root => e.roster.seq <= r.seq
  PROVE  TopLive(c, r.root)
<1>1. /\ \E e \in Live(c) : e.roster = r
      /\ \A e \in c.trust :
              e \in d.trust \/ (e.live /\ e.roster = r) \/ (~e.live /\ e.roster.seq < r.seq)
  BY DEF StoredIn
<1>2. PICK f \in Live(c) : f.roster = r
  BY <1>1
<1>3. SUFFICES ASSUME NEW e \in c.trust, e.roster.root = r.root
               PROVE  r.seq >= e.roster.seq /\ (~e.live => r.seq > e.roster.seq)
  BY <1>2 DEF TopLive
<1>4. r.seq \in Nat /\ e.roster.seq \in Nat
  BY DEF TableOK, Table, Entry, SignedRoster
<1>5. CASE e \in d.trust /\ e.live
  BY <1>3, <1>4, <1>5 DEF Live
<1>6. CASE e \in d.trust /\ ~e.live
  <2>1. PICK g \in Live(d) : g.roster.root = r.root /\ g.roster.seq > e.roster.seq
    BY <1>3, <1>6 DEF TopLive
  <2>2. g.roster.seq <= r.seq /\ g.roster.seq \in Nat
    BY <2>1 DEF TableOK, Table, Entry, SignedRoster, Live
  <2> QED
    BY <1>4, <2>1, <2>2
<1>7. CASE e.live /\ e.roster = r
  BY <1>4, <1>7
<1>8. CASE ~e.live /\ e.roster.seq < r.seq
  BY <1>4, <1>8
<1> QED
  BY <1>1, <1>5, <1>6, <1>7, <1>8

\* So does merging with another table that is on top of the root.
LEMMA TopMerge ==
  ASSUME NEW d, TableOK(d), NEW o, TableOK(o), NEW root, TopLive(d, root), TopLive(o, root)
  PROVE  TopLive(Merge(d, o), root)
<1> DEFINE c == Merge(d, o)
           both == d.trust \cup o.trust
<1>1. /\ c.trust \subseteq both
      /\ \A a \in both : \E f \in c.trust : f.slot = a.slot /\ f.roster = a.roster
  BY MergeIs
<1>2. SUFFICES ASSUME NEW a \in c.trust, a.roster.root = root
               PROVE  \E f \in Live(c) : /\ f.roster.root = root /\ f.roster.seq >= a.roster.seq
                                         /\ ~a.live => f.roster.seq > a.roster.seq
  BY DEF TopLive
<1>3. \A e \in both : e.roster.seq \in Nat
  BY DEF TableOK, Table, Entry, SignedRoster
<1> DEFINE R == {e \in both : e.roster.root = root}
           seqs == {e.roster.seq : e \in R}
<1>4. PICK m \in Nat : BoundedBy(d, m)
  BY DEF TableOK
<1>5. PICK n \in Nat : BoundedBy(o, n)
  BY DEF TableOK
<1>6. PICK g \in R : \A e \in R : e.roster.seq <= g.roster.seq
  <2>1. \A e \in both : e.roster.seq <= m \/ e.roster.seq <= n
    BY <1>4, <1>5 DEF BoundedBy
  <2>2. \A e \in both : e.roster.seq <= m + n
    <3> HIDE DEF both
    <3> QED
      BY <1>3, <2>1
  <2>3. seqs # {} /\ seqs \in SUBSET Nat /\ \A x \in seqs : x <= m + n
    BY <1>1, <1>2, <1>3, <2>2
  <2>4. \E z \in seqs : \A x \in seqs : x <= z
    <3> HIDE DEF seqs
    <3> QED
      BY <2>3, m + n \in Nat, BoundedMax
  <2> QED
    BY <2>4
<1>7. \A e \in R : e.live \/ e.roster.seq < g.roster.seq
  <2> SUFFICES ASSUME NEW e \in R, ~e.live PROVE e.roster.seq < g.roster.seq
    OBVIOUS
  <2>1. PICK f \in Live(d) \cup Live(o) : f.roster.root = root /\ f.roster.seq > e.roster.seq
    BY DEF TopLive
  <2>2. f \in R
    BY <2>1 DEF Live
  <2>3. f.roster.seq <= g.roster.seq
    BY <1>6, <2>2
  <2>4. f.roster.seq \in Nat /\ g.roster.seq \in Nat /\ e.roster.seq \in Nat
    BY <1>3, <2>2
  <2> QED
    BY <2>1, <2>3, <2>4
<1>8. PICK f \in c.trust : f.slot = g.slot /\ f.roster = g.roster
  BY <1>1
<1>9. f \in R /\ f.roster.seq = g.roster.seq
  BY <1>1, <1>8
<1>10. f \in Live(c)
  BY <1>3, <1>7, <1>8, <1>9 DEF Live
<1>11. a \in R
  BY <1>1, <1>2
<1>12. a.roster.seq <= f.roster.seq /\ (~a.live => f.roster.seq > a.roster.seq)
  BY <1>3, <1>6, <1>7, <1>9, <1>11
<1>13. a.roster.seq \in Nat /\ f.roster.seq \in Nat
  BY <1>3, <1>9, <1>11
<1> QED
  BY <1>9, <1>10, <1>12, <1>13


\* A machine on top of a root goes by a roster no older than any it ever had.
LEMMA NewestOnTop ==
  ASSUME NEW d, TableOK(d), NEW root, Differ(RostersIn(d), root), TopLive(d, root),
         NEW r \in RostersIn(d), r.root = root
  PROVE  /\ NewestUnder(Rosters(d), root) # None
         /\ NewestUnder(Rosters(d), root) \in RostersIn(d)
         /\ NewestUnder(Rosters(d), root).root = root
         /\ NewestUnder(Rosters(d), root).seq >= r.seq
<1> DEFINE w == NewestUnder(Rosters(d), root)
<1>1. PICK e \in d.trust : e.roster = r
  BY DEF RostersIn
<1>2. PICK f \in Live(d) : f.roster.root = root /\ f.roster.seq >= r.seq
  BY <1>1 DEF TopLive
<1>3. /\ w \in SignedRoster /\ w.root = root /\ w # None
      /\ \E e1 \in Live(d) : e1.roster = w
      /\ \A e2 \in Live(d) : e2.roster.root = root => e2.roster.seq <= w.seq
  BY <1>2, NewestUnderIs
<1> HIDE DEF w
<1>4. w.seq \in Nat /\ f.roster.seq \in Nat /\ r.seq \in Nat
  BY <1>1, <1>2, <1>3 DEF Live, TableOK, Table, Entry, SignedRoster
<1>5. f.roster.seq <= w.seq
  BY <1>2, <1>3
<1>6. w \in RostersIn(d)
  BY <1>3 DEF RostersIn, Live
<1> QED
  BY <1>2, <1>3, <1>4, <1>5, <1>6 DEF w

-----------------------------------------------------------------------------
(* What a holder signs. *)

CertMap == UNION {[S -> Nat] : S \in SUBSET Machine}

\* The certificates of a roster are a function from machines to numbers.
LEMMA CertMapIs ==
  /\ \A c : c \in CertMap <=> /\ DOMAIN c \in SUBSET Machine
                              /\ c \in [DOMAIN c -> Nat]
  /\ \A S \in SUBSET Machine : [S -> Nat] \subseteq CertMap
<1>1. \A S \in SUBSET Machine : [S -> Nat] \subseteq CertMap
  BY DEF CertMap
<1>2. ASSUME NEW c, c \in CertMap
      PROVE  DOMAIN c \in SUBSET Machine /\ c \in [DOMAIN c -> Nat]
  <2>1. PICK S \in SUBSET Machine : c \in [S -> Nat]
    BY <1>2 DEF CertMap
  <2> QED
    BY <2>1
<1>3. ASSUME NEW c, DOMAIN c \in SUBSET Machine, c \in [DOMAIN c -> Nat]
      PROVE  c \in CertMap
  BY <1>1, <1>3
<1> QED
  BY <1>1, <1>2, <1>3

\* SignedRoster, spelled with CertMap.
LEMMA SignedRosterIs ==
  SignedRoster = [root : Root, seq : Nat, date : Nat, tail : Nat,
                  certs : CertMap, revoked : SUBSET Machine]
  BY DEF SignedRoster, CertMap

\* SignedRoster::cert_of returns a certificate of this roster, or none.
LEMMA SignedCertType ==
  ASSUME NEW r \in SignedRoster, NEW x \in Machine
  PROVE  SignedCert(r, x) \in Certificate \cup {None}
<1>1. CASE x \in Certified(r)
  <2>1. r.certs \in CertMap /\ r.root \in Root
    BY SignedRosterIs
  <2>2. r.certs[x] \in Nat
    BY <1>1, <2>1, CertMapIs DEF Certified
  <2> QED
    BY <1>1, <2>1, <2>2 DEF SignedCert, Certificate
<1>2. CASE x \notin Certified(r)
  BY <1>2 DEF SignedCert
<1> QED
  BY <1>1, <1>2

\* Roster::genesis is the first roster of its root, and admits whom it names.
LEMMA GenesisIs ==
  ASSUME NEW root \in Root, NEW day \in Nat, NEW tail \in Nat, NEW S \in SUBSET Machine
  PROVE  /\ Genesis(root, day, tail, S) \in SignedRoster
         /\ Genesis(root, day, tail, S).root = root
         /\ Genesis(root, day, tail, S).seq = 1
         /\ Genesis(root, day, tail, S).revoked = {}
         /\ \A x \in S : Admits(Genesis(root, day, tail, S), x)
<1> DEFINE c == [x \in S |-> 1]
<1>1. c \in [S -> Nat] /\ DOMAIN c = S
  OBVIOUS
<1>2. c \in CertMap
  BY <1>1, CertMapIs
<1> HIDE DEF c
<1>3. Genesis(root, day, tail, S) =
        [root |-> root, seq |-> 1, date |-> day, tail |-> tail, certs |-> c, revoked |-> {}]
  BY DEF Genesis, c
<1> QED
  BY <1>1, <1>2, <1>3, SignedRosterIs DEF Admits, Certified

\* The next version keeps what the last one says of every machine, unless it
\* certifies the machine anew or revokes it.
Follows(r, n) ==
  /\ n.root = r.root /\ n.seq = r.seq + 1
  /\ \A x \in r.revoked : x \in n.revoked \/ (x \in Certified(n) /\ n.certs[x] = n.seq)
  /\ \A x \in Certified(r) :
       x \in n.revoked \/ (x \in Certified(n) /\ n.certs[x] \in {r.certs[x], n.seq})

\* Roster::next has the next number of the same root.
LEMMA SuccessorIs ==
  ASSUME NEW r \in SignedRoster, NEW day \in Nat, NEW tail \in Nat,
         NEW c \in CertMap, NEW R \in SUBSET Machine
  PROVE  /\ Successor(r, day, tail, c, R) \in SignedRoster
         /\ Successor(r, day, tail, c, R).root = r.root
         /\ Successor(r, day, tail, c, R).seq = r.seq + 1
         /\ Successor(r, day, tail, c, R).certs = c
         /\ Certified(Successor(r, day, tail, c, R)) = DOMAIN c
         /\ Successor(r, day, tail, c, R).revoked = R
<1>1. r.root \in Root /\ r.seq \in Nat
  BY SignedRosterIs
<1> QED
  BY <1>1, SignedRosterIs DEF Successor, Certified

\* A roster that admits a machine follows the one before and keeps its others.
LEMMA AdmitIs ==
  ASSUME NEW r \in SignedRoster, NEW day \in Nat, NEW tail \in Nat, NEW x \in Machine
  PROVE  /\ Admit(r, day, tail, x) \in SignedRoster
         /\ Follows(r, Admit(r, day, tail, x))
         /\ Admits(Admit(r, day, tail, x), x)
         /\ \A y \in Machine : Admits(r, y) => Admits(Admit(r, day, tail, x), y)
<1> DEFINE D == Certified(r) \cup {x}
           c == [y \in D |-> IF y = x THEN r.seq + 1 ELSE r.certs[y]]
           n == Admit(r, day, tail, x)
<1>1. r.certs \in CertMap /\ r.seq \in Nat /\ r.revoked \in SUBSET Machine
  BY SignedRosterIs
<1>2. Certified(r) \in SUBSET Machine /\ \A y \in Certified(r) : r.certs[y] \in Nat
  BY <1>1, CertMapIs DEF Certified
<1>3. /\ c \in [D -> Nat] /\ DOMAIN c = D /\ D \in SUBSET Machine
      /\ c[x] = r.seq + 1 /\ \A y \in Certified(r) : c[y] \in {r.certs[y], r.seq + 1}
      /\ x \in D /\ Certified(r) \subseteq D
  BY <1>1, <1>2
<1>4. n = Successor(r, day, tail, c, r.revoked \ {x})
  BY DEF Admit
<1> HIDE DEF c, D
<1>5. c \in CertMap
  BY <1>3, CertMapIs
<1>6. /\ n \in SignedRoster /\ n.root = r.root /\ n.seq = r.seq + 1 /\ n.certs = c
      /\ Certified(n) = D /\ n.revoked = r.revoked \ {x}
  BY <1>1, <1>3, <1>4, <1>5, SuccessorIs
<1> HIDE DEF n
<1>7. Follows(r, n)
  BY <1>3, <1>6 DEF Follows
<1>8. Admits(n, x) /\ \A y \in Machine : Admits(r, y) => Admits(n, y)
  BY <1>3, <1>6 DEF Admits
<1> QED
  BY <1>6, <1>7, <1>8 DEF n

\* A roster that revokes a machine follows the one before and keeps the others.
LEMMA RevokeIs ==
  ASSUME NEW r \in SignedRoster, NEW day \in Nat, NEW tail \in Nat, NEW x \in Machine
  PROVE  /\ Revoke(r, day, tail, x) \in SignedRoster
         /\ Follows(r, Revoke(r, day, tail, x))
         /\ \A y \in Machine \ {x} : Admits(r, y) => Admits(Revoke(r, day, tail, x), y)
<1> DEFINE D == Certified(r) \ {x}
           c == Restrict(r.certs, D)
           n == Revoke(r, day, tail, x)
<1>1. r.certs \in CertMap /\ r.seq \in Nat /\ r.revoked \in SUBSET Machine
  BY SignedRosterIs
<1>2. Certified(r) \in SUBSET Machine /\ \A y \in Certified(r) : r.certs[y] \in Nat
  BY <1>1, CertMapIs DEF Certified
<1>3. /\ c \in [D -> Nat] /\ DOMAIN c = D /\ D \in SUBSET Machine
      /\ \A y \in D : c[y] = r.certs[y]
  BY <1>1, <1>2 DEF Restrict
<1>4. n = Successor(r, day, tail, c, r.revoked \cup {x})
  BY DEF Revoke
<1> HIDE DEF c
<1>5. c \in CertMap
  BY <1>3, CertMapIs
<1>6. /\ n \in SignedRoster /\ n.root = r.root /\ n.seq = r.seq + 1 /\ n.certs = c
      /\ Certified(n) = D /\ n.revoked = r.revoked \cup {x}
  BY <1>1, <1>3, <1>4, <1>5, SuccessorIs
<1> HIDE DEF n
<1>7. Follows(r, n)
  BY <1>3, <1>6 DEF Follows
<1>8. \A y \in Machine \ {x} : Admits(r, y) => Admits(n, y)
  BY <1>3, <1>6 DEF Admits
<1> QED
  BY <1>6, <1>7, <1>8 DEF n

\* A refreshed roster follows the one before and admits the same machines.
LEMMA RefreshIs ==
  ASSUME NEW r \in SignedRoster, NEW day \in Nat, NEW tail \in Nat
  PROVE  /\ Refresh(r, day, tail) \in SignedRoster
         /\ Follows(r, Refresh(r, day, tail))
         /\ \A y \in Machine : Admits(r, y) => Admits(Refresh(r, day, tail), y)
<1> DEFINE n == Refresh(r, day, tail)
<1>1. r.certs \in CertMap /\ r.seq \in Nat /\ r.revoked \in SUBSET Machine
  BY SignedRosterIs
<1>2. n = Successor(r, day, tail, r.certs, r.revoked)
  BY DEF Refresh
<1>3. /\ n \in SignedRoster /\ n.root = r.root /\ n.seq = r.seq + 1 /\ n.certs = r.certs
      /\ Certified(n) = Certified(r) /\ n.revoked = r.revoked
  BY <1>1, <1>2, SuccessorIs DEF Certified
<1> QED
  BY <1>3 DEF Follows, Admits


-----------------------------------------------------------------------------
(* Rows. *)

\* Two tables say the same about every machine outside X.
SameBut(c, d, X) ==
  \A y \in Machine \ X : c.row[y] = d.row[y] /\ c.gone[y] = d.gone[y] /\ c.cert[y] = d.cert[y]

\* A table that differs from another only in X has no rows beyond its and X's.
LEMMA IdsBut ==
  ASSUME NEW c, NEW d, NEW X, SameBut(c, d, X)
  PROVE  Ids(c) \subseteq Ids(d) \cup X
<1> SUFFICES ASSUME NEW y \in Ids(c), y \notin X PROVE y \in Ids(d)
  OBVIOUS
<1>1. PICK f \in Fields : c[f][y].val # None
  BY DEF Ids
<1>2. y \in Machine \ X
  BY DEF Ids
<1>3. c["row"][y] = d["row"][y] /\ c["gone"][y] = d["gone"][y] /\ c["cert"][y] = d["cert"][y]
  BY <1>2 DEF SameBut
<1>4. d[f][y].val # None
  BY <1>1, <1>3 DEF Fields
<1> QED
  BY <1>1, <1>2, <1>4 DEF Ids

\* What a table says of rosters depends on its TRUST map alone.
LEMMA RostersOfSame ==
  ASSUME NEW c, NEW d, c.trust = d.trust
  PROVE  Rosters(c) = Rosters(d) /\ RostersIn(c) = RostersIn(d) /\ Live(c) = Live(d)
  BY DEF Rosters, RostersIn, Live


-----------------------------------------------------------------------------
(* The rule of a pairing. *)

\* The root a side goes by once it has followed its verdict.
RootAfter(verdict, mine, theirs) ==
  LET r == IF verdict = "Adopt" THEN theirs ELSE mine
  IN  IF r = None THEN None ELSE r.root

\* settle: "One rule, run on both sides with the same inputs, so both reach
\* the same verdict".  The side that answered a and the side that dialed b:
\* they clash together or not at all, and if they do not they go by one root
\* afterwards; at most one of them gives its root up, and only a root that
\* certifies no other machine, so nobody is stranded under it.
THEOREM SettleAgrees ==
  ASSUME NEW i, NEW j,
         NEW ri \in SignedRoster \cup {None}, NEW rj \in SignedRoster \cup {None},
         NEW a, a = Settle(ri, i, rj, j, FALSE),
         NEW b, b = Settle(rj, j, ri, i, TRUE)
  PROVE  /\ a = "Clash" <=> b = "Clash"
         /\ a # "Clash" => RootAfter(a, ri, rj) = RootAfter(b, rj, ri)
         /\ ~(a = "Adopt" /\ b = "Adopt")
         /\ a = "Adopt" /\ ri # None => Lone(ri, i)
         /\ b = "Adopt" /\ rj # None => Lone(rj, j)
<1>1. CASE ri = None \/ rj = None
  BY <1>1 DEF Settle, RootAfter
<1>2. CASE ri # None /\ rj # None /\ ri.root = rj.root
  <2>1. a = "Keep" /\ b = "Keep"
    BY <1>2 DEF Settle
  <2> QED
    BY <1>2, <2>1 DEF RootAfter
<1>3. CASE ri # None /\ rj # None /\ ri.root # rj.root
  <2>1. a = IF Lone(ri, i) THEN IF Lone(rj, j) THEN "Keep" ELSE "Adopt"
            ELSE IF Lone(rj, j) THEN "Keep" ELSE "Clash"
    BY <1>3 DEF Settle
  <2>2. b = IF Lone(rj, j) THEN "Adopt" ELSE IF Lone(ri, i) THEN "Keep" ELSE "Clash"
    BY <1>3 DEF Settle
  <2>3. /\ RootAfter("Keep", ri, rj) = ri.root /\ RootAfter("Adopt", ri, rj) = rj.root
        /\ RootAfter("Keep", rj, ri) = rj.root /\ RootAfter("Adopt", rj, ri) = ri.root
    BY <1>3 DEF RootAfter
  <2>4. CASE Lone(ri, i) /\ Lone(rj, j)
    BY <2>1, <2>2, <2>3, <2>4
  <2>5. CASE Lone(ri, i) /\ ~Lone(rj, j)
    BY <2>1, <2>2, <2>3, <2>5
  <2>6. CASE ~Lone(ri, i) /\ Lone(rj, j)
    BY <2>1, <2>2, <2>3, <2>6
  <2>7. CASE ~Lone(ri, i) /\ ~Lone(rj, j)
    BY <2>1, <2>2, <2>7
  <2> QED
    BY <2>4, <2>5, <2>6, <2>7
<1> QED
  BY <1>1, <1>2, <1>3

=============================================================================
