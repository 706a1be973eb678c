-------------------------- MODULE TrustMeshProofs --------------------------
(***************************************************************************)
(* Proofs about TrustMesh for any number of machines, roots, pairings and  *)
(* days.  Every action is first described by what it does to the tables,   *)
(* anchors and keys (the "...Is" lemmas); the invariants are then proved   *)
(* from these descriptions.                                                *)
(***************************************************************************)
EXTENDS TrustMesh, DeviceTableProofs, FiniteSetTheorems

-----------------------------------------------------------------------------
(* Types. *)

Maybe(S) == S \cup {None}
Vouched == [from : Machine, to : Machine, roster : SignedRoster]
Phases == {"sent", "uncommitted", "committed", "refused", "accepted", "complete"}
Paired ==
  [n : Nat, joiner : Machine, issuer : Machine, phase : Phases, offer : Maybe(SignedRoster),
   initial : Maybe(Root), reply : Maybe(SignedRoster), ianchor : Maybe(Root),
   janchor : Maybe(Root), moved : SUBSET Machine]

DocsOK == doc \in [Machine -> Table] /\ \A m \in Machine : TableOK(doc[m])
RootsOK ==
  anchor \in [Machine -> Maybe(Root)] /\ key \in [Machine -> Maybe(Root)] /\ born \in SUBSET Root
PairsOK ==
  /\ pairs \in SUBSET Paired /\ IsFiniteSet(pairs)
  /\ \A p \in pairs : p.joiner # p.issuer
RestOK ==
  /\ notes \in [Machine -> SUBSET Machine] /\ door \in [Machine -> SUBSET Machine]
  /\ leaving \in SUBSET Machine /\ now \in Nat /\ used \in Nat

TypeOK == DocsOK /\ RootsOK /\ PairsOK /\ vouch \in SUBSET Vouched /\ RestOK

\* Every roster somebody has or is being sent.
AllRosters ==
  (UNION {RostersIn(doc[m]) : m \in Machine}) \cup {v.roster : v \in vouch}
    \cup (({p.offer : p \in pairs} \cup {p.reply : p \in pairs}) \ {None})

\* The roots in use exist.
BornOK ==
  /\ \A r \in AllRosters : r.root \in born
  /\ \A m \in Machine : key[m] \in Maybe(born) /\ anchor[m] \in Maybe(born)

MeshInv == TypeOK /\ BytesDiffer /\ BornOK

\* Every table change goes through Write: one machine's table, and the
\* history of whom it was shown out.
LEMMA WriteIs ==
  ASSUME MeshInv, NEW m \in Machine, NEW d, TableOK(d), Write(m, d)
  PROVE  /\ DocsOK' /\ BytesDiffer' /\ door' \in [Machine -> SUBSET Machine]
         /\ doc'[m] = d /\ door'[m] = DoorAfter(m, d)
         /\ \A x \in Machine \ {m} : doc'[x] = doc[x] /\ door'[x] = door[x]
<1>1. doc' = [doc EXCEPT ![m] = d] /\ door' = [door EXCEPT ![m] = DoorAfter(m, d)] /\ BytesDiffer'
  BY DEF Write
<1>2. doc \in [Machine -> Table] /\ \A x \in Machine : TableOK(doc[x])
  BY DEF MeshInv, TypeOK, DocsOK
<1>3. d \in Table
  BY DEF TableOK
<1>4. doc' \in [Machine -> Table]
  BY <1>1, <1>2, <1>3
<1>5. doc'[m] = d /\ \A x \in Machine \ {m} : doc'[x] = doc[x]
  BY <1>1, <1>2
<1>6. \A x \in Machine : TableOK(doc'[x])
  BY <1>2, <1>5
<1>7. DocsOK'
  BY <1>4, <1>6 DEF DocsOK
<1>8. DoorAfter(m, d) \in SUBSET Machine /\ door \in [Machine -> SUBSET Machine]
  BY DEF DoorAfter, MeshInv, TypeOK, RestOK
<1>9. /\ door' \in [Machine -> SUBSET Machine] /\ door'[m] = DoorAfter(m, d)
      /\ \A x \in Machine \ {m} : door'[x] = door[x]
  BY <1>1, <1>8
<1> QED
  BY <1>1, <1>5, <1>7, <1>9

\* All the rosters a machine reads are different records.
LEMMA RostersDiffer ==
  ASSUME BytesDiffer, NEW m \in Machine, NEW d, RostersIn(d) \subseteq RostersIn(doc[m]), NEW root
  PROVE  Differ(RostersIn(d), root)
  BY DEF BytesDiffer, Differ, RostersIn

-----------------------------------------------------------------------------
(* What a holder signs. *)

\* r is what the root's holder may sign next over table d, ...
NextRoster(d, root, r) ==
  /\ r \in SignedRoster /\ r.root = root
  /\ NewestIn(d, root) # None => Follows(NewestIn(d, root), r)
\* ... and keeps machine m on the list if it was there.
KeepsOn(d, root, m, r) == (NewestIn(d, root) = None \/ Admits(NewestIn(d, root), m)) => Admits(r, m)

\* newest returns a roster the table holds, of the root asked for.
LEMMA NewestInType ==
  ASSUME NEW d, TableOK(d), NEW root, Differ(RostersIn(d), root)
  PROVE  /\ NewestIn(d, root) \in Maybe(SignedRoster)
         /\ NewestIn(d, root) # None =>
              /\ NewestIn(d, root) \in SignedRoster /\ NewestIn(d, root).root = root
              /\ NewestIn(d, root) \in Rosters(d) /\ NewestIn(d, root) \in RostersIn(d)
<1> DEFINE w == NewestUnder(Rosters(d), root)
<1>1. w = None \/ (w \in SignedRoster /\ w.root = root /\ \E e \in Live(d) : e.roster = w)
  BY NewestUnderIs
<1>2. NewestIn(d, root) = w
  BY DEF NewestIn
<1> HIDE DEF w
<1> QED
  BY <1>1, <1>2 DEF Maybe, Rosters, RostersIn, Live

\* current_roster returns the newest roster, or a genesis that admits its signer.
LEMMA CurrentIs ==
  ASSUME NEW d, TableOK(d), NEW root \in Root, Differ(RostersIn(d), root),
         NEW m \in Machine, NEW tail \in Nat, now \in Nat
  PROVE  /\ Current(d, root, m, tail) \in SignedRoster /\ Current(d, root, m, tail).root = root
         /\ NewestIn(d, root) # None => Current(d, root, m, tail) = NewestIn(d, root)
         /\ NewestIn(d, root) = None => Admits(Current(d, root, m, tail), m)
<1>1. CASE NewestIn(d, root) = None
  <2>1. Current(d, root, m, tail) = Genesis(root, now, tail, {m})
    BY <1>1 DEF Current
  <2>2. {m} \in SUBSET Machine
    OBVIOUS
  <2> QED
    BY <1>1, <2>1, <2>2, GenesisIs
<1>2. CASE NewestIn(d, root) # None
  <2>1. Current(d, root, m, tail) = NewestIn(d, root)
    BY <1>2 DEF Current
  <2> QED
    BY <1>2, <2>1, NewestInType
<1> QED
  BY <1>1, <1>2

\* Table c is table d after roster r was stored; rows outside X are the same.
Stores(d, c, r, X) ==
  TableOK(c) /\ c.row = d.row /\ c.gone = d.gone /\ SameBut(c, d, X) /\ StoredIn(d, c, r)

\* store_roster shows the roster it is given and touches no register.
LEMMA StoreIs ==
  ASSUME NEW d, TableOK(d), NEW s \in Stamps, NEW r \in SignedRoster
  PROVE  Stores(d, StoreRoster(d, s, r), r, {})
<1> DEFINE c == StoreRoster(d, s, r)
<1>1. TableOK(c) /\ Registers(c) = Registers(d) /\ StoredIn(d, c, r)
  BY StoreRosterIs
<1> HIDE DEF c
<1> QED
  BY <1>1 DEF Stores, SameBut, Registers, c

\* Handing out a certificate after a roster was stored touches one register more.
LEMMA StoreCertIs ==
  ASSUME NEW d, NEW c, TableOK(d), NEW r \in SignedRoster, NEW X, Stores(d, c, r, X),
         NEW s \in Stamps, NEW x \in Machine, NEW v \in Certificate \cup {None}
  PROVE  Stores(d, SetCert(c, s, x, v), r, X \cup {x})
<1> DEFINE b == SetCert(c, s, x, v)
<1>1. /\ TableOK(b) /\ b.gone = c.gone /\ b.row = c.row /\ b.trust = c.trust
      /\ \A y \in Machine : y # x => b.cert[y] = c.cert[y]
  BY SetCertIs DEF Stores
<1> HIDE DEF b
<1>2. StoredIn(d, b, r)
  BY <1>1, StoredInTrust DEF Stores
<1>3. SameBut(b, d, X \cup {x})
  BY <1>1 DEF Stores, SameBut
<1> QED
  BY <1>1, <1>2, <1>3 DEF Stores, b

\* certify stores the successor that admits the machine, and its certificate.
LEMMA CertifyIs ==
  ASSUME NEW d, TableOK(d), NEW root \in Root, Differ(RostersIn(d), root), NEW s \in Stamps,
         NEW m \in Machine, NEW tail \in Nat, now \in Nat, NEW x \in Machine
  PROVE  \E r : /\ Stores(d, Certify(d, s, root, m, tail, x), r, {x})
                /\ NextRoster(d, root, r) /\ KeepsOn(d, root, m, r) /\ Admits(r, x)
<1> DEFINE cur == Current(d, root, m, tail)
           r == Admit(cur, now, tail, x)
<1>1. /\ cur \in SignedRoster /\ cur.root = root
      /\ NewestIn(d, root) # None => cur = NewestIn(d, root)
      /\ NewestIn(d, root) = None => Admits(cur, m)
  BY CurrentIs
<1>2. Certify(d, s, root, m, tail, x) = SetCert(StoreRoster(d, s, r), s, x, SignedCert(r, x))
  BY DEF Certify
<1> HIDE DEF cur
<1>3. /\ r \in SignedRoster /\ Follows(cur, r) /\ Admits(r, x)
      /\ \A y \in Machine : Admits(cur, y) => Admits(r, y)
  BY <1>1, AdmitIs
<1> HIDE DEF r
<1>4. Stores(d, StoreRoster(d, s, r), r, {})
  BY <1>3, StoreIs
<1>5. Stores(d, SetCert(StoreRoster(d, s, r), s, x, SignedCert(r, x)), r, {} \cup {x})
  BY <1>3, <1>4, SignedCertType, StoreCertIs
<1>6. NextRoster(d, root, r)
  BY <1>1, <1>3 DEF NextRoster, Follows
<1>7. KeepsOn(d, root, m, r)
  BY <1>1, <1>3 DEF KeepsOn
<1>8. {} \cup {x} = {x}
  OBVIOUS
<1> QED
  BY <1>2, <1>3, <1>5, <1>6, <1>7, <1>8

\* certify_self does nothing for a machine on the roster, else admits it.
LEMMA CertifySelfIs ==
  ASSUME NEW d, TableOK(d), NEW root \in Root, Differ(RostersIn(d), root), NEW s \in Stamps,
         NEW m \in Machine, NEW tail \in Nat, now \in Nat
  PROVE  \/ /\ CertifySelf(d, s, root, m, tail) = d
            /\ NewestIn(d, root) # None /\ Admits(NewestIn(d, root), m)
         \/ \E r : /\ Stores(d, CertifySelf(d, s, root, m, tail), r, {m})
                   /\ NextRoster(d, root, r) /\ Admits(r, m)
<1> DEFINE g == Genesis(root, now, tail, {m})
<1>1. CASE NewestIn(d, root) = None
  <2>1. CertifySelf(d, s, root, m, tail) = SetCert(StoreRoster(d, s, g), s, m, SignedCert(g, m))
    BY <1>1 DEF CertifySelf
  <2>2. g \in SignedRoster /\ g.root = root /\ Admits(g, m)
    BY {m} \in SUBSET Machine, GenesisIs
  <2> HIDE DEF g
  <2>3. Stores(d, StoreRoster(d, s, g), g, {})
    BY <2>2, StoreIs
  <2>4. Stores(d, SetCert(StoreRoster(d, s, g), s, m, SignedCert(g, m)), g, {} \cup {m})
    BY <2>2, <2>3, SignedCertType, StoreCertIs
  <2>5. NextRoster(d, root, g)
    BY <1>1, <2>2 DEF NextRoster
  <2>6. {} \cup {m} = {m}
    OBVIOUS
  <2> QED
    BY <2>1, <2>2, <2>4, <2>5, <2>6
<1>2. CASE NewestIn(d, root) # None /\ Admits(NewestIn(d, root), m)
  BY <1>2 DEF CertifySelf
<1>3. CASE NewestIn(d, root) # None /\ ~Admits(NewestIn(d, root), m)
  <2>1. CertifySelf(d, s, root, m, tail) = Certify(d, s, root, m, tail, m)
    BY <1>3 DEF CertifySelf
  <2> QED
    BY <2>1, CertifyIs
<1> QED
  BY <1>1, <1>2, <1>3

\* The revocation a holder signs keeps every other machine on the list.
LEMMA RevocationIs ==
  ASSUME NEW d, TableOK(d), NEW o, TableOK(o), o.trust = d.trust,
         NEW root \in Root, Differ(RostersIn(d), root), NEW s \in Stamps,
         NEW m \in Machine, NEW tail \in Nat, now \in Nat, NEW x \in Machine
  PROVE  \E r : /\ Stores(d, StoreRoster(d, s, Revoke(Current(o, root, m, tail), now, tail, x)), r, {})
                /\ NextRoster(o, root, r) /\ (x # m => KeepsOn(o, root, m, r))
<1> DEFINE cur == Current(o, root, m, tail)
           r == Revoke(cur, now, tail, x)
<1>1. Differ(RostersIn(o), root)
  BY RostersOfSame
<1>2. /\ cur \in SignedRoster /\ cur.root = root
      /\ NewestIn(o, root) # None => cur = NewestIn(o, root)
      /\ NewestIn(o, root) = None => Admits(cur, m)
  BY <1>1, CurrentIs
<1> HIDE DEF cur
<1>3. /\ r \in SignedRoster /\ Follows(cur, r)
      /\ \A y \in Machine \ {x} : Admits(cur, y) => Admits(r, y)
  BY <1>2, RevokeIs
<1> HIDE DEF r
<1>4. Stores(d, StoreRoster(d, s, r), r, {})
  BY <1>3, StoreIs
<1>5. NextRoster(o, root, r)
  BY <1>2, <1>3 DEF NextRoster, Follows
<1>6. x # m => KeepsOn(o, root, m, r)
  BY <1>2, <1>3 DEF KeepsOn
<1> QED
  BY <1>4, <1>5, <1>6 DEF r, cur

-----------------------------------------------------------------------------
(* What a step does to one machine's table. *)

\* One table is written.
Wrote(m) ==
  /\ DocsOK' /\ BytesDiffer' /\ door' \in [Machine -> SUBSET Machine]
  /\ door'[m] = DoorAfter(m, doc'[m])
  /\ \A x \in Machine \ {m} : doc'[x] = doc[x] /\ door'[x] = door[x]

\* No mark in it is unmade without a trace.
GoneKept(m) ==
  \A x \in Machine : doc'[m].gone[x].val = None => doc'[m].gone[x] = doc[m].gone[x]
RowsKept(m) == Ids(doc'[m]) \subseteq Ids(doc[m]) \cup {m}
SelfKept(m) == doc'[m].gone[m].val = TRUE => doc[m].gone[m].val = TRUE
TrustKept(m) == doc'[m].trust = doc[m].trust

\* The holder of a root, this step at the latest, signs and stores a roster.
SignedAt(m) ==
  /\ key'[m] # None /\ anchor'[m] = key'[m]
  /\ \E r : /\ StoredIn(doc[m], doc'[m], r)
            /\ NextRoster(doc[m], key'[m], r)
            /\ doc[m].gone[m].val # TRUE => KeepsOn(doc[m], key'[m], m, r)

Local(m) ==
  /\ Wrote(m) /\ GoneKept(m) /\ RowsKept(m) /\ SelfKept(m)
  /\ TrustKept(m) \/ SignedAt(m)

\* How anchors and keys change outside recovery, leaving and pairing.
RootsSame == UNCHANGED <<anchor, key, born>>
OwnTaken(m) ==
  /\ anchor[m] = None /\ key[m] # None
  /\ anchor' = [anchor EXCEPT ![m] = key[m]] /\ UNCHANGED <<key, born>>
Adopts(m) ==
  /\ anchor[m] = None /\ key[m] = None
  /\ \E r \in Adoptable(doc[m], m) : anchor' = [anchor EXCEPT ![m] = r]
  /\ UNCHANGED <<key, born>>
NewRoot(m) ==
  /\ anchor[m] = None /\ key[m] = None
  /\ \E r \in Root \ born : /\ born' = born \cup {r} /\ key' = [key EXCEPT ![m] = r]
                            /\ anchor' \in {anchor, [anchor EXCEPT ![m] = r]}
RootsStep(m) == RootsSame \/ OwnTaken(m) \/ Adopts(m) \/ NewRoot(m)

LocalStep ==
  \E m \in Machine : Local(m) /\ RootsStep(m) /\ UNCHANGED <<pairs, vouch, leaving>>
IdleStep ==
  \E m \in Machine :
    RootsStep(m) /\ vouch' \subseteq vouch /\ UNCHANGED <<doc, door, pairs, leaving>>
MergeStep(m, x) ==
  /\ m # x /\ Wrote(m) /\ doc'[m] = Merge(doc[m], doc[x])
  /\ RootsSame /\ UNCHANGED <<vouch, leaving>>
VouchStep(v) ==
  /\ v \in vouch /\ vouch' = vouch \ {v}
  /\ anchor[v.to] = v.roster.root /\ Admits(v.roster, v.to)
  /\ RosterOf(v.to) # None => ~(RosterOf(v.to).seq > v.roster.seq)
  /\ Wrote(v.to) /\ GoneKept(v.to) /\ SelfKept(v.to)
  /\ StoredIn(doc[v.to], doc'[v.to], v.roster)
  /\ RootsSame /\ UNCHANGED <<pairs, leaving>>

\* What MeshInv says of one machine, ready to be cited.
LEMMA Here ==
  ASSUME MeshInv, NEW m \in Machine
  PROVE  /\ TableOK(doc[m]) /\ Stamp(doc[m], m) \in Stamps
         /\ now \in Nat /\ \A t \in Tails : t \in Nat
         /\ anchor[m] \in Maybe(Root) /\ key[m] \in Maybe(Root)
         /\ \A root : Differ(RostersIn(doc[m]), root)
         /\ anchor \in [Machine -> Maybe(Root)] /\ key \in [Machine -> Maybe(Root)]
<1>1. TableOK(doc[m])
  BY DEF MeshInv, TypeOK, DocsOK
<1>2. Stamp(doc[m], m) \in Stamps
  BY <1>1, StampIs
<1>3. \A root : Differ(RostersIn(doc[m]), root)
  BY RostersDiffer DEF MeshInv
<1>4. anchor \in [Machine -> Maybe(Root)] /\ key \in [Machine -> Maybe(Root)]
  BY DEF MeshInv, TypeOK, RootsOK
<1> QED
  BY <1>1, <1>2, <1>3, <1>4, MeshAssumption DEF MeshInv, TypeOK, RestOK

\* Write is a change of one table, seen as Wrote.
LEMMA WroteIs ==
  ASSUME MeshInv, NEW m \in Machine, NEW d, TableOK(d), Write(m, d)
  PROVE  Wrote(m) /\ doc'[m] = d
  BY WriteIs DEF Wrote

\* The marks stay as they are, and rows are written only of machines that
\* have one, or of the writer.
LEMMA LocalWrite ==
  ASSUME MeshInv, NEW m \in Machine, NEW d, TableOK(d), Write(m, d),
         d.gone = doc[m].gone, NEW X \in SUBSET Machine, SameBut(d, doc[m], X),
         X \subseteq Ids(doc[m]) \cup {m}
  PROVE  Wrote(m) /\ GoneKept(m) /\ RowsKept(m) /\ SelfKept(m) /\ doc'[m] = d
<1>1. Wrote(m) /\ doc'[m] = d
  BY WroteIs
<1>2. Ids(d) \subseteq Ids(doc[m]) \cup X
  BY IdsBut
<1> QED
  BY <1>1, <1>2 DEF GoneKept, RowsKept, SelfKept

\* newest reads the rosters of a table only.
LEMMA NewestSame ==
  ASSUME NEW d, NEW c, d.trust = c.trust, NEW root
  PROVE  NewestIn(d, root) = NewestIn(c, root)
  BY RostersOfSame DEF NewestIn

\* A table on which only a roster was stored, and what counts as signing.
LEMMA SignedLocal ==
  ASSUME MeshInv, NEW m \in Machine, NEW d, TableOK(d), d.trust = doc[m].trust,
         d.gone = doc[m].gone, NEW Y \in SUBSET Machine, SameBut(d, doc[m], Y),
         NEW c, NEW r, NEW X \in SUBSET Machine, Stores(d, c, r, X), Write(m, c),
         X \cup Y \subseteq Ids(doc[m]) \cup {m},
         key'[m] # None, anchor'[m] = key'[m],
         NextRoster(d, key'[m], r), doc[m].gone[m].val # TRUE => KeepsOn(d, key'[m], m, r)
  PROVE  Local(m)
<1>1. TableOK(c) /\ c.gone = doc[m].gone /\ SameBut(c, d, X) /\ StoredIn(d, c, r)
  BY DEF Stores
<1>2. SameBut(c, doc[m], X \cup Y)
  BY <1>1 DEF SameBut
<1>3. Wrote(m) /\ GoneKept(m) /\ RowsKept(m) /\ SelfKept(m) /\ doc'[m] = c
  BY <1>1, <1>2, X \cup Y \in SUBSET Machine, LocalWrite
<1>4. StoredIn(doc[m], doc'[m], r)
  BY <1>1, <1>3, StoredInTrust
<1>5. NewestIn(d, key'[m]) = NewestIn(doc[m], key'[m])
  BY NewestSame
<1>6. SignedAt(m)
  BY <1>4, <1>5 DEF SignedAt, NextRoster, KeepsOn
<1> QED
  BY <1>3, <1>6 DEF Local

\* certify_self, on a table whose own row was just written.
LEMMA SelfLocal ==
  ASSUME MeshInv, NEW m \in Machine, NEW tail \in Tails, NEW root \in Root,
         key'[m] = root, anchor'[m] = root,
         Write(m, CertifySelf(Upsert(doc[m], Stamp(doc[m], m), m), Stamp(doc[m], m),
                              root, m, tail))
  PROVE  Local(m)
<1> DEFINE s == Stamp(doc[m], m)
           d == Upsert(doc[m], s, m)
           c == CertifySelf(d, s, root, m, tail)
<1>1. /\ TableOK(doc[m]) /\ s \in Stamps /\ now \in Nat /\ tail \in Nat
      /\ Differ(RostersIn(doc[m]), root) /\ root # None
  BY Here, RosterAssumption
<1> HIDE DEF s
<1>2. /\ TableOK(d) /\ d.gone = doc[m].gone /\ d.cert = doc[m].cert /\ d.trust = doc[m].trust
      /\ \A y \in Machine : y # m => d.row[y] = doc[m].row[y]
  BY <1>1, UpsertIs
<1>3. Write(m, c)
  BY DEF s
<1> HIDE DEF d
<1>4. SameBut(d, doc[m], {m})
  BY <1>2 DEF SameBut
<1>5. Differ(RostersIn(d), root)
  BY <1>1, <1>2, RostersOfSame
<1>6. \/ c = d
      \/ \E r : Stores(d, c, r, {m}) /\ NextRoster(d, root, r) /\ Admits(r, m)
  BY <1>1, <1>2, <1>5, CertifySelfIs
<1> HIDE DEF c
<1>7. CASE c = d
  <2>1. Wrote(m) /\ GoneKept(m) /\ RowsKept(m) /\ SelfKept(m) /\ doc'[m] = d
    BY <1>2, <1>3, <1>4, <1>7, {m} \in SUBSET Machine, LocalWrite
  <2> QED
    BY <1>2, <2>1 DEF Local, TrustKept
<1>8. CASE \E r : Stores(d, c, r, {m}) /\ NextRoster(d, root, r) /\ Admits(r, m)
  <2>1. PICK r : Stores(d, c, r, {m}) /\ NextRoster(d, root, r) /\ Admits(r, m)
    BY <1>8
  <2>2. KeepsOn(d, root, m, r)
    BY <2>1 DEF KeepsOn
  <2> QED
    BY <1>1, <1>2, <1>3, <1>4, <2>1, <2>2, {m} \in SUBSET Machine, SignedLocal
<1> QED
  BY <1>6, <1>7, <1>8

\* Opening the document is a local step that leaves roots and pairings alone.
LEMMA OpenIs ==
  ASSUME MeshInv, NEW m \in Machine, NEW tail \in Tails, Open(m, tail)
  PROVE  Local(m) /\ RootsStep(m) /\ UNCHANGED <<pairs, vouch, leaving, now, used>>
<1> DEFINE s == Stamp(doc[m], m)
           d == Upsert(doc[m], s, m)
<1>1. /\ TableOK(doc[m]) /\ s \in Stamps
      /\ anchor[m] \in Maybe(Root) /\ key[m] \in Maybe(Root)
      /\ anchor \in [Machine -> Maybe(Root)] /\ key \in [Machine -> Maybe(Root)]
  BY Here
<1>2. UNCHANGED <<pairs, vouch, leaving, now, used>>
  BY DEF Open
<1>3. /\ TableOK(d) /\ d.gone = doc[m].gone /\ d.cert = doc[m].cert /\ d.trust = doc[m].trust
      /\ \A y \in Machine : y # m => d.row[y] = doc[m].row[y]
  <2> HIDE DEF s
  <2> QED
    BY <1>1, UpsertIs
<1>4. ASSUME Write(m, d) PROVE Local(m)
  <2>1. SameBut(d, doc[m], {m})
    BY <1>3 DEF SameBut
  <2> HIDE DEF d
  <2>2. Wrote(m) /\ GoneKept(m) /\ RowsKept(m) /\ SelfKept(m) /\ doc'[m] = d
    BY <1>3, <1>4, <2>1, {m} \in SUBSET Machine, LocalWrite
  <2> QED
    BY <1>3, <2>2 DEF Local, TrustKept
<1>5. ASSUME HoldsRoot(m), Write(m, CertifySelf(d, s, key[m], m, tail)),
             UNCHANGED <<anchor, key, born>>
      PROVE  Local(m) /\ RootsStep(m)
  <2>1. key[m] \in Root /\ key'[m] = key[m] /\ anchor'[m] = key[m]
    BY <1>1, <1>5 DEF HoldsRoot, Maybe
  <2> QED
    BY <1>5, <2>1, SelfLocal DEF RootsStep, RootsSame
<1>6. ASSUME anchor[m] # None, ~HoldsRoot(m), Write(m, d), UNCHANGED <<anchor, key, notes, born>>
      PROVE  Local(m) /\ RootsStep(m)
  BY <1>4, <1>6 DEF RootsStep, RootsSame
<1>7. ASSUME anchor[m] = None, key[m] # None, anchor' = [anchor EXCEPT ![m] = key[m]],
             Write(m, CertifySelf(d, s, key[m], m, tail)), UNCHANGED <<key, born>>
      PROVE  Local(m) /\ RootsStep(m)
  <2>1. key[m] \in Root /\ key'[m] = key[m] /\ anchor'[m] = key[m]
    BY <1>1, <1>7 DEF Maybe
  <2> QED
    BY <1>7, <2>1, SelfLocal DEF RootsStep, OwnTaken
<1>8. ASSUME anchor[m] = None, key[m] = None, Write(m, d), UNCHANGED <<key, notes, born>>,
             \/ Adoptable(d, m) = {} /\ UNCHANGED anchor
             \/ \E r \in Adoptable(d, m) : anchor' = [anchor EXCEPT ![m] = r]
      PROVE  Local(m) /\ RootsStep(m)
  <2>1. Adoptable(d, m) = Adoptable(doc[m], m)
    BY <1>3, RostersOfSame DEF Adoptable
  <2> QED
    BY <1>4, <1>8, <2>1 DEF RootsStep, RootsSame, Adopts
<1>9. ASSUME anchor[m] = None, key[m] = None, NEW r \in Root \ born, born' = born \cup {r},
             key' = [key EXCEPT ![m] = r], anchor' = [anchor EXCEPT ![m] = r],
             Write(m, CertifySelf(d, s, r, m, tail))
      PROVE  Local(m) /\ RootsStep(m)
  <2>1. key'[m] = r /\ anchor'[m] = r
    BY <1>1, <1>9
  <2> QED
    BY <1>9, <2>1, SelfLocal DEF RootsStep, NewRoot
<1> QED
  BY <1>2, <1>5, <1>6, <1>7, <1>8, <1>9 DEF Open

\* The holder of a root the machine is anchored to signs over its own table.
LEMMA HolderHere ==
  ASSUME MeshInv, NEW m \in Machine, HoldsRoot(m)
  PROVE  key[m] \in Root /\ key[m] # None /\ anchor[m] = key[m]
  BY Here DEF HoldsRoot, Maybe

\* tick takes up the anchor of a roster it is on, or refreshes the roster it signs.
LEMMA TrustTickIs ==
  ASSUME MeshInv, NEW m \in Machine, NEW tail \in Tails, TrustTick(m, tail)
  PROVE  LocalStep \/ IdleStep
<1> DEFINE s == Stamp(doc[m], m)
           r == NewestIn(doc[m], key[m])
           n == Refresh(r, now, tail)
<1>1. UNCHANGED <<key, notes, born, pairs, vouch, leaving, now, used>>
  BY DEF TrustTick
<1>2. ASSUME anchor[m] = None, key[m] = None, UNCHANGED <<doc, door>>,
             \E x \in Adoptable(doc[m], m) : anchor' = [anchor EXCEPT ![m] = x]
      PROVE  IdleStep
  BY <1>1, <1>2 DEF IdleStep, RootsStep, Adopts
<1>3. ASSUME HoldsRoot(m), r # None, Write(m, StoreRoster(doc[m], s, n)), UNCHANGED anchor
      PROVE  LocalStep
  <2>1. /\ TableOK(doc[m]) /\ s \in Stamps /\ now \in Nat /\ tail \in Nat
        /\ \A root : Differ(RostersIn(doc[m]), root)
    BY Here
  <2>2. key[m] \in Root /\ key'[m] = key[m] /\ anchor'[m] = key[m] /\ key[m] # None
    BY <1>1, <1>3, HolderHere
  <2>3. r \in SignedRoster /\ r.root = key[m]
    BY <1>3, <2>1, NewestInType
  <2> HIDE DEF s
  <2>4. /\ n \in SignedRoster /\ Follows(r, n)
        /\ \A y \in Machine : Admits(r, y) => Admits(n, y)
    BY <2>1, <2>3, RefreshIs
  <2>5. NextRoster(doc[m], key[m], n) /\ KeepsOn(doc[m], key[m], m, n)
    BY <1>3, <2>3, <2>4 DEF NextRoster, KeepsOn, Follows
  <2> HIDE DEF n, r
  <2>6. Stores(doc[m], StoreRoster(doc[m], s, n), n, {})
    BY <2>1, <2>4, StoreIs
  <2>7. SameBut(doc[m], doc[m], {}) /\ {} \in SUBSET Machine
    BY DEF SameBut
  <2>8. Local(m)
    BY <1>3, <2>1, <2>2, <2>5, <2>6, <2>7, SignedLocal
  <2> QED
    BY <1>1, <1>3, <2>8 DEF LocalStep, RootsStep, RootsSame
<1> QED
  BY <1>2, <1>3 DEF TrustTick

\* A revocation signed over a table whose rows are those of the machine, but
\* for the mark of machine x.
LEMMA RevocationLocal ==
  ASSUME MeshInv, NEW m \in Machine, NEW x \in Machine, NEW tail \in Tails, HoldsRoot(m),
         SignRevocation(m, doc[m], x, tail), RootsSame,
         x = m => doc[m].gone[m].val = TRUE
  PROVE  Local(m)
<1> DEFINE s == Stamp(doc[m], m)
           c == StoreRoster(doc[m], s, Revoke(Current(doc[m], key[m], m, tail), now, tail, x))
<1>1. /\ TableOK(doc[m]) /\ s \in Stamps /\ now \in Nat /\ tail \in Nat
      /\ \A root : Differ(RostersIn(doc[m]), root)
  BY Here
<1>2. key[m] \in Root /\ key'[m] = key[m] /\ anchor'[m] = key[m] /\ key[m] # None
  BY HolderHere DEF RootsSame
<1>3. Write(m, c)
  BY DEF SignRevocation
<1> HIDE DEF s
<1>4. PICK r : /\ Stores(doc[m], c, r, {})
               /\ NextRoster(doc[m], key[m], r) /\ (x # m => KeepsOn(doc[m], key[m], m, r))
  BY <1>1, <1>2, RevocationIs
<1> HIDE DEF c
<1>5. SameBut(doc[m], doc[m], {}) /\ {} \in SUBSET Machine
  BY DEF SameBut
<1> QED
  BY <1>1, <1>2, <1>3, <1>4, <1>5, SignedLocal

\* Approving a row is a local step of the holder.
LEMMA ApproveJoinIs ==
  ASSUME MeshInv, NEW m \in Machine, NEW x \in Machine, NEW tail \in Tails,
         ApproveJoin(m, x, tail)
  PROVE  LocalStep
<1> DEFINE s == Stamp(doc[m], m)
           c == Certify(doc[m], s, key[m], m, tail, x)
<1>1. /\ TableOK(doc[m]) /\ s \in Stamps /\ now \in Nat /\ tail \in Nat
      /\ \A root : Differ(RostersIn(doc[m]), root)
  BY Here
<1>2. /\ HoldsRoot(m) /\ x \in All(doc[m]) /\ Write(m, c)
      /\ UNCHANGED <<anchor, key, born, pairs, vouch, leaving>>
  BY DEF ApproveJoin, PendingJoins
<1>3. key[m] \in Root /\ key'[m] = key[m] /\ anchor'[m] = key[m] /\ key[m] # None
  BY <1>2, HolderHere
<1> HIDE DEF s
<1>4. PICK r : /\ Stores(doc[m], c, r, {x})
               /\ NextRoster(doc[m], key[m], r) /\ KeepsOn(doc[m], key[m], m, r)
  BY <1>1, <1>3, CertifyIs
<1> HIDE DEF c
<1>5. SameBut(doc[m], doc[m], {}) /\ {} \in SUBSET Machine /\ {x} \in SUBSET Machine
      /\ {x} \cup {} \subseteq Ids(doc[m]) \cup {m}
  BY <1>2 DEF SameBut, All
<1>6. Local(m)
  BY <1>1, <1>2, <1>3, <1>4, <1>5, SignedLocal
<1> QED
  BY <1>2, <1>6 DEF LocalStep, RootsStep, RootsSame

\* Approving a removal is a local step of the holder.
LEMMA ApproveLeaveIs ==
  ASSUME MeshInv, NEW m \in Machine, NEW x \in Machine, NEW tail \in Tails,
         ApproveLeave(m, x, tail)
  PROVE  LocalStep
<1>1. /\ HoldsRoot(m) /\ SignRevocation(m, doc[m], x, tail) /\ doc[m].gone[x].val = TRUE
      /\ UNCHANGED <<anchor, key, born, pairs, vouch, leaving>>
  BY DEF ApproveLeave, PendingLeaves, GoneIds
<1>2. Local(m)
  BY <1>1, RevocationLocal DEF RootsSame
<1> QED
  BY <1>1, <1>2 DEF LocalStep, RootsStep, RootsSame

\* revoke_here is a local step of the holder.
LEMMA RevokeHereIs ==
  ASSUME MeshInv, NEW m \in Machine, NEW x \in Machine, NEW tail \in Tails,
         RevokeHere(m, x, tail)
  PROVE  LocalStep
<1>1. /\ HoldsRoot(m) /\ SignRevocation(m, doc[m], x, tail) /\ x # m
      /\ UNCHANGED <<anchor, key, born, pairs, vouch, leaving>>
  BY DEF RevokeHere
<1>2. Local(m)
  BY <1>1, RevocationLocal DEF RootsSame
<1> QED
  BY <1>1, <1>2 DEF LocalStep, RootsStep, RootsSame

\* Removing a machine is a local step.
LEMMA ForgetIs ==
  ASSUME MeshInv, NEW m \in Machine, NEW x \in Machine, NEW tail \in Tails,
         Forget(m, x, tail)
  PROVE  LocalStep
<1> DEFINE s == Stamp(doc[m], m)
           d == Marked(doc[m], s, x)
           c == StoreRoster(d, s, Revoke(Current(d, key[m], m, tail), now, tail, x))
<1>1. /\ TableOK(doc[m]) /\ s \in Stamps /\ now \in Nat /\ tail \in Nat
      /\ \A root : Differ(RostersIn(doc[m]), root)
  BY Here
<1>2. /\ x # m /\ x \in All(doc[m])
      /\ (HoldsRoot(m) /\ Write(m, c)) \/ Write(m, d)
      /\ UNCHANGED <<anchor, key, born, pairs, vouch, leaving>>
  <2>1. /\ x # m /\ x \in All(doc[m])
        /\ UNCHANGED <<anchor, key, born, pairs, vouch, leaving>>
    BY DEF Forget, Marked
  <2>2. CASE HoldsRoot(m) /\ RosterOf(m) # None /\ Admits(RosterOf(m), x)
    <3>1. SignRevocation(m, d, x, tail)
      BY <2>2 DEF Forget, Marked
    <3> QED
      BY <2>1, <2>2, <3>1 DEF SignRevocation
  <2>3. CASE ~(HoldsRoot(m) /\ RosterOf(m) # None /\ Admits(RosterOf(m), x))
    BY <2>1, <2>3 DEF Forget, Marked
  <2> QED
    BY <2>2, <2>3
<1> HIDE DEF s
<1>3. /\ TableOK(d) /\ d.row = doc[m].row /\ d.cert = doc[m].cert /\ d.trust = doc[m].trust
      /\ \A y \in Machine : y # x => d.gone[y] = doc[m].gone[y]
      /\ d.gone[x].val = TRUE
  <2> HIDE DEF d
  <2>1. TableOK(doc[m]) /\ s \in Stamps
    BY <1>1
  <2>2. TableOK(d)
    BY <2>1, MarkGoneIs DEF d
  <2>3. d.row = doc[m].row
    BY <2>1, MarkGoneIs DEF d
  <2>4. d.cert = doc[m].cert /\ d.trust = doc[m].trust
    BY <2>1, MarkGoneIs DEF d
  <2>5. \A y \in Machine : y # x => d.gone[y] = doc[m].gone[y]
    BY <2>1, MarkGoneIs DEF d
  <2>6. d.gone[x].val = TRUE
    BY <2>1, MarkGoneIs DEF d
  <2> QED
    BY <2>2, <2>3, <2>4, <2>5, <2>6
<1> HIDE DEF d
<1>4. \A y \in Machine : d.gone[y].val = None => d.gone[y] = doc[m].gone[y]
  BY <1>3, RosterAssumption
<1>5. SameBut(d, doc[m], {x}) /\ {x} \subseteq Ids(doc[m])
  BY <1>2, <1>3 DEF SameBut, All
<1>6. CASE Write(m, d)
  <2>1. Wrote(m) /\ doc'[m] = d
    BY <1>3, <1>4, <1>6, WroteIs
  <2>2. Ids(d) \subseteq Ids(doc[m])
    BY <1>5, IdsBut
  <2>3. Local(m)
    BY <1>2, <1>3, <1>4, <2>1, <2>2 DEF Local, GoneKept, RowsKept, SelfKept, TrustKept
  <2> QED
    BY <1>2, <2>3 DEF LocalStep, RootsStep, RootsSame
<1>7. CASE HoldsRoot(m) /\ Write(m, c)
  <2>1. key[m] \in Root /\ key'[m] = key[m] /\ anchor'[m] = key[m] /\ key[m] # None
    BY <1>2, <1>7, HolderHere
  <2>2. Differ(RostersIn(d), key[m])
    BY <1>1, <1>3, RostersOfSame
  <2>3. PICK r : /\ Stores(d, c, r, {})
                 /\ NextRoster(d, key[m], r) /\ (x # m => KeepsOn(d, key[m], m, r))
    BY <1>1, <1>3, <2>1, <2>2, RevocationIs
  <2>4. NextRoster(doc[m], key[m], r) /\ KeepsOn(doc[m], key[m], m, r)
    BY <1>2, <1>3, <2>3, NewestSame DEF NextRoster, KeepsOn
  <2> HIDE DEF c
  <2>5. TableOK(c) /\ c.row = d.row /\ c.gone = d.gone /\ SameBut(c, d, {}) /\ StoredIn(d, c, r)
    BY <2>3 DEF Stores
  <2>6. Wrote(m) /\ doc'[m] = c
    BY <1>4, <1>7, <2>5, WroteIs
  <2>7. SameBut(c, doc[m], {x})
    BY <1>5, <2>5 DEF SameBut
  <2>8. GoneKept(m) /\ RowsKept(m) /\ SelfKept(m)
    <3>1. Ids(c) \subseteq Ids(doc[m])
      BY <1>5, <2>7, IdsBut
    <3> QED
      BY <1>2, <1>3, <1>4, <2>5, <2>6, <3>1 DEF GoneKept, RowsKept, SelfKept
  <2>9. StoredIn(doc[m], doc'[m], r)
    BY <1>3, <2>5, <2>6, StoredInTrust
  <2>10. SignedAt(m)
    BY <2>1, <2>4, <2>9 DEF SignedAt
  <2> QED
    BY <1>2, <2>6, <2>8, <2>10 DEF LocalStep, Local, RootsStep, RootsSame
<1> QED
  BY <1>2, <1>6, <1>7

\* No table has a roster of a root that does not exist yet.
LEMMA NewRootUnknown ==
  ASSUME MeshInv, NEW m \in Machine, NEW r, r \notin born
  PROVE  NewestIn(doc[m], r) = None
<1>1. \A e \in Live(doc[m]) : e.roster.root # r
  <2> SUFFICES ASSUME NEW e \in Live(doc[m]) PROVE e.roster.root \in born
    OBVIOUS
  <2>1. e.roster \in AllRosters
    BY DEF AllRosters, RostersIn, Live
  <2> QED
    BY <2>1 DEF MeshInv, BornOK
<1> QED
  BY <1>1, Here, NewestUnderIs DEF NewestIn

\* root_init is a local step: a new root, its first roster and its key.
LEMMA RootInitIs ==
  ASSUME MeshInv, NEW m \in Machine, NEW r \in Root, NEW tail \in Tails, RootInit(m, r, tail)
  PROVE  LocalStep
<1> DEFINE s == Stamp(doc[m], m)
           S == InitMembers(doc[m], m)
           g == Genesis(r, now, tail, S)
           d == StoreRoster(doc[m], s, g)
           C == [x \in Machine |-> IF x \in Certified(g) THEN Written(SignedCert(g, x), s)
                                                          ELSE d.cert[x]]
           c == [d EXCEPT !.cert = C]
<1>1. /\ TableOK(doc[m]) /\ s \in Stamps /\ now \in Nat /\ tail \in Nat
      /\ \A root : Differ(RostersIn(doc[m]), root)
      /\ anchor \in [Machine -> Maybe(Root)] /\ key \in [Machine -> Maybe(Root)]
  BY Here
<1>2. /\ anchor[m] = None /\ key[m] = None /\ r \notin born /\ born' = born \cup {r}
      /\ key' = [key EXCEPT ![m] = r] /\ anchor' = [anchor EXCEPT ![m] = r]
      /\ UNCHANGED <<pairs, vouch, leaving>>
      /\ Write(m, [d EXCEPT !.cert =
                     [x \in Machine |-> IF x \in Certified(g)
                                          THEN Written(SignedCert(g, x), s) ELSE @[x]]])
  BY DEF RootInit
<1>3. Write(m, c)
  BY <1>2
<1> HIDE DEF s
<1>4. S \in SUBSET Machine /\ m \in S /\ S \subseteq Ids(doc[m]) \cup {m}
  BY DEF InitMembers, All, Ids
<1> HIDE DEF S
<1>5. g \in SignedRoster /\ g.root = r /\ Admits(g, m)
  <2>1. g \in SignedRoster /\ g.root = r /\ \A x \in S : Admits(g, x)
    BY <1>1, <1>4, GenesisIs
  <2> QED
    BY <1>4, <2>1
<1>6. Certified(g) = S
  BY DEF Certified, Genesis
<1> HIDE DEF g
<1>7. Stores(doc[m], d, g, {})
  BY <1>1, <1>5, StoreIs
<1> HIDE DEF d
<1>8. /\ TableOK(d) /\ d.gone = doc[m].gone /\ SameBut(d, doc[m], {}) /\ StoredIn(doc[m], d, g)
  BY <1>7 DEF Stores
<1>9. \A x \in Machine : Written(SignedCert(g, x), s) \in Register(Certificate \cup {None})
  BY <1>1, <1>5, SignedCertType DEF Written, Register, Stamps
<1>10. C \in [Machine -> Register(Certificate \cup {None})]
  BY <1>8, <1>9 DEF TableOK, Table
<1>11. \A x \in Machine : C[x] = d.cert[x] \/ (x \in S /\ C[x].t = s.t)
  BY <1>6 DEF Written
<1> HIDE DEF C
<1>12. /\ c \in Table /\ c.row = d.row /\ c.gone = d.gone /\ c.cert = C /\ c.trust = d.trust
  BY <1>8, <1>10 DEF TableOK, Table
<1> HIDE DEF c
<1>13. TableOK(c)
  <2>1. s.t \in Nat
    BY <1>1 DEF Stamps
  <2>2. \A x \in Machine : c.cert[x] = d.cert[x] \/ c.cert[x].t <= s.t
    BY <1>11, <1>12, <2>1
  <2> QED
    BY <1>8, <1>12, <2>1, <2>2, PutTogether
<1>14. SameBut(c, doc[m], S)
  BY <1>8, <1>11, <1>12 DEF SameBut
<1>15. Wrote(m) /\ GoneKept(m) /\ RowsKept(m) /\ SelfKept(m) /\ doc'[m] = c
  BY <1>3, <1>4, <1>8, <1>12, <1>13, <1>14, LocalWrite
<1>16. StoredIn(doc[m], doc'[m], g)
  BY <1>8, <1>12, <1>15, StoredInTrust
<1>17. key'[m] = r /\ anchor'[m] = r /\ r # None
  BY <1>1, <1>2, RosterAssumption
<1>18. NewestIn(doc[m], r) = None
  BY <1>1, <1>2, NewRootUnknown
<1>19. NextRoster(doc[m], r, g) /\ KeepsOn(doc[m], r, m, g)
  BY <1>5, <1>18 DEF NextRoster, KeepsOn
<1>20. Local(m)
  BY <1>15, <1>16, <1>17, <1>19 DEF Local, SignedAt
<1> QED
  BY <1>2, <1>20 DEF LocalStep, RootsStep, NewRoot

\* root_init that stops half way has a key and an anchor, and no roster yet.
LEMMA RootInitStopsIs ==
  ASSUME MeshInv, NEW m \in Machine, NEW r \in Root, RootInitStops(m, r)
  PROVE  IdleStep
  BY DEF RootInitStops, IdleStep, RootsStep, NewRoot

-----------------------------------------------------------------------------
(* What the steps between machines do. *)

\* The roster a machine goes by is one of those in its table, of its root.
LEMMA RosterOfIs ==
  ASSUME MeshInv, NEW m \in Machine
  PROVE  /\ RosterOf(m) \in Maybe(SignedRoster)
         /\ RosterOf(m) # None => /\ RosterOf(m) \in SignedRoster /\ RosterOf(m) \in RostersIn(doc[m])
                                  /\ RosterOf(m) \in AllRosters
                                  /\ anchor[m] # None /\ RosterOf(m).root = anchor[m]
<1>1. CASE anchor[m] = None
  BY <1>1 DEF RosterOf, Maybe
<1>2. CASE anchor[m] # None
  <2>1. RosterOf(m) = NewestIn(doc[m], anchor[m])
    BY <1>2 DEF RosterOf
  <2>2. TableOK(doc[m]) /\ Differ(RostersIn(doc[m]), anchor[m])
    BY Here
  <2>3. RostersIn(doc[m]) \subseteq AllRosters
    BY DEF AllRosters
  <2> QED
    BY <1>2, <2>1, <2>2, <2>3, NewestInType
<1> QED
  BY <1>1, <1>2

\* A round merges tables of two machines that admit each other.
LEMMA RoundIs ==
  ASSUME MeshInv, NEW to \in Machine, NEW from \in Machine, Round(to, from)
  PROVE  \E a, b \in Machine : MergeStep(a, b) /\ Gate(a, b) /\ Gate(b, a) /\ UNCHANGED pairs
<1>1. /\ to # from /\ Gate(to, from) /\ Gate(from, to)
      /\ Write(to, Merge(doc[to], doc[from]))
      /\ RootsSame /\ UNCHANGED <<pairs, vouch, leaving>>
  BY DEF Round, RootsSame
<1>2. TableOK(Merge(doc[to], doc[from]))
  BY <1>1, Here, MergeIs
<1>3. Wrote(to) /\ doc'[to] = Merge(doc[to], doc[from])
  BY <1>1, <1>2, WroteIs
<1> QED
  BY <1>1, <1>3 DEF MergeStep

\* A vouch stores its roster and takes its sender's row, or is turned away.
LEMMA TakeVouchIs ==
  ASSUME MeshInv, NEW v \in vouch, TakeVouch(v)
  PROVE  VouchStep(v) \/ IdleStep
<1> DEFINE x == v.to
           r == v.roster
           s == Stamp(doc[x], x)
           d1 == StoreRoster(doc[x], s, r)
           d2 == Upsert(d1, s, v.from)
           d3 == SetCert(d2, s, v.from, SignedCert(r, v.from))
           d4 == SetCert(d3, s, x, SignedCert(r, x))
<1>1. x \in Machine /\ v.from \in Machine /\ r \in SignedRoster
  BY DEF MeshInv, TypeOK, Vouched
<1>2. vouch' = vouch \ {v} /\ RootsSame /\ UNCHANGED <<pairs, leaving>>
  BY DEF TakeVouch, RootsSame
<1>3. CASE UNCHANGED <<doc, door>>
  BY <1>1, <1>2, <1>3 DEF IdleStep, RootsStep
<1>4. ASSUME /\ anchor[x] = r.root
             /\ ~IsStale(r, now) /\ Admits(r, v.from) /\ Admits(r, x)
             /\ ~(RosterOf(x) # None /\ RosterOf(x).seq > r.seq)
             /\ v.from \notin GoneIds(doc[x]),
             Write(x, d4)
      PROVE  VouchStep(v)
  <2>1. TableOK(doc[x]) /\ s \in Stamps
    BY <1>1, Here
  <2> HIDE DEF s, x, r
  <2>2. TableOK(d1) /\ d1.gone = doc[x].gone /\ StoredIn(doc[x], d1, r)
    BY <1>1, <2>1, StoreIs DEF Stores
  <2> HIDE DEF d1
  <2>3. TableOK(d2) /\ d2.gone = d1.gone /\ d2.trust = d1.trust
    BY <1>1, <2>1, <2>2, UpsertIs
  <2> HIDE DEF d2
  <2>4. SignedCert(r, v.from) \in Certificate \cup {None} /\ SignedCert(r, x) \in Certificate \cup {None}
    BY <1>1, SignedCertType
  <2>5. TableOK(d3) /\ d3.gone = d2.gone /\ d3.trust = d2.trust
    BY <1>1, <2>1, <2>3, <2>4, SetCertIs
  <2> HIDE DEF d3
  <2>6. TableOK(d4) /\ d4.gone = d3.gone /\ d4.trust = d3.trust
    BY <1>1, <2>1, <2>4, <2>5, SetCertIs
  <2> HIDE DEF d4
  <2>7. Wrote(x) /\ doc'[x] = d4
    BY <1>1, <1>4, <2>6, WroteIs
  <2>8. GoneKept(x) /\ SelfKept(x)
    BY <2>2, <2>3, <2>5, <2>6, <2>7 DEF GoneKept, SelfKept
  <2>9. d4.trust = d1.trust
    BY <2>3, <2>5, <2>6
  <2>10. StoredIn(doc[x], doc'[x], r)
    BY <2>2, <2>7, <2>9, StoredInTrust
  <2> QED
    BY <1>2, <1>4, <2>7, <2>8, <2>10 DEF VouchStep, x, r
<1> QED
  BY <1>3, <1>4 DEF TakeVouch

\* The first half of leaving: the own row is marked.
TellStep(m) ==
  /\ Wrote(m) /\ GoneKept(m) /\ RowsKept(m) /\ TrustKept(m)
  /\ RootsSame /\ UNCHANGED <<pairs, vouch>>

\* The first half of leaving marks the machine's own row.
LEMMA LeaveTellIs ==
  ASSUME MeshInv, NEW m \in Machine, LeaveTell(m)
  PROVE  TellStep(m)
<1> DEFINE s == Stamp(doc[m], m)
           d == Marked(doc[m], s, m)
<1>1. Write(m, d) /\ RootsSame /\ UNCHANGED <<pairs, vouch>>
  BY DEF LeaveTell, Marked, RootsSame
<1>2. TableOK(doc[m]) /\ s \in Stamps
  BY Here
<1> HIDE DEF s
<1> HIDE DEF d
<1>3. TableOK(d) /\ d.trust = doc[m].trust
  BY <1>2, MarkGoneIs DEF d
<1>4. d.row = doc[m].row
  BY <1>2, MarkGoneIs DEF d
<1>5. d.cert = doc[m].cert
  BY <1>2, MarkGoneIs DEF d
<1>6. \A y \in Machine : y # m => d.gone[y] = doc[m].gone[y]
  BY <1>2, MarkGoneIs DEF d
<1>7. d.gone[m].val = TRUE
  BY <1>2, MarkGoneIs DEF d
<1>8. SameBut(d, doc[m], {m})
  BY <1>4, <1>5, <1>6 DEF SameBut
<1>9. Wrote(m) /\ doc'[m] = d
  BY <1>1, <1>3, WroteIs
<1>10. GoneKept(m)
  BY <1>6, <1>7, <1>9, RosterAssumption DEF GoneKept
<1>11. RowsKept(m)
  BY <1>8, <1>9, IdsBut DEF RowsKept
<1> QED
  BY <1>1, <1>3, <1>9, <1>10, <1>11 DEF TellStep, TrustKept

\* The second half: no row but the own one is left, and, unless the machine
\* holds the root, no roster that counts and no anchor.
EmptyStep(m) ==
  /\ DocsOK' /\ BytesDiffer' /\ door' \in [Machine -> SUBSET Machine]
  /\ \A x \in Machine \ {m} : doc'[x] = doc[x]
  /\ Ids(doc'[m]) \subseteq {m} /\ RostersIn(doc'[m]) = RostersIn(doc[m])
  /\ \/ TrustKept(m) /\ UNCHANGED anchor
     \/ Live(doc'[m]) = {} /\ anchor' = [anchor EXCEPT ![m] = None] /\ ~HoldsRoot(m)
  /\ m \in leaving /\ UNCHANGED <<key, born, pairs, vouch>>

\* The second half of leaving empties the table.
LEMMA LeaveEmptyIs ==
  ASSUME MeshInv, NEW m \in Machine, LeaveEmpty(m)
  PROVE  EmptyStep(m)
<1> DEFINE s == Stamp(doc[m], m)
           k == KeepOnly(doc[m], s, m)
           d == Cleared(k, s, m)
           e == DropRosters(d, s)
<1>1. TableOK(doc[m]) /\ s \in Stamps
  BY Here
<1>2. /\ m \in leaving /\ door' = [door EXCEPT ![m] = {}]
      /\ \/ HoldsRoot(m) /\ doc' = [doc EXCEPT ![m] = d] /\ UNCHANGED anchor
         \/ ~HoldsRoot(m) /\ doc' = [doc EXCEPT ![m] = e] /\ anchor' = [anchor EXCEPT ![m] = None]
      /\ UNCHANGED <<key, born, pairs, vouch>>
  BY DEF LeaveEmpty, Cleared
<1> HIDE DEF s
<1>3. TableOK(k) /\ k.trust = doc[m].trust /\ Ids(k) \subseteq {m}
  BY <1>1, KeepOnlyIs
<1> HIDE DEF k, d
<1>4. TableOK(d) /\ d.trust = k.trust
  BY <1>1, <1>3, ClearGoneIs DEF d
<1>5. d.row = k.row
  BY <1>1, <1>3, ClearGoneIs DEF d
<1>6. d.cert = k.cert
  BY <1>1, <1>3, ClearGoneIs DEF d
<1>7. \A y \in Machine : y # m => d.gone[y] = k.gone[y]
  BY <1>1, <1>3, ClearGoneIs DEF d
<1>8. Ids(d) \subseteq {m}
  <2>1. SameBut(d, k, {m})
    BY <1>5, <1>6, <1>7 DEF SameBut
  <2> QED
    BY <1>3, <2>1, IdsBut
<1>9. RostersIn(d) = RostersIn(doc[m]) /\ d.trust = doc[m].trust
  BY <1>3, <1>4, RostersOfSame
<1>10. /\ TableOK(e) /\ RostersIn(e) = RostersIn(d) /\ Live(e) = {}
       /\ Registers(e) = Registers(d)
  <2>1. Live(d) \in SUBSET d.trust
    BY DEF Live
  <2>2. e = DropEntries(d, s, Live(d))
    BY DEF DropRosters
  <2>3. /\ TableOK(e) /\ RostersIn(e) = RostersIn(d) /\ Registers(e) = Registers(d)
        /\ \A f \in e.trust : f \in d.trust \ Live(d) \/ ~f.live
    BY <1>1, <1>4, <2>1, <2>2, DropEntriesIs
  <2> QED
    BY <2>3 DEF Live
<1>11. Ids(e) \subseteq {m}
  <2>1. SameBut(e, d, {})
    BY <1>10 DEF SameBut, Registers
  <2> QED
    BY <1>8, <2>1, IdsBut
<1> HIDE DEF e
<1>12. PICK c \in {d, e} :
         /\ doc' = [doc EXCEPT ![m] = c]
         /\ \/ c.trust = doc[m].trust /\ UNCHANGED anchor
            \/ Live(c) = {} /\ anchor' = [anchor EXCEPT ![m] = None] /\ ~HoldsRoot(m)
  BY <1>2, <1>9, <1>10
<1>13. TableOK(c) /\ Ids(c) \subseteq {m} /\ RostersIn(c) = RostersIn(doc[m])
  BY <1>4, <1>8, <1>9, <1>10, <1>11
<1>14. doc \in [Machine -> Table] /\ \A x \in Machine : TableOK(doc[x])
  BY DEF MeshInv, TypeOK, DocsOK
<1>15. doc'[m] = c /\ \A x \in Machine \ {m} : doc'[x] = doc[x]
  BY <1>12, <1>14
<1>16. DocsOK'
  <2>1. doc' \in [Machine -> Table]
    BY <1>12, <1>13, <1>14 DEF TableOK
  <2>2. \A x \in Machine : TableOK(doc'[x])
    BY <1>13, <1>14, <1>15
  <2> QED
    BY <2>1, <2>2 DEF DocsOK
<1>17. BytesDiffer'
  <2>1. \A x \in Machine : RostersIn(doc'[x]) = RostersIn(doc[x])
    BY <1>13, <1>15
  <2>2. \A x \in Machine : {f.roster : f \in doc'[x].trust} = {f.roster : f \in doc[x].trust}
    BY <2>1 DEF RostersIn
  <2>3. UNION {{f.roster : f \in doc'[x].trust} : x \in Machine}
          = UNION {{f.roster : f \in doc[x].trust} : x \in Machine}
    BY <2>2
  <2>4. BytesDiffer
    BY DEF MeshInv
  <2> QED
    BY <2>3, <2>4 DEF BytesDiffer
<1>18. door' \in [Machine -> SUBSET Machine]
  BY <1>2 DEF MeshInv, TypeOK, RestOK
<1> QED
  BY <1>2, <1>12, <1>13, <1>15, <1>16, <1>17, <1>18 DEF EmptyStep, TrustKept

\* root recover: the machine holds root r from now on, and certifies itself.
RecoverStep(m) ==
  /\ Wrote(m) /\ GoneKept(m)
  /\ \E r \in born : /\ key' = [key EXCEPT ![m] = r] /\ anchor' = [anchor EXCEPT ![m] = r]
                     /\ \A q \in RostersIn(doc'[m]) :
                          q \in RostersIn(doc[m]) \/ (q \in SignedRoster /\ q.root = r)
  /\ UNCHANGED <<born, pairs, vouch, leaving>>

\* Words typed in give the machine the key, and a roster that admits it.
LEMMA RootRecoverIs ==
  ASSUME MeshInv, NEW m \in Machine, NEW r \in Root, NEW tail \in Tails, RootRecover(m, r, tail)
  PROVE  RecoverStep(m)
<1> DEFINE s == Stamp(doc[m], m)
           e == DropRosters(doc[m], s)
           other == anchor[m] # None /\ anchor[m] # r
           d == IF other THEN e ELSE doc[m]
           c == CertifySelf(d, s, r, m, tail)
<1>1. /\ TableOK(doc[m]) /\ s \in Stamps /\ now \in Nat /\ tail \in Nat
  BY Here
<1>2. /\ r \in born /\ key' = [key EXCEPT ![m] = r] /\ anchor' = [anchor EXCEPT ![m] = r]
      /\ Write(m, c) /\ UNCHANGED <<born, pairs, vouch, leaving>>
  BY DEF RootRecover
<1> HIDE DEF s
<1>3. TableOK(e) /\ RostersIn(e) = RostersIn(doc[m]) /\ Registers(e) = Registers(doc[m])
  <2>1. Live(doc[m]) \in SUBSET doc[m].trust
    BY DEF Live
  <2> QED
    BY <1>1, <2>1, DropEntriesIs DEF DropRosters
<1> HIDE DEF e
<1>4. TableOK(d) /\ RostersIn(d) = RostersIn(doc[m]) /\ d.gone = doc[m].gone
  BY <1>1, <1>3 DEF Registers
<1> HIDE DEF d
<1>5. Differ(RostersIn(d), r)
  BY <1>4, RostersDiffer DEF MeshInv
<1>6. \/ c = d
      \/ \E n : Stores(d, c, n, {m}) /\ NextRoster(d, r, n)
  BY <1>1, <1>4, <1>5, CertifySelfIs
<1> HIDE DEF c
<1>7. /\ TableOK(c) /\ c.gone = doc[m].gone
      /\ \A q \in RostersIn(c) : q \in RostersIn(doc[m]) \/ (q \in SignedRoster /\ q.root = r)
  BY <1>4, <1>6 DEF Stores, NextRoster, StoredIn
<1>8. Wrote(m) /\ doc'[m] = c
  BY <1>2, <1>7, WroteIs
<1> QED
  BY <1>2, <1>7, <1>8 DEF RecoverStep, GoneKept

-----------------------------------------------------------------------------
(* Pairing. *)

\* What pairings carry is known to somebody.
PairsKnown == \A q \in pairs' : q.offer \in Maybe(AllRosters) /\ q.reply \in Maybe(AllRosters)

\* A roster the holder m signs while it settles.
Offspring(m, r) ==
  /\ r \in SignedRoster /\ key[m] # None /\ key'[m] = key[m] /\ r.root = key[m]
  /\ (\A q \in AllRosters : q.root = key[m] => Admits(q, m)) => Admits(r, m)

PairIdle ==
  PairsKnown /\ UNCHANGED <<doc, anchor, key, born, vouch, leaving, door>>

SettleStep(m) ==
  /\ Wrote(m) /\ GoneKept(m) /\ SelfKept(m)
  /\ \E a \in Maybe(born) : anchor' = [anchor EXCEPT ![m] = a]
  /\ \E k \in {key[m], None} : key' = [key EXCEPT ![m] = k]
  /\ \A r \in RostersIn(doc'[m]) : r \in AllRosters \/ Offspring(m, r)
  /\ \A q \in pairs' : /\ q.offer \in Maybe(AllRosters)
                       /\ q.reply \in Maybe(AllRosters) \/ Offspring(m, q.reply)
  /\ UNCHANGED <<born, vouch, leaving>>

\* What MeshInv says of one pairing.
LEMMA PairIs ==
  ASSUME MeshInv, NEW p \in pairs
  PROVE  /\ p \in Paired /\ p.joiner # p.issuer
         /\ p.offer \in Maybe(AllRosters) /\ p.reply \in Maybe(AllRosters)
<1>1. p \in Paired /\ p.joiner # p.issuer
  BY DEF MeshInv, TypeOK, PairsOK
<1> QED
  BY <1>1 DEF AllRosters, Maybe

\* What MeshInv says of one roster in use.
LEMMA KnownTypes ==
  ASSUME MeshInv, NEW r \in AllRosters
  PROVE  r \in SignedRoster /\ r.root \in born /\ r # None
<1>1. CASE \E m \in Machine : r \in RostersIn(doc[m])
  <2>1. PICK m \in Machine : r \in RostersIn(doc[m])
    BY <1>1
  <2>2. r \in SignedRoster
    BY <2>1, Here DEF RostersIn, TableOK, Table, Entry
  <2> QED
    BY <2>2, RosterAssumption DEF MeshInv, BornOK
<1>2. CASE \E v \in vouch : r = v.roster
  BY <1>2, RosterAssumption DEF MeshInv, BornOK, TypeOK, Vouched
<1>3. CASE \E p \in pairs : r \in {p.offer, p.reply} /\ r # None
  BY <1>3, PairIs DEF MeshInv, BornOK, Paired, Maybe
<1> QED
  BY <1>1, <1>2, <1>3 DEF AllRosters

\* settle adopts only a network the other side has a roster of.
LEMMA SettleIs ==
  ASSUME NEW mine, NEW m, NEW theirs, NEW remote, NEW dialed
  PROVE  Settle(mine, m, theirs, remote, dialed) = "Adopt" => theirs # None
<1>1. CASE theirs = None
  BY <1>1 DEF Settle
<1> QED
  BY <1>1

\* The plan of a settlement names a root in use, and a roster in use or one just
\* signed.
LEMMA SettlementIs ==
  ASSUME MeshInv, NEW m \in Machine, NEW remote \in Machine, NEW theirs \in Maybe(AllRosters),
         NEW dialed, NEW tail \in Tails,
         key'[m] = IF key[m] # Settlement(m, remote, theirs, dialed, tail).anchor
                     THEN None ELSE key[m]
  PROVE  /\ Settlement(m, remote, theirs, dialed, tail).anchor \in Maybe(born)
         /\ \/ Settlement(m, remote, theirs, dialed, tail).roster \in Maybe(AllRosters)
            \/ Offspring(m, Settlement(m, remote, theirs, dialed, tail).roster)
<1> DEFINE mine == RosterOf(m)
           act == Settle(mine, m, theirs, remote, dialed)
           a == IF act = "Adopt" THEN theirs.root ELSE anchor[m]
           offered == IF theirs # None /\ theirs.root = a THEN theirs ELSE None
           kept == CASE act = "Adopt" -> theirs
                     [] offered = None -> mine
                     [] OTHER -> IF mine # None /\ Later(mine, offered) THEN mine ELSE offered
           Enrol(r, x) == IF Standing(r, a, x, CertOf(doc[m], x), now) = "Trusted"
                            THEN r ELSE Admit(r, now, tail, x)
           base == IF kept = None THEN Genesis(a, now, tail, {m}) ELSE kept
           signed == Enrol(Enrol(base, remote), m)
           plan == Settlement(m, remote, theirs, dialed, tail)
<1>1. /\ plan.anchor = a
      /\ plan.roster = IF HoldsRoot(m) /\ key[m] = a THEN signed ELSE kept
  BY DEF Settlement
<1>2. key'[m] = IF key[m] # a THEN None ELSE key[m]
  BY <1>1
<1> SUFFICES /\ plan.anchor \in Maybe(born)
             /\ plan.roster \in Maybe(AllRosters) \/ Offspring(m, plan.roster)
  OBVIOUS
<1> HIDE DEF plan
<1>3. mine \in Maybe(AllRosters) /\ (mine # None => mine.root = anchor[m])
  BY RosterOfIs DEF Maybe
<1>4. act = "Adopt" => theirs # None
  BY SettleIs
<1> HIDE DEF mine, act
<1>5. anchor[m] \in Maybe(born)
  BY DEF MeshInv, BornOK
<1>6. a \in Maybe(born)
  BY <1>4, <1>5, KnownTypes DEF Maybe
<1>7. kept \in Maybe(AllRosters) /\ (kept # None => kept.root = a)
  <2>1. CASE act = "Adopt"
    BY <1>4, <2>1
  <2>2. CASE act # "Adopt" /\ offered = None
    <3>1. kept = mine /\ a = anchor[m]
      BY <2>2
    <3> QED
      BY <1>3, <3>1
  <2>3. CASE act # "Adopt" /\ offered # None
    <3>1. kept \in {mine, theirs} /\ a = anchor[m] /\ theirs.root = a
      BY <2>3
    <3> QED
      BY <1>3, <3>1
  <2> QED
    BY <2>1, <2>2, <2>3
<1> HIDE DEF kept, a
<1>8. CASE ~(HoldsRoot(m) /\ key[m] = a)
  BY <1>1, <1>6, <1>7, <1>8
<1>9. CASE HoldsRoot(m) /\ key[m] = a
  <2>1. key[m] \in Root /\ key[m] # None /\ a \in Root /\ key'[m] = key[m]
    BY <1>9, <1>2, HolderHere
  <2>2. now \in Nat /\ tail \in Nat
    BY Here
  <2>3. /\ base \in SignedRoster /\ base.root = a
        /\ base \in AllRosters \/ Admits(base, m)
    <3>1. CASE kept = None
      <4>1. base = Genesis(a, now, tail, {m})
        BY <3>1
      <4> QED
        BY <2>1, <2>2, <4>1, {m} \in SUBSET Machine, GenesisIs
    <3>2. CASE kept # None
      BY <1>7, <3>2, KnownTypes DEF Maybe
    <3> QED
      BY <3>1, <3>2
  <2> HIDE DEF base
  <2>4. \A r \in SignedRoster, x \in Machine :
          /\ Enrol(r, x) \in SignedRoster /\ Enrol(r, x).root = r.root
          /\ Admits(r, m) => Admits(Enrol(r, x), m)
    <3> SUFFICES ASSUME NEW r \in SignedRoster, NEW x \in Machine
                 PROVE  /\ Enrol(r, x) \in SignedRoster /\ Enrol(r, x).root = r.root
                        /\ Admits(r, m) => Admits(Enrol(r, x), m)
      OBVIOUS
    <3>1. /\ Admit(r, now, tail, x) \in SignedRoster /\ Admit(r, now, tail, x).root = r.root
          /\ Admits(r, m) => Admits(Admit(r, now, tail, x), m)
      BY <2>2, AdmitIs DEF Follows
    <3> QED
      BY <3>1
  <2> HIDE DEF Enrol
  <2>5. /\ signed \in SignedRoster /\ signed.root = a
        /\ Admits(base, m) => Admits(signed, m)
    BY <2>3, <2>4
  <2>6. plan.roster = signed
    BY <1>1, <1>9
  <2> HIDE DEF signed
  <2>7. (\A q \in AllRosters : q.root = key[m] => Admits(q, m)) => Admits(signed, m)
    BY <1>9, <2>3, <2>5
  <2>8. Offspring(m, signed)
    BY <1>9, <2>1, <2>5, <2>7 DEF Offspring
  <2> QED
    BY <1>1, <1>6, <2>6, <2>8
<1> QED
  BY <1>8, <1>9

\* What a settlement makes of the table.
LEMMA ApplyIs ==
  ASSUME MeshInv, NEW m \in Machine, NEW remote \in Machine, NEW p, p.n \in Nat, NEW plan,
         NEW theirs \in Maybe(SignedRoster), plan.roster \in Maybe(SignedRoster),
         ApplySettlement(m, remote, p, plan, theirs)
  PROVE  /\ Wrote(m) /\ GoneKept(m) /\ SelfKept(m)
         /\ RostersIn(doc'[m]) \subseteq RostersIn(doc[m]) \cup ({plan.roster, theirs} \ {None})
         /\ notes' \in [Machine -> SUBSET Machine]
<1> DEFINE s == Stamp(doc[m], m)
           old == {e \in Live(doc[m]) : e.slot = None}
           d0 == IF anchor[m] # plan.anchor THEN DropEntries(doc[m], s, old) ELSE doc[m]
           d1 == IF plan.roster = None THEN doc[m] ELSE StoreRoster(d0, s, plan.roster)
           u == Upsert(d1, s, remote)
           d2 == Cleared(u, s, remote)
           Cert(d, x) == IF plan.roster = None THEN d
                         ELSE SetCert(d, s, x, SignedCert(plan.roster, x))
           c == Cert(d2, remote)
           d3 == Cert(c, m)
           d4 == IF theirs = None THEN d3 ELSE PutEntry(d3, s, <<p.n, m>>, theirs)
           a == IF plan.anchor = None THEN anchor[m] ELSE plan.anchor
           trusted == {x \in {remote, m} : StandingIn(d4, a, x) = "Trusted"}
<1>1. /\ Write(m, d4)
      /\ notes' = [notes EXCEPT ![m] =
                     (@ \ trusted) \cup (IF a = None THEN {} ELSE {remote, m} \ trusted)]
  BY DEF ApplySettlement, Cleared
<1>2. notes' \in [Machine -> SUBSET Machine]
  <2> DEFINE N == (notes[m] \ trusted) \cup (IF a = None THEN {} ELSE {remote, m} \ trusted)
  <2>1. notes \in [Machine -> SUBSET Machine]
    BY DEF MeshInv, TypeOK, RestOK
  <2>2. N \in SUBSET Machine /\ notes' = [notes EXCEPT ![m] = N]
    <3>1. trusted \subseteq {remote, m}
      OBVIOUS
    <3> HIDE DEF trusted, a
    <3> QED
      BY <1>1, <2>1, <3>1
  <2> HIDE DEF N
  <2> QED
    BY <2>1, <2>2
<1>3. TableOK(doc[m]) /\ s \in Stamps
  BY Here
<1> HIDE DEF s
<1>4. TableOK(d0) /\ d0.gone = doc[m].gone /\ RostersIn(d0) = RostersIn(doc[m])
  <2>1. CASE anchor[m] # plan.anchor
    <3> DEFINE e == DropEntries(doc[m], s, old)
    <3>1. old \in SUBSET doc[m].trust
      BY DEF Live
    <3>2. TableOK(e) /\ RostersIn(e) = RostersIn(doc[m]) /\ Registers(e) = Registers(doc[m])
      <4> HIDE DEF old
      <4> QED
        BY <1>3, <3>1, DropEntriesIs
    <3>3. d0 = e
      BY <2>1
    <3> HIDE DEF e, d0
    <3> QED
      BY <3>2, <3>3 DEF Registers
  <2>2. CASE ~(anchor[m] # plan.anchor)
    BY <1>3, <2>2
  <2> QED
    BY <2>1, <2>2
<1> HIDE DEF d0
<1>5. /\ TableOK(d1) /\ d1.gone = doc[m].gone
      /\ RostersIn(d1) \subseteq RostersIn(doc[m]) \cup ({plan.roster} \ {None})
  <2>1. CASE plan.roster = None
    BY <1>3, <2>1
  <2>2. CASE plan.roster # None
    <3>1. plan.roster \in SignedRoster
      BY <2>2 DEF Maybe
    <3>2. Stores(d0, StoreRoster(d0, s, plan.roster), plan.roster, {})
      BY <1>3, <1>4, <3>1, StoreIs
    <3> QED
      BY <1>4, <2>2, <3>2 DEF Stores, StoredIn
  <2> QED
    BY <2>1, <2>2
<1> HIDE DEF d1
<1>6. TableOK(u) /\ u.gone = d1.gone /\ u.trust = d1.trust
  BY <1>3, <1>5, UpsertIs
<1> HIDE DEF u, d2
<1>7. TableOK(d2) /\ d2.trust = u.trust
  BY <1>3, <1>6, ClearGoneIs DEF d2
<1>8. \A y \in Machine : y # remote => d2.gone[y] = u.gone[y]
  BY <1>3, <1>6, ClearGoneIs DEF d2
<1>9. d2.gone[remote].val = FALSE \/ d2 = u
  BY <1>3, <1>6, ClearGoneIs DEF d2
<1>10. \A d : \A x \in Machine : TableOK(d) =>
         TableOK(Cert(d, x)) /\ Cert(d, x).gone = d.gone /\ Cert(d, x).trust = d.trust
  <2> SUFFICES ASSUME NEW d, NEW x \in Machine, TableOK(d)
               PROVE  TableOK(Cert(d, x)) /\ Cert(d, x).gone = d.gone /\ Cert(d, x).trust = d.trust
    OBVIOUS
  <2>1. CASE plan.roster = None
    BY <2>1
  <2>2. CASE plan.roster # None
    <3>1. SignedCert(plan.roster, x) \in Certificate \cup {None}
      BY <2>2, SignedCertType DEF Maybe
    <3> QED
      BY <1>3, <2>2, <3>1, SetCertIs
  <2> QED
    BY <2>1, <2>2
<1> HIDE DEF Cert
<1>11. TableOK(c) /\ c.gone = d2.gone /\ c.trust = d2.trust
  BY <1>7, <1>10
<1> HIDE DEF c
<1>12. TableOK(d3) /\ d3.gone = d2.gone /\ d3.trust = d2.trust
  BY <1>10, <1>11
<1> HIDE DEF d3
<1>13. /\ TableOK(d4) /\ d4.gone = d2.gone
       /\ RostersIn(d4) \subseteq RostersIn(d3) \cup ({theirs} \ {None})
  <2>1. CASE theirs = None
    BY <1>12, <2>1
  <2>2. CASE theirs # None
    <3> DEFINE e == PutEntry(d3, s, <<p.n, m>>, theirs)
    <3>1. theirs \in SignedRoster /\ <<p.n, m>> \in Slots
      BY <2>2 DEF Maybe, Slots
    <3>2. /\ TableOK(e) /\ Registers(e) = Registers(d3)
          /\ \A f \in e.trust : f \in d3.trust \/ f.roster = theirs
      BY <1>3, <1>12, <3>1, PutEntryIs
    <3>3. d4 = e
      BY <2>2
    <3> HIDE DEF e, d4
    <3> QED
      BY <1>12, <2>2, <3>2, <3>3 DEF Registers, RostersIn
  <2> QED
    BY <2>1, <2>2
<1>14. RostersIn(d3) = RostersIn(d1)
  BY <1>6, <1>7, <1>12, RostersOfSame
<1>15. RostersIn(d4) \subseteq RostersIn(doc[m]) \cup ({plan.roster, theirs} \ {None})
  BY <1>5, <1>13, <1>14
<1> HIDE DEF d4
<1>16. Wrote(m) /\ doc'[m] = d4
  BY <1>1, <1>13, WroteIs
<1>17. \A y \in Machine : d4.gone[y] = doc[m].gone[y] \/ d4.gone[y].val = FALSE
  BY <1>5, <1>6, <1>8, <1>9, <1>13
<1>18. GoneKept(m) /\ SelfKept(m)
  BY <1>16, <1>17, RosterAssumption DEF GoneKept, SelfKept
<1> QED
  BY <1>2, <1>15, <1>16, <1>18

\* A step of one pairing leaves the others as they are.
LEMMA BecomesIs ==
  ASSUME MeshInv, NEW p \in pairs, NEW q \in Paired, q.joiner # q.issuer, Becomes(p, q)
  PROVE  /\ PairsOK'
         /\ \A x \in pairs' : x = q \/ x \in pairs
<1>1. pairs' = (pairs \ {p}) \cup {q}
  BY DEF Becomes
<1>2. pairs \in SUBSET Paired /\ IsFiniteSet(pairs) /\ \A x \in pairs : x.joiner # x.issuer
  BY DEF MeshInv, TypeOK, PairsOK
<1>3. IsFiniteSet(pairs \ {p})
  BY <1>2, FS_Subset, pairs \ {p} \subseteq pairs
<1>4. IsFiniteSet(pairs')
  BY <1>1, <1>3, FS_AddElement
<1> QED
  BY <1>1, <1>2, <1>4 DEF PairsOK

\* A pairing before one of its sides' settlement.
Settles(p, m, remote, plan, theirs, q) ==
  /\ ApplySettlement(m, remote, p, plan, theirs)
  /\ Becomes(p, q) /\ UNCHANGED <<born, vouch, leaving, now, used>>

\* Carrying out a settlement is a step of one machine's table, anchor and key.
LEMMA SettleStepIs ==
  ASSUME MeshInv, NEW p \in pairs, NEW m \in Machine, NEW remote \in Machine,
         NEW theirs \in Maybe(AllRosters), NEW dialed, NEW tail \in Tails, NEW plan,
         plan = Settlement(m, remote, theirs, dialed, tail), NEW q \in Paired,
         q.joiner = p.joiner, q.issuer = p.issuer, q.offer = p.offer,
         q.reply \in {p.reply, plan.roster}, Settles(p, m, remote, plan, theirs, q)
  PROVE  SettleStep(m) /\ PairsOK' /\ notes' \in [Machine -> SUBSET Machine]
<1>1. p \in Paired /\ p.joiner # p.issuer /\ p.offer \in Maybe(AllRosters) /\ p.reply \in Maybe(AllRosters)
  BY PairIs
<1>2. p.n \in Nat
  BY <1>1 DEF Paired, Phases
<1>3. /\ ApplySettlement(m, remote, p, plan, theirs) /\ Becomes(p, q)
      /\ UNCHANGED <<born, vouch, leaving>>
  BY DEF Settles
<1>4. PairsOK' /\ \A x \in pairs' : x = q \/ x \in pairs
  BY <1>1, <1>3, BecomesIs
<1>5. key \in [Machine -> Maybe(Root)] /\ anchor \in [Machine -> Maybe(Root)]
  BY Here
<1>6. /\ key' = [key EXCEPT ![m] = IF key[m] # plan.anchor THEN None ELSE key[m]]
      /\ anchor' = [anchor EXCEPT ![m] = IF plan.anchor = None THEN anchor[m] ELSE plan.anchor]
  BY <1>3 DEF ApplySettlement
<1>7. key'[m] = IF key[m] # plan.anchor THEN None ELSE key[m]
  BY <1>5, <1>6
<1>8. /\ plan.anchor \in Maybe(born)
      /\ plan.roster \in Maybe(AllRosters) \/ Offspring(m, plan.roster)
  BY <1>7, SettlementIs
<1>9. anchor[m] \in Maybe(born)
  BY DEF MeshInv, BornOK
<1>10. theirs \in Maybe(SignedRoster) /\ plan.roster \in Maybe(SignedRoster)
  BY <1>8, KnownTypes DEF Maybe, Offspring
<1>11. /\ Wrote(m) /\ GoneKept(m) /\ SelfKept(m)
       /\ RostersIn(doc'[m]) \subseteq RostersIn(doc[m]) \cup ({plan.roster, theirs} \ {None})
       /\ notes' \in [Machine -> SUBSET Machine]
  BY <1>2, <1>3, <1>10, ApplyIs
<1>12. \A r \in RostersIn(doc'[m]) : r \in AllRosters \/ Offspring(m, r)
  <2>1. RostersIn(doc[m]) \subseteq AllRosters
    BY DEF AllRosters
  <2> QED
    BY <1>8, <1>11, <2>1 DEF Maybe
<1>13. \A x \in pairs' : /\ x.offer \in Maybe(AllRosters)
                         /\ x.reply \in Maybe(AllRosters) \/ Offspring(m, x.reply)
  <2> SUFFICES ASSUME NEW x \in pairs'
               PROVE  /\ x.offer \in Maybe(AllRosters)
                      /\ x.reply \in Maybe(AllRosters) \/ Offspring(m, x.reply)
    OBVIOUS
  <2>1. CASE x = q
    BY <1>1, <1>8, <2>1
  <2>2. CASE x \in pairs
    BY <2>2, PairIs
  <2> QED
    BY <1>4, <2>1, <2>2
<1>14. \E a \in Maybe(born) : anchor' = [anchor EXCEPT ![m] = a]
  BY <1>6, <1>8, <1>9
<1>15. \E k \in {key[m], None} : key' = [key EXCEPT ![m] = k]
  BY <1>6
<1> QED
  BY <1>3, <1>4, <1>11, <1>12, <1>13, <1>14, <1>15 DEF SettleStep

\* A step of a pairing that leaves the tables alone.
LEMMA PairIdleIs ==
  ASSUME MeshInv, NEW p \in pairs, NEW q \in Paired, Becomes(p, q),
         q.joiner = p.joiner, q.issuer = p.issuer, q.offer = p.offer, q.reply = p.reply
  PROVE  PairsKnown /\ PairsOK'
<1>1. p.joiner # p.issuer /\ p.offer \in Maybe(AllRosters) /\ p.reply \in Maybe(AllRosters)
  BY PairIs
<1>2. PairsOK' /\ \A x \in pairs' : x = q \/ x \in pairs
  BY <1>1, BecomesIs
<1>3. \A x \in pairs' : x.offer \in Maybe(AllRosters) /\ x.reply \in Maybe(AllRosters)
  <2> SUFFICES ASSUME NEW x \in pairs'
               PROVE  x.offer \in Maybe(AllRosters) /\ x.reply \in Maybe(AllRosters)
    OBVIOUS
  <2>1. CASE x = q
    BY <1>1, <2>1
  <2>2. CASE x \in pairs
    BY <2>2, PairIs
  <2> QED
    BY <1>2, <2>1, <2>2
<1> QED
  BY <1>2, <1>3 DEF PairsKnown

\* A pairing that starts changes no table.
LEMMA PairStartIs ==
  ASSUME MeshInv, NEW i \in Machine, NEW j \in Machine, PairStart(j, i)
  PROVE  PairIdle /\ PairsOK'
<1> DEFINE q == [n |-> Cardinality(pairs), joiner |-> j, issuer |-> i,
                 phase |-> "sent", offer |-> RosterOf(j), initial |-> anchor[j],
                 reply |-> None, ianchor |-> None, janchor |-> None, moved |-> {}]
<1>1. /\ j # i /\ pairs' = pairs \cup {q}
      /\ UNCHANGED <<doc, anchor, key, born, vouch, leaving, door>>
  BY DEF PairStart
<1>2. pairs \in SUBSET Paired /\ IsFiniteSet(pairs) /\ \A x \in pairs : x.joiner # x.issuer
  BY DEF MeshInv, TypeOK, PairsOK
<1>3. Cardinality(pairs) \in Nat
  BY <1>2, FS_CardinalityType
<1>4. RosterOf(j) \in Maybe(SignedRoster) /\ RosterOf(j) \in Maybe(AllRosters)
  BY RosterOfIs DEF Maybe
<1>5. anchor[j] \in Maybe(Root)
  BY Here
<1>6. q \in Paired
  BY <1>3, <1>4, <1>5 DEF Paired, Phases, Maybe
<1>7. /\ q.offer \in Maybe(AllRosters) /\ q.reply \in Maybe(AllRosters) /\ q.joiner # q.issuer
  BY <1>1, <1>4 DEF Maybe
<1> HIDE DEF q
<1>8. IsFiniteSet(pairs')
  BY <1>1, <1>2, FS_AddElement
<1>9. PairsOK'
  BY <1>1, <1>2, <1>6, <1>7, <1>8 DEF PairsOK
<1>10. PairsKnown
  BY <1>1, <1>7, PairIs DEF PairsKnown
<1> QED
  BY <1>1, <1>9, <1>10 DEF PairIdle

\* The issuer's commit settles on the issuer, or changes no table.
LEMMA PairCommitIs ==
  ASSUME MeshInv, NEW p \in pairs, NEW tail \in Tails, PairCommit(p, tail)
  PROVE  /\ PairIdle \/ SettleStep(p.issuer)
         /\ PairsOK' /\ notes' \in [Machine -> SUBSET Machine]
<1> DEFINE plan == Settlement(p.issuer, p.joiner, p.offer, FALSE, tail)
<1>1. /\ p \in Paired /\ p.issuer \in Machine /\ p.joiner \in Machine /\ p.joiner # p.issuer
      /\ p.offer \in Maybe(AllRosters)
  BY PairIs DEF Paired, Phases
<1>2. notes \in [Machine -> SUBSET Machine]
  BY DEF MeshInv, TypeOK, RestOK
<1>3. ASSUME NEW q, q = [p EXCEPT !.phase = "committed", !.reply = plan.roster, !.ianchor = plan.anchor],
             Becomes(p, q), ApplySettlement(p.issuer, p.joiner, p, plan, p.offer),
             UNCHANGED <<born, vouch, leaving, now, used>>
      PROVE  SettleStep(p.issuer) /\ PairsOK' /\ notes' \in [Machine -> SUBSET Machine]
  <2>1. key \in [Machine -> Maybe(Root)]
    BY Here, <1>1
  <2>2. key' = [key EXCEPT ![p.issuer] = IF key[p.issuer] # plan.anchor THEN None ELSE key[p.issuer]]
    BY <1>3 DEF ApplySettlement
  <2>3. key'[p.issuer] = IF key[p.issuer] # plan.anchor THEN None ELSE key[p.issuer]
    BY <1>1, <2>1, <2>2
  <2>4. /\ plan.anchor \in Maybe(born)
        /\ plan.roster \in Maybe(AllRosters) \/ Offspring(p.issuer, plan.roster)
    BY <1>1, <2>3, SettlementIs
  <2>5. plan.anchor \in Maybe(Root) /\ plan.roster \in Maybe(SignedRoster)
    BY <2>4, KnownTypes DEF Maybe, Offspring, MeshInv, TypeOK, RootsOK
  <2> HIDE DEF plan
  <2>6. /\ q \in Paired /\ q.joiner = p.joiner /\ q.issuer = p.issuer /\ q.offer = p.offer
        /\ q.reply = plan.roster
    BY <1>1, <1>3, <2>5 DEF Paired, Phases
  <2>7. Settles(p, p.issuer, p.joiner, plan, p.offer, q)
    BY <1>3 DEF Settles
  <2> QED
    BY <1>1, <2>6, <2>7, SettleStepIs DEF plan
<1>4. ASSUME NEW q, q = [p EXCEPT !.phase = "uncommitted"], Becomes(p, q),
             UNCHANGED <<doc, anchor, key, notes, door, born, vouch, leaving>>
      PROVE  PairIdle /\ PairsOK' /\ notes' \in [Machine -> SUBSET Machine]
  <2>1. /\ q \in Paired /\ q.joiner = p.joiner /\ q.issuer = p.issuer /\ q.offer = p.offer
        /\ q.reply = p.reply
    BY <1>1, <1>4 DEF Paired, Phases
  <2> QED
    BY <1>2, <1>4, <2>1, PairIdleIs DEF PairIdle
<1> QED
  BY <1>3, <1>4 DEF PairCommit

\* The joiner's acceptance settles on the joiner, or changes no table.
LEMMA PairAcceptIs ==
  ASSUME MeshInv, NEW p \in pairs, NEW tail \in Tails, PairAccept(p, tail)
  PROVE  /\ PairIdle \/ SettleStep(p.joiner)
         /\ PairsOK' /\ notes' \in [Machine -> SUBSET Machine]
<1> DEFINE plan == Settlement(p.joiner, p.issuer, p.reply, TRUE, tail)
<1>1. /\ p \in Paired /\ p.issuer \in Machine /\ p.joiner \in Machine /\ p.joiner # p.issuer
      /\ p.reply \in Maybe(AllRosters)
  BY PairIs DEF Paired, Phases
<1>2. notes \in [Machine -> SUBSET Machine]
  BY DEF MeshInv, TypeOK, RestOK
<1>3. ASSUME NEW q, q = [p EXCEPT !.phase = "accepted", !.janchor = plan.anchor],
             Becomes(p, q), ApplySettlement(p.joiner, p.issuer, p, plan, p.reply),
             UNCHANGED <<born, vouch, leaving, now, used>>
      PROVE  SettleStep(p.joiner) /\ PairsOK' /\ notes' \in [Machine -> SUBSET Machine]
  <2>1. key \in [Machine -> Maybe(Root)]
    BY Here, <1>1
  <2>2. key' = [key EXCEPT ![p.joiner] = IF key[p.joiner] # plan.anchor THEN None ELSE key[p.joiner]]
    BY <1>3 DEF ApplySettlement
  <2>3. key'[p.joiner] = IF key[p.joiner] # plan.anchor THEN None ELSE key[p.joiner]
    BY <1>1, <2>1, <2>2
  <2>4. /\ plan.anchor \in Maybe(born)
        /\ plan.roster \in Maybe(AllRosters) \/ Offspring(p.joiner, plan.roster)
    BY <1>1, <2>3, SettlementIs
  <2>5. plan.anchor \in Maybe(Root)
    BY <2>4 DEF Maybe, MeshInv, TypeOK, RootsOK
  <2> HIDE DEF plan
  <2>6. /\ q \in Paired /\ q.joiner = p.joiner /\ q.issuer = p.issuer /\ q.offer = p.offer
        /\ q.reply = p.reply
    BY <1>1, <1>3, <2>5 DEF Paired, Phases
  <2>7. Settles(p, p.joiner, p.issuer, plan, p.reply, q)
    BY <1>3 DEF Settles
  <2> QED
    BY <1>1, <2>6, <2>7, SettleStepIs DEF plan
<1>4. ASSUME NEW q, q = [p EXCEPT !.phase = "refused"], Becomes(p, q),
             UNCHANGED <<doc, anchor, key, notes, door, born, vouch, leaving>>
      PROVE  PairIdle /\ PairsOK' /\ notes' \in [Machine -> SUBSET Machine]
  <2>1. /\ q \in Paired /\ q.joiner = p.joiner /\ q.issuer = p.issuer /\ q.offer = p.offer
        /\ q.reply = p.reply
    BY <1>1, <1>4 DEF Paired, Phases
  <2> QED
    BY <1>2, <1>4, <2>1, PairIdleIs DEF PairIdle
<1> QED
  BY <1>3, <1>4 DEF PairAccept

\* The exchange after a pairing merges the tables of its two sides.
LEMMA PairDocsIs ==
  ASSUME MeshInv, NEW p \in pairs, NEW to \in Machine, PairDocs(p, to)
  PROVE  /\ \E a, b \in Machine :
              /\ MergeStep(a, b) /\ PairsKnown
              /\ {a, b} \subseteq All(doc[a]) /\ {a, b} \subseteq All(doc[b])
         /\ PairsOK' /\ UNCHANGED notes
<1> DEFINE from == IF to = p.issuer THEN p.joiner ELSE p.issuer
           moved == p.moved \cup {to}
           q == [p EXCEPT !.moved = moved,
                          !.phase = IF Cardinality(moved) = 2 THEN "complete" ELSE @]
<1>1. p \in Paired /\ p.issuer \in Machine /\ p.joiner \in Machine /\ p.joiner # p.issuer
  BY PairIs DEF Paired, Phases
<1>2. /\ to \in {p.issuer, p.joiner} /\ Becomes(p, q)
      /\ PairReplayAllowed(p.issuer, p.joiner, p.ianchor)
      /\ PairReplayAllowed(p.joiner, p.issuer, p.janchor)
      /\ Write(to, Merge(doc[to], doc[from]))
      /\ UNCHANGED <<anchor, key, notes, born, vouch, leaving>>
  BY DEF PairDocs
<1>3. /\ to # from /\ from \in Machine
      /\ {to, from} \subseteq All(doc[to]) /\ {to, from} \subseteq All(doc[from])
  BY <1>1, <1>2 DEF PairReplayAllowed
<1>4. /\ q \in Paired /\ q.joiner = p.joiner /\ q.issuer = p.issuer /\ q.offer = p.offer
      /\ q.reply = p.reply
  <2>1. moved \in SUBSET Machine
    BY <1>1 DEF Paired, Phases
  <2> HIDE DEF moved
  <2> QED
    BY <1>1, <2>1 DEF Paired, Phases
<1> HIDE DEF q
<1>5. PairsKnown /\ PairsOK'
  BY <1>2, <1>4, PairIdleIs
<1>6. TableOK(Merge(doc[to], doc[from]))
  BY <1>3, Here, MergeIs
<1>7. Wrote(to) /\ doc'[to] = Merge(doc[to], doc[from])
  BY <1>2, <1>6, WroteIs
<1> QED
  BY <1>2, <1>3, <1>5, <1>7 DEF MergeStep, RootsSame

\* The archives of a pairing go: the table shows no other rosters for it.
CollectStep(m) ==
  /\ Wrote(m) /\ GoneKept(m) /\ SelfKept(m) /\ RostersIn(doc'[m]) = RostersIn(doc[m])
  /\ RootsSame /\ UNCHANGED <<pairs, vouch, leaving>>

\* Collecting an archived pairing changes its own record only.
LEMMA CollectIs ==
  ASSUME MeshInv, NEW p \in pairs, NEW m \in Machine, Collect(p, m)
  PROVE  CollectStep(m) /\ UNCHANGED notes
<1> DEFINE E == {e \in Live(doc[m]) : e.slot = <<p.n, m>>}
           s == Stamp(doc[m], m)
           c == DropEntries(doc[m], s, E)
<1>1. Write(m, c) /\ RootsSame /\ UNCHANGED <<pairs, vouch, leaving, notes>>
  BY DEF Collect, RootsSame
<1>2. TableOK(doc[m]) /\ s \in Stamps
  BY Here
<1>3. E \in SUBSET doc[m].trust
  BY DEF Live
<1> HIDE DEF s, E
<1>4. TableOK(c) /\ Registers(c) = Registers(doc[m]) /\ RostersIn(c) = RostersIn(doc[m])
  BY <1>2, <1>3, DropEntriesIs
<1> HIDE DEF c
<1>5. Wrote(m) /\ doc'[m] = c
  BY <1>1, <1>4, WroteIs
<1> QED
  BY <1>1, <1>4, <1>5 DEF CollectStep, GoneKept, SelfKept, Registers

-----------------------------------------------------------------------------
(* Every step is of one of these kinds. *)

StartStep ==
  /\ \E m, x \in Machine :
       /\ m # x /\ x \in All(doc[m])
       /\ RosterOf(m) # None /\ anchor[x] = anchor[m]
       /\ vouch' = vouch \cup {[from |-> m, to |-> x, roster |-> RosterOf(m)]}
  /\ UNCHANGED <<doc, door, anchor, key, born, pairs, leaving>>

RoundKind ==
  \E a, b \in Machine : MergeStep(a, b) /\ Gate(a, b) /\ Gate(b, a) /\ UNCHANGED pairs
PairDocsKind ==
  \E a, b \in Machine :
    /\ MergeStep(a, b) /\ PairsKnown
    /\ {a, b} \subseteq All(doc[a]) /\ {a, b} \subseteq All(doc[b])
TellKind == "leave" \in Verbs /\ \E m \in Machine : TellStep(m)
EmptyKind == \E m \in Machine : EmptyStep(m)
RecoverKind == "recover" \in Verbs /\ \E m \in Machine : RecoverStep(m)
SettleKind == \E m \in Machine : SettleStep(m)
PairingKind == PairDocsKind \/ SettleKind \/ PairIdle \/ \E m \in Machine : CollectStep(m)

Kinds ==
  \/ LocalStep \/ IdleStep \/ RoundKind \/ StartStep \/ \E v \in vouch : VouchStep(v)
  \/ TellKind \/ EmptyKind \/ RecoverKind
  \/ PairingKind /\ (pairs # {} \/ "pair" \in Verbs)

\* Types of what the kinds do not mention.
OthersOK ==
  notes \in [Machine -> SUBSET Machine] /\ leaving \in SUBSET Machine /\ now \in Nat /\ used \in Nat

\* Machines leave only where people do.
LeavingOnly == "leave" \notin Verbs => leaving' \subseteq leaving

Step == Kinds /\ PairsOK' /\ OthersOK' /\ LeavingOnly

\* The notes stay sets of machines when one machine's are replaced.
LEMMA NotesIs ==
  ASSUME MeshInv, NEW m \in Machine, NEW N \in SUBSET Machine,
         notes' = [notes EXCEPT ![m] = N]
  PROVE  notes' \in [Machine -> SUBSET Machine]
  BY DEF MeshInv, TypeOK, RestOK

\* The notes stay sets of machines when some are dropped.
LEMMA NotesDropped ==
  ASSUME MeshInv, NEW m \in Machine, NEW X, DropNotes(m, X)
  PROVE  notes' \in [Machine -> SUBSET Machine]
<1>1. notes \in [Machine -> SUBSET Machine]
  BY DEF MeshInv, TypeOK, RestOK
<1>2. notes[m] \ X \in SUBSET Machine
  BY <1>1
<1> QED
  BY <1>2, NotesIs DEF DropNotes

\* The notes stay sets of machines after a machine certified itself.
LEMMA NotesSelf ==
  ASSUME MeshInv, NEW d, NEW root, NEW m \in Machine, NotesAfterSelf(d, root, m)
  PROVE  notes' \in [Machine -> SUBSET Machine]
<1>1. notes \in [Machine -> SUBSET Machine]
  BY DEF MeshInv, TypeOK, RestOK
<1>2. notes' \in {[notes EXCEPT ![m] = notes[m] \ {m}], [notes EXCEPT ![m] = notes[m]]}
  BY DEF NotesAfterSelf
<1>3. notes[m] \ {m} \in SUBSET Machine /\ notes[m] \in SUBSET Machine
  BY <1>1
<1> QED
  BY <1>2, <1>3, NotesIs

\* Every action that signs or opens is one of the kinds of step.
LEMMA SignSteps ==
  ASSUME MeshInv, NEW tail \in Tails, Sign(tail)
  PROVE  Step
<1> SUFFICES ASSUME NEW m \in Machine,
               \/ Open(m, tail)
               \/ TrustTick(m, tail)
               \/ \E x \in Machine : \/ ApproveJoin(m, x, tail) \/ ApproveLeave(m, x, tail)
                                     \/ RevokeHere(m, x, tail) \/ Forget(m, x, tail)
               \/ \E r \in Root : \/ RootInit(m, r, tail) \/ RootInitStops(m, r)
                                 \/ RootRecover(m, r, tail)
             PROVE Step
  BY DEF Sign
<1>1. PairsOK /\ OthersOK
  BY DEF MeshInv, TypeOK, RestOK, OthersOK
<1> DEFINE Frame == UNCHANGED <<pairs, leaving, now>> /\ used' \in {used, used + 1}
<1>2. ASSUME Kinds, Frame, notes' \in [Machine -> SUBSET Machine]
      PROVE  Step
  <2>1. PairsOK'
    BY <1>1, <1>2 DEF PairsOK
  <2>2. OthersOK'
    BY <1>1, <1>2 DEF OthersOK
  <2> QED
    BY <1>2, <2>1, <2>2 DEF Step, LeavingOnly
<1>3. notes \in [Machine -> SUBSET Machine]
  BY <1>1 DEF OthersOK
<1>4. CASE Open(m, tail)
  <2>1. Kinds /\ Frame
    BY <1>4, OpenIs DEF Kinds, LocalStep
  <2>2. UNCHANGED notes \/ \E d, root : NotesAfterSelf(d, root, m)
    BY <1>4 DEF Open
  <2> QED
    BY <1>2, <1>3, <2>1, <2>2, NotesSelf
<1>5. CASE TrustTick(m, tail)
  <2>1. Frame /\ UNCHANGED notes
    BY <1>5 DEF TrustTick
  <2> QED
    BY <1>2, <1>3, <1>5, <2>1, TrustTickIs DEF Kinds
<1>6. ASSUME NEW x \in Machine, ApproveJoin(m, x, tail)
      PROVE  Step
  <2>1. Frame /\ \E X : DropNotes(m, X)
    BY <1>6 DEF ApproveJoin, Verb
  <2> QED
    BY <1>2, <1>6, <2>1, ApproveJoinIs, NotesDropped DEF Kinds
<1>7. ASSUME NEW x \in Machine, ApproveLeave(m, x, tail)
      PROVE  Step
  <2>1. Frame /\ \E X : DropNotes(m, X)
    BY <1>7 DEF ApproveLeave, Verb
  <2> QED
    BY <1>2, <1>7, <2>1, ApproveLeaveIs, NotesDropped DEF Kinds
<1>8. ASSUME NEW x \in Machine, RevokeHere(m, x, tail)
      PROVE  Step
  <2>1. Frame /\ \E X : DropNotes(m, X)
    BY <1>8 DEF RevokeHere, Verb
  <2> QED
    BY <1>2, <1>8, <2>1, RevokeHereIs, NotesDropped DEF Kinds
<1>9. ASSUME NEW x \in Machine, Forget(m, x, tail)
      PROVE  Step
  <2>1. Frame /\ UNCHANGED notes
    BY <1>9 DEF Forget, Verb
  <2> QED
    BY <1>2, <1>3, <1>9, <2>1, ForgetIs DEF Kinds
<1>10. ASSUME NEW r \in Root, RootInit(m, r, tail)
       PROVE  Step
  <2>1. Frame /\ UNCHANGED notes
    BY <1>10 DEF RootInit, Verb
  <2> QED
    BY <1>2, <1>3, <1>10, <2>1, RootInitIs DEF Kinds
<1>11. ASSUME NEW r \in Root, RootInitStops(m, r)
       PROVE  Step
  <2>1. Frame /\ UNCHANGED notes
    BY <1>11 DEF RootInitStops, Verb
  <2> QED
    BY <1>2, <1>3, <1>11, <2>1, RootInitStopsIs DEF Kinds
<1>12. ASSUME NEW r \in Root, RootRecover(m, r, tail)
       PROVE  Step
  <2>1. Frame /\ "recover" \in Verbs /\ \E d, root : NotesAfterSelf(d, root, m)
    BY <1>12 DEF RootRecover, Verb
  <2>2. Kinds
    BY <1>12, <2>1, RootRecoverIs DEF Kinds, RecoverKind
  <2> QED
    BY <1>2, <2>1, <2>2, NotesSelf
<1> QED
  BY <1>4, <1>5, <1>6, <1>7, <1>8, <1>9, <1>10, <1>11, <1>12

\* Every action of a pairing is one of the kinds of step.
LEMMA PairingSteps ==
  ASSUME MeshInv, NEW tail \in Tails, Pairing(tail)
  PROVE  Step
<1>1. PairsOK /\ OthersOK
  BY DEF MeshInv, TypeOK, RestOK, OthersOK
<1>2. notes \in [Machine -> SUBSET Machine]
  BY <1>1 DEF OthersOK
<1> DEFINE Frame == UNCHANGED <<leaving, now>> /\ used' \in {used, used + 1}
<1>3. ASSUME PairingKind, pairs # {} \/ "pair" \in Verbs, PairsOK', Frame,
             notes' \in [Machine -> SUBSET Machine]
      PROVE  Step
  <2>1. OthersOK'
    BY <1>1, <1>3 DEF OthersOK
  <2> QED
    BY <1>3, <2>1 DEF Step, LeavingOnly, Kinds
<1>4. ASSUME NEW i \in Machine, NEW j \in Machine, PairStart(j, i)
      PROVE  Step
  <2>1. Frame /\ UNCHANGED notes /\ "pair" \in Verbs
    BY <1>4 DEF PairStart, Verb
  <2> QED
    BY <1>2, <1>3, <1>4, <2>1, PairStartIs DEF PairingKind
<1>5. ASSUME NEW p \in pairs, PairCommit(p, tail)
      PROVE  Step
  <2>1. Frame
    BY <1>5 DEF PairCommit
  <2>2. p.issuer \in Machine
    BY PairIs DEF Paired
  <2> QED
    BY <1>3, <1>5, <2>1, <2>2, PairCommitIs DEF PairingKind, SettleKind
<1>6. ASSUME NEW p \in pairs, PairAccept(p, tail)
      PROVE  Step
  <2>1. Frame
    BY <1>6 DEF PairAccept
  <2>2. p.joiner \in Machine
    BY PairIs DEF Paired
  <2> QED
    BY <1>3, <1>6, <2>1, <2>2, PairAcceptIs DEF PairingKind, SettleKind
<1>7. ASSUME NEW p \in pairs, NEW m \in Machine, PairDocs(p, m)
      PROVE  Step
  <2>1. Frame
    BY <1>7 DEF PairDocs
  <2> QED
    BY <1>2, <1>3, <1>7, <2>1, PairDocsIs DEF PairingKind, PairDocsKind
<1>8. ASSUME NEW p \in pairs, NEW m \in Machine, Collect(p, m)
      PROVE  Step
  <2>1. Frame /\ UNCHANGED pairs
    BY <1>8 DEF Collect
  <2>2. PairsOK'
    BY <1>1, <2>1 DEF PairsOK
  <2> QED
    BY <1>2, <1>3, <1>8, <2>1, <2>2, CollectIs DEF PairingKind
<1> QED
  BY <1>4, <1>5, <1>6, <1>7, <1>8 DEF Pairing

\* Every action that carries tables, or leaves, is one of the kinds of step.
LEMMA MoveSteps ==
  ASSUME MeshInv, Move
  PROVE  Step
<1>1. PairsOK /\ OthersOK
  BY DEF MeshInv, TypeOK, RestOK, OthersOK
<1>2. notes \in [Machine -> SUBSET Machine]
  BY <1>1 DEF OthersOK
<1>3. ASSUME Kinds, UNCHANGED pairs, notes' \in [Machine -> SUBSET Machine],
             leaving' \in SUBSET Machine, LeavingOnly, now' \in {now, now + 1},
             used' \in {used, used + 1}
      PROVE  Step
  <2>1. PairsOK'
    BY <1>1, <1>3 DEF PairsOK
  <2>2. OthersOK'
    BY <1>1, <1>3 DEF OthersOK
  <2> QED
    BY <1>3, <2>1, <2>2 DEF Step
<1>4. leaving \in SUBSET Machine
  BY <1>1 DEF OthersOK
<1>5. ASSUME NEW m \in Machine, LeaveTell(m)
      PROVE  Step
  <2>1. /\ "leave" \in Verbs /\ leaving' = leaving \cup {m}
        /\ UNCHANGED <<pairs, notes, now>> /\ used' = used + 1
    BY <1>5 DEF LeaveTell, Verb
  <2> QED
    BY <1>2, <1>3, <1>4, <1>5, <2>1, LeaveTellIs DEF Kinds, TellKind, LeavingOnly
<1>6. ASSUME NEW m \in Machine, LeaveEmpty(m)
      PROVE  Step
  <2>1. leaving' = leaving \ {m} /\ UNCHANGED <<pairs, now, used>>
    BY <1>6 DEF LeaveEmpty
  <2>2. UNCHANGED notes \/ notes' = [notes EXCEPT ![m] = {}]
    BY <1>6 DEF LeaveEmpty
  <2>3. notes' \in [Machine -> SUBSET Machine]
    BY <1>2, <2>2, NotesIs, {} \in SUBSET Machine
  <2> QED
    BY <1>3, <1>4, <1>6, <2>1, <2>3, LeaveEmptyIs DEF Kinds, EmptyKind, LeavingOnly
<1>7. ASSUME NEW m \in Machine, ReadPending(m)
      PROVE  Step
  <2>1. /\ DropNotes(m, Decided(m))
        /\ UNCHANGED <<doc, anchor, key, born, pairs, vouch, leaving, now, used, door>>
    BY <1>7 DEF ReadPending
  <2>2. IdleStep
    BY <2>1 DEF IdleStep, RootsStep, RootsSame
  <2> QED
    BY <1>3, <1>4, <2>1, <2>2, NotesDropped DEF Kinds, LeavingOnly
<1>8. ASSUME NEW to \in Machine, NEW from \in Machine, Round(to, from)
      PROVE  Step
  <2>1. UNCHANGED <<notes, pairs, leaving, now, used>>
    BY <1>8 DEF Round
  <2> QED
    BY <1>2, <1>3, <1>4, <1>8, <2>1, RoundIs DEF Kinds, RoundKind, LeavingOnly
<1>9. ASSUME NEW m \in Machine, NEW x \in Machine, VouchStart(m, x)
      PROVE  Step
  <2>1. /\ UNCHANGED <<notes, pairs, leaving, now, used>> /\ StartStep
    BY <1>9 DEF VouchStart, StartStep, Gate
  <2> QED
    BY <1>2, <1>3, <1>4, <2>1 DEF Kinds, LeavingOnly
<1>10. ASSUME NEW v \in vouch, TakeVouch(v)
       PROVE  Step
  <2>1. /\ UNCHANGED <<notes, pairs, leaving, now, used>>
    BY <1>10 DEF TakeVouch
  <2> QED
    BY <1>2, <1>3, <1>4, <1>10, <2>1, TakeVouchIs DEF Kinds, LeavingOnly
<1>11. CASE Tick
  <2>1. /\ now' = now + 1
        /\ UNCHANGED <<doc, anchor, key, notes, born, pairs, vouch, leaving, used, door>>
    BY <1>11 DEF Tick
  <2>2. IdleStep
    BY <2>1, MeshAssumption DEF IdleStep, RootsStep, RootsSame
  <2> QED
    BY <1>2, <1>3, <1>4, <2>1, <2>2 DEF Kinds, LeavingOnly
<1> QED
  BY <1>5, <1>6, <1>7, <1>8, <1>9, <1>10, <1>11 DEF Move

\* Every step of the mesh is one of the kinds of step.
LEMMA NextKinds ==
  ASSUME MeshInv, [Next]_vars
  PROVE  Step
<1>1. CASE UNCHANGED vars
  <2>1. IdleStep
    BY <1>1, MeshAssumption DEF vars, IdleStep, RootsStep, RootsSame
  <2>2. PairsOK' /\ OthersOK' /\ LeavingOnly
    BY <1>1 DEF vars, MeshInv, TypeOK, RestOK, PairsOK, OthersOK, LeavingOnly
  <2> QED
    BY <2>1, <2>2 DEF Step, Kinds
<1> QED
  BY <1>1, SignSteps, PairingSteps, MoveSteps DEF Next
-----------------------------------------------------------------------------
(* The invariant every proof below stands on. *)

\* Machine m signs roster r in this step, with the root it then holds, and
\* stores it; while it settles a pairing or types in words it may not.  It
\* stays on the list itself if it was on every list of that root and is not
\* about to leave; with the words typed in on a second machine, that is off.
Signing(m, r) ==
  /\ RootsStep(m) /\ key'[m] # None /\ anchor'[m] = key'[m]
  /\ StoredIn(doc[m], doc'[m], r) /\ NextRoster(doc[m], key'[m], r)
NetVerbs == pairs = {} /\ "pair" \notin Verbs /\ "recover" \notin Verbs

Signs(m, r) ==
  /\ r \in SignedRoster /\ key'[m] # None /\ r.root = key'[m]
  /\ NetVerbs => Signing(m, r)
  /\ /\ "recover" \notin Verbs /\ doc[m].gone[m].val # TRUE
     /\ \A q \in AllRosters : q.root = key'[m] => Admits(q, m)
     => Admits(r, m)

\* A set that has what the tables show, the vouches and the pairings has
\* every roster.
LEMMA Gathered ==
  ASSUME NEW R, \A x \in Machine : RostersIn(doc'[x]) \subseteq R,
         \A v \in vouch' : v.roster \in R,
         \A p \in pairs' : p.offer \in Maybe(R) /\ p.reply \in Maybe(R)
  PROVE  AllRosters' \subseteq R
  BY DEF AllRosters, Maybe

\* What is in a table, on its way or in a pairing is among the rosters.
LEMMA Within ==
  /\ \A m \in Machine : RostersIn(doc[m]) \subseteq AllRosters
  /\ \A v \in vouch : v.roster \in AllRosters
  /\ \A p \in pairs : p.offer \in Maybe(AllRosters) /\ p.reply \in Maybe(AllRosters)
  BY DEF AllRosters, Maybe

\* What SignedAt signs is what Signs says.
LEMMA SignedIs ==
  ASSUME MeshInv, NEW m \in Machine, NEW r, r \in SignedRoster, key'[m] # None,
         NextRoster(doc[m], key'[m], r),
         doc[m].gone[m].val # TRUE => KeepsOn(doc[m], key'[m], m, r),
         RootsStep(m), anchor'[m] = key'[m], StoredIn(doc[m], doc'[m], r)
  PROVE  Signs(m, r)
<1>1. \A root : Differ(RostersIn(doc[m]), root) /\ TableOK(doc[m])
  BY Here
<1>2. NewestIn(doc[m], key'[m]) # None =>
        NewestIn(doc[m], key'[m]) \in AllRosters /\ NewestIn(doc[m], key'[m]).root = key'[m]
  BY <1>1, NewestInType, Within
<1> QED
  BY <1>2 DEF Signs, Signing, NextRoster, KeepsOn

\* A new roster is one that a holder signs in this step.
LEMMA RostersStep ==
  ASSUME MeshInv, Step
  PROVE  \A r \in AllRosters' : r \in AllRosters \/ \E m \in Machine : Signs(m, r)
<1> DEFINE R == AllRosters \cup {r \in SignedRoster : \E m \in Machine : Signs(m, r)}
<1> SUFFICES AllRosters' \subseteq R
  OBVIOUS
<1>0. AllRosters \subseteq R /\ \A r : r \in SignedRoster /\ (\E m \in Machine : Signs(m, r)) => r \in R
  OBVIOUS
<1>w. /\ \A m \in Machine : RostersIn(doc[m]) \subseteq R
      /\ \A v \in vouch : v.roster \in R
      /\ \A p \in pairs : p.offer \in Maybe(R) /\ p.reply \in Maybe(R)
  BY Within, <1>0 DEF Maybe
<1>k. PairsKnown => \A p \in pairs' : p.offer \in Maybe(R) /\ p.reply \in Maybe(R)
  BY <1>0 DEF PairsKnown, Maybe
<1> HIDE DEF R
<1>1. CASE LocalStep
  <2>1. PICK m \in Machine : Local(m) /\ RootsStep(m) /\ UNCHANGED <<pairs, vouch>>
    BY <1>1 DEF LocalStep
  <2>2. RostersIn(doc'[m]) \subseteq R
    <3>1. CASE TrustKept(m)
      BY <1>w, <3>1, RostersOfSame DEF TrustKept
    <3>2. CASE SignedAt(m)
      <4>1. PICK r : /\ StoredIn(doc[m], doc'[m], r)
                     /\ NextRoster(doc[m], key'[m], r)
                     /\ doc[m].gone[m].val # TRUE => KeepsOn(doc[m], key'[m], m, r)
        BY <3>2 DEF SignedAt
      <4>2. Signs(m, r) /\ r \in SignedRoster
        BY <2>1, <3>2, <4>1, SignedIs DEF SignedAt, NextRoster
      <4>3. RostersIn(doc'[m]) = RostersIn(doc[m]) \cup {r}
        BY <4>1 DEF StoredIn
      <4> QED
        BY <1>0, <1>w, <4>2, <4>3
    <3> QED
      BY <2>1, <3>1, <3>2 DEF Local
  <2>3. \A x \in Machine \ {m} : doc'[x] = doc[x]
    BY <2>1 DEF Local, Wrote
  <2>4. \A x \in Machine : RostersIn(doc'[x]) \subseteq R
    BY <1>w, <2>2, <2>3
  <2> QED
    BY <1>w, <2>1, <2>4, Gathered
<1>2. CASE IdleStep
  BY <1>w, <1>2, Gathered DEF IdleStep
<1>3. ASSUME NEW m \in Machine, NEW x \in Machine, MergeStep(m, x), UNCHANGED pairs \/ PairsKnown
      PROVE  AllRosters' \subseteq R
  <2>1. TableOK(doc[m]) /\ TableOK(doc[x])
    BY Here
  <2>2. RostersIn(doc'[m]) = RostersIn(doc[m]) \cup RostersIn(doc[x])
    BY <1>3, <2>1, MergeIs DEF MergeStep
  <2>3. \A y \in Machine : RostersIn(doc'[y]) \subseteq R
    BY <1>3, <1>w, <2>2 DEF MergeStep, Wrote
  <2> QED
    BY <1>3, <1>w, <1>k, <2>3, Gathered DEF MergeStep
<1>4. CASE StartStep
  <2>1. \A v \in vouch' : v.roster \in R
    BY <1>4, <1>0, <1>w, RosterOfIs DEF StartStep
  <2> QED
    BY <1>4, <1>w, <2>1, Gathered DEF StartStep
<1>5. ASSUME NEW v \in vouch, VouchStep(v)
      PROVE  AllRosters' \subseteq R
  <2>1. RostersIn(doc'[v.to]) = RostersIn(doc[v.to]) \cup {v.roster}
    BY <1>5 DEF VouchStep, StoredIn
  <2>2. v.to \in Machine
    BY DEF MeshInv, TypeOK, Vouched
  <2>3. \A y \in Machine : RostersIn(doc'[y]) \subseteq R
    BY <1>5, <1>w, <2>1, <2>2 DEF VouchStep, Wrote
  <2> QED
    BY <1>5, <1>w, <2>3, Gathered DEF VouchStep
<1>6. ASSUME NEW m \in Machine, TellStep(m)
      PROVE  AllRosters' \subseteq R
  <2>1. \A y \in Machine : RostersIn(doc'[y]) \subseteq R
    BY <1>6, <1>w, RostersOfSame DEF TellStep, TrustKept, Wrote
  <2> QED
    BY <1>6, <1>w, <2>1, Gathered DEF TellStep
<1>7. ASSUME NEW m \in Machine, EmptyStep(m)
      PROVE  AllRosters' \subseteq R
  <2>1. \A y \in Machine : RostersIn(doc'[y]) \subseteq R
    BY <1>7, <1>w DEF EmptyStep
  <2> QED
    BY <1>7, <1>w, <2>1, Gathered DEF EmptyStep
<1>8. ASSUME NEW m \in Machine, RecoverStep(m), "recover" \in Verbs
      PROVE  AllRosters' \subseteq R
  <2>1. PICK r \in born : /\ key' = [key EXCEPT ![m] = r]
                          /\ \A q \in RostersIn(doc'[m]) :
                               q \in RostersIn(doc[m]) \/ (q \in SignedRoster /\ q.root = r)
    BY <1>8 DEF RecoverStep
  <2>2. key'[m] = r /\ r # None
    BY <2>1, Here, RosterAssumption DEF MeshInv, TypeOK, RootsOK
  <2>3. \A q \in RostersIn(doc'[m]) : q \in R
    BY <1>0, <1>w, <1>8, <2>1, <2>2 DEF Signs, NetVerbs
  <2>4. \A y \in Machine : RostersIn(doc'[y]) \subseteq R
    BY <1>8, <1>w, <2>3 DEF RecoverStep, Wrote
  <2> QED
    BY <1>8, <1>w, <2>4, Gathered DEF RecoverStep
<1>9. ASSUME NEW m \in Machine, SettleStep(m), ~NetVerbs
      PROVE  AllRosters' \subseteq R
  <2>1. \A r : Offspring(m, r) => r \in R
    BY <1>0, <1>9 DEF Offspring, Signs
  <2>2. \A r \in RostersIn(doc'[m]) : r \in R
    BY <1>0, <1>9, <2>1 DEF SettleStep
  <2>3. \A y \in Machine : RostersIn(doc'[y]) \subseteq R
    BY <1>9, <1>w, <2>2 DEF SettleStep, Wrote
  <2>4. \A q \in pairs' : q.offer \in Maybe(R) /\ q.reply \in Maybe(R)
    BY <1>0, <1>9, <2>1 DEF SettleStep, Maybe
  <2> QED
    BY <1>9, <1>w, <2>3, <2>4, Gathered DEF SettleStep
<1>10. CASE PairIdle
  BY <1>w, <1>k, <1>10, Gathered DEF PairIdle
<1>11. ASSUME NEW m \in Machine, CollectStep(m)
       PROVE  AllRosters' \subseteq R
  <2>1. \A y \in Machine : RostersIn(doc'[y]) \subseteq R
    BY <1>11, <1>w DEF CollectStep, Wrote
  <2> QED
    BY <1>11, <1>w, <2>1, Gathered DEF CollectStep
<1>12. CASE PairingKind /\ ~NetVerbs
  BY <1>3, <1>9, <1>10, <1>11, <1>12 DEF PairingKind, PairDocsKind, SettleKind
<1> QED
  BY <1>1, <1>2, <1>3, <1>4, <1>5, <1>6, <1>7, <1>8, <1>12
     DEF Step, Kinds, RoundKind, TellKind, EmptyKind, RecoverKind, NetVerbs

\* Anchors and keys are roots that exist, and roots are never forgotten.
LEMMA RootsStays ==
  ASSUME MeshInv, Step
  PROVE  /\ RootsOK' /\ born \subseteq born'
         /\ \A m \in Machine : key'[m] \in Maybe(born') /\ anchor'[m] \in Maybe(born')
<1>1. /\ anchor \in [Machine -> Maybe(born)] /\ key \in [Machine -> Maybe(born)]
      /\ born \in SUBSET Root
  BY DEF MeshInv, TypeOK, RootsOK, BornOK, Maybe
<1> SUFFICES /\ born' \in SUBSET Root /\ born \subseteq born'
             /\ anchor' \in [Machine -> Maybe(born')] /\ key' \in [Machine -> Maybe(born')]
  BY DEF RootsOK, Maybe
<1>2. CASE RootsSame
  BY <1>1, <1>2 DEF RootsSame
<1>3. ASSUME NEW m \in Machine, RootsStep(m)
      PROVE  /\ born' \in SUBSET Root /\ born \subseteq born'
             /\ anchor' \in [Machine -> Maybe(born')] /\ key' \in [Machine -> Maybe(born')]
  <2>1. CASE OwnTaken(m)
    BY <1>1, <2>1 DEF OwnTaken
  <2>2. CASE Adopts(m)
    <3>1. PICK r \in Adoptable(doc[m], m) : anchor' = [anchor EXCEPT ![m] = r]
      BY <2>2 DEF Adopts
    <3>2. r \in born
      <4>1. PICK q \in Rosters(doc[m]) : r = q.root
        BY <3>1 DEF Adoptable
      <4>2. q \in AllRosters
        BY <4>1, Within DEF Rosters, RostersIn, Live
      <4> QED
        BY <4>1, <4>2, KnownTypes
    <3> QED
      BY <1>1, <2>2, <3>1, <3>2 DEF Adopts, Maybe
  <2>3. CASE NewRoot(m)
    BY <1>1, <2>3 DEF NewRoot, Maybe
  <2> QED
    BY <1>2, <1>3, <2>1, <2>2, <2>3 DEF RootsStep
<1>4. ASSUME NEW m \in Machine, EmptyStep(m)
      PROVE  /\ born' \in SUBSET Root /\ born \subseteq born'
             /\ anchor' \in [Machine -> Maybe(born')] /\ key' \in [Machine -> Maybe(born')]
  <2>1. anchor' \in {anchor, [anchor EXCEPT ![m] = None]} /\ UNCHANGED <<key, born>>
    BY <1>4 DEF EmptyStep
  <2> QED
    BY <1>1, <2>1 DEF Maybe
<1>5. ASSUME NEW m \in Machine, RecoverStep(m)
      PROVE  /\ born' \in SUBSET Root /\ born \subseteq born'
             /\ anchor' \in [Machine -> Maybe(born')] /\ key' \in [Machine -> Maybe(born')]
  BY <1>1, <1>5 DEF RecoverStep, Maybe
<1>6. ASSUME NEW m \in Machine, SettleStep(m)
      PROVE  /\ born' \in SUBSET Root /\ born \subseteq born'
             /\ anchor' \in [Machine -> Maybe(born')] /\ key' \in [Machine -> Maybe(born')]
  <2>1. PICK a \in Maybe(born) : anchor' = [anchor EXCEPT ![m] = a]
    BY <1>6 DEF SettleStep
  <2>2. PICK k \in {key[m], None} : key' = [key EXCEPT ![m] = k]
    BY <1>6 DEF SettleStep
  <2>3. born' = born
    BY <1>6 DEF SettleStep
  <2> QED
    BY <1>1, <2>1, <2>2, <2>3 DEF Maybe
<1>7. CASE PairingKind
  BY <1>2, <1>6, <1>7
     DEF PairingKind, PairDocsKind, SettleKind, CollectStep, MergeStep, PairIdle, RootsSame
<1>8. CASE StartStep
  BY <1>2, <1>8 DEF StartStep, RootsSame
<1>9. CASE LocalStep \/ IdleStep
  BY <1>3, <1>9 DEF LocalStep, IdleStep
<1>10. CASE RoundKind \/ (\E v \in vouch : VouchStep(v)) \/ TellKind
  BY <1>2, <1>10 DEF RoundKind, MergeStep, VouchStep, TellKind, TellStep
<1> QED
  BY <1>4, <1>5, <1>7, <1>8, <1>9, <1>10 DEF Step, Kinds, EmptyKind, RecoverKind

\* Tables stay tables, and their records stay different.
LEMMA DocsStay ==
  ASSUME MeshInv, Step
  PROVE  DocsOK' /\ BytesDiffer' /\ door' \in [Machine -> SUBSET Machine]
<1>1. CASE \E m \in Machine : Wrote(m)
  BY <1>1 DEF Wrote
<1>2. CASE UNCHANGED <<doc, door>>
  BY <1>2 DEF MeshInv, TypeOK, DocsOK, BytesDiffer, RestOK
<1>3. CASE EmptyKind
  BY <1>3 DEF EmptyKind, EmptyStep
<1>4. CASE \E v \in vouch : VouchStep(v)
  <2>1. \A v \in vouch : v.to \in Machine
    BY DEF MeshInv, TypeOK, Vouched
  <2> QED
    BY <1>1, <1>4, <2>1 DEF VouchStep
<1>5. CASE PairingKind
  BY <1>1, <1>2, <1>5 DEF PairingKind, PairDocsKind, SettleKind, CollectStep, MergeStep, PairIdle,
                          SettleStep
<1> QED
  BY <1>1, <1>2, <1>3, <1>4, <1>5
     DEF Step, Kinds, LocalStep, IdleStep, Local, RoundKind, MergeStep, StartStep, TellKind,
         TellStep, RecoverKind, RecoverStep

\* A vouch names machines and carries a roster somebody has.
LEMMA VouchStays ==
  ASSUME MeshInv, Step
  PROVE  vouch' \in SUBSET Vouched
<1>1. vouch \in SUBSET Vouched
  BY DEF MeshInv, TypeOK
<1>2. CASE vouch' \subseteq vouch
  BY <1>1, <1>2
<1>3. CASE StartStep
  BY <1>1, <1>3, RosterOfIs DEF StartStep, Vouched
<1>4. CASE PairingKind
  BY <1>2, <1>4 DEF PairingKind, PairDocsKind, SettleKind, CollectStep, MergeStep, PairIdle,
                    SettleStep
<1> QED
  BY <1>2, <1>3, <1>4
     DEF Step, Kinds, LocalStep, IdleStep, RoundKind, MergeStep, VouchStep, TellKind, TellStep,
         EmptyKind, EmptyStep, RecoverKind, RecoverStep

\* MeshInv is inductive.
LEMMA MeshInvStep ==
  ASSUME MeshInv, [Next]_vars
  PROVE  MeshInv' /\ Step
<1>1. Step
  BY NextKinds
<1>2. DocsOK' /\ BytesDiffer' /\ door' \in [Machine -> SUBSET Machine]
  BY <1>1, DocsStay
<1>3. /\ RootsOK' /\ born \subseteq born'
      /\ \A m \in Machine : key'[m] \in Maybe(born') /\ anchor'[m] \in Maybe(born')
  BY <1>1, RootsStays
<1>4. \A r \in AllRosters' : r.root \in born'
  <2>1. \A r \in AllRosters' : r \in AllRosters \/ \E m \in Machine : Signs(m, r)
    BY <1>1, RostersStep
  <2> QED
    BY <1>3, <2>1, KnownTypes DEF Signs, Maybe
<1>5. BornOK'
  BY <1>3, <1>4 DEF BornOK
<1>6. RestOK'
  BY <1>1, <1>2 DEF Step, OthersOK, RestOK
<1>7. PairsOK' /\ vouch' \in SUBSET Vouched
  BY <1>1, VouchStays DEF Step
<1> QED
  BY <1>1, <1>2, <1>3, <1>5, <1>6, <1>7 DEF MeshInv, TypeOK

\* The member of the lowest rank set the network up.
LEMMA HolderIs == Holder \in Member /\ Holder \in Machine
<1> DEFINE S == {Rank[m] : m \in Member}
<1>1. S \subseteq Nat /\ S # {}
  BY MeshAssumption, RankAssumption
<1>2. PICK k \in S : \A j \in S : ~(<<j, k>> \in OpToRel(<, Nat))
  BY <1>1, NatLessThanWellFounded, WFMin
<1>3. \A j \in S : k <= j
  <2> HIDE DEF S
  <2>1. k \in Nat /\ \A j \in S : j \in Nat
    BY <1>1
  <2>2. \A j \in S : ~(j < k)
    BY <1>2, <2>1 DEF OpToRel
  <2> QED
    BY <2>1, <2>2
<1>4. \E m \in Member : \A x \in Member : Rank[m] <= Rank[x]
  BY <1>3
<1> QED
  BY <1>4, MeshAssumption DEF Holder

\* The root the first network has is one.
LEMMA FirstRootIs == FirstRoot \in Root /\ FirstRoot # None
  BY MeshAssumption, RosterAssumption DEF FirstRoot

\* The rows Holder wrote about the members.
LEMMA NamedIs ==
  /\ TableOK(Named) /\ Named.trust = {}
  /\ \A x \in Machine : Named.gone[x] = Unwritten /\ Named.cert[x] = Unwritten
<1> DEFINE w == Written(TRUE, FirstStamp)
           T == [x \in Machine |-> IF x \in Member THEN w ELSE Unwritten]
<1>1. Named = [EmptyTable EXCEPT !.row = T]
  BY DEF Named, About
<1>2. FirstStamp.t = 1 /\ FirstStamp.p \in Nat
  BY HolderIs, RankAssumption DEF FirstStamp
<1>3. w \in Register({TRUE, None}) /\ w.t = 1
  BY <1>2 DEF Written, Register
<1> HIDE DEF w
<1>4. /\ Unwritten \in Register({TRUE, None}) /\ Unwritten \in Register({TRUE, FALSE, None})
      /\ Unwritten \in Register(Certificate \cup {None}) /\ Unwritten.t = 0
  BY DEF Unwritten, Register
<1>5. T \in [Machine -> Register({TRUE, None})] /\ \A x \in Machine : T[x].t <= 1
  BY <1>3, <1>4
<1> HIDE DEF T
<1>6. Named = [row |-> T, gone |-> [x \in Machine |-> Unwritten],
               cert |-> [x \in Machine |-> Unwritten], trust |-> {}]
  BY <1>1 DEF EmptyTable
<1>7. Named \in Table
  BY <1>4, <1>5, <1>6 DEF Table
<1>8. BoundedBy(Named, 1)
  BY <1>4, <1>5, <1>6 DEF BoundedBy
<1> QED
  BY <1>6, <1>7, <1>8 DEF TableOK

\* A table nobody wrote in.
LEMMA EmptyTableIs ==
  /\ TableOK(EmptyTable) /\ EmptyTable.trust = {}
  /\ \A x \in Machine : EmptyTable.gone[x] = Unwritten /\ EmptyTable.cert[x] = Unwritten
<1>1. /\ Unwritten \in Register({TRUE, None}) /\ Unwritten \in Register({TRUE, FALSE, None})
      /\ Unwritten \in Register(Certificate \cup {None}) /\ Unwritten.t = 0
  BY DEF Unwritten, Register
<1>2. EmptyTable \in Table
  BY <1>1 DEF EmptyTable, Table
<1>3. BoundedBy(EmptyTable, 0)
  BY <1>1 DEF EmptyTable, BoundedBy
<1> QED
  BY <1>1, <1>2, <1>3 DEF TableOK, EmptyTable

\* The roster of the first network, and the tables of its members.
First == Genesis(FirstRoot, 0, 0, Member)
FirstEntry == [slot |-> None, roster |-> First, live |-> TRUE, t |-> 1, p |-> Rank[Holder]]
FirstTable == [Named EXCEPT !.cert = About(LAMBDA x : SignedCert(First, x)), !.trust = {FirstEntry}]

\* The first roster and the table that shows it.
LEMMA FirstIs ==
  /\ First \in SignedRoster /\ First.root = FirstRoot /\ \A x \in Member : Admits(First, x)
  /\ TableOK(FirstTable) /\ FirstTable.trust = {FirstEntry} /\ FirstEntry.roster = First
  /\ FirstEntry.live /\ \A x \in Machine : FirstTable.gone[x] = Unwritten
<1>1. /\ First \in SignedRoster /\ First.root = FirstRoot /\ First.seq = 1
      /\ \A x \in Member : Admits(First, x)
  BY FirstRootIs, MeshAssumption, GenesisIs DEF First
<1>2. First.date = 0 /\ First.tail = 0
  BY DEF First, Genesis
<1>3. Rank[Holder] \in Nat
  BY HolderIs, RankAssumption
<1>4. FirstEntry \in Entry /\ FirstEntry.t = 1 /\ FirstEntry.p = Rank[Holder]
      /\ FirstEntry.roster = First /\ FirstEntry.live
  BY <1>1, <1>3 DEF FirstEntry, Entry, Slots
<1> DEFINE C == [x \in Machine |-> IF x \in Member THEN Written(SignedCert(First, x), FirstStamp)
                                                   ELSE Unwritten]
<1>5. FirstTable = [Named EXCEPT !.cert = C, !.trust = {FirstEntry}]
  BY DEF FirstTable, About
<1>6. FirstStamp.t = 1 /\ FirstStamp.p \in Nat
  BY <1>3 DEF FirstStamp
<1>7. Unwritten \in Register(Certificate \cup {None}) /\ Unwritten.t = 0
  BY DEF Unwritten, Register
<1>8. \A x \in Machine : Written(SignedCert(First, x), FirstStamp) \in Register(Certificate \cup {None})
                         /\ Written(SignedCert(First, x), FirstStamp).t = 1
  BY <1>1, <1>6, SignedCertType DEF Written, Register
<1>9. C \in [Machine -> Register(Certificate \cup {None})] /\ \A x \in Machine : C[x].t <= 1
  BY <1>7, <1>8
<1> HIDE DEF C
<1>10. /\ Named \in Table /\ TableOK(Named)
       /\ \A x \in Machine : Named.gone[x] = Unwritten
  BY NamedIs DEF TableOK
<1>11. /\ FirstTable.cert = C /\ FirstTable.row = Named.row /\ FirstTable.gone = Named.gone
       /\ FirstTable.trust = {FirstEntry} /\ FirstTable \in Table
  BY <1>4, <1>5, <1>9, <1>10 DEF Table
<1> DEFINE k == 1 + Rank[Holder]
<1>12. k \in Nat /\ 1 <= k /\ EntryBoundedBy(FirstEntry, k)
  BY <1>1, <1>2, <1>3, <1>4 DEF EntryBoundedBy
<1> HIDE DEF k
<1>13. /\ \A x \in Machine : /\ FirstTable.row[x] \in {Named.row[x], Named.row[x]}
                             /\ FirstTable.gone[x] \in {Named.gone[x], Named.gone[x]}
                             /\ FirstTable.cert[x].t <= k
       /\ \A e \in FirstTable.trust : EntryBoundedBy(e, k)
  <2>1. \A x \in Machine : C[x].t \in Nat
    BY <1>9 DEF Register
  <2> QED
    BY <1>9, <1>11, <1>12, <2>1
<1>14. TableOK(FirstTable)
  BY <1>10, <1>11, <1>12, <1>13, PutTogether
<1> QED
  BY <1>1, <1>4, <1>10, <1>11, <1>14

\* What Blank says of types.
LEMMA BlankIs ==
  ASSUME Blank
  PROVE  PairsOK /\ vouch \in SUBSET Vouched /\ RestOK /\ pairs = {} /\ vouch = {} /\ leaving = {}
  BY FS_EmptySet DEF Blank, PairsOK, RestOK

\* The first network is as MeshInv says.
LEMMA InitNetworkIs ==
  ASSUME InitNetwork
  PROVE  /\ MeshInv /\ pairs = {} /\ vouch = {} /\ leaving = {}
         /\ \A r \in AllRosters : r = First
         /\ \A m \in Machine : door[m] = {} /\ \A x \in Machine : doc[m].gone[x] = Unwritten
<1>1. /\ Blank
      /\ doc = [m \in Machine |-> IF m \in Member THEN FirstTable ELSE EmptyTable]
      /\ anchor = [m \in Machine |-> IF m \in Member THEN FirstRoot ELSE None]
      /\ key = [m \in Machine |-> IF m = Holder THEN FirstRoot ELSE None]
      /\ born = {FirstRoot}
  BY DEF InitNetwork, FirstTable, FirstEntry, First
<1>2. /\ PairsOK /\ vouch \in SUBSET Vouched /\ RestOK /\ pairs = {} /\ vouch = {} /\ leaving = {}
  BY <1>1, BlankIs
<1>3. \A m \in Machine : doc[m] \in {FirstTable, EmptyTable}
  BY <1>1
<1>4. DocsOK
  <2>1. \A m \in Machine : TableOK(doc[m])
    BY <1>3, FirstIs, EmptyTableIs
  <2> QED
    BY <1>1, <2>1, FirstIs, EmptyTableIs DEF DocsOK, TableOK
<1>5. \A m \in Machine : \A e \in doc[m].trust : e.roster = First
  BY <1>3, FirstIs, EmptyTableIs
<1>6. BytesDiffer
  BY <1>5 DEF BytesDiffer
<1>7. \A r \in AllRosters : r = First
  BY <1>2, <1>5 DEF AllRosters, RostersIn
<1>8. RootsOK /\ BornOK
  BY <1>1, <1>7, FirstIs, FirstRootIs DEF RootsOK, BornOK, Maybe
<1>9. \A m \in Machine : door[m] = {} /\ \A x \in Machine : doc[m].gone[x] = Unwritten
  BY <1>1, <1>3, FirstIs, EmptyTableIs DEF Blank
<1> QED
  BY <1>2, <1>4, <1>6, <1>7, <1>8, <1>9 DEF MeshInv, TypeOK

\* A network from before roots too.
LEMMA InitLegacyIs ==
  ASSUME InitLegacy
  PROVE  /\ MeshInv /\ pairs = {} /\ vouch = {} /\ leaving = {} /\ AllRosters = {}
         /\ \A m \in Machine : key[m] = None /\ anchor[m] = None
         /\ \A m \in Machine : door[m] = {} /\ \A x \in Machine : doc[m].gone[x] = Unwritten
<1>1. /\ Blank
      /\ doc = [m \in Machine |-> IF m \in Member THEN Named ELSE EmptyTable]
      /\ anchor = [m \in Machine |-> None]
      /\ key = [m \in Machine |-> None]
      /\ born = {}
  BY DEF InitLegacy
<1>2. /\ PairsOK /\ vouch \in SUBSET Vouched /\ RestOK /\ pairs = {} /\ vouch = {} /\ leaving = {}
  BY <1>1, BlankIs
<1>3. \A m \in Machine : doc[m] \in {Named, EmptyTable}
  BY <1>1
<1>4. DocsOK
  <2>1. \A m \in Machine : TableOK(doc[m])
    BY <1>3, NamedIs, EmptyTableIs
  <2> QED
    BY <1>1, <2>1, NamedIs, EmptyTableIs DEF DocsOK, TableOK
<1>5. \A m \in Machine : doc[m].trust = {}
  BY <1>3, NamedIs, EmptyTableIs
<1>6. BytesDiffer
  BY <1>5 DEF BytesDiffer
<1>7. AllRosters = {}
  BY <1>2, <1>5 DEF AllRosters, RostersIn
<1>8. RootsOK /\ BornOK
  BY <1>1, <1>7 DEF RootsOK, BornOK, Maybe
<1>9. \A m \in Machine : door[m] = {} /\ \A x \in Machine : doc[m].gone[x] = Unwritten
  BY <1>1, <1>3, NamedIs, EmptyTableIs DEF Blank
<1> QED
  BY <1>1, <1>2, <1>4, <1>6, <1>7, <1>8, <1>9 DEF MeshInv, TypeOK

\* In every state of either specification the tables are well formed, the
\* rosters in them are told apart by what `newest` compares, and every root
\* in use was created (bootstrap_trust, root::create).
THEOREM MeshInvariance == SpecNetwork \/ SpecLegacy => []MeshInv
<1>1. InitNetwork => MeshInv
  BY InitNetworkIs
<1>2. InitLegacy => MeshInv
  BY InitLegacyIs
<1>3. MeshInv /\ [Next]_vars => MeshInv'
  BY MeshInvStep
<1> QED
  BY <1>1, <1>2, <1>3, PTL DEF SpecNetwork, SpecLegacy

-----------------------------------------------------------------------------
(* A machine that was shown the door stays out, unless somebody leaves:    *)
(* `leave` deletes the marks of its own table with its rows, and that      *)
(* deletion is younger than the marks.                                     *)

\* A mark that says nothing was never made, and whoever was shown out has one.
DoorOK ==
  /\ leaving = {}
  /\ \A m, x \in Machine :
       /\ doc[m].gone[x].val = None => doc[m].gone[x].t = 0 /\ doc[m].gone[x].p = 0
       /\ x \in door[m] => doc[m].gone[x].val = TRUE

\* What a table's marks are.
LEMMA GoneType ==
  ASSUME MeshInv, NEW m \in Machine, NEW x \in Machine
  PROVE  /\ doc[m].gone[x].t \in Nat /\ doc[m].gone[x].p \in Nat
         /\ doc[m].gone[x].val \in {TRUE, FALSE, None}
  BY Here DEF TableOK, Table, Register

\* Whoever a table that was written is remembered to have shown out.
LEMMA DoorWritten ==
  ASSUME MeshInv, DoorOK, NEW m \in Machine, Wrote(m), leaving' = {},
         \A x \in Machine : doc'[m].gone[x].val = None => doc'[m].gone[x] = doc[m].gone[x]
  PROVE  DoorOK'
<1>1. ASSUME NEW y \in Machine, NEW x \in Machine
      PROVE  /\ doc'[y].gone[x].val = None => doc'[y].gone[x].t = 0 /\ doc'[y].gone[x].p = 0
             /\ x \in door'[y] => doc'[y].gone[x].val = TRUE
  <2>1. CASE y # m
    BY <1>1, <2>1 DEF DoorOK, Wrote
  <2>2. CASE y = m
    <3>1. doc'[m].gone[x].val = None => doc'[m].gone[x] = doc[m].gone[x]
      OBVIOUS
    <3>2. doc'[m].gone[x].val = None => doc'[m].gone[x].t = 0 /\ doc'[m].gone[x].p = 0
      BY <3>1 DEF DoorOK
    <3>3. doc'[m].gone[x].val \in {TRUE, FALSE, None}
      BY DEF Wrote, DocsOK, TableOK, Table, Register
    <3>4. ASSUME x \in door'[m] PROVE doc'[m].gone[x].val = TRUE
      <4>1. x \in GoneIds(doc'[m]) \/ (x \in door[m] /\ doc'[m].gone[x].val # FALSE)
        BY <3>4 DEF Wrote, DoorAfter
      <4>2. CASE x \in GoneIds(doc'[m])
        BY <4>2 DEF GoneIds
      <4>3. CASE x \in door[m] /\ doc'[m].gone[x].val # FALSE
        <5>1. doc[m].gone[x].val = TRUE
          BY <4>3 DEF DoorOK
        <5>2. doc'[m].gone[x].val # None
          BY <3>1, <5>1, RosterAssumption
        <5> QED
          BY <3>3, <4>3, <5>2
      <4> QED
        BY <4>1, <4>2, <4>3
    <3> QED
      BY <2>2, <3>2, <3>4
  <2> QED
    BY <2>1, <2>2
<1> QED
  BY <1>1 DEF DoorOK

\* In a round, too, no mark is unmade: a table without one has nothing newer.
LEMMA MergeGone ==
  ASSUME MeshInv, DoorOK, NEW a \in Machine, NEW b \in Machine, MergeStep(a, b)
  PROVE  GoneKept(a)
<1> SUFFICES ASSUME NEW x \in Machine, doc'[a].gone[x].val = None
             PROVE  doc'[a].gone[x] = doc[a].gone[x]
  BY DEF GoneKept
<1>1. TableOK(doc[a]) /\ TableOK(doc[b]) /\ doc'[a] = Merge(doc[a], doc[b])
  BY Here DEF MergeStep
<1>2. doc'[a].gone[x] = IF Newer(doc[b].gone[x], doc[a].gone[x]) THEN doc[b].gone[x]
                                                                 ELSE doc[a].gone[x]
  BY <1>1, MergeIs
<1>3. CASE Newer(doc[b].gone[x], doc[a].gone[x])
  <2>1. doc[b].gone[x].t = 0 /\ doc[b].gone[x].p = 0
    BY <1>2, <1>3 DEF DoorOK
  <2>2. doc[a].gone[x].t \in Nat /\ doc[a].gone[x].p \in Nat
    BY GoneType
  <2> QED
    BY <1>3, <2>1, <2>2 DEF Newer
<1> QED
  BY <1>2, <1>3

\* DoorOK is inductive when nobody leaves: a mark is taken away only by taking
\* its machine back.
LEMMA DoorStep ==
  ASSUME MeshInv, Step, DoorOK, "leave" \notin Verbs
  PROVE  DoorOK'
<1>1. leaving' = {}
  BY DEF Step, LeavingOnly, DoorOK
<1>2. CASE UNCHANGED <<doc, door>>
  BY <1>1, <1>2 DEF DoorOK
<1>3. ASSUME NEW m \in Machine, Wrote(m), GoneKept(m)
      PROVE  DoorOK'
  BY <1>1, <1>3, DoorWritten DEF GoneKept
<1>4. ASSUME NEW a \in Machine, NEW b \in Machine, MergeStep(a, b)
      PROVE  DoorOK'
  BY <1>3, <1>4, MergeGone DEF MergeStep
<1>5. CASE LocalStep
  BY <1>3, <1>5 DEF LocalStep, Local
<1>6. CASE \E v \in vouch : VouchStep(v)
  <2>1. \A v \in vouch : v.to \in Machine
    BY DEF MeshInv, TypeOK, Vouched
  <2> QED
    BY <1>3, <1>6, <2>1 DEF VouchStep
<1>7. CASE PairingKind
  BY <1>2, <1>3, <1>4, <1>7 DEF PairingKind, PairDocsKind, SettleKind, CollectStep, PairIdle,
                                SettleStep
<1>8. CASE RecoverKind
  BY <1>3, <1>8 DEF RecoverKind, RecoverStep
<1>9. ~EmptyKind /\ ~TellKind
  BY DEF EmptyKind, EmptyStep, TellKind, DoorOK
<1> QED
  BY <1>2, <1>4, <1>5, <1>6, <1>7, <1>8, <1>9 DEF Step, Kinds, IdleStep, StartStep, RoundKind

\* DeviceDoc::set_gone: "a row marked gone stays gone", however rounds and
\* pairings carry tables around, as long as nobody uses `leave`.
THEOREM StaysShownOut ==
  ASSUME "leave" \notin Verbs
  PROVE  SpecNetwork \/ SpecLegacy => []ShownOutStaysOut
<1>1. InitNetwork => MeshInv /\ DoorOK
  BY InitNetworkIs DEF DoorOK, Unwritten
<1>2. InitLegacy => MeshInv /\ DoorOK
  BY InitLegacyIs DEF DoorOK, Unwritten
<1>3. MeshInv /\ DoorOK /\ [Next]_vars => (MeshInv /\ DoorOK)'
  BY MeshInvStep, DoorStep
<1>4. MeshInv /\ DoorOK => ShownOutStaysOut
  <2> SUFFICES ASSUME MeshInv, DoorOK, NEW m \in Machine, NEW x \in Machine, x \in door[m]
               PROVE  ~Gate(m, x)
    BY DEF ShownOutStaysOut
  <2>1. doc[m].gone[x].val = TRUE
    BY DEF DoorOK
  <2> QED
    BY <2>1 DEF Gate, All, GoneIds
<1> QED
  BY <1>1, <1>2, <1>3, <1>4, PTL DEF SpecNetwork, SpecLegacy

-----------------------------------------------------------------------------
(* A holder is on every roster of its root, where people neither leave nor *)
(* type the words in on a second machine.                                  *)

\* A register nobody has written marks nothing.
LEMMA UnwrittenIs == Unwritten.val # TRUE
<1>1. None # TRUE
  BY RosterAssumption
<1> QED
  BY <1>1 DEF Unwritten

\* Nobody marked a holder's row on its own table, a root has one holder, and
\* that machine is on every roster of the root.
HolderOK ==
  /\ leaving = {}
  /\ \A m \in Machine : doc[m].gone[m].val # TRUE
  /\ \A m, x \in Machine : key[m] # None /\ key[m] = key[x] => m = x
  /\ \A r \in AllRosters : \A m \in Machine : key[m] # None /\ r.root = key[m] => Admits(r, m)

\* A key is kept, lost, or new and of a root nobody had.
LEMMA KeysStep ==
  ASSUME MeshInv, Step, "recover" \notin Verbs
  PROVE  /\ \A m \in Machine : key'[m] \in {key[m], None} \/ key'[m] \notin born
         /\ \A m, x \in Machine :
              m # x => key'[m] \in {key[m], None} \/ key'[x] \in {key[x], None}
<1>1. CASE UNCHANGED key
  BY <1>1
<1>2. ASSUME NEW m \in Machine, NEW k, key' = [key EXCEPT ![m] = k],
             k \in {key[m], None} \/ k \notin born
      PROVE  /\ \A y \in Machine : key'[y] \in {key[y], None} \/ key'[y] \notin born
             /\ \A y, x \in Machine :
                  y # x => key'[y] \in {key[y], None} \/ key'[x] \in {key[x], None}
  <2>1. key'[m] = k /\ \A y \in Machine \ {m} : key'[y] = key[y]
    BY <1>2, Here
  <2> QED
    BY <1>2, <2>1
<1>3. CASE LocalStep \/ IdleStep
  <2>1. PICK m \in Machine : RootsStep(m)
    BY <1>3 DEF LocalStep, IdleStep
  <2> QED
    BY <1>1, <1>2, <2>1 DEF RootsStep, RootsSame, OwnTaken, Adopts, NewRoot
<1>4. CASE PairingKind
  BY <1>1, <1>2, <1>4 DEF PairingKind, PairDocsKind, SettleKind, CollectStep, PairIdle,
                          SettleStep, MergeStep, RootsSame
<1> QED
  BY <1>1, <1>3, <1>4 DEF Step, Kinds, RoundKind, MergeStep, RootsSame, StartStep, VouchStep,
                          TellKind, TellStep, EmptyKind, EmptyStep, RecoverKind

\* No machine marks its own row, or learns that it is marked.
LEMMA OwnMark ==
  ASSUME MeshInv, Step, HolderOK, "leave" \notin Verbs, "recover" \notin Verbs
  PROVE  \A m \in Machine : doc'[m].gone[m].val # TRUE
<1>1. CASE UNCHANGED doc
  BY <1>1 DEF HolderOK
<1>2. ASSUME NEW m \in Machine, Wrote(m), SelfKept(m)
      PROVE  \A x \in Machine : doc'[x].gone[x].val # TRUE
  BY <1>2 DEF HolderOK, Wrote, SelfKept
<1>3. ASSUME NEW a \in Machine, NEW b \in Machine, MergeStep(a, b), a \in All(doc[b])
      PROVE  \A x \in Machine : doc'[x].gone[x].val # TRUE
  <2>1. TableOK(doc[a]) /\ TableOK(doc[b]) /\ doc'[a] = Merge(doc[a], doc[b]) /\ Wrote(a)
    BY <1>3, Here DEF MergeStep
  <2>2. doc'[a].gone[a] \in {doc[a].gone[a], doc[b].gone[a]}
    BY <2>1, MergeIs
  <2>3. doc[b].gone[a].val # TRUE
    BY <1>3 DEF All, GoneIds
  <2> QED
    BY <2>1, <2>2, <2>3 DEF HolderOK, Wrote
<1>4. CASE LocalStep
  BY <1>2, <1>4 DEF LocalStep, Local
<1>5. CASE \E v \in vouch : VouchStep(v)
  <2>1. \A v \in vouch : v.to \in Machine
    BY DEF MeshInv, TypeOK, Vouched
  <2> QED
    BY <1>2, <1>5, <2>1 DEF VouchStep
<1>6. CASE PairingKind
  BY <1>1, <1>2, <1>3, <1>6 DEF PairingKind, PairDocsKind, SettleKind, CollectStep, PairIdle,
                                SettleStep
<1>7. CASE RoundKind
  BY <1>3, <1>7 DEF RoundKind, Gate
<1>8. ~EmptyKind /\ ~TellKind /\ ~RecoverKind
  BY DEF EmptyKind, EmptyStep, TellKind, RecoverKind, HolderOK
<1> QED
  BY <1>1, <1>4, <1>5, <1>6, <1>7, <1>8 DEF Step, Kinds, IdleStep, StartStep

\* HolderOK is inductive: each roster a holder signs names the holder.
LEMMA HolderStep ==
  ASSUME MeshInv, Step, HolderOK, "leave" \notin Verbs, "recover" \notin Verbs
  PROVE  HolderOK'
<1>1. leaving' = {}
  BY DEF Step, LeavingOnly, HolderOK
<1>2. \A m \in Machine : doc'[m].gone[m].val # TRUE
  BY OwnMark
<1>3. \A m \in Machine : key'[m] \in {key[m], None} \/ key'[m] \notin born
  BY KeysStep
<1>4. ASSUME NEW m \in Machine, NEW x \in Machine, key'[m] # None, key'[m] = key'[x]
      PROVE  m = x
  <2>1. \A y \in Machine : key[y] \in Maybe(born)
    BY DEF MeshInv, BornOK
  <2>2. m # x => key'[m] \in {key[m], None} \/ key'[x] \in {key[x], None}
    BY KeysStep
  <2>3. CASE key'[m] \in {key[m], None} /\ key'[x] \in {key[x], None}
    BY <1>4, <2>3 DEF HolderOK
  <2>4. CASE ~(key'[m] \in {key[m], None} /\ key'[x] \in {key[x], None})
    BY <1>3, <1>4, <2>1, <2>2, <2>4 DEF Maybe
  <2> QED
    BY <2>3, <2>4
<1>5. ASSUME NEW r \in AllRosters, NEW m \in Machine, key'[m] # None, r.root = key'[m]
      PROVE  Admits(r, m)
  <2>1. r.root \in born
    BY KnownTypes
  <2>2. key'[m] = key[m]
    BY <1>3, <1>5, <2>1
  <2> QED
    BY <1>5, <2>2 DEF HolderOK
<1>6. ASSUME NEW r \in AllRosters', NEW m \in Machine, key'[m] # None, r.root = key'[m]
      PROVE  Admits(r, m)
  <2>1. CASE r \in AllRosters
    BY <1>5, <1>6, <2>1
  <2>2. CASE \E x \in Machine : Signs(x, r)
    <3>1. PICK x \in Machine : Signs(x, r)
      BY <2>2
    <3>2. x = m
      BY <1>4, <1>6, <3>1 DEF Signs
    <3> QED
      BY <1>5, <3>1, <3>2 DEF Signs, HolderOK
  <2> QED
    BY <2>1, <2>2, RostersStep
<1> QED
  BY <1>1, <1>2, <1>4, <1>6 DEF HolderOK

\* bootstrap_trust: "A holder is always on its own roster", whatever order
\* openings, approvals, pairings, revocations and stops of root_init come in.
THEOREM HolderStaysOn ==
  ASSUME "leave" \notin Verbs, "recover" \notin Verbs
  PROVE  SpecNetwork \/ SpecLegacy => []HolderOnRoster
<1>1. InitNetwork => MeshInv /\ HolderOK
  <2> SUFFICES ASSUME InitNetwork PROVE MeshInv /\ HolderOK
    OBVIOUS
  <2>1. \A m \in Machine : key[m] # None => m = Holder
    BY DEF InitNetwork
  <2>2. MeshInv /\ leaving = {} /\ \A r \in AllRosters : r = First
    BY InitNetworkIs
  <2>3. \A m \in Machine : doc[m].gone[m].val # TRUE
    BY InitNetworkIs, UnwrittenIs
  <2>4. \A m \in Machine : key[m] # None => Admits(First, m)
    BY <2>1, FirstIs, HolderIs
  <2> QED
    BY <2>1, <2>2, <2>3, <2>4 DEF HolderOK
<1>2. InitLegacy => MeshInv /\ HolderOK
  <2> SUFFICES ASSUME InitLegacy PROVE MeshInv /\ HolderOK
    OBVIOUS
  <2>1. MeshInv /\ leaving = {} /\ AllRosters = {} /\ \A m \in Machine : key[m] = None
    BY InitLegacyIs
  <2>2. \A m \in Machine : doc[m].gone[m].val # TRUE
    BY InitLegacyIs, UnwrittenIs
  <2> QED
    BY <2>1, <2>2 DEF HolderOK
<1>3. MeshInv /\ HolderOK /\ [Next]_vars => (MeshInv /\ HolderOK)'
  BY MeshInvStep, HolderStep
<1>4. MeshInv /\ HolderOK => HolderOnRoster
  BY RosterOfIs DEF HolderOnRoster, HolderOK, HoldsRoot
<1> QED
  BY <1>1, <1>2, <1>3, <1>4, PTL DEF SpecNetwork, SpecLegacy

-----------------------------------------------------------------------------
(* One network whose root has one holder: nobody pairs, and nobody types   *)
(* the words in on a second machine.  Machines may leave, and begin        *)
(* networks of their own.                                                  *)

\* A machine that has a key goes by it or by nothing, and a root has one holder.
KeysOK ==
  /\ \A m \in Machine : key[m] # None => anchor[m] \in {key[m], None}
  /\ \A m, x \in Machine : key[m] # None /\ key[m] = key[x] => m = x

\* Whoever knows another machine, or is vouched for, is in the first network.
HomeOK ==
  /\ \A m \in Machine : Ids(doc[m]) \subseteq {m} \/ anchor[m] = FirstRoot
  /\ \A v \in vouch : v.roster.root = FirstRoot

\* The rosters a table shows are of its machine's root, and none that was
\* pruned is as new as the newest of them.
LiveOK == \A m \in Machine : \A e \in Live(doc[m]) : e.roster.root = anchor[m]
TopOK == \A m \in Machine : anchor[m] # None => TopLive(doc[m], anchor[m])

\* A holder has every roster of its root in its own table.
SignedOK ==
  \A m \in Machine : key[m] # None =>
    \A r \in AllRosters : r.root = key[m] => anchor[m] = key[m] /\ r \in RostersIn(doc[m])

\* Among all rosters, seq tells those of a root apart, and what one revokes
\* a later one revokes or certifies anew.
OnePerSeq == \A a, b \in AllRosters : a.root = b.root /\ a.seq = b.seq => a = b
Sticks(a, b) ==
  \A x \in a.revoked : x \in b.revoked \/ (x \in Certified(b) /\ b.certs[x] > a.seq)
Lineage == \A a, b \in AllRosters : a.root = b.root /\ a.seq < b.seq => Sticks(a, b)

NetOK ==
  /\ NetVerbs /\ KeysOK /\ HomeOK /\ LiveOK /\ TopOK /\ SignedOK /\ OnePerSeq /\ Lineage

NetKinds ==
  \/ LocalStep \/ IdleStep \/ RoundKind \/ StartStep \/ \E v \in vouch : VouchStep(v)
  \/ TellKind \/ EmptyKind

\* These are the kinds of step there are, and none starts a pairing.
LEMMA NetSteps ==
  ASSUME MeshInv, Step, NetOK
  PROVE  NetKinds /\ NetVerbs'
<1>1. NetKinds
  BY DEF Step, Kinds, NetKinds, NetOK, NetVerbs, RecoverKind
<1>2. UNCHANGED pairs
  BY <1>1 DEF NetKinds, LocalStep, IdleStep, RoundKind, StartStep, VouchStep, TellKind, TellStep,
              EmptyKind, EmptyStep
<1> QED
  BY <1>1, <1>2 DEF NetOK, NetVerbs

\* What a roster in a table is.
LEMMA TrustTypes ==
  ASSUME MeshInv, NEW m \in Machine, NEW e \in doc[m].trust
  PROVE  /\ e.roster \in AllRosters /\ e.roster \in SignedRoster
         /\ e.roster.root \in Root /\ e.roster.root # None /\ e.roster.root \in born
         /\ e.roster.seq \in Nat
<1>1. e.roster \in AllRosters
  BY Within DEF RostersIn
<1>2. e.roster \in SignedRoster /\ e.roster.root \in born
  BY <1>1, KnownTypes
<1> QED
  BY <1>1, <1>2, RosterAssumption DEF SignedRoster

\* A machine without an anchor shows no roster.
LEMMA NoneLive ==
  ASSUME MeshInv, NetOK, NEW m \in Machine, anchor[m] = None
  PROVE  Live(doc[m]) = {} /\ Adoptable(doc[m], m) = {}
<1>1. Live(doc[m]) = {}
  BY TrustTypes DEF NetOK, LiveOK, Live
<1> QED
  BY <1>1 DEF Adoptable, Rosters

\* The anchor a machine has after it took up or made a root suits its table.
LEMMA AnchorsTop ==
  ASSUME MeshInv, NetOK, NEW m \in Machine, RootsStep(m)
  PROVE  /\ \A y \in Machine \ {m} : anchor'[y] = anchor[y]
         /\ anchor[m] # None => RootsSame
         /\ anchor'[m] # None => TopLive(doc[m], anchor'[m])
         /\ \A e \in Live(doc[m]) : e.roster.root = anchor'[m]
         /\ key'[m] # None /\ anchor'[m] = key'[m] =>
              \A q \in AllRosters : q.root = key'[m] => q \in RostersIn(doc[m])
<1> DEFINE Good ==
    /\ \A y \in Machine \ {m} : anchor'[y] = anchor[y]
    /\ anchor[m] # None => RootsSame
    /\ anchor'[m] # None => TopLive(doc[m], anchor'[m])
    /\ \A e \in Live(doc[m]) : e.roster.root = anchor'[m]
    /\ key'[m] # None /\ anchor'[m] = key'[m] =>
         \A q \in AllRosters : q.root = key'[m] => q \in RostersIn(doc[m])
<1> SUFFICES Good
  OBVIOUS
<1>1. /\ anchor \in [Machine -> Maybe(Root)] /\ key \in [Machine -> Maybe(Root)]
  BY Here
<1>2. CASE RootsSame
  BY <1>2 DEF RootsSame, NetOK, TopOK, LiveOK, SignedOK
<1> DEFINE Takes(r) ==
             /\ anchor[m] = None /\ anchor'[m] \in {r, None} /\ key'[m] \in {r, None}
             /\ \A y \in Machine \ {m} : anchor'[y] = anchor[y]
             /\ \A q \in AllRosters : q.root # r
<1>3. ASSUME NEW r, Takes(r)
      PROVE  Good
  <2>1. \A e \in doc[m].trust : e.roster.root # r
    BY <1>3, TrustTypes
  <2>2. TopLive(doc[m], r)
    BY <2>1 DEF TopLive
  <2> QED
    BY <1>3, <2>2, NoneLive
<1> HIDE DEF Good
<1>4. CASE OwnTaken(m)
  <2>1. \A q \in AllRosters : q.root # key[m]
    BY <1>4 DEF OwnTaken, NetOK, SignedOK
  <2>2. anchor'[m] = key[m] /\ key'[m] = key[m] /\ \A y \in Machine \ {m} : anchor'[y] = anchor[y]
    BY <1>1, <1>4 DEF OwnTaken
  <2> QED
    BY <1>3, <1>4, <2>1, <2>2 DEF OwnTaken
<1>5. ~Adopts(m)
  BY NoneLive DEF Adopts
<1>6. CASE NewRoot(m)
  <2>1. PICK r \in Root \ born : /\ key' = [key EXCEPT ![m] = r]
                                 /\ anchor' \in {anchor, [anchor EXCEPT ![m] = r]}
    BY <1>6 DEF NewRoot
  <2>2. anchor[m] = None
    BY <1>6 DEF NewRoot
  <2>3. \A q \in AllRosters : q.root # r
    BY <2>1, KnownTypes
  <2>4. anchor'[m] \in {r, None} /\ \A y \in Machine \ {m} : anchor'[y] = anchor[y]
    BY <1>1, <2>1, <2>2
  <2>5. key'[m] \in {r, None}
    BY <1>1, <2>1
  <2>6. Takes(r)
    BY <2>2, <2>3, <2>4, <2>5
  <2> HIDE DEF Takes
  <2> QED
    BY <1>3, <2>6
<1> QED
  BY <1>2, <1>4, <1>5, <1>6 DEF RootsStep

\* In a round both machines are of the first network.
LEMMA RoundHome ==
  ASSUME MeshInv, NetOK, NEW a \in Machine, NEW b \in Machine, a # b, Gate(a, b)
  PROVE  anchor[a] = FirstRoot
  BY DEF Gate, All, NetOK, HomeOK

\* No roster leaves a table altogether, and anchors stay unless the machine
\* leaves or had none.
LEMMA NetGrows ==
  ASSUME MeshInv, NetOK, NetKinds
  PROVE  /\ \A m \in Machine : RostersIn(doc[m]) \subseteq RostersIn(doc'[m])
         /\ \A m \in Machine : HoldsRoot(m) => anchor'[m] = anchor[m]
         /\ \A m \in Machine : anchor'[m] = anchor[m] \/ anchor[m] = None \/ anchor'[m] = None
<1>0. anchor \in [Machine -> Maybe(Root)]
  BY DEF MeshInv, TypeOK, RootsOK
<1>a. \A m \in Machine : HoldsRoot(m) => anchor[m] # None
  BY DEF HoldsRoot
<1>1. ASSUME NEW m \in Machine, RootsStep(m)
      PROVE  \A x \in Machine : anchor'[x] = anchor[x] \/ anchor[x] = None
  BY <1>1, AnchorsTop DEF RootsSame
<1>2. CASE LocalStep
  <2>1. PICK m \in Machine : Local(m) /\ RootsStep(m)
    BY <1>2 DEF LocalStep
  <2>2. RostersIn(doc[m]) \subseteq RostersIn(doc'[m])
    <3>1. CASE TrustKept(m)
      BY <3>1, RostersOfSame DEF TrustKept
    <3>2. CASE SignedAt(m)
      BY <3>2 DEF SignedAt, StoredIn
    <3> QED
      BY <2>1, <3>1, <3>2 DEF Local
  <2>3. \A x \in Machine \ {m} : doc'[x] = doc[x]
    BY <2>1 DEF Local, Wrote
  <2>4. \A x \in Machine : RostersIn(doc[x]) \subseteq RostersIn(doc'[x])
    BY <2>2, <2>3
  <2> QED
    BY <1>1, <1>a, <2>1, <2>4
<1>3. CASE IdleStep
  BY <1>1, <1>a, <1>3 DEF IdleStep
<1>4. CASE RoundKind
  <2>1. PICK a \in Machine, b \in Machine : MergeStep(a, b)
    BY <1>4 DEF RoundKind
  <2>2. TableOK(doc[a]) /\ TableOK(doc[b]) /\ doc'[a] = Merge(doc[a], doc[b]) /\ RootsSame
    BY <2>1, Here DEF MergeStep
  <2>3. RostersIn(doc[a]) \subseteq RostersIn(doc'[a])
    BY <2>2, MergeIs
  <2>4. \A x \in Machine \ {a} : doc'[x] = doc[x]
    BY <2>1 DEF MergeStep, Wrote
  <2>5. \A x \in Machine : RostersIn(doc[x]) \subseteq RostersIn(doc'[x])
    BY <2>3, <2>4
  <2> QED
    BY <2>2, <2>5 DEF RootsSame
<1>5. CASE StartStep
  BY <1>5 DEF StartStep
<1>6. CASE \E v \in vouch : VouchStep(v)
  <2>1. PICK v \in vouch : VouchStep(v)
    BY <1>6
  <2>2. RostersIn(doc[v.to]) \subseteq RostersIn(doc'[v.to])
    BY <2>1 DEF VouchStep, StoredIn
  <2>3. \A x \in Machine \ {v.to} : doc'[x] = doc[x]
    BY <2>1 DEF VouchStep, Wrote
  <2>4. \A x \in Machine : RostersIn(doc[x]) \subseteq RostersIn(doc'[x])
    BY <2>2, <2>3
  <2> QED
    BY <2>1, <2>4 DEF VouchStep, RootsSame
<1>7. CASE TellKind
  <2>1. PICK m \in Machine : TellStep(m)
    BY <1>7 DEF TellKind
  <2>2. RostersIn(doc[m]) = RostersIn(doc'[m])
    BY <2>1, RostersOfSame DEF TellStep, TrustKept
  <2>3. \A x \in Machine : RostersIn(doc[x]) \subseteq RostersIn(doc'[x])
    BY <2>1, <2>2 DEF TellStep, Wrote
  <2> QED
    BY <2>1, <2>3 DEF TellStep, RootsSame
<1>8. CASE EmptyKind
  <2>1. PICK m \in Machine : EmptyStep(m)
    BY <1>8 DEF EmptyKind
  <2>2. \A x \in Machine : RostersIn(doc[x]) \subseteq RostersIn(doc'[x])
    BY <2>1 DEF EmptyStep
  <2>3. \/ UNCHANGED anchor
        \/ anchor' = [anchor EXCEPT ![m] = None] /\ ~HoldsRoot(m)
    BY <2>1 DEF EmptyStep
  <2>4. CASE UNCHANGED anchor
    BY <2>2, <2>4
  <2>5. CASE anchor' = [anchor EXCEPT ![m] = None] /\ ~HoldsRoot(m)
    <3>1. anchor'[m] = None /\ \A x \in Machine \ {m} : anchor'[x] = anchor[x]
      BY <1>0, <2>5
    <3> QED
      BY <2>2, <2>5, <3>1
  <2> QED
    BY <2>3, <2>4, <2>5
<1> QED
  BY <1>2, <1>3, <1>4, <1>5, <1>6, <1>7, <1>8 DEF NetKinds

\* Two machines never come to hold the same key.
LEMMA KeysNext ==
  ASSUME MeshInv, Step, NetOK
  PROVE  KeysOK'
<1>1. NetKinds
  BY NetSteps
<1>2. /\ anchor \in [Machine -> Maybe(Root)] /\ key \in [Machine -> Maybe(Root)]
      /\ \A m \in Machine : key[m] \in Maybe(born)
  BY DEF MeshInv, TypeOK, RootsOK, BornOK
<1>3. /\ \A m \in Machine : key'[m] \in {key[m], None} \/ key'[m] \notin born
      /\ \A m, x \in Machine :
           m # x => key'[m] \in {key[m], None} \/ key'[x] \in {key[x], None}
  BY KeysStep DEF NetOK, NetVerbs
<1>4. \A m, x \in Machine : key'[m] # None /\ key'[m] = key'[x] => m = x
  <2> SUFFICES ASSUME NEW m \in Machine, NEW x \in Machine, key'[m] # None, key'[m] = key'[x], m # x
               PROVE  FALSE
    OBVIOUS
  <2>1. CASE key'[m] \in {key[m], None} /\ key'[x] \in {key[x], None}
    BY <2>1 DEF NetOK, KeysOK
  <2>2. CASE key'[m] \notin {key[m], None}
    BY <1>2, <1>3, <2>2 DEF Maybe
  <2>3. CASE key'[x] \notin {key[x], None}
    BY <1>2, <1>3, <2>3 DEF Maybe
  <2> QED
    BY <2>1, <2>2, <2>3
<1> DEFINE P == \A m \in Machine : key'[m] # None => anchor'[m] \in {key'[m], None}
<1>5. P
  <2>1. CASE RootsSame
    BY <2>1 DEF RootsSame, NetOK, KeysOK
  <2>2. ASSUME NEW m \in Machine, RootsStep(m)
        PROVE  P
    <3>1. CASE OwnTaken(m)
      BY <1>2, <3>1 DEF OwnTaken, NetOK, KeysOK
    <3>2. CASE Adopts(m)
      BY <3>2, NoneLive DEF Adopts
    <3>3. CASE NewRoot(m)
      BY <1>2, <3>3 DEF NewRoot, NetOK, KeysOK
    <3> QED
      BY <2>1, <2>2, <3>1, <3>2, <3>3 DEF RootsStep
  <2>3. ASSUME NEW m \in Machine, EmptyStep(m)
        PROVE  P
    BY <1>2, <2>3 DEF EmptyStep, NetOK, KeysOK
  <2>4. CASE LocalStep \/ IdleStep
    BY <2>2, <2>4 DEF LocalStep, IdleStep
  <2> HIDE DEF P
  <2>5. CASE StartStep
    BY <2>1, <2>5 DEF StartStep, RootsSame
  <2> QED
    BY <1>1, <2>1, <2>3, <2>4, <2>5
       DEF NetKinds, RoundKind, MergeStep, VouchStep, TellKind, TellStep, EmptyKind
<1> QED
  BY <1>4, <1>5 DEF KeysOK

\* A root's rosters stay at its holder, where they were signed.
LEMMA HomeNext ==
  ASSUME MeshInv, Step, NetOK
  PROVE  HomeOK'
<1>1. NetKinds
  BY NetSteps
<1>2. FirstRoot # None /\ anchor \in [Machine -> Maybe(Root)]
  BY FirstRootIs DEF MeshInv, TypeOK, RootsOK
<1> DEFINE Home == \A m \in Machine : Ids(doc'[m]) \subseteq {m} \/ anchor'[m] = FirstRoot
           Vouches == \A v \in vouch' : v.roster.root = FirstRoot
<1>3. ASSUME vouch' \subseteq vouch PROVE Vouches
  BY <1>3 DEF NetOK, HomeOK
<1>4. ASSUME NEW m \in Machine, RowsKept(m), \A x \in Machine \ {m} : doc'[x] = doc[x],
             \A x \in Machine : anchor[x] = FirstRoot => anchor'[x] = anchor[x]
      PROVE  Home
  BY <1>4 DEF RowsKept, NetOK, HomeOK
<1>5. ASSUME NEW m \in Machine, RootsStep(m)
      PROVE  \A x \in Machine : anchor[x] = FirstRoot => anchor'[x] = anchor[x]
  BY <1>2, <1>5, AnchorsTop DEF RootsSame
<1>6. CASE LocalStep
  <2>1. PICK m \in Machine : Local(m) /\ RootsStep(m) /\ UNCHANGED vouch
    BY <1>6 DEF LocalStep
  <2>2. Home
    BY <1>4, <1>5, <2>1 DEF Local, Wrote
  <2>3. Vouches
    BY <1>3, <2>1
  <2> QED
    BY <2>2, <2>3 DEF HomeOK
<1>7. CASE IdleStep
  <2>1. Home
    BY <1>5, <1>7 DEF IdleStep, NetOK, HomeOK
  <2>2. Vouches
    BY <1>3, <1>7 DEF IdleStep
  <2> QED
    BY <2>1, <2>2 DEF HomeOK
<1>8. CASE RoundKind
  <2>1. PICK a \in Machine, b \in Machine : MergeStep(a, b) /\ Gate(a, b)
    BY <1>8 DEF RoundKind
  <2>2. anchor[a] = FirstRoot
    BY <2>1, RoundHome DEF MergeStep
  <2>3. UNCHANGED <<anchor, vouch>> /\ \A x \in Machine \ {a} : doc'[x] = doc[x]
    BY <2>1 DEF MergeStep, RootsSame, Wrote
  <2> QED
    BY <2>2, <2>3 DEF NetOK, HomeOK
<1>9. CASE StartStep
  <2>1. PICK m \in Machine, x \in Machine :
          /\ m # x /\ x \in All(doc[m]) /\ RosterOf(m) # None
          /\ vouch' = vouch \cup {[from |-> m, to |-> x, roster |-> RosterOf(m)]}
    BY <1>9 DEF StartStep
  <2>2. anchor[m] = FirstRoot
    BY <2>1 DEF All, NetOK, HomeOK
  <2>3. RosterOf(m).root = FirstRoot
    BY <2>1, <2>2, RosterOfIs
  <2>4. Vouches
    BY <2>1, <2>3 DEF NetOK, HomeOK
  <2> QED
    BY <1>9, <2>4 DEF StartStep, NetOK, HomeOK
<1>10. CASE \E v \in vouch : VouchStep(v)
  <2>1. PICK v \in vouch : VouchStep(v)
    BY <1>10
  <2>2. anchor[v.to] = FirstRoot
    BY <2>1 DEF VouchStep, NetOK, HomeOK
  <2>3. UNCHANGED anchor /\ vouch' \subseteq vouch /\ \A x \in Machine \ {v.to} : doc'[x] = doc[x]
    BY <2>1 DEF VouchStep, RootsSame, Wrote
  <2> QED
    BY <1>3, <2>2, <2>3 DEF NetOK, HomeOK
<1>11. CASE TellKind
  <2>1. PICK m \in Machine : TellStep(m)
    BY <1>11 DEF TellKind
  <2>2. UNCHANGED <<anchor, vouch>> /\ RowsKept(m) /\ \A x \in Machine \ {m} : doc'[x] = doc[x]
    BY <2>1 DEF TellStep, RootsSame, Wrote
  <2>3. Home
    BY <1>4, <2>2
  <2> QED
    BY <1>3, <2>2, <2>3 DEF HomeOK
<1>12. CASE EmptyKind
  <2>1. PICK m \in Machine : EmptyStep(m)
    BY <1>12 DEF EmptyKind
  <2>2. /\ Ids(doc'[m]) \subseteq {m} /\ UNCHANGED vouch
        /\ \A x \in Machine \ {m} : doc'[x] = doc[x]
        /\ anchor' \in {anchor, [anchor EXCEPT ![m] = None]}
    BY <2>1 DEF EmptyStep
  <2>3. \A x \in Machine \ {m} : anchor'[x] = anchor[x]
    BY <1>2, <2>2
  <2> QED
    BY <2>2, <2>3 DEF NetOK, HomeOK
<1> QED
  BY <1>1, <1>6, <1>7, <1>8, <1>9, <1>10, <1>11, <1>12 DEF NetKinds

\* The roster that NewestIn finds on top of a table follows every other.
LEMMA OnTop ==
  ASSUME MeshInv, NEW m \in Machine, NEW root, TopLive(doc[m], root),
         NEW q \in RostersIn(doc[m]), q.root = root
  PROVE  LET n == NewestIn(doc[m], root)
         IN  /\ n # None /\ n \in RostersIn(doc[m]) /\ n.root = root /\ n.seq >= q.seq
             /\ n \in AllRosters /\ n \in SignedRoster /\ n.seq \in Nat
<1> DEFINE n == NewestIn(doc[m], root)
<1>1. TableOK(doc[m]) /\ Differ(RostersIn(doc[m]), root)
  BY Here
<1>2. n = NewestUnder(Rosters(doc[m]), root)
  BY DEF NewestIn
<1>3. n # None /\ n \in RostersIn(doc[m]) /\ n.root = root /\ n.seq >= q.seq
  BY <1>1, <1>2, NewestOnTop
<1> HIDE DEF n
<1>4. n \in AllRosters
  BY <1>3, Within
<1>5. n \in SignedRoster /\ n.seq \in Nat
  BY <1>4, KnownTypes DEF SignedRoster
<1> QED
  BY <1>3, <1>4, <1>5 DEF n

\* What a table shows is not newer than what NewestIn finds.
LEMMA LiveBelow ==
  ASSUME MeshInv, NEW m \in Machine, NEW root, NEW e \in Live(doc[m]), e.roster.root = root
  PROVE  NewestIn(doc[m], root) # None /\ e.roster.seq <= NewestIn(doc[m], root).seq
<1>1. TableOK(doc[m]) /\ Differ(RostersIn(doc[m]), root)
  BY Here
<1> QED
  BY <1>1, NewestUnderIs DEF NewestIn

\* A holder that signs has all the rosters of its root, the newest on top.
LEMMA SigningHas ==
  ASSUME MeshInv, NetOK, NEW m \in Machine, NEW r, Signing(m, r)
  PROVE  /\ TopLive(doc[m], key'[m]) /\ r \in SignedRoster /\ r.root = key'[m]
         /\ \A q \in AllRosters : q.root = key'[m] => q \in RostersIn(doc[m])
         /\ \A e \in Live(doc[m]) : e.roster.root = key'[m] /\ e.roster.seq <= r.seq
<1>1. /\ TopLive(doc[m], key'[m])
      /\ \A q \in AllRosters : q.root = key'[m] => q \in RostersIn(doc[m])
      /\ \A e \in Live(doc[m]) : e.roster.root = key'[m]
  BY AnchorsTop DEF Signing
<1>2. NextRoster(doc[m], key'[m], r)
  BY DEF Signing
<1>3. ASSUME NEW e \in Live(doc[m])
      PROVE  e.roster.seq <= r.seq
  <2>1. e \in doc[m].trust /\ e.roster \in RostersIn(doc[m]) /\ e.roster.root = key'[m]
    BY <1>1 DEF Live, RostersIn
  <2>2. NewestIn(doc[m], key'[m]) # None /\ e.roster.seq <= NewestIn(doc[m], key'[m]).seq
    BY <2>1, LiveBelow
  <2>3. r.seq = NewestIn(doc[m], key'[m]).seq + 1
    BY <1>2, <2>2 DEF NextRoster, Follows
  <2>4. NewestIn(doc[m], key'[m]).seq \in Nat /\ e.roster.seq \in Nat
    BY <1>1, <2>1, OnTop, TrustTypes
  <2> QED
    BY <2>2, <2>3, <2>4
<1> QED
  BY <1>1, <1>2, <1>3 DEF NextRoster

\* A table after a roster of the machine's root was stored in it.
LEMMA TopStored ==
  ASSUME MeshInv, DocsOK', NEW m \in Machine, NEW r \in SignedRoster,
         StoredIn(doc[m], doc'[m], r), TopLive(doc[m], r.root),
         \A e \in Live(doc[m]) : e.roster.root = r.root /\ e.roster.seq <= r.seq
  PROVE  /\ TopLive(doc'[m], r.root) /\ \A e \in Live(doc'[m]) : e.roster.root = r.root
<1>1. TableOK(doc[m]) /\ TableOK(doc'[m])
  BY Here DEF DocsOK
<1>2. TopLive(doc'[m], r.root)
  BY <1>1, TopStore
<1>3. \A e \in Live(doc'[m]) : e \in doc[m].trust \/ e.roster = r
  BY DEF StoredIn, Live
<1> QED
  BY <1>2, <1>3 DEF Live

\* TopFor(m): what LiveOK and TopOK say of one machine.
TopFor(m) ==
  /\ \A e \in Live(doc[m]) : e.roster.root = anchor[m]
  /\ anchor[m] # None => TopLive(doc[m], anchor[m])

\* The roster on show stays the newest of its root, for every machine.
LEMMA TopNext ==
  ASSUME MeshInv, Step, NetOK, DocsOK'
  PROVE  LiveOK' /\ TopOK'
<1>1. NetKinds
  BY NetSteps
<1>2. \A m \in Machine : TopFor(m)
  BY DEF NetOK, LiveOK, TopOK, TopFor
<1> SUFFICES \A m \in Machine : TopFor(m)'
  BY DEF LiveOK, TopOK, TopFor
<1>3. ASSUME NEW m \in Machine, doc'[m].trust = doc[m].trust, anchor'[m] = anchor[m]
      PROVE  TopFor(m)'
  <2>1. Live(doc'[m]) = Live(doc[m])
    BY <1>3, RostersOfSame
  <2> QED
    BY <1>2, <1>3, <2>1 DEF TopFor, TopLive
<1>4. ASSUME NEW m \in Machine, TopFor(m)',
             \A x \in Machine \ {m} : doc'[x] = doc[x] /\ anchor'[x] = anchor[x]
      PROVE  \A x \in Machine : TopFor(x)'
  BY <1>3, <1>4
<1>5. ASSUME NEW m \in Machine, RootsStep(m), doc'[m].trust = doc[m].trust
      PROVE  TopFor(m)'
  <2>1. Live(doc'[m]) = Live(doc[m])
    BY <1>5, RostersOfSame
  <2>2. /\ anchor'[m] # None => TopLive(doc[m], anchor'[m])
        /\ \A e \in Live(doc[m]) : e.roster.root = anchor'[m]
    BY <1>5, AnchorsTop
  <2> QED
    BY <1>5, <2>1, <2>2 DEF TopFor, TopLive
<1>6. CASE LocalStep
  <2>1. PICK m \in Machine : Local(m) /\ RootsStep(m)
    BY <1>6 DEF LocalStep
  <2>2. ASSUME TrustKept(m) PROVE TopFor(m)'
    BY <1>5, <2>1, <2>2 DEF TrustKept
  <2>3. ASSUME SignedAt(m) PROVE TopFor(m)'
    <3>1. PICK r : Signing(m, r)
      BY <2>1, <2>3 DEF SignedAt, Signing
    <3>2. r \in SignedRoster /\ r.root = key'[m] /\ anchor'[m] = r.root
          /\ StoredIn(doc[m], doc'[m], r)
      BY <3>1, SigningHas DEF Signing
    <3>3. TopLive(doc'[m], r.root) /\ \A e \in Live(doc'[m]) : e.roster.root = r.root
      BY <3>1, <3>2, SigningHas, TopStored
    <3> QED
      BY <3>2, <3>3 DEF TopFor
  <2>4. TopFor(m)'
    BY <2>1, <2>2, <2>3 DEF Local
  <2>5. \A x \in Machine \ {m} : doc'[x] = doc[x] /\ anchor'[x] = anchor[x]
    BY <2>1, AnchorsTop DEF Local, Wrote
  <2> QED
    BY <1>4, <2>4, <2>5
<1>7. CASE IdleStep
  <2>1. PICK m \in Machine : RootsStep(m)
    BY <1>7 DEF IdleStep
  <2>2. UNCHANGED doc
    BY <1>7 DEF IdleStep
  <2> QED
    BY <1>4, <1>5, <2>1, <2>2, AnchorsTop
<1>8. CASE RoundKind
  <2>1. PICK a \in Machine, b \in Machine : MergeStep(a, b) /\ Gate(a, b) /\ Gate(b, a)
    BY <1>8 DEF RoundKind
  <2>2. anchor[a] = FirstRoot /\ anchor[b] = FirstRoot /\ FirstRoot # None
    BY <2>1, RoundHome, FirstRootIs DEF MergeStep
  <2>3. TableOK(doc[a]) /\ TableOK(doc[b]) /\ doc'[a] = Merge(doc[a], doc[b]) /\ UNCHANGED anchor
    BY <2>1, Here DEF MergeStep, RootsSame
  <2>4. TopLive(doc[a], FirstRoot) /\ TopLive(doc[b], FirstRoot)
    BY <1>2, <2>2 DEF TopFor
  <2>5. TopLive(doc'[a], FirstRoot)
    BY <2>3, <2>4, TopMerge
  <2>6. doc'[a].trust \subseteq doc[a].trust \cup doc[b].trust
    BY <2>3, MergeIs
  <2>7. \A e \in Live(doc'[a]) : e.roster.root = FirstRoot
    BY <1>2, <2>2, <2>6 DEF Live, TopFor
  <2>8. TopFor(a)'
    BY <2>2, <2>3, <2>5, <2>7 DEF TopFor
  <2> QED
    BY <1>4, <2>1, <2>3, <2>8 DEF MergeStep, Wrote
<1>9. CASE StartStep
  BY <1>3, <1>9 DEF StartStep
<1>10. CASE \E v \in vouch : VouchStep(v)
  <2>1. PICK v \in vouch : VouchStep(v)
    BY <1>10
  <2> DEFINE x == v.to
             r == v.roster
  <2>2. x \in Machine /\ r \in SignedRoster /\ r.seq \in Nat /\ r.root # None
    BY RosterAssumption DEF MeshInv, TypeOK, Vouched, SignedRoster
  <2>3. /\ anchor[x] = r.root /\ UNCHANGED anchor /\ StoredIn(doc[x], doc'[x], r)
        /\ RosterOf(x) # None => ~(RosterOf(x).seq > r.seq)
        /\ \A y \in Machine \ {x} : doc'[y] = doc[y]
    BY <2>1 DEF VouchStep, RootsSame, Wrote
  <2> HIDE DEF x, r
  <2>4. ASSUME NEW e \in Live(doc[x])
        PROVE  e.roster.root = r.root /\ e.roster.seq <= r.seq
    <3>1. e \in doc[x].trust /\ e.roster.root = r.root
      BY <1>2, <2>2, <2>3 DEF TopFor, Live
    <3>2. RosterOf(x) = NewestIn(doc[x], r.root)
      BY <2>2, <2>3 DEF RosterOf
    <3>3. RosterOf(x) # None /\ e.roster.seq <= RosterOf(x).seq
      BY <2>2, <3>1, <3>2, LiveBelow
    <3>4. RosterOf(x).seq \in Nat /\ e.roster.seq \in Nat
      BY <2>2, <3>1, <3>3, RosterOfIs, TrustTypes DEF SignedRoster
    <3> QED
      BY <2>2, <2>3, <3>1, <3>3, <3>4
  <2>5. TopLive(doc[x], r.root)
    BY <1>2, <2>2, <2>3 DEF TopFor
  <2>6. TopLive(doc'[x], r.root) /\ \A e \in Live(doc'[x]) : e.roster.root = r.root
    BY <2>2, <2>3, <2>4, <2>5, TopStored
  <2>7. TopFor(x)'
    BY <2>3, <2>6 DEF TopFor
  <2> QED
    BY <1>4, <2>2, <2>3, <2>7
<1>11. CASE TellKind
  <2>1. PICK m \in Machine : TellStep(m)
    BY <1>11 DEF TellKind
  <2>2. TopFor(m)'
    BY <1>3, <2>1 DEF TellStep, TrustKept, RootsSame
  <2> QED
    BY <1>4, <2>1, <2>2 DEF TellStep, Wrote, RootsSame
<1>12. CASE EmptyKind
  <2>1. PICK m \in Machine : EmptyStep(m)
    BY <1>12 DEF EmptyKind
  <2>2. anchor \in [Machine -> Maybe(Root)]
    BY DEF MeshInv, TypeOK, RootsOK
  <2>3. \/ TrustKept(m) /\ UNCHANGED anchor
        \/ Live(doc'[m]) = {} /\ anchor' = [anchor EXCEPT ![m] = None]
    BY <2>1 DEF EmptyStep
  <2>4. CASE TrustKept(m) /\ UNCHANGED anchor
    <3>1. TopFor(m)'
      BY <1>3, <2>4 DEF TrustKept
    <3> QED
      BY <1>4, <2>1, <2>4, <3>1 DEF EmptyStep
  <2>5. CASE Live(doc'[m]) = {} /\ anchor' = [anchor EXCEPT ![m] = None]
    <3>1. anchor'[m] = None /\ \A x \in Machine \ {m} : anchor'[x] = anchor[x]
      BY <2>2, <2>5
    <3>2. TopFor(m)'
      BY <2>5, <3>1 DEF TopFor
    <3> QED
      BY <1>4, <2>1, <3>1, <3>2 DEF EmptyStep
  <2> QED
    BY <2>3, <2>4, <2>5
<1> QED
  BY <1>1, <1>6, <1>7, <1>8, <1>9, <1>10, <1>11, <1>12 DEF NetKinds

\* A roster nobody had is one that a holder signs now.
LEMMA NetNew ==
  ASSUME MeshInv, Step, NetOK, NEW r \in AllRosters', r \notin AllRosters
  PROVE  \E m \in Machine : Signing(m, r)
  BY RostersStep DEF Signs, NetOK

\* Every roster in use stays one the holder has signed.
LEMMA SignedNext ==
  ASSUME MeshInv, Step, NetOK
  PROVE  SignedOK'
<1>1. NetKinds /\ KeysOK'
  BY NetSteps, KeysNext
<1> SUFFICES ASSUME NEW m \in Machine, key'[m] # None, NEW r \in AllRosters', r.root = key'[m]
             PROVE  anchor'[m] = key'[m] /\ r \in RostersIn(doc'[m])
  BY DEF SignedOK
<1>2. CASE r \in AllRosters
  <2>1. r.root \in born
    BY <1>2, KnownTypes
  <2>2. key'[m] = key[m]
    BY <2>1, KeysStep DEF NetOK, NetVerbs
  <2>3. anchor[m] = key[m] /\ r \in RostersIn(doc[m])
    BY <1>2, <2>2 DEF NetOK, SignedOK
  <2>4. HoldsRoot(m)
    BY <2>2, <2>3 DEF HoldsRoot
  <2> QED
    BY <1>1, <2>2, <2>3, <2>4, NetGrows
<1>3. CASE r \notin AllRosters
  <2>1. PICK x \in Machine : Signing(x, r)
    BY <1>3, NetNew
  <2>2. x = m
    BY <1>1, <2>1 DEF Signing, NextRoster, KeysOK
  <2> QED
    BY <2>1, <2>2 DEF Signing, StoredIn
<1> QED
  BY <1>2, <1>3

\* The seqs at which a roster certifies are numbers.
LEMMA CertSeqs ==
  ASSUME NEW r \in SignedRoster, NEW x \in Certified(r)
  PROVE  r.certs[x] \in Nat
<1>1. r.certs \in CertMap
  BY SignedRosterIs
<1>2. r.certs \in [DOMAIN r.certs -> Nat]
  BY <1>1, CertMapIs
<1> QED
  BY <1>2 DEF Certified

\* A roster signed now is newer than all of its root, and keeps to what they
\* revoke.
LEMMA SigningLast ==
  ASSUME MeshInv, NetOK, NEW m \in Machine, NEW r, Signing(m, r),
         NEW q \in AllRosters, q.root = r.root
  PROVE  q.seq < r.seq /\ Sticks(q, r)
<1>1. /\ TopLive(doc[m], key'[m]) /\ r \in SignedRoster /\ r.root = key'[m]
      /\ q \in RostersIn(doc[m])
  BY SigningHas
<1> DEFINE n == NewestIn(doc[m], key'[m])
<1>2. /\ n # None /\ n.root = key'[m] /\ n.seq >= q.seq /\ n \in AllRosters /\ n \in SignedRoster
      /\ n.seq \in Nat
  BY <1>1, OnTop
<1>3. Follows(n, r)
  BY <1>2 DEF Signing, NextRoster
<1> HIDE DEF n
<1>4. q \in SignedRoster /\ q.seq \in Nat
  BY KnownTypes DEF SignedRoster
<1>5. r.seq = n.seq + 1
  BY <1>3 DEF Follows
<1>6. q.seq < r.seq
  BY <1>2, <1>4, <1>5
<1>7. ASSUME NEW x \in q.revoked
      PROVE  x \in r.revoked \/ (x \in Certified(r) /\ r.certs[x] > q.seq)
  <2>1. CASE x \in n.revoked
    BY <1>3, <1>6, <2>1 DEF Follows
  <2>2. CASE x \notin n.revoked
    <3>1. q.seq < n.seq
      <4>1. q.seq # n.seq
        BY <1>1, <1>2, <1>7, <2>2 DEF NetOK, OnePerSeq
      <4> QED
        BY <1>2, <1>4, <4>1
    <3>2. x \in Certified(n) /\ n.certs[x] > q.seq
      BY <1>1, <1>2, <1>7, <2>2, <3>1 DEF NetOK, Lineage, Sticks
    <3>3. x \in r.revoked \/ (x \in Certified(r) /\ r.certs[x] \in {n.certs[x], r.seq})
      BY <1>3, <3>2 DEF Follows
    <3> QED
      BY <1>6, <3>2, <3>3
  <2> QED
    BY <2>1, <2>2
<1> QED
  BY <1>6, <1>7 DEF Sticks

\* In one step at most one roster of a root is signed.
LEMMA OneSigned ==
  ASSUME MeshInv, Step, NetOK, NEW a, NEW b, NEW m \in Machine, NEW x \in Machine,
         Signing(m, a), Signing(x, b), a.root = b.root, b \notin AllRosters
  PROVE  a = b
<1>1. KeysOK'
  BY KeysNext
<1>2. x = m
  BY <1>1 DEF Signing, NextRoster, KeysOK
<1>3. RostersIn(doc[m]) \cup {a} = RostersIn(doc[m]) \cup {b}
  BY <1>2 DEF Signing, StoredIn
<1>4. b \notin RostersIn(doc[m])
  BY Within
<1> QED
  BY <1>3, <1>4

\* One number keeps one roster, and a revocation passes to each successor.
LEMMA SeqNext ==
  ASSUME MeshInv, Step, NetOK
  PROVE  OnePerSeq' /\ Lineage'
<1> SUFFICES ASSUME NEW a \in AllRosters', NEW b \in AllRosters', a.root = b.root
             PROVE  (a.seq = b.seq => a = b) /\ (a.seq < b.seq => Sticks(a, b))
  BY DEF OnePerSeq, Lineage, Sticks
<1>1. CASE a \in AllRosters /\ b \in AllRosters
  BY <1>1 DEF NetOK, OnePerSeq, Lineage
<1>2. ASSUME NEW r \in AllRosters', r \notin AllRosters
      PROVE  r.seq \in Nat
  <2>1. PICK m \in Machine : Signing(m, r)
    BY <1>2, NetNew
  <2> QED
    BY <2>1, SigningHas DEF SignedRoster
<1>3. ASSUME NEW r \in AllRosters
      PROVE  r.seq \in Nat
  BY KnownTypes DEF SignedRoster
<1>4. CASE a \in AllRosters /\ b \notin AllRosters
  <2>1. PICK m \in Machine : Signing(m, b)
    BY <1>4, NetNew
  <2>2. a.seq < b.seq /\ Sticks(a, b)
    BY <1>4, <2>1, SigningLast
  <2> QED
    BY <1>2, <1>3, <1>4, <2>2
<1>5. CASE a \notin AllRosters /\ b \in AllRosters
  <2>1. PICK m \in Machine : Signing(m, a)
    BY <1>5, NetNew
  <2>2. b.seq < a.seq
    BY <1>5, <2>1, SigningLast
  <2>3. a.seq \in Nat /\ b.seq \in Nat
    BY <1>2, <1>3, <1>5
  <2> QED
    BY <2>2, <2>3
<1>6. CASE a \notin AllRosters /\ b \notin AllRosters
  <2>1. PICK m \in Machine : Signing(m, a)
    BY <1>6, NetNew
  <2>2. PICK x \in Machine : Signing(x, b)
    BY <1>6, NetNew
  <2>3. a = b
    BY <1>6, <2>1, <2>2, OneSigned
  <2>4. a.seq \in Nat
    BY <1>2, <1>6
  <2> QED
    BY <2>3, <2>4
<1> QED
  BY <1>1, <1>4, <1>5, <1>6

\* NetOK is inductive.
LEMMA NetStep ==
  ASSUME MeshInv, NetOK, [Next]_vars
  PROVE  (MeshInv /\ NetOK)' /\ Step
<1>1. MeshInv' /\ Step
  BY MeshInvStep
<1>2. DocsOK'
  BY <1>1 DEF MeshInv, TypeOK
<1>3. NetVerbs' /\ KeysOK' /\ HomeOK'
  BY <1>1, NetSteps, KeysNext, HomeNext
<1>4. LiveOK' /\ TopOK' /\ SignedOK' /\ OnePerSeq' /\ Lineage'
  BY <1>1, <1>2, TopNext, SignedNext, SeqNext
<1> QED
  BY <1>1, <1>3, <1>4 DEF NetOK

\* The first network is as NetOK says.
LEMMA NetInit ==
  ASSUME InitNetwork, "pair" \notin Verbs, "recover" \notin Verbs
  PROVE  MeshInv /\ NetOK
<1>1. MeshInv /\ pairs = {} /\ vouch = {} /\ \A r \in AllRosters : r = First
  BY InitNetworkIs
<1>2. /\ doc = [m \in Machine |-> IF m \in Member THEN FirstTable ELSE EmptyTable]
      /\ anchor = [m \in Machine |-> IF m \in Member THEN FirstRoot ELSE None]
      /\ key = [m \in Machine |-> IF m = Holder THEN FirstRoot ELSE None]
  BY DEF InitNetwork, FirstTable, FirstEntry, First
<1>3. NetVerbs /\ KeysOK
  BY <1>1, <1>2, FirstRootIs, HolderIs DEF NetVerbs, KeysOK
<1>4. Ids(EmptyTable) = {}
  BY DEF Ids, EmptyTable, Unwritten, Fields
<1>5. HomeOK
  BY <1>1, <1>2, <1>4 DEF HomeOK
<1>6. LiveOK
  BY <1>2, FirstIs, EmptyTableIs DEF LiveOK, Live
<1>7. First.seq \in Nat /\ FirstEntry \in Live(FirstTable)
  BY FirstIs DEF SignedRoster, Live
<1>8. TopOK
  BY <1>2, <1>7, FirstIs, EmptyTableIs DEF TopOK, TopLive
<1>9. SignedOK
  BY <1>1, <1>2, FirstIs, HolderIs DEF SignedOK, RostersIn
<1>10. OnePerSeq /\ Lineage
  BY <1>1, <1>7 DEF OnePerSeq, Lineage
<1> QED
  BY <1>1, <1>3, <1>5, <1>6, <1>8, <1>9, <1>10 DEF NetOK

\* With one holder, the seq of a roster says everything: two machines that
\* show rosters of one root and seq show the same lists.
THEOREM OneRosterEach ==
  ASSUME "pair" \notin Verbs, "recover" \notin Verbs
  PROVE  SpecNetwork => []OneRosterPerSeq
<1>1. InitNetwork => MeshInv /\ NetOK
  BY NetInit
<1>2. MeshInv /\ NetOK /\ [Next]_vars => (MeshInv /\ NetOK)'
  BY NetStep
<1>3. MeshInv /\ NetOK => OneRosterPerSeq
  <2> SUFFICES ASSUME MeshInv, NetOK, NEW m \in Machine PROVE Rosters(doc[m]) \subseteq AllRosters
    BY DEF NetOK, OnePerSeq, OneRosterPerSeq
  <2> QED
    BY Within DEF Rosters, RostersIn, Live
<1> QED
  BY <1>1, <1>2, <1>3, PTL DEF SpecNetwork

\* The roster a machine goes by only moves on while it keeps its anchor.
LEMMA RosterMovesOn ==
  ASSUME MeshInv, NetOK, [Next]_vars, NEW m \in Machine,
         RosterOf(m) # None, anchor'[m] = anchor[m]
  PROVE  /\ RosterOf(m)' # None /\ RosterOf(m)'.seq >= RosterOf(m).seq
         /\ RosterOf(m) \in AllRosters' /\ RosterOf(m)' \in AllRosters'
         /\ RosterOf(m)'.root = RosterOf(m).root /\ anchor[m] # None
         /\ RosterOf(m).seq \in Nat /\ RosterOf(m)'.seq \in Nat
<1>1. (MeshInv /\ NetOK)' /\ Step
  BY NetStep
<1>2. /\ RosterOf(m) \in RostersIn(doc[m]) /\ RosterOf(m).root = anchor[m] /\ anchor[m] # None
      /\ RosterOf(m).seq \in Nat
  BY RosterOfIs DEF SignedRoster
<1>3. RosterOf(m) \in RostersIn(doc'[m])
  BY <1>1, <1>2, NetSteps, NetGrows
<1>4. TopLive(doc'[m], anchor'[m])
  BY <1>1, <1>2 DEF NetOK, TopOK
<1>5. RosterOf(m)' = NewestIn(doc'[m], anchor'[m])
  BY <1>2 DEF RosterOf
<1>6. RosterOf(m) \in AllRosters'
  BY <1>3 DEF AllRosters
<1>7. TableOK(doc'[m]) /\ Differ(RostersIn(doc'[m]), anchor'[m])
  BY <1>1 DEF MeshInv, TypeOK, DocsOK, BytesDiffer, Differ, RostersIn
<1>8. /\ RosterOf(m)' # None /\ RosterOf(m)' \in RostersIn(doc'[m])
      /\ RosterOf(m)'.root = anchor'[m] /\ RosterOf(m)'.seq >= RosterOf(m).seq
  BY <1>2, <1>3, <1>4, <1>5, <1>7, NewestOnTop DEF NewestIn
<1>9. RosterOf(m)' \in AllRosters' /\ RosterOf(m)' \in SignedRoster
  BY <1>5, <1>7, <1>8, NewestInType DEF AllRosters
<1> QED
  BY <1>2, <1>6, <1>8, <1>9 DEF SignedRoster

\* trust.rs, module head: a reader "takes the highest seq; the table's
\* last-writer-wins never enters the question".
THEOREM SeqsRise ==
  ASSUME "pair" \notin Verbs, "recover" \notin Verbs
  PROVE  SpecNetwork => SeqNeverFalls
<1>1. InitNetwork => MeshInv /\ NetOK
  BY NetInit
<1>2. MeshInv /\ NetOK /\ [Next]_vars => (MeshInv /\ NetOK)'
  BY NetStep
<1>3. MeshInv /\ NetOK /\ [Next]_vars =>
        \A m \in Machine :
          (RosterOf(m) # None /\ anchor'[m] = anchor[m]) =>
            (RosterOf(m)' # None /\ RosterOf(m)'.seq >= RosterOf(m).seq)
  BY RosterMovesOn
<1> QED
  BY <1>1, <1>2, <1>3, PTL DEF SpecNetwork, SeqNeverFalls

\* Whom the roster revokes stands revoked, and nobody else does.
LEMMA RevokedIs ==
  ASSUME NEW m \in Machine, NEW x \in Machine, anchor[m] # None
  PROVE  /\ RosterOf(m) = NewestIn(doc[m], anchor[m])
         /\ StandingOf(m, x) = "Revoked" <=> RosterOf(m) # None /\ x \in RosterOf(m).revoked
  BY DEF RosterOf, StandingOf, StandingIn, Standing

\* revoke_here: "every machine that takes that roster refuses it", until a
\* roster certifies the machine anew.
THEOREM RevokedUntilCertified ==
  ASSUME "pair" \notin Verbs, "recover" \notin Verbs
  PROVE  SpecNetwork => RevocationSticks
<1>1. InitNetwork => MeshInv /\ NetOK
  BY NetInit
<1>2. MeshInv /\ NetOK /\ [Next]_vars => (MeshInv /\ NetOK)'
  BY NetStep
<1>3. MeshInv /\ NetOK /\ [Next]_vars =>
        \A m, x \in Machine :
          (StandingOf(m, x) = "Revoked" /\ anchor'[m] = anchor[m]) =>
            \/ StandingOf(m, x)' = "Revoked"
            \/ /\ RosterOf(m)' # None
               /\ x \in Certified(RosterOf(m)')
               /\ RosterOf(m)'.certs[x] > RosterOf(m).seq
  <2> SUFFICES ASSUME MeshInv, NetOK, [Next]_vars, NEW m \in Machine, NEW x \in Machine,
                      StandingOf(m, x) = "Revoked", anchor'[m] = anchor[m]
               PROVE  \/ StandingOf(m, x)' = "Revoked"
                      \/ /\ RosterOf(m)' # None
                         /\ x \in Certified(RosterOf(m)')
                         /\ RosterOf(m)'.certs[x] > RosterOf(m).seq
    OBVIOUS
  <2>1. anchor[m] # None
    BY DEF StandingOf, StandingIn, Standing
  <2>2. RosterOf(m) # None /\ x \in RosterOf(m).revoked
    BY <2>1, RevokedIs
  <2>3. /\ RosterOf(m)' # None /\ RosterOf(m)'.seq >= RosterOf(m).seq
        /\ RosterOf(m) \in AllRosters' /\ RosterOf(m)' \in AllRosters'
        /\ RosterOf(m)'.root = RosterOf(m).root
        /\ RosterOf(m).seq \in Nat /\ RosterOf(m)'.seq \in Nat
    BY <2>2, RosterMovesOn
  <2>4. OnePerSeq' /\ Lineage'
    BY NetStep DEF NetOK
  <2>7. x \in RosterOf(m)'.revoked => StandingOf(m, x)' = "Revoked"
    BY <2>1, <2>3 DEF RosterOf, StandingOf, StandingIn, Standing
  <2>8. RosterOf(m)' # None
    BY <2>1, <2>2, <2>3 DEF RosterOf
  <2>5. CASE RosterOf(m)'.seq = RosterOf(m).seq
    <3>1. RosterOf(m)' = RosterOf(m)
      BY <2>3, <2>4, <2>5 DEF OnePerSeq
    <3>2. x \in RosterOf(m)'.revoked
      BY <2>2, <3>1
    <3> QED
      BY <2>7, <3>2
  <2>6. CASE RosterOf(m).seq < RosterOf(m)'.seq
    <3>1. Sticks(RosterOf(m), RosterOf(m)')
      BY <2>3, <2>4, <2>6 DEF Lineage
    <3>2. \/ x \in RosterOf(m)'.revoked
          \/ /\ x \in Certified(RosterOf(m)')
             /\ RosterOf(m)'.certs[x] > RosterOf(m).seq
      BY <2>2, <3>1 DEF Sticks
    <3> QED
      BY <2>2, <2>7, <2>8, <3>2
  <2> QED
    BY <2>3, <2>5, <2>6
<1> QED
  BY <1>1, <1>2, <1>3, PTL DEF SpecNetwork, RevocationSticks

=============================================================================
