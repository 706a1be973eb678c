---------------------------- MODULE DeviceTable ----------------------------
(***************************************************************************)
(* The device table of crates/sync/src/devices.rs: one replicated document *)
(* whose registers are last-writer-wins, the writer with the larger        *)
(* (Lamport time, peer) prevailing.  A row is the registers <id>/<field>;  *)
(* three fields matter to trust: that the machine is named (row), that it  *)
(* was shown the door (gone) and the certificate it presents (cert).  The  *)
(* TRUST map beside the rows holds every signed roster under a key of its  *)
(* own, and pairing archives under "pair-archive:" keys.  A deletion is a  *)
(* write like any other: it leaves the register empty and carries a stamp. *)
(***************************************************************************)
EXTENDS Roster

CONSTANT Rank   \* the order of the peers' ids, which breaks Lamport ties

ASSUME RankAssumption ==
  /\ Rank \in [Machine -> Nat]
  /\ \A a, b \in Machine : Rank[a] = Rank[b] => a = b

\* A register nobody has written.
Unwritten == [val |-> None, t |-> 0, p |-> 0]

EmptyTable ==
  [row  |-> [x \in Machine |-> Unwritten],
   gone |-> [x \in Machine |-> Unwritten],
   cert |-> [x \in Machine |-> Unwritten],
   trust |-> {}]

Fields == {"row", "gone", "cert"}

\* The stamp of this replica's next write: its Lamport clock has seen
\* everything in the table.
Stamp(d, m) ==
  LET seen == {d[f][x].t : f \in Fields, x \in Machine} \cup {e.t : e \in d.trust} \cup {0}
  IN  [t |-> 1 + (CHOOSE a \in seen : \A b \in seen : b <= a), p |-> Rank[m]]

Written(val, s) == [val |-> val, t |-> s.t, p |-> s.p]

\* Unchanged means unwritten, for every setter.
Set(d, s, f, x, val) ==
  IF d[f][x].val = val THEN d ELSE [d EXCEPT ![f][x] = Written(val, s)]

Upsert(d, s, x) == Set(d, s, "row", x, TRUE)

SetCert(d, s, x, cert) == IF cert = None THEN d ELSE Set(d, s, "cert", x, cert)

\* Clearing a mark nobody made writes nothing.
SetGone(d, s, x, on) ==
  IF ~on /\ d.gone[x].val = None THEN d ELSE Set(d, s, "gone", x, on)

\* keep_only: every register of every other row is deleted.
KeepOnly(d, s, x) ==
  LET Clear(f) == [y \in Machine |->
                     IF y = x \/ d[f][y].val = None THEN d[f][y] ELSE Written(None, s)]
  IN  [row |-> Clear("row"), gone |-> Clear("gone"), cert |-> Clear("cert"),
       trust |-> d.trust]

\* A row exists as long as any of its registers does.
Ids(d) == {x \in Machine : \E f \in Fields : d[f][x].val # None}
GoneIds(d) == {x \in Ids(d) : d.gone[x].val = TRUE}
\* Mutant: tombstones are not looked at.
AllWithGone(d) == Ids(d)
All(d) == Ids(d) \ GoneIds(d)
CertOf(d, x) == d.cert[x].val

-----------------------------------------------------------------------------
(* The TRUST map.  slot = None is the roster's own key (its seq and the    *)
(* tail of its signature); any other slot is a pairing archive.            *)

Slot(e) == [slot |-> e.slot, roster |-> e.roster]
Live(d) == {e \in d.trust : e.live}
Rosters(d) == {e.roster : e \in Live(d)}

PutEntry(d, s, slot, r) ==
  IF \E e \in Live(d) : e.slot = slot /\ e.roster = r THEN d
  ELSE [d EXCEPT !.trust =
          {e \in @ : ~(e.slot = slot /\ e.roster = r)}
            \cup {[slot |-> slot, roster |-> r, live |-> TRUE, t |-> s.t, p |-> s.p]}]

DropEntries(d, s, E) ==
  [d EXCEPT !.trust = (@ \ E) \cup {[e EXCEPT !.live = FALSE, !.t = s.t, !.p = s.p] : e \in E}]

DropRosters(d, s) == DropEntries(d, s, Live(d))

\* Mutant: pruning reaches the version just stored.
StorePrunesItself(d, s, r) ==
  LET put == PutEntry(d, s, None, r)
  IN  DropEntries(put, s, {e \in Live(put) : e.slot = None /\ e.roster.seq <= r.seq})

\* node/src/trust.rs store_roster_at: put, then prune every lower seq,
\* whichever root signed it; archives stay.
StoreRoster(d, s, r) ==
  LET put == PutEntry(d, s, None, r)
  IN  DropEntries(put, s, {e \in Live(put) : e.slot = None /\ e.roster.seq < r.seq})

-----------------------------------------------------------------------------
(* Merging two replicas: per register, the later stamp. *)

Newer(a, b) == a.t > b.t \/ (a.t = b.t /\ a.p > b.p)

\* Mutant: the TRUST map stays out of it.
MergeRowsOnly(d, e) ==
  LET Pick(f) == [x \in Machine |-> IF Newer(e[f][x], d[f][x]) THEN e[f][x] ELSE d[f][x]]
  IN  [row |-> Pick("row"), gone |-> Pick("gone"), cert |-> Pick("cert"), trust |-> d.trust]

Merge(d, e) ==
  LET Pick(f) == [x \in Machine |-> IF Newer(e[f][x], d[f][x]) THEN e[f][x] ELSE d[f][x]]
      both == d.trust \cup e.trust
  IN  [row |-> Pick("row"), gone |-> Pick("gone"), cert |-> Pick("cert"),
       trust |-> {a \in both : \A b \in both : Slot(a) = Slot(b) => ~Newer(b, a)}]
=============================================================================
