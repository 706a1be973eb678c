----------------------------- MODULE TrustMesh -----------------------------
(***************************************************************************)
(* Several machines of one person, each with its copy of the device table, *)
(* its anchor (.khor/root.pub), maybe the root's key (.khor/root.key), and *)
(* the verbs of crates/node/src/trust.rs that change them.  Tables travel  *)
(* in rounds between machines that admit each other, over a pairing that   *)
(* was granted, and, for a machine whose row is missing, after a vouch.    *)
(*                                                                         *)
(* A verb is one action: every one of them runs under the machine's root   *)
(* fence and flushes its table before it lets go (PairSettlement.tla       *)
(* models what a crash inside a pairing's settlement leaves behind).       *)
(***************************************************************************)
EXTENDS DeviceTable

CONSTANTS Verbs,     \* what people and machines do here besides rounds
          MaxVerbs,  \* how many verbs people use
          MaxPairs,  \* how many of those are pairings
          MaxVouch,  \* how many vouches are on their way at once
          MaxNow,    \* last day of the clock
          Tails,     \* values of the bytes that break ties
          Member     \* the machines of the network that exists at first

VARIABLES doc,      \* the device table on each machine's disk
          anchor,   \* .khor/root.pub
          key,      \* .khor/root.key
          notes,    \* .khor/pending
          born,     \* roots that exist
          pairs,    \* pairings that were started
          vouch,    \* vouches on their way: the roster was fixed at the start
          leaving,  \* machines between the two halves of `khor leave`
          now,      \* today
          used,     \* how many verbs people have used
          door      \* history: whom each machine was shown out, and not taken back

vars == <<doc, anchor, key, notes, born, pairs, vouch, leaving, now, used, door>>

ASSUME MeshAssumption ==
  /\ MaxVerbs \in Nat /\ MaxPairs \in Nat /\ MaxVouch \in Nat /\ MaxNow \in Nat
  /\ Tails \subseteq Nat /\ Tails # {}
  /\ Member \subseteq Machine /\ Member # {} /\ Root # {}

-----------------------------------------------------------------------------
(* What a machine reads off its disk. *)

\* Mutant: the table's last writer prevails.
LastWritten(d, root) ==
  LET E == {e \in Live(d) : e.roster.root = root}
  IN  IF E = {} THEN None ELSE (CHOOSE e \in E : \A o \in E \ {e} : ~Newer(o, e)).roster

\* newest_in: the newest roster of the root, wherever it is stored.
NewestIn(d, root) == NewestUnder(Rosters(d), root)

RosterOf(m) == IF anchor[m] = None THEN None ELSE NewestIn(doc[m], anchor[m])

\* A key counts only while the anchor is its public half.
HoldsRoot(m) == key[m] # None /\ anchor[m] = key[m]

StandingIn(d, a, x) ==
  Standing(IF a = None THEN None ELSE NewestIn(d, a), a, x, CertOf(d, x), now)

StandingOf(m, x) == StandingIn(doc[m], anchor[m], x)

\* The gate every request but Pair and Vouch passes.
Gate(m, x) == x \in All(doc[m]) /\ Admitted(StandingOf(m, x))

\* The rows `khor pending` shows for approval, and the removals it shows.
PendingJoins(m) ==
  {x \in All(doc[m]) : \/ StandingOf(m, x) = "Pending"
                       \/ StandingOf(m, x) = "Revoked" /\ x \in notes[m]}
PendingLeaves(m) ==
  {x \in GoneIds(doc[m]) : RosterOf(m) # None /\ Admits(RosterOf(m), x)}

-----------------------------------------------------------------------------
(* Signing. *)

\* Mutant: the first roster names nobody.
CurrentEmpty(d, root, m, tail) ==
  LET r == NewestIn(d, root) IN IF r = None THEN Genesis(root, now, tail, {}) ELSE r

\* sign_next's starting point: a holder without a roster certifies itself.
Current(d, root, m, tail) ==
  LET r == NewestIn(d, root) IN IF r = None THEN Genesis(root, now, tail, {m}) ELSE r

Certify(d, s, root, m, tail, x) ==
  LET r == Admit(Current(d, root, m, tail), now, tail, x)
  IN  SetCert(StoreRoster(d, s, r), s, x, SignedCert(r, x))

CertifySelf(d, s, root, m, tail) ==
  LET r == NewestIn(d, root)
      g == Genesis(root, now, tail, {m})
  IN  IF r = None THEN SetCert(StoreRoster(d, s, g), s, m, SignedCert(g, m))
      ELSE IF Admits(r, m) THEN d
      ELSE Certify(d, s, root, m, tail, m)

\* certify drops the note of the machine it signs, this one too.
NotesAfterSelf(d, root, m) ==
  LET r == NewestIn(d, root)
  IN  notes' = [notes EXCEPT ![m] = IF r # None /\ ~Admits(r, m) THEN @ \ {m} ELSE @]

-----------------------------------------------------------------------------
(* Machinery shared by the actions. *)

\* Whom a table was shown out, remembered until it is told otherwise.
DoorAfter(m, d) ==
  {x \in Machine : \/ x \in GoneIds(d)
                   \/ x \in door[m] /\ d.gone[x].val # FALSE}

\* Different records have different bytes.
BytesDiffer ==
  LET all == UNION {{e.roster : e \in doc[m].trust} : m \in Machine}
  IN  \A a, b \in all : a = b \/ a.root # b.root \/ Later(a, b) \/ Later(b, a)

Write(m, d) ==
  /\ doc' = [doc EXCEPT ![m] = d]
  /\ BytesDiffer'
  /\ door' = [door EXCEPT ![m] = DoorAfter(m, d)]

\* A person uses a verb on m, whose node has been opened before.
Verb(m, v) ==
  /\ v \in Verbs /\ used < MaxVerbs /\ used' = used + 1
  /\ doc[m] # EmptyTable

-----------------------------------------------------------------------------
(* Opening a node: it writes its own row, then bootstrap_trust.            *)

\* adopt_from_table: the highest seq among the rosters naming this machine.
Adoptable(d, m) ==
  LET named == {r \in Rosters(d) : Admits(r, m)}
  IN  {r.root : r \in {q \in named : \A o \in named : o.seq <= q.seq}}

Open(m, tail) ==
  LET s == Stamp(doc[m], m)
      d == Upsert(doc[m], s, m)
  IN  /\ \/ /\ HoldsRoot(m)
            /\ Write(m, CertifySelf(d, s, key[m], m, tail))
            /\ NotesAfterSelf(d, key[m], m)
            /\ UNCHANGED <<anchor, key, born>>
         \/ /\ anchor[m] # None /\ ~HoldsRoot(m)
            /\ Write(m, d)
            /\ UNCHANGED <<anchor, key, notes, born>>
         \/ /\ anchor[m] = None /\ key[m] # None
            /\ anchor' = [anchor EXCEPT ![m] = key[m]]
            /\ Write(m, CertifySelf(d, s, key[m], m, tail))
            /\ NotesAfterSelf(d, key[m], m)
            /\ UNCHANGED <<key, born>>
         \/ /\ anchor[m] = None /\ key[m] = None /\ ~(All(d) \subseteq {m})
            /\ Write(m, d)
            /\ \/ Adoptable(d, m) = {} /\ UNCHANGED anchor
               \/ \E r \in Adoptable(d, m) : anchor' = [anchor EXCEPT ![m] = r]
            /\ UNCHANGED <<key, notes, born>>
         \/ /\ anchor[m] = None /\ key[m] = None /\ All(d) \subseteq {m}
            /\ \E r \in Root \ born :
                 /\ born' = born \cup {r}
                 /\ key' = [key EXCEPT ![m] = r]
                 /\ anchor' = [anchor EXCEPT ![m] = r]
                 /\ Write(m, CertifySelf(d, s, r, m, tail))
                 /\ NotesAfterSelf(d, r, m)
      /\ UNCHANGED <<pairs, vouch, leaving, now, used>>

\* Mutant: the holder waits until the date is stale.
TrustTickLate(m, tail) ==
  /\ \/ /\ anchor[m] = None /\ key[m] = None
        /\ \E r \in Adoptable(doc[m], m) : anchor' = [anchor EXCEPT ![m] = r]
        /\ UNCHANGED <<doc, door>>
     \/ /\ HoldsRoot(m)
        /\ LET r == NewestIn(doc[m], key[m])
           IN  /\ r # None /\ IsStale(r, now)
               /\ Write(m, StoreRoster(doc[m], Stamp(doc[m], m), Refresh(r, now, tail)))
        /\ UNCHANGED anchor
  /\ UNCHANGED <<key, notes, born, pairs, vouch, leaving, now, used>>

\* trust_tick: take up a root the table brought, or date the roster anew.
TrustTick(m, tail) ==
  /\ \/ /\ anchor[m] = None /\ key[m] = None
        /\ \E r \in Adoptable(doc[m], m) : anchor' = [anchor EXCEPT ![m] = r]
        /\ UNCHANGED <<doc, door>>
     \/ /\ HoldsRoot(m)
        /\ LET r == NewestIn(doc[m], key[m])
           IN  /\ r # None /\ NeedsRefresh(r, now)
               /\ Write(m, StoreRoster(doc[m], Stamp(doc[m], m), Refresh(r, now, tail)))
        /\ UNCHANGED anchor
  /\ UNCHANGED <<key, notes, born, pairs, vouch, leaving, now, used>>

-----------------------------------------------------------------------------
(* The holder's verbs, and the ones that ask it. *)

SignRevocation(m, d, x, tail) ==
  LET s == Stamp(doc[m], m)
  IN  Write(m, StoreRoster(d, s, Revoke(Current(d, key[m], m, tail), now, tail, x)))

\* pending: notes of machines that are trusted by now are cleared.
Decided(m) == {y \in All(doc[m]) : StandingOf(m, y) = "Trusted"}
DropNotes(m, X) == notes' = [notes EXCEPT ![m] = @ \ X]

ReadPending(m) ==
  /\ "pending" \in Verbs
  /\ anchor[m] # None /\ Decided(m) \cap notes[m] # {}
  /\ DropNotes(m, Decided(m))
  /\ UNCHANGED <<doc, anchor, key, born, pairs, vouch, leaving, now, used, door>>

ApproveJoin(m, x, tail) ==
  /\ Verb(m, "approve")
  /\ HoldsRoot(m) /\ x \in PendingJoins(m)
  /\ Write(m, Certify(doc[m], Stamp(doc[m], m), key[m], m, tail, x))
  /\ DropNotes(m, Decided(m) \cup {x})
  /\ UNCHANGED <<anchor, key, born, pairs, vouch, leaving, now>>

ApproveLeave(m, x, tail) ==
  /\ Verb(m, "approve")
  /\ HoldsRoot(m) /\ x \in PendingLeaves(m)
  /\ SignRevocation(m, doc[m], x, tail)
  /\ DropNotes(m, Decided(m) \cup {x})
  /\ UNCHANGED <<anchor, key, born, pairs, vouch, leaving, now>>

RevokeHere(m, x, tail) ==
  /\ Verb(m, "revoke")
  /\ HoldsRoot(m) /\ x # m
  /\ x \in Ids(doc[m])
  /\ RosterOf(m) # None => x \notin RosterOf(m).revoked
  /\ SignRevocation(m, doc[m], x, tail)
  /\ DropNotes(m, {x})
  /\ UNCHANGED <<anchor, key, born, pairs, vouch, leaving, now>>

\* forget_device: the tombstone, and on the holder the revocation with it.
Forget(m, x, tail) ==
  LET d == SetGone(doc[m], Stamp(doc[m], m), x, TRUE)
      r == RosterOf(m)
  IN  /\ Verb(m, "forget")
      /\ x # m /\ x \in All(doc[m])
      /\ IF HoldsRoot(m) /\ r # None /\ Admits(r, x)
           THEN SignRevocation(m, d, x, tail)
           ELSE Write(m, d)
      /\ UNCHANGED <<anchor, key, notes, born, pairs, vouch, leaving, now>>

\* Mutant: only the machine itself.
InitSelf(d, m) == {m}
InitMembers(d, m) == All(d) \cup {m}

\* A network from before roots is given one: every row is certified.
RootInit(m, r, tail) ==
  LET s == Stamp(doc[m], m)
      g == Genesis(r, now, tail, InitMembers(doc[m], m))
      stored == StoreRoster(doc[m], s, g)
  IN  /\ Verb(m, "init")
      /\ anchor[m] = None /\ key[m] = None /\ r \notin born
      /\ born' = born \cup {r}
      /\ key' = [key EXCEPT ![m] = r]
      /\ anchor' = [anchor EXCEPT ![m] = r]
      /\ Write(m, [stored EXCEPT !.cert =
                     [x \in Machine |-> IF x \in Certified(g)
                                          THEN Written(SignedCert(g, x), s) ELSE @[x]]])
      /\ UNCHANGED <<notes, pairs, vouch, leaving, now>>

\* root_init stops, by a crash or a failing write, after root::create: the
\* key is there, maybe the anchor, and no roster.
RootInitStops(m, r) ==
  /\ Verb(m, "stop")
  /\ anchor[m] = None /\ key[m] = None /\ r \notin born
  /\ born' = born \cup {r}
  /\ key' = [key EXCEPT ![m] = r]
  /\ anchor' \in {anchor, [anchor EXCEPT ![m] = r]}
  /\ UNCHANGED <<doc, notes, pairs, vouch, leaving, now, door>>

\* Mutant: nobody looks whom the old root certified.
RecoverAnyway(m, r) == TRUE

\* A root that certified others is not replaced.
RecoverAllowed(m, r) ==
  ~(/\ anchor[m] # None /\ anchor[m] # r
    /\ RosterOf(m) # None /\ ~Lone(RosterOf(m), m))

\* The words of root r are typed in here.
RootRecover(m, r, tail) ==
  LET s == Stamp(doc[m], m)
      other == anchor[m] # None /\ anchor[m] # r
      d == IF other THEN DropRosters(doc[m], s) ELSE doc[m]
  IN  /\ Verb(m, "recover")
      /\ r \in born
      /\ RecoverAllowed(m, r)
      /\ key' = [key EXCEPT ![m] = r]
      /\ anchor' = [anchor EXCEPT ![m] = r]
      /\ Write(m, CertifySelf(d, s, r, m, tail))
      /\ NotesAfterSelf(d, r, m)
      /\ UNCHANGED <<born, pairs, vouch, leaving, now>>

-----------------------------------------------------------------------------
(* Leaving: say so on the own row, give the rounds a chance to carry it,   *)
(* then empty the table.  A holder keeps the root and its rosters.         *)

LeaveTell(m) ==
  /\ Verb(m, "leave")
  /\ m \notin leaving /\ All(doc[m]) \ {m} # {}
  /\ leaving' = leaving \cup {m}
  /\ Write(m, SetGone(doc[m], Stamp(doc[m], m), m, TRUE))
  /\ UNCHANGED <<anchor, key, notes, born, pairs, vouch, now>>

LeaveEmpty(m) ==
  LET s == Stamp(doc[m], m)
      d == SetGone(KeepOnly(doc[m], s, m), s, m, FALSE)
  IN  /\ m \in leaving
      /\ leaving' = leaving \ {m}
      /\ door' = [door EXCEPT ![m] = {}]
      /\ IF HoldsRoot(m)
           THEN doc' = [doc EXCEPT ![m] = d] /\ UNCHANGED <<anchor, notes>>
           ELSE /\ doc' = [doc EXCEPT ![m] = DropRosters(d, s)]
                /\ anchor' = [anchor EXCEPT ![m] = None]
                /\ notes' = [notes EXCEPT ![m] = {}]
      /\ UNCHANGED <<key, born, pairs, vouch, now, used>>

-----------------------------------------------------------------------------
(* Rounds, between machines that admit each other.  Whichever of the two   *)
(* dials, either direction of the device table's transfer may complete     *)
(* without the other.                                                      *)

Round(to, from) ==
  /\ to # from
  /\ Gate(to, from) /\ Gate(from, to)
  /\ Write(to, Merge(doc[to], doc[from]))
  /\ UNCHANGED <<anchor, key, notes, born, pairs, vouch, leaving, now, used>>

Tick ==
  /\ now < MaxNow
  /\ now' = now + 1
  /\ UNCHANGED <<doc, anchor, key, notes, born, pairs, vouch, leaving, used, door>>

-----------------------------------------------------------------------------
(* Vouching: x refuses m's round, m answers with its newest roster.        *)

VouchStart(m, x) ==
  /\ m # x
  /\ Gate(m, x) /\ ~Gate(x, m)
  /\ RosterOf(m) # None /\ Admits(RosterOf(m), m)
  /\ Cardinality(vouch) < MaxVouch
  /\ \A v \in vouch : ~(v.from = m /\ v.to = x)
  \* authorize_vouch_header
  /\ anchor[x] = anchor[m] /\ m \notin GoneIds(doc[x])
  /\ vouch' = vouch \cup {[from |-> m, to |-> x, roster |-> RosterOf(m)]}
  /\ UNCHANGED <<doc, anchor, key, notes, born, pairs, leaving, now, used, door>>

\* take_vouch_inner, every refusal of it, and the row a round needs.
TakeVouch(v) ==
  LET x == v.to
      r == v.roster
      mine == RosterOf(x)
      s == Stamp(doc[x], x)
  IN  /\ vouch' = vouch \ {v}
      /\ IF /\ anchor[x] = r.root
            /\ ~IsStale(r, now) /\ Admits(r, v.from) /\ Admits(r, x)
            /\ ~(mine # None /\ mine.seq > r.seq)
            /\ v.from \notin GoneIds(doc[x])
           THEN Write(x, SetCert(SetCert(Upsert(StoreRoster(doc[x], s, r), s, v.from),
                                         s, v.from, SignedCert(r, v.from)),
                                 s, x, SignedCert(r, x)))
           ELSE UNCHANGED <<doc, door>>
      /\ UNCHANGED <<anchor, key, notes, born, pairs, leaving, now, used>>

-----------------------------------------------------------------------------
(* Pairing.  The joiner fixes the roster it offers; the issuer settles     *)
(* against it and answers with the roster it settled on; the joiner        *)
(* settles against that; then the two device tables are exchanged.         *)

\* prepare_pair_settlement: the anchor and roster machine m will have.
Settlement(m, remote, theirs, dialed, tail) ==
  LET mine == RosterOf(m)
      act == Settle(mine, m, theirs, remote, dialed)
      a == IF act = "Adopt" THEN theirs.root ELSE anchor[m]
      offered == IF theirs # None /\ theirs.root = a THEN theirs ELSE None
      kept == CASE act = "Adopt" -> theirs
                [] offered = None -> mine
                [] OTHER -> IF mine # None /\ Later(mine, offered) THEN mine ELSE offered
      Enrol(r, x) == IF Standing(r, a, x, CertOf(doc[m], x), now) = "Trusted"
                       THEN r ELSE Admit(r, now, tail, x)
      base == IF kept = None THEN Genesis(a, now, tail, {m}) ELSE kept
      signed == Enrol(Enrol(base, remote), m)
      keyed == IF key[m] = None THEN None ELSE NewestIn(doc[m], key[m])
      refused == \/ act = "Clash"
                 \/ key[m] # None /\ key[m] # a /\ keyed # None /\ ~Lone(keyed, m)
  IN  [ok |-> ~refused, anchor |-> a,
       roster |-> IF HoldsRoot(m) /\ key[m] = a THEN signed ELSE kept]

\* apply_pair_settlement, as one step of the machine's disk.
ApplySettlement(m, remote, p, plan, theirs) ==
  LET s == Stamp(doc[m], m)
      old == {e \in Live(doc[m]) : e.slot = None}
      d0 == IF anchor[m] # plan.anchor THEN DropEntries(doc[m], s, old) ELSE doc[m]
      d1 == IF plan.roster = None THEN doc[m] ELSE StoreRoster(d0, s, plan.roster)
      d2 == SetGone(Upsert(d1, s, remote), s, remote, FALSE)
      Cert(d, x) == IF plan.roster = None THEN d
                    ELSE SetCert(d, s, x, SignedCert(plan.roster, x))
      d3 == Cert(Cert(d2, remote), m)
      d4 == IF theirs = None THEN d3 ELSE PutEntry(d3, s, <<p.n, m>>, theirs)
      a == IF plan.anchor = None THEN anchor[m] ELSE plan.anchor
      trusted == {x \in {remote, m} : StandingIn(d4, a, x) = "Trusted"}
  IN  /\ Write(m, d4)
      /\ anchor' = [anchor EXCEPT ![m] = a]
      /\ key' = [key EXCEPT ![m] = IF @ # plan.anchor THEN None ELSE @]
      /\ notes' = [notes EXCEPT ![m] =
                     (@ \ trusted) \cup (IF a = None THEN {} ELSE {remote, m} \ trusted)]

\* A settlement that moves to another root is stuck when an archive still
\* shows another roster of that root, or the old one as a network.  What
\* becomes of the machine then is PairSettlement's subject, and not
\* followed here.
Completes(m, plan) ==
  LET archived == {e.roster : e \in {f \in Live(doc[m]) : f.slot # None}}
  IN  anchor[m] # plan.anchor =>
        /\ NewestIn(doc[m], plan.anchor) \in {None, plan.roster}
        /\ key[m] # None /\ key[m] # plan.anchor =>
             \A r \in archived : r.root = key[m] => Lone(r, m)

PairReplayAllowed(m, x, a) ==
  /\ anchor[m] = a
  /\ {m, x} \subseteq All(doc[m])
  /\ StandingOf(m, x) # "Revoked" /\ StandingOf(m, m) # "Revoked"

PairStart(j, i) ==
  /\ Verb(j, "pair")
  /\ Cardinality(pairs) < MaxPairs
  /\ j # i /\ doc[i] # EmptyTable
  /\ pairs' = pairs \cup {[n |-> Cardinality(pairs), joiner |-> j, issuer |-> i,
                           phase |-> "sent", offer |-> RosterOf(j), initial |-> anchor[j],
                           reply |-> None, ianchor |-> None, janchor |-> None, moved |-> {}]}
  /\ UNCHANGED <<doc, anchor, key, notes, born, vouch, leaving, now, door>>

Becomes(p, q) == pairs' = (pairs \ {p}) \cup {q}

\* The issuer's commit.  A decision that cannot be prepared is reported as
\* Uncommitted, and both sides give the pairing up.
PairCommit(p, tail) ==
  LET plan == Settlement(p.issuer, p.joiner, p.offer, FALSE, tail)
  IN  /\ p.phase = "sent"
      /\ IF plan.ok
           THEN /\ Completes(p.issuer, plan)
                /\ ApplySettlement(p.issuer, p.joiner, p, plan, p.offer)
                /\ Becomes(p, [p EXCEPT !.phase = "committed", !.reply = plan.roster,
                                        !.ianchor = plan.anchor])
           ELSE /\ Becomes(p, [p EXCEPT !.phase = "uncommitted"])
                /\ UNCHANGED <<doc, anchor, key, notes, door>>
      /\ UNCHANGED <<born, vouch, leaving, now, used>>

\* The joiner's settlement; its root must still be the one it offered.  A
\* refusal here is an error of the verb: the ticket can only be retried.
PairAccept(p, tail) ==
  LET plan == Settlement(p.joiner, p.issuer, p.reply, TRUE, tail)
  IN  /\ p.phase = "committed"
      /\ anchor[p.joiner] = p.initial
      /\ IF plan.ok
           THEN /\ Completes(p.joiner, plan)
                /\ ApplySettlement(p.joiner, p.issuer, p, plan, p.reply)
                /\ Becomes(p, [p EXCEPT !.phase = "accepted", !.janchor = plan.anchor])
           ELSE /\ Becomes(p, [p EXCEPT !.phase = "refused"])
                /\ UNCHANGED <<doc, anchor, key, notes, door>>
      /\ UNCHANGED <<born, vouch, leaving, now, used>>

\* The device tables cross, each direction on its own, while both sides
\* would still replay the pairing.
PairDocs(p, to) ==
  LET from == IF to = p.issuer THEN p.joiner ELSE p.issuer
      moved == p.moved \cup {to}
  IN  /\ p.phase = "accepted" /\ to \in {p.issuer, p.joiner} \ p.moved
      /\ PairReplayAllowed(p.issuer, p.joiner, p.ianchor)
      /\ PairReplayAllowed(p.joiner, p.issuer, p.janchor)
      /\ Write(to, Merge(doc[to], doc[from]))
      /\ Becomes(p, [p EXCEPT !.moved = moved,
                              !.phase = IF Cardinality(moved) = 2 THEN "complete" ELSE @])
      /\ UNCHANGED <<anchor, key, notes, born, vouch, leaving, now, used>>

\* collect_pairing: a day later the archives of a completed pairing go.
Collect(p, m) ==
  LET E == {e \in Live(doc[m]) : e.slot = <<p.n, m>>}
  IN  /\ "collect" \in Verbs
      /\ p.phase = "complete" /\ E # {}
      /\ Write(m, DropEntries(doc[m], Stamp(doc[m], m), E))
      /\ UNCHANGED <<anchor, key, notes, born, pairs, vouch, leaving, now, used>>

-----------------------------------------------------------------------------
Holder == CHOOSE m \in Member : \A x \in Member : Rank[m] <= Rank[x]
FirstRoot == CHOOSE r \in Root : TRUE

Blank ==
  /\ notes = [m \in Machine |-> {}]
  /\ pairs = {} /\ vouch = {} /\ leaving = {}
  /\ now = 0 /\ used = 0
  /\ door = [m \in Machine |-> {}]

\* What Holder wrote about the members before anything happens here.
FirstStamp == [t |-> 1, p |-> Rank[Holder]]
About(Val(_)) ==
  [x \in Machine |-> IF x \in Member THEN Written(Val(x), FirstStamp) ELSE Unwritten]
Named == [EmptyTable EXCEPT !.row = About(LAMBDA x : TRUE)]

\* One network, settled: Holder's root certifies every member and every
\* member's table says so.  Machines outside it have never been opened.
InitNetwork ==
  LET g == Genesis(FirstRoot, 0, 0, Member)
      entry == [slot |-> None, roster |-> g, live |-> TRUE, t |-> 1, p |-> Rank[Holder]]
      table == [Named EXCEPT !.cert = About(LAMBDA x : SignedCert(g, x)), !.trust = {entry}]
  IN  /\ Blank
      /\ doc = [m \in Machine |-> IF m \in Member THEN table ELSE EmptyTable]
      /\ anchor = [m \in Machine |-> IF m \in Member THEN FirstRoot ELSE None]
      /\ key = [m \in Machine |-> IF m = Holder THEN FirstRoot ELSE None]
      /\ born = {FirstRoot}

\* A network from before roots: rows, and nothing else.
InitLegacy ==
  /\ Blank
  /\ doc = [m \in Machine |-> IF m \in Member THEN Named ELSE EmptyTable]
  /\ anchor = [m \in Machine |-> None]
  /\ key = [m \in Machine |-> None]
  /\ born = {}

Sign(tail) ==
  \E m \in Machine :
     \/ Open(m, tail)
     \/ TrustTick(m, tail)
     \/ \E x \in Machine : \/ ApproveJoin(m, x, tail) \/ ApproveLeave(m, x, tail)
                           \/ RevokeHere(m, x, tail) \/ Forget(m, x, tail)
     \/ \E r \in Root : \/ RootInit(m, r, tail) \/ RootInitStops(m, r)
                       \/ RootRecover(m, r, tail)

Pairing(tail) ==
  \/ \E i, j \in Machine : PairStart(j, i)
  \/ \E p \in pairs : \/ PairCommit(p, tail) \/ PairAccept(p, tail)
                      \/ \E m \in Machine : PairDocs(p, m) \/ Collect(p, m)

Move ==
  \/ \E m \in Machine : LeaveTell(m) \/ LeaveEmpty(m) \/ ReadPending(m)
  \/ \E to, from \in Machine : Round(to, from)
  \/ \E m, x \in Machine : VouchStart(m, x)
  \/ \E v \in vouch : TakeVouch(v)
  \/ Tick

Next == Move \/ \E tail \in Tails : Sign(tail) \/ Pairing(tail)

SpecNetwork == InitNetwork /\ [][Next]_vars
SpecLegacy == InitLegacy /\ [][Next]_vars

\* The pump visits every machine in the table again and again, and the
\* trust beat runs after every visit.  People are not fair.
Fairness ==
  /\ \A to, from \in Machine : WF_vars(Round(to, from))
  /\ \A m \in Machine : WF_vars(\E tail \in Tails : TrustTick(m, tail))

FairLegacy == SpecLegacy /\ Fairness

\* Either beginning.
FairMesh == (InitNetwork \/ InitLegacy) /\ [][Next]_vars /\ Fairness

-----------------------------------------------------------------------------
(* Properties. *)

\* trust.rs, module head: "A reader verifies each against the anchor and
\* takes the highest seq; the table's last-writer-wins never enters the
\* question."  While a machine keeps its anchor, the roster it goes by is
\* never replaced by an older one, nor lost.
SeqNeverFalls ==
  [][\A m \in Machine :
       (RosterOf(m) # None /\ anchor'[m] = anchor[m]) =>
         (RosterOf(m)' # None /\ RosterOf(m)'.seq >= RosterOf(m).seq)]_vars

\* revoke_here: "every machine that takes that roster refuses it".  A
\* machine that refuses x as revoked goes on refusing it until a roster
\* certifies x with a later seq than the one that revoked it.
RevocationSticks ==
  [][\A m, x \in Machine :
       (StandingOf(m, x) = "Revoked" /\ anchor'[m] = anchor[m]) =>
         \/ StandingOf(m, x)' = "Revoked"
         \/ /\ RosterOf(m)' # None
            /\ x \in Certified(RosterOf(m)')
            /\ RosterOf(m)'.certs[x] > RosterOf(m).seq]_vars

\* DeviceDoc::set_gone: "a row marked gone stays gone", "Pairing clears it",
\* "deliberately not something the machine can do alone".  A machine that
\* was shown the door here is refused here until somebody takes it back.
ShownOutStaysOut ==
  \A m, x \in Machine : x \in door[m] \ {m} => ~Gate(m, x)

\* With one holder, the seq of a roster says everything: two machines that
\* go by the same seq of the same root go by the same lists.
OneRosterPerSeq ==
  \A m, x \in Machine : \A a \in Rosters(doc[m]), b \in Rosters(doc[x]) :
     a.root = b.root /\ a.seq = b.seq => a = b

\* bootstrap_trust: "A holder is always on its own roster", whatever order
\* an init that stopped, approvals and openings come in.
HolderOnRoster ==
  \A m \in Machine : HoldsRoot(m) /\ RosterOf(m) # None => Admits(RosterOf(m), m)

\* The last roster anybody signed with a root, dropped by now or not.
LastSigned(r) ==
  NewestUnder(UNION {{e.roster : e \in doc[m].trust} : m \in Machine}, r)

\* "A root that certified other machines is a network, and deleting it here
\* would strand every one of them": as long as the last roster signed with a
\* root admits a machine anchored to it, besides others, some machine holds
\* its key.
NobodyStranded ==
  \A m \in Machine :
     LET r == IF anchor[m] = None THEN None ELSE LastSigned(anchor[m])
     IN  r # None /\ Admits(r, m) /\ Certified(r) # {m} => \E h \in Machine : key[h] = anchor[m]

\* Although the two sides settle at different moments, and the joiner
\* against a roster the issuer may just have signed, a pairing both sides
\* have settled put them under one root.
OneRootAfterPairing ==
  \A p \in pairs : p.phase \in {"accepted", "complete"} => p.janchor = p.ianchor

\* newest: "so every machine picks the same one".  Machines that admit each
\* other end up going by the same roster.
Converges ==
  \A m, x \in Machine :
     []<>(Gate(m, x) /\ Gate(x, m) /\ anchor[m] = anchor[x] => RosterOf(m) = RosterOf(x))

\* root_init: every machine in the table "takes the root up on its next
\* sync", unless somebody was shown the door meanwhile.  A root stays born
\* and a machine does not let go of its anchor here, so that "again and again"
\* says "from some day on".
InitReachesAll ==
  \A m \in Member :
     []<>(born # {} => anchor[m] # None \/ \E x \in Machine : door[x] # {})

\* "a holder that is online now and then keeps the whole network fresh":
\* the clock stops at MaxNow, and then no machine of the holder's root that
\* is in touch with it goes by an old date.
StaysFresh ==
  \A m, h \in Machine :
     []<>(HoldsRoot(h) /\ anchor[m] = key[h] /\ Gate(m, h) /\ Gate(h, m) =>
            RosterOf(m) # None /\ ~NeedsRefresh(RosterOf(m), now))
=============================================================================
