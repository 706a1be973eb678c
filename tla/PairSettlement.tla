--------------------------- MODULE PairSettlement ---------------------------
(***************************************************************************)
(* What a pairing does to one machine's trust, step by step on its disk:   *)
(* prepare_pair_settlement and apply_pair_settlement of                    *)
(* crates/node/src/trust.rs, the settlement rows of                        *)
(* doc_transfer_state/pairing.rs, and who may run in between.              *)
(*                                                                         *)
(* The order of writes is: the plan, unready; the signed bytes it will     *)
(* store; the plan, ready; then, for a ready plan and again after every    *)
(* interruption, the invite is burnt, the anchor published, the version    *)
(* the table is about to reach saved in the plan, the table flushed, the   *)
(* superseded root key deleted, the pairing's own row advanced and the     *)
(* plan finished.  Each of these writes is one step, and any of them may   *)
(* be the last one that happens: Interrupt is a crash or an I/O error.     *)
(*                                                                         *)
(* One writer works at a time (the state's gate), and holds the root       *)
(* fence.  Everything that changes the trust of the machine takes the      *)
(* fence too and is refused while a ready plan is unfinished; edits of     *)
(* other fields of the device table (rename_machine, pin_device, ...) take *)
(* neither, and write with whichever pen of the table is free.             *)
(***************************************************************************)
EXTENDS Naturals, FiniteSets

CONSTANTS Op,         \* pairings, by operation id
          Root,       \* root public keys
          Own,        \* the root this machine may have generated
          None,       \* Option::None
          Pen,        \* writer names of the table's pile (store.rs Lease)
          World,      \* rosters the holders of other roots have signed
          SettleOps,  \* how many ops a settlement writes to the table
          MaxSeq, MaxFaults, MaxOthers   \* bounds

\* A signed roster: by tells apart the bytes of two rosters with one seq,
\* the pairing that signed it or None for any other verb.
Roster == [root : Root, seq : Nat, lone : BOOLEAN, by : Op \cup {None}]
Version == [Pen -> Nat]

ASSUME SettlementAssumption ==
  /\ Own \in Root /\ None \notin Root /\ None \notin Roster
  /\ None \notin Op /\ None \notin Pen /\ None \notin Version
  /\ World \subseteq Roster /\ \A r \in World : r.root # Own
  /\ SettleOps \in Nat \ {0}
  /\ MaxSeq \in Nat /\ MaxFaults \in Nat /\ MaxOthers \in Nat

VARIABLES anchor,   \* .khor/root.pub
          key,      \* .khor/root.key, by its public half
          kept,     \* TRUST map: the newest roster of each root, archives apart
          archive,  \* TRUST map: pair-archive:<op>
          ver,      \* version vector of the table on disk
          claim,    \* Claim / Local row of each pairing
          invite,   \* whether the ticket of each pairing is still unburnt
          plan,     \* Settlement row of each pairing
          blob,     \* whether the plan's roster bytes are VerifiedComplete
          pc, cur,                       \* the worker: its step and pairing
          pen, mem,                      \* its copy of the table: pen, version
          signed,                        \* rosters of Own that exist
          faults, edits, moves,          \* how often what has happened
          overtaken   \* history: roots whose unflushed roster was passed over

disk == <<anchor, key, kept, archive, ver, claim, invite, plan, blob>>
counts == <<faults, edits, moves, overtaken>>
copy == <<pen, mem>>
vars == <<disk, pc, cur, copy, signed, counts>>

NoClaim == [phase |-> "None", dialed |-> FALSE, input |-> None, initial |-> None]
NoPlan == [stage |-> "none", beforeAnchor |-> None, beforeRoster |-> None,
           beforeKey |-> None, anchor |-> None, roster |-> None, target |-> None]

\* unfinished_settlements: ready and not finished.
Open(o) == plan[o].stage = "ready"

\* needs_recovery
NeedsRecovery == \E o \in Op : Open(o)

-----------------------------------------------------------------------------
(* What the table says.  A roster is counted wherever it is stored; the    *)
(* archives count too.                                                     *)

Newest(r) ==
  LET all == {s \in {kept[r]} \cup {archive[o] : o \in Op} : s # None /\ s.root = r}
      top == {s \in all : \A t \in all : t.seq <= s.seq}
  IN  IF top = {} THEN None ELSE CHOOSE s \in top : TRUE

\* A root that has certified others.
IsNetwork(r) == Newest(r) # None /\ ~Newest(r).lone

Mine == IF anchor = None THEN None ELSE Newest(anchor)

\* settle, of net/src/trust.rs.
Verdict(mine, theirs, dialed) ==
  CASE theirs = None -> "Keep"
    [] theirs # None /\ mine = None -> "Adopt"
    [] theirs # None /\ mine # None /\ mine.root = theirs.root -> "Keep"
    [] OTHER -> IF mine.lone THEN IF theirs.lone /\ ~dialed THEN "Keep" ELSE "Adopt"
                ELSE IF theirs.lone THEN "Keep" ELSE "Clash"

First == [root |-> Own, seq |-> 1, lone |-> TRUE, by |-> None]

\* Roster::admit, inside pairing o.
Admitting(r, o) == [root |-> r.root, seq |-> r.seq + 1, lone |-> FALSE, by |-> o]

\* The rosters prepare may settle on.  A holder certifies the other side
\* unless its roster does already, which a lone one cannot.
Desired(o, a, act, theirs) ==
  LET offered == IF theirs # None /\ theirs.root = a THEN theirs ELSE None
      r == CASE act = "Adopt" -> theirs
             [] offered = None -> Mine
             [] OTHER -> IF Mine # None /\ Mine.seq > offered.seq THEN Mine ELSE offered
  IN  IF key # None /\ anchor = key /\ key = a
        THEN LET s == IF r = None THEN First ELSE r
             IN  {Admitting(s, o)} \cup (IF s.lone THEN {} ELSE {s})
        ELSE {r}

-----------------------------------------------------------------------------
(* The worker. *)

Idle == pc = "idle"

\* Start: a claim is recorded, with the roster the other side offers.  Its
\* id holds a nonce, so a pairing that was given up or collected never
\* comes back.
Start(o, dialed, input) ==
  /\ Idle /\ claim[o].phase = "None" /\ invite[o]
  /\ input # None => input \in World \cup signed
  /\ claim' = [claim EXCEPT ![o] = [phase |-> "Receiving", dialed |-> dialed,
                                    input |-> input, initial |-> anchor]]
  /\ UNCHANGED <<anchor, key, kept, archive, ver, invite, plan, blob,
                 pc, cur, copy, signed, counts>>

Work(step, o) == pc' = step /\ cur' = o /\ UNCHANGED copy

\* recover_pairing: at Node::open, and before anything a pairing does.
Recover(o) ==
  /\ Idle /\ Open(o)
  /\ Work("check", o)
  /\ UNCHANGED <<disk, signed, counts>>

\* Mutant: a plan that is open does not stop the next one.
MayPrepareAlways(o) == Idle

\* The worker is free, and nothing is left to recover.
MayPrepare(o) == Idle /\ ~NeedsRecovery

\* commit / the joiner's settlement, up to the first write of the plan: a
\* plan that was saved before is taken up when its bytes are complete, and
\* replaced when they are not.
Prepare(o) ==
  LET c == claim[o]
      act == Verdict(Mine, c.input, c.dialed)
      a == IF act = "Adopt" THEN c.input.root ELSE anchor
      refused == \/ act = "Clash"
                 \/ key # None /\ key # a /\ IsNetwork(key)
  IN  /\ MayPrepare(o)
      /\ c.phase = "Receiving"
      /\ c.dialed => anchor = c.initial
      /\ \/ /\ plan[o].stage = "preparing" /\ blob[o]
            /\ plan' = [plan EXCEPT ![o].stage = "ready"]
            /\ Work("check", o)
            /\ UNCHANGED <<anchor, key, kept, archive, ver, claim, invite, blob>>
         \/ /\ ~blob[o] /\ ~refused
            /\ \E r \in Desired(o, a, act, c.input) :
                 /\ r # None => r.seq <= MaxSeq
                 /\ plan' = [plan EXCEPT ![o] =
                      [stage |-> "preparing", beforeAnchor |-> anchor, beforeRoster |-> Mine,
                       beforeKey |-> key, anchor |-> a, roster |-> r, target |-> None]]
            /\ Work("stage", o)
            /\ UNCHANGED <<anchor, key, kept, archive, ver, claim, invite, blob>>
         \/ \* the issuer gives the claim up
            /\ ~blob[o] /\ refused /\ ~c.dialed
            /\ claim' = [claim EXCEPT ![o].phase = "Aborted"]
            /\ plan' = [plan EXCEPT ![o] = NoPlan]
            /\ UNCHANGED <<anchor, key, kept, archive, ver, invite, blob, pc, cur, copy>>
         \/ \* the joiner reports the error, and may try again
            /\ ~blob[o] /\ refused /\ c.dialed
            /\ plan' = [plan EXCEPT ![o] = NoPlan]
            /\ UNCHANGED <<anchor, key, kept, archive, ver, claim, invite, blob,
                           pc, cur, copy>>
      /\ UNCHANGED <<signed, counts>>

At(step, o) == pc = step /\ cur = o
Then(step) == pc' = step /\ UNCHANGED <<cur, copy, signed, counts>>

\* The worker is done, or gone, and its copy of the table with it.
LetGo == pc' = "idle" /\ cur' = None /\ pen' = None /\ mem' = [p \in Pen |-> 0]

\* Mutant: the bytes are not made durable.
StageNothing(o) ==
  /\ At("stage", o)
  /\ Then("ready")
  /\ UNCHANGED <<anchor, key, kept, archive, ver, claim, invite, plan, blob>>

\* prepare_roster_blob
Stage(o) ==
  /\ At("stage", o)
  /\ blob' = [blob EXCEPT ![o] = plan[o].roster # None]
  /\ Then("ready")
  /\ UNCHANGED <<anchor, key, kept, archive, ver, claim, invite, plan>>

MarkReady(o) ==
  /\ At("ready", o)
  /\ plan' = [plan EXCEPT ![o].stage = "ready"]
  /\ Then("check")
  /\ UNCHANGED <<anchor, key, kept, archive, ver, claim, invite, blob>>

\* Mutant: a saved version is taken for a written one.
CoveredWhenSaved(o) == plan[o].target # None

\* Whether the table on disk already holds what the plan wrote, by the
\* version saved in it.
Covered(o) ==
  /\ plan[o].target # None
  /\ \A p \in Pen : ver[p] >= plan[o].target[p]

\* Mutant: a key that is already deleted is a key that changed.
AppliesWithKey(o) ==
  LET p == plan[o]
      old == IF p.beforeAnchor = None THEN None ELSE Newest(p.beforeAnchor)
      new == IF p.anchor = None THEN None ELSE Newest(p.anchor)
  IN  /\ anchor \in {p.beforeAnchor, p.anchor}
      /\ key = p.beforeKey
      /\ \/ Covered(o)
         \/ /\ old = p.beforeRoster \/ new = p.roster
            /\ ~(new # None /\ new # p.roster /\ p.beforeAnchor # p.anchor)

\* The refusals of apply_pair_settlement: whatever the plan was computed
\* from must still be there, or what it decided must be there already.
Applies(o) ==
  LET p == plan[o]
      old == IF p.beforeAnchor = None THEN None ELSE Newest(p.beforeAnchor)
      new == IF p.anchor = None THEN None ELSE Newest(p.anchor)
  IN  /\ anchor \in {p.beforeAnchor, p.anchor}
      /\ key = p.beforeKey \/ (Covered(o) /\ key = None)
      /\ \/ Covered(o)
         \/ /\ old = p.beforeRoster \/ new = p.roster
            /\ ~(new # None /\ new # p.roster /\ p.beforeAnchor # p.anchor)

\* The table is loaded, which takes the pen the settlement writes with.
Check(o) ==
  /\ At("check", o)
  /\ Applies(o)
  /\ \E p \in Pen : pen' = p /\ mem' = [ver EXCEPT ![p] = @ + SettleOps]
  /\ pc' = (IF Covered(o) THEN "retire" ELSE "burn")
  /\ UNCHANGED <<disk, cur, signed, counts>>

Refuse(o) ==
  /\ At("check", o)
  /\ ~Applies(o)
  /\ LetGo /\ UNCHANGED <<signed, counts>>
  /\ UNCHANGED disk

\* An invite already burnt is this plan's own doing.
Burn(o) ==
  /\ At("burn", o)
  /\ invite' = [invite EXCEPT ![o] = claim[o].dialed /\ @]
  /\ Then("anchor")
  /\ UNCHANGED <<anchor, key, kept, archive, ver, claim, plan, blob>>

PublishAnchor(o) ==
  /\ At("anchor", o)
  /\ anchor' = IF plan[o].anchor = None THEN anchor ELSE plan[o].anchor
  /\ Then("target")
  /\ UNCHANGED <<key, kept, archive, ver, claim, invite, plan, blob>>

\* Mutant: the version without the writing pen's entry.
SaveTargetOthers(o) ==
  /\ At("target", o)
  /\ plan' = [plan EXCEPT ![o].target = [q \in Pen \ {pen} |-> mem[q]]]
  /\ Then("flush")
  /\ UNCHANGED <<anchor, key, kept, archive, ver, claim, invite, blob>>

SaveTarget(o) ==
  /\ At("target", o)
  /\ plan' = [plan EXCEPT ![o].target = mem]
  /\ Then("flush")
  /\ UNCHANGED <<anchor, key, kept, archive, ver, claim, invite, blob>>

\* drop_rosters when the root changes, store_roster, which prunes lower
\* seqs of every root, and the archive of the roster the other side brought.
Stored(o) ==
  LET p == plan[o]
      base == IF p.beforeAnchor # p.anchor THEN [r \in Root |-> None] ELSE kept
  IN  IF p.roster = None THEN kept
      ELSE [r \in Root |-> IF r = p.roster.root THEN p.roster
                           ELSE IF base[r] # None /\ base[r].seq < p.roster.seq THEN None
                           ELSE base[r]]

Flush(o) ==
  /\ At("flush", o)
  /\ kept' = Stored(o)
  /\ archive' = [archive EXCEPT ![o] = claim[o].input]
  /\ ver' = [ver EXCEPT ![pen] = mem[pen]]
  /\ signed' = signed \cup {r \in {plan[o].roster} : r # None /\ r.root = Own}
  /\ overtaken' = IF plan[o].roster = None THEN overtaken ELSE overtaken \ {plan[o].anchor}
  /\ pc' = "retire" /\ UNCHANGED <<cur, copy, faults, edits, moves>>
  /\ UNCHANGED <<anchor, key, claim, invite, plan, blob>>

\* A key this plan superseded.
Superseded(o) ==
  key # None /\ plan[o].beforeKey # None /\ plan[o].beforeKey # plan[o].anchor

RetireKey(o) ==
  /\ At("retire", o)
  /\ ~(Superseded(o) /\ IsNetwork(key))
  /\ key' = IF Superseded(o) THEN None ELSE key
  /\ Then("owner")
  /\ UNCHANGED <<anchor, kept, archive, ver, claim, invite, plan, blob>>

\* pair_two_roots: the old root turns out to be a network after all.
RetireRefused(o) ==
  /\ At("retire", o)
  /\ Superseded(o) /\ IsNetwork(key)
  /\ LetGo /\ UNCHANGED <<signed, counts>>
  /\ UNCHANGED disk

\* The pairing's own row: AdmissionFlushed.
AdvanceOwner(o) ==
  /\ At("owner", o)
  /\ claim' = [claim EXCEPT ![o].phase = "AdmissionFlushed"]
  /\ Then("finish")
  /\ UNCHANGED <<anchor, key, kept, archive, ver, invite, plan, blob>>

Finish(o) ==
  /\ At("finish", o)
  /\ plan' = [plan EXCEPT ![o].stage = "finished"]
  /\ LetGo /\ UNCHANGED <<signed, counts>>
  /\ UNCHANGED <<anchor, key, kept, archive, ver, claim, invite, blob>>

-----------------------------------------------------------------------------
(* What else happens to the machine. *)

\* A crash, or an I/O error that ends the attempt (when it ends prepare, the
\* issuer's handler goes on to Abort).
Interrupt ==
  /\ ~Idle /\ faults < MaxFaults
  /\ LetGo /\ faults' = faults + 1
  /\ UNCHANGED <<disk, signed, edits, moves, overtaken>>

\* Mutant: the plan is not looked at.
AbortClaim(o) == claim[o].phase = "Receiving"

\* abort_pair, abort_local_pair: only before the plan is ready.
AbortAllowed(o) == claim[o].phase = "Receiving" /\ plan[o].stage \in {"none", "preparing"}

Abort(o) ==
  /\ Idle /\ AbortAllowed(o)
  /\ blob' = [blob EXCEPT ![o] = FALSE]
  /\ claim' = [claim EXCEPT ![o].phase = "Aborted"]
  /\ plan' = [plan EXCEPT ![o] = NoPlan]
  /\ UNCHANGED <<anchor, key, kept, archive, ver, invite, pc, cur, copy, signed, counts>>

\* collect_pairing, a day after the pairing completed.
Collect(o) ==
  /\ Idle /\ ~NeedsRecovery
  /\ plan[o].stage = "finished"
  /\ archive' = [archive EXCEPT ![o] = None]
  /\ blob' = [blob EXCEPT ![o] = FALSE]
  /\ claim' = [claim EXCEPT ![o].phase = "Collected"]
  /\ plan' = [plan EXCEPT ![o] = NoPlan]
  /\ UNCHANGED <<anchor, key, kept, ver, invite, pc, cur, copy, signed, counts>>

\* A row edit: any pen but the one the worker holds.  The counter of a pen
\* goes on from what the disk says, so edits may reach a version that a plan
\* saved and never flushed; the history variable keeps the root of such a
\* plan, whose roster the table may never have seen.
Edit(p) ==
  /\ edits + moves < MaxOthers /\ edits' = edits + 1
  /\ pc \in {"burn", "anchor", "target", "flush", "retire"} => p # pen
  /\ ver' = [ver EXCEPT ![p] = @ + 1]
  /\ UNCHANGED <<anchor, key, kept, archive, claim, invite, plan, blob,
                 pc, cur, copy, signed, faults, moves>>
  /\ overtaken' = overtaken \cup
       {plan[o].anchor : o \in {q \in Op : Open(q) /\ ~Covered(q) /\ Covered(q)'}}

\* Mutant: the fence alone.
FenceOnly ==
  /\ Idle
  /\ edits + moves < MaxOthers /\ moves' = moves + 1
  /\ UNCHANGED <<claim, invite, plan, blob, ver, pc, cur, copy, faults, edits, overtaken>>

\* Everything that changes trust: root_mutation_guard.
RootMutation ==
  /\ Idle /\ ~NeedsRecovery
  /\ edits + moves < MaxOthers /\ moves' = moves + 1
  /\ UNCHANGED <<claim, invite, plan, blob, ver, pc, cur, copy, faults, edits, overtaken>>

Prune(r) ==
  [x \in Root |-> IF x = r.root THEN r
                  ELSE IF kept[x] # None /\ kept[x].seq < r.seq THEN None ELSE kept[x]]

\* approve, revoke, refresh: the holder signs the next roster.
Sign(lone) ==
  LET r == [root |-> Own, seq |-> Newest(Own).seq + 1, lone |-> lone, by |-> None]
  IN  /\ RootMutation
      /\ key = Own /\ anchor = Own /\ Newest(Own) # None /\ r.seq <= MaxSeq
      /\ kept' = Prune(r)
      /\ signed' = signed \cup {r}
      /\ UNCHANGED <<anchor, key, archive>>

\* root_init, of a machine from before roots.
RootInit(lone) ==
  LET r == [First EXCEPT !.lone = lone]
  IN  /\ RootMutation
      /\ anchor = None /\ key = None /\ signed = {}
      /\ key' = Own /\ anchor' = Own
      /\ kept' = Prune(r) /\ signed' = {r}
      /\ UNCHANGED archive

\* A merge or a vouch brings a later roster of another root.
Arrive(r) ==
  /\ RootMutation
  /\ r \in World /\ anchor = r.root
  /\ Newest(r.root) # None => Newest(r.root).seq < r.seq
  /\ kept' = Prune(r)
  /\ UNCHANGED <<anchor, key, archive, signed>>

\* khor leave, on a machine that does not hold its root.
Leave ==
  /\ RootMutation
  /\ anchor # None /\ key # anchor
  /\ anchor' = None
  /\ kept' = [r \in Root |-> None] /\ archive' = [o \in Op |-> None]
  /\ UNCHANGED <<key, signed>>

-----------------------------------------------------------------------------
\* A machine that made its own root, maybe the holder of a network by now,
\* one from before roots, or a member of somebody else's network.
Init ==
  /\ \/ /\ anchor = Own /\ key = Own
        /\ \E own \in {First, [First EXCEPT !.seq = 2, !.lone = FALSE]} :
             /\ signed = {First, own}
             /\ kept = [r \in Root |-> IF r = Own THEN own ELSE None]
     \/ /\ anchor = None /\ key = None /\ signed = {}
        /\ kept = [r \in Root |-> None]
     \/ /\ key = None /\ signed = {}
        /\ \E w \in World : /\ anchor = w.root
                            /\ kept = [r \in Root |-> IF r = w.root THEN w ELSE None]
  /\ archive = [o \in Op |-> None]
  /\ ver = [p \in Pen |-> 0]
  /\ claim = [o \in Op |-> NoClaim]
  /\ invite = [o \in Op |-> TRUE]
  /\ plan = [o \in Op |-> NoPlan]
  /\ blob = [o \in Op |-> FALSE]
  /\ pc = "idle" /\ cur = None /\ pen = None /\ mem = [p \in Pen |-> 0]
  /\ faults = 0 /\ edits = 0 /\ moves = 0 /\ overtaken = {}

Apply(o) ==
  \/ Stage(o) \/ MarkReady(o) \/ Check(o) \/ Refuse(o) \/ Burn(o) \/ PublishAnchor(o)
  \/ SaveTarget(o) \/ Flush(o) \/ RetireKey(o) \/ RetireRefused(o)
  \/ AdvanceOwner(o) \/ Finish(o)

Pairing(o) ==
  \/ \E dialed \in BOOLEAN, input \in World \cup signed \cup {None} : Start(o, dialed, input)
  \/ Recover(o) \/ Prepare(o) \/ Apply(o) \/ Abort(o) \/ Collect(o)

Mutation ==
  \/ \E lone \in BOOLEAN : Sign(lone) \/ RootInit(lone)
  \/ \E r \in World : Arrive(r)
  \/ Leave

Next ==
  \/ \E o \in Op : Pairing(o)
  \/ \E p \in Pen : Edit(p)
  \/ Mutation
  \/ Interrupt

Spec == Init /\ [][Next]_vars

\* The worker runs to its end, and whoever pairs, or opens the node, has
\* what was left open recovered.
Fairness == WF_vars(\E o \in Op : Apply(o) \/ Recover(o))

FairSpec == Spec /\ Fairness

-----------------------------------------------------------------------------
(* Properties. *)

Steps == {"idle", "stage", "ready", "check", "burn", "anchor", "target", "flush",
          "retire", "owner", "finish"}

Claims == [phase : {"None", "Receiving", "AdmissionFlushed", "Aborted", "Collected"},
           dialed : BOOLEAN, input : Roster \cup {None}, initial : Root \cup {None}]

Plans == [stage : {"none", "preparing", "ready", "finished"},
          beforeAnchor : Root \cup {None}, beforeRoster : Roster \cup {None},
          beforeKey : Root \cup {None}, anchor : Root \cup {None},
          roster : Roster \cup {None}, target : Version \cup {None}]

\* Every file, row and table holds what the code stores in it.
TypeOK ==
  /\ anchor \in Root \cup {None} /\ key \in Root \cup {None}
  /\ kept \in [Root -> Roster \cup {None}] /\ archive \in [Op -> Roster \cup {None}]
  /\ ver \in Version
  /\ claim \in [Op -> Claims] /\ invite \in [Op -> BOOLEAN]
  /\ plan \in [Op -> Plans] /\ blob \in [Op -> BOOLEAN]
  /\ pc \in Steps /\ cur \in Op \cup {None}
  /\ pen \in Pen \cup {None} /\ mem \in Version
  /\ signed \subseteq Roster
  /\ faults \in Nat /\ edits \in Nat /\ moves \in Nat
  /\ overtaken \subseteq Root \cup {None}

\* prepare: "No user trust mutation occurs until ... the Ready intent has
\* reached the shared journal"; recovery takes up every ready plan in turn,
\* so there must never be two that were computed from different trust.
OneOpenPlan == \A o, q \in Op : Open(o) /\ Open(q) => o = q

\* Whatever interrupts it, a ready plan finds the bytes it will store and
\* the pairing it belongs to ("settlement owner disappeared").
RecoveryHasItsInputs ==
  \A o \in Op : Open(o) => /\ plan[o].roster # None => blob[o]
                          /\ claim[o].phase \in {"Receiving", "AdmissionFlushed"}

\* "this durable Ready intent owns the burn": a ticket is gone only once
\* its pairing can no longer be rolled back.
BurnIsOwned ==
  \A o \in Op : ~invite[o] => \/ plan[o].stage \in {"ready", "finished"}
                              \/ claim[o].phase = "Collected"

\* "Flush and its saved target precede retirement": the private key of a
\* root is deleted only when the machine is anchored to another root by a
\* ready plan whose saved version is on disk.  The roster is in the table by
\* then, unless other edits brought the disk to that version.
KeyRetiredOnceCovered ==
  [][key # None /\ key' = None
       => /\ anchor \notin {None, key}
          /\ Newest(anchor) # None \/ anchor \in overtaken
          /\ \E o \in Op : Open(o) /\ plan[o].anchor = anchor /\ Covered(o)]_vars

\* An anchor without a roster of its root refuses every machine.  It is
\* never left so, except by a settlement that recovery will complete, or by
\* one that other edits have passed over.
AnchorHasRoster ==
  anchor # None /\ Newest(anchor) = None /\ anchor \notin overtaken
    => \E o \in Op : Open(o) /\ plan[o].anchor = anchor /\ blob[o] /\ Applies(o)

\* The disk's view of PairAdmission: a pairing is decided by the write that
\* makes its plan ready and admitted by the one that finishes it.
Progress(o) ==
  IF plan[o].stage = "ready" THEN "decided"
  ELSE IF plan[o].stage = "finished" THEN "admitted"
  ELSE IF claim[o].phase = "None" THEN "new"
  ELSE IF claim[o].phase = "Receiving" THEN "claimed" ELSE "gone"

Abstract == INSTANCE PairAdmission
  WITH st <- [o \in Op |-> Progress(o)],
       to <- [o \in Op |-> IF plan[o].stage \in {"ready", "finished"}
                             THEN plan[o].anchor ELSE None]

\* Wherever it is interrupted, the sequence of writes is a decision carried
\* out once and for all.
ImplementsPairAdmission == Abstract!Spec

\* Once a ready plan can be applied, neither crashes nor edits stop the
\* worker until no plan is open, unless an archive still shows the old root
\* as a network.
AppliedPlanFinishes ==
  (\E o \in Op : Open(o) /\ Applies(o)) ~>
    \/ ~NeedsRecovery
    \/ \E q \in Op : archive[q] # None /\ archive[q].root = key /\ ~archive[q].lone
=============================================================================
