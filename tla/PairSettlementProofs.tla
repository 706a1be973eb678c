------------------------ MODULE PairSettlementProofs ------------------------
(***************************************************************************)
(* PairSettlement for any number of pairings, roots, pens, faults, edits   *)
(* and changes of trust: its invariants, and that it implements            *)
(* PairAdmission.                                                          *)
(***************************************************************************)
EXTENDS PairSettlement, TLAPS, WellFoundedInduction

(* A plan and the row of the pairing it belongs to.  A finished plan's     *)
(* pairing is past Receiving, so it can be neither prepared again nor      *)
(* aborted; a plan that is not ready has reached nothing.                  *)
PlanInv ==
  \A o \in Op :
    /\ plan[o].stage = "none" => claim[o].phase # "AdmissionFlushed"
    /\ plan[o].stage = "preparing" => claim[o].phase = "Receiving" /\ plan[o].target = None
    /\ plan[o].stage = "ready" => claim[o].phase \in {"Receiving", "AdmissionFlushed"}
    /\ plan[o].stage = "finished" => claim[o].phase = "AdmissionFlushed"
    /\ plan[o].anchor = None => plan[o].beforeAnchor = None

(* The worker is on a plan of its own, and that plan is the only open one. *)
WorkerInv ==
  /\ pc # "idle" => cur \in Op
  /\ pc \in {"stage", "ready"} => plan[cur].stage = "preparing" /\ ~NeedsRecovery
  /\ pc = "ready" => (plan[cur].roster # None => blob[cur])
  /\ pc \in Steps \ {"idle", "stage", "ready"} => Open(cur)
  /\ pc \in {"burn", "anchor", "target", "flush"} => pen \in Pen
  /\ pc = "finish" => claim[cur].phase = "AdmissionFlushed"

(* The anchor and the key while a plan is carried out.  A saved target     *)
(* means that the anchor was published.                                    *)
TrustInv ==
  /\ \A o \in Op : Open(o) /\ plan[o].target # None => anchor = plan[o].anchor
  /\ pc \in {"burn", "anchor"} => anchor \in {plan[cur].beforeAnchor, plan[cur].anchor}
  /\ pc \in {"target", "flush", "retire", "owner", "finish"} => anchor = plan[cur].anchor
  /\ pc \in {"burn", "anchor", "target", "flush"} => key = plan[cur].beforeKey
  /\ pc = "retire" => key \in {None, plan[cur].beforeKey}
  /\ pc \in {"owner", "finish"} => key \in {None, plan[cur].anchor}

IInv ==
  /\ TypeOK /\ OneOpenPlan /\ RecoveryHasItsInputs /\ BurnIsOwned
  /\ PlanInv /\ WorkerInv /\ TrustInv

-----------------------------------------------------------------------------
(* The newest roster is a roster. *)

\* What the table says of a root is one of the rosters stored in it
\* (newest_in).
LEMMA NewestType ==
  ASSUME TypeOK, NEW r \in Root
  PROVE  Newest(r) \in Roster \cup {None}
BY DEF TypeOK, Newest

\* So is what the machine goes by.
LEMMA MineType ==
  ASSUME TypeOK
  PROVE  Mine \in Roster \cup {None}
BY NewestType DEF Mine, TypeOK

\* A settlement's roster is one that was stored, offered or signed for it,
\* and a lone offer never makes Adopt a root it does not have.
LEMMA DesiredType ==
  ASSUME TypeOK, NEW o \in Op, NEW a \in Root \cup {None}, NEW act,
         NEW theirs \in Roster \cup {None}, NEW r \in Desired(o, a, act, theirs)
  PROVE  r \in Roster \cup {None}
<1>1. Mine \in Roster \cup {None}
  BY MineType
<1>2. First \in Roster
  BY SettlementAssumption DEF First, Roster
<1>3. \A s \in Roster : Admitting(s, o) \in Roster
  BY DEF Admitting, Roster
<1> QED
  BY <1>1, <1>2, <1>3 DEF Desired

\* Writing one field of a settlement row leaves a settlement row
\* (save_settlement).
LEMMA PlanType ==
  ASSUME NEW P \in [Op -> Plans], NEW o \in Op
  PROVE  /\ \A st \in {"none", "preparing", "ready", "finished"} :
               [P EXCEPT ![o].stage = st] \in [Op -> Plans]
         /\ \A t \in Version : [P EXCEPT ![o].target = t] \in [Op -> Plans]
<1>1. ASSUME NEW st \in {"none", "preparing", "ready", "finished"}
      PROVE  [P EXCEPT ![o].stage = st] \in [Op -> Plans]
  <2>1. [P[o] EXCEPT !.stage = st] \in Plans
    BY DEF Plans
  <2> QED
    BY <2>1
<1>2. ASSUME NEW t \in Version
      PROVE  [P EXCEPT ![o].target = t] \in [Op -> Plans]
  <2>1. [P[o] EXCEPT !.target = t] \in Plans
    BY DEF Plans
  <2> QED
    BY <2>1
<1> QED
  BY <1>1, <1>2

\* The same for the row of the pairing (save_claim, save_local).
LEMMA ClaimType ==
  ASSUME NEW C \in [Op -> Claims], NEW o \in Op,
         NEW ph \in {"None", "Receiving", "AdmissionFlushed", "Aborted", "Collected"}
  PROVE  [C EXCEPT ![o].phase = ph] \in [Op -> Claims]
<1>1. [C[o] EXCEPT !.phase = ph] \in Claims
  BY DEF Claims
<1> QED
  BY <1>1

\* A row that was removed reads as absent.
LEMMA NoPlanType == NoPlan \in Plans
BY DEF NoPlan, Plans

\* What store_roster leaves in the table.
LEMMA PruneType ==
  ASSUME TypeOK, NEW r \in Roster
  PROVE  Prune(r) \in [Root -> Roster \cup {None}]
BY DEF Prune, TypeOK, Roster

\* What the settlement's flush leaves in the table.
LEMMA StoredType ==
  ASSUME TypeOK, NEW o \in Op
  PROVE  Stored(o) \in [Root -> Roster \cup {None}]
<1>1. plan[o].roster \in Roster \cup {None}
  BY DEF TypeOK, Plans
<1> QED
  BY <1>1 DEF Stored, TypeOK

-----------------------------------------------------------------------------

\* A claim that is recorded (Start) has no plan yet.
LEMMA StartKeeps ==
  ASSUME IInv, NEW o \in Op, NEW d \in BOOLEAN,
         NEW input \in World \cup signed \cup {None}, Start(o, d, input)
  PROVE  IInv'
<1> USE DEF Start, IInv, disk, copy, counts, Open, NeedsRecovery, At, Then, Work, Idle
<1>1. TypeOK'
  BY SettlementAssumption DEF TypeOK, Claims, Plans, Steps
<1>2. OneOpenPlan' /\ RecoveryHasItsInputs' /\ BurnIsOwned'
  BY DEF TypeOK, Claims, Plans, OneOpenPlan, RecoveryHasItsInputs, BurnIsOwned,
      PlanInv, WorkerInv, Steps
<1>3. PlanInv'
  BY DEF TypeOK, Claims, Plans, PlanInv, WorkerInv, Steps
<1>4. WorkerInv'
  BY DEF TypeOK, Claims, Plans, OneOpenPlan, PlanInv, WorkerInv, Steps
<1>5. TrustInv'
  BY DEF TypeOK, Claims, Plans, OneOpenPlan, PlanInv, WorkerInv, TrustInv, Steps
<1> QED
  BY <1>1, <1>2, <1>3, <1>4, <1>5

\* Taking up a ready plan again (recover_pairing) writes nothing.
LEMMA RecoverKeeps ==
  ASSUME IInv, NEW o \in Op, Recover(o)
  PROVE  IInv'
<1> USE DEF Recover, IInv, disk, copy, counts, Open, NeedsRecovery, At, Then, Work, Idle
<1>1. TypeOK'
  BY SettlementAssumption DEF TypeOK, Claims, Plans, Steps
<1>2. OneOpenPlan' /\ RecoveryHasItsInputs' /\ BurnIsOwned'
  BY DEF TypeOK, Claims, Plans, OneOpenPlan, RecoveryHasItsInputs, BurnIsOwned,
      PlanInv, WorkerInv, Steps
<1>3. PlanInv'
  BY DEF TypeOK, Claims, Plans, PlanInv, WorkerInv, Steps
<1>4. WorkerInv'
  BY DEF TypeOK, Claims, Plans, OneOpenPlan, PlanInv, WorkerInv, Steps
<1>5. TrustInv'
  BY DEF TypeOK, Claims, Plans, OneOpenPlan, PlanInv, WorkerInv, TrustInv, Steps
<1> QED
  BY <1>1, <1>2, <1>3, <1>4, <1>5

\* Staging the plan's bytes (prepare_roster_blob) precedes readiness.
LEMMA StageKeeps ==
  ASSUME IInv, NEW o \in Op, Stage(o)
  PROVE  IInv'
<1> USE DEF Stage, IInv, disk, copy, counts, Open, NeedsRecovery, At, Then, Work, Idle
<1>1. TypeOK'
  BY SettlementAssumption DEF TypeOK, Claims, Plans, Steps
<1>2. OneOpenPlan' /\ RecoveryHasItsInputs' /\ BurnIsOwned'
  BY DEF TypeOK, Claims, Plans, OneOpenPlan, RecoveryHasItsInputs, BurnIsOwned,
      PlanInv, WorkerInv, Steps
<1>3. PlanInv'
  BY DEF TypeOK, Claims, Plans, PlanInv, WorkerInv, Steps
<1>4. WorkerInv'
  BY DEF TypeOK, Claims, Plans, OneOpenPlan, PlanInv, WorkerInv, Steps
<1>5. TrustInv'
  BY DEF TypeOK, Claims, Plans, OneOpenPlan, PlanInv, WorkerInv, TrustInv, Steps
<1> QED
  BY <1>1, <1>2, <1>3, <1>4, <1>5

\* The second save of prepare_pair_settlement: the only ready plan.
LEMMA MarkReadyKeeps ==
  ASSUME IInv, NEW o \in Op, MarkReady(o)
  PROVE  IInv'
<1> USE DEF MarkReady, IInv, disk, copy, counts, Open, NeedsRecovery, At, Then, Work,
    Idle
<1>1. TypeOK'
  BY PlanType DEF TypeOK, Steps
<1>2. OneOpenPlan' /\ RecoveryHasItsInputs' /\ BurnIsOwned'
  BY DEF TypeOK, Claims, Plans, OneOpenPlan, RecoveryHasItsInputs, BurnIsOwned,
      PlanInv, WorkerInv, Steps
<1>3. PlanInv'
  BY DEF TypeOK, Claims, Plans, PlanInv, WorkerInv, Steps
<1>4. WorkerInv'
  BY DEF TypeOK, Claims, Plans, OneOpenPlan, PlanInv, WorkerInv, Steps
<1>5. TrustInv'
  BY DEF TypeOK, Claims, Plans, OneOpenPlan, PlanInv, WorkerInv, TrustInv, Steps
<1> QED
  BY <1>1, <1>2, <1>3, <1>4, <1>5

\* apply_pair_settlement's checks, and the loading of the table.
LEMMA CheckKeeps ==
  ASSUME IInv, NEW o \in Op, Check(o)
  PROVE  IInv'
<1> USE DEF Check, IInv, disk, copy, counts, Open, NeedsRecovery, At, Then, Work, Idle
<1>1. TypeOK'
  BY SettlementAssumption DEF TypeOK, Claims, Plans, Version, Steps
<1>2. OneOpenPlan' /\ RecoveryHasItsInputs' /\ BurnIsOwned'
  BY DEF TypeOK, Claims, Plans, OneOpenPlan, RecoveryHasItsInputs, BurnIsOwned,
      PlanInv, WorkerInv, Steps
<1>3. PlanInv'
  BY DEF TypeOK, Claims, Plans, PlanInv, WorkerInv, Steps
<1>4. WorkerInv'
  BY DEF TypeOK, Claims, Plans, OneOpenPlan, PlanInv, WorkerInv, Steps
<1>5. TrustInv'
  BY DEF TypeOK, Claims, Plans, OneOpenPlan, PlanInv, WorkerInv, TrustInv, Steps,
      Applies, Covered
<1> QED
  BY <1>1, <1>2, <1>3, <1>4, <1>5

\* A refusal of apply_pair_settlement leaves the plan as it is.
LEMMA RefuseKeeps ==
  ASSUME IInv, NEW o \in Op, Refuse(o)
  PROVE  IInv'
<1> USE DEF Refuse, LetGo, IInv, disk, copy, counts, Open, NeedsRecovery, At, Then,
    Work, Idle
<1>1. TypeOK'
  BY SettlementAssumption DEF TypeOK, Claims, Plans, Steps, Version
<1>2. OneOpenPlan' /\ RecoveryHasItsInputs' /\ BurnIsOwned'
  BY DEF TypeOK, Claims, Plans, OneOpenPlan, RecoveryHasItsInputs, BurnIsOwned,
      PlanInv, WorkerInv, Steps
<1>3. PlanInv'
  BY DEF TypeOK, Claims, Plans, PlanInv, WorkerInv, Steps
<1>4. WorkerInv'
  BY DEF TypeOK, Claims, Plans, OneOpenPlan, PlanInv, WorkerInv, Steps
<1>5. TrustInv'
  BY DEF TypeOK, Claims, Plans, OneOpenPlan, PlanInv, WorkerInv, TrustInv, Steps
<1> QED
  BY <1>1, <1>2, <1>3, <1>4, <1>5

\* The invite is burnt by a ready plan.
LEMMA BurnKeeps ==
  ASSUME IInv, NEW o \in Op, Burn(o)
  PROVE  IInv'
<1> USE DEF Burn, IInv, disk, copy, counts, Open, NeedsRecovery, At, Then, Work, Idle
<1>1. TypeOK'
  BY SettlementAssumption DEF TypeOK, Claims, Plans, Steps
<1>2. OneOpenPlan' /\ RecoveryHasItsInputs' /\ BurnIsOwned'
  BY DEF TypeOK, Claims, Plans, OneOpenPlan, RecoveryHasItsInputs, BurnIsOwned,
      PlanInv, WorkerInv, Steps
<1>3. PlanInv'
  BY DEF TypeOK, Claims, Plans, PlanInv, WorkerInv, Steps
<1>4. WorkerInv'
  BY DEF TypeOK, Claims, Plans, OneOpenPlan, PlanInv, WorkerInv, Steps
<1>5. TrustInv'
  BY DEF TypeOK, Claims, Plans, OneOpenPlan, PlanInv, WorkerInv, TrustInv, Steps
<1> QED
  BY <1>1, <1>2, <1>3, <1>4, <1>5

\* The anchor is published by a ready plan.
LEMMA PublishAnchorKeeps ==
  ASSUME IInv, NEW o \in Op, PublishAnchor(o)
  PROVE  IInv'
<1> USE DEF PublishAnchor, IInv, disk, copy, counts, Open, NeedsRecovery, At, Then,
    Work, Idle
<1>1. TypeOK'
  BY SettlementAssumption DEF TypeOK, Claims, Plans, Steps
<1>2. OneOpenPlan' /\ RecoveryHasItsInputs' /\ BurnIsOwned'
  BY DEF TypeOK, Claims, Plans, OneOpenPlan, RecoveryHasItsInputs, BurnIsOwned,
      PlanInv, WorkerInv, Steps
<1>3. PlanInv'
  BY DEF TypeOK, Claims, Plans, PlanInv, WorkerInv, Steps
<1>4. WorkerInv'
  BY DEF TypeOK, Claims, Plans, OneOpenPlan, PlanInv, WorkerInv, Steps
<1>5. TrustInv'
  BY DEF TypeOK, Claims, Plans, OneOpenPlan, PlanInv, WorkerInv, TrustInv, Steps
<1> QED
  BY <1>1, <1>2, <1>3, <1>4, <1>5

\* The version the table will reach is saved in the ready plan.
LEMMA SaveTargetKeeps ==
  ASSUME IInv, NEW o \in Op, SaveTarget(o)
  PROVE  IInv'
<1> USE DEF SaveTarget, IInv, disk, copy, counts, Open, NeedsRecovery, At, Then, Work,
    Idle
<1>1. TypeOK'
  BY PlanType DEF TypeOK, Steps
<1>2. OneOpenPlan' /\ RecoveryHasItsInputs' /\ BurnIsOwned'
  BY DEF TypeOK, Claims, Plans, OneOpenPlan, RecoveryHasItsInputs, BurnIsOwned,
      PlanInv, WorkerInv, Steps
<1>3. PlanInv'
  BY DEF TypeOK, Claims, Plans, PlanInv, WorkerInv, Steps
<1>4. WorkerInv'
  BY DEF TypeOK, Claims, Plans, OneOpenPlan, PlanInv, WorkerInv, Steps
<1>5. TrustInv'
  BY DEF TypeOK, Claims, Plans, OneOpenPlan, PlanInv, WorkerInv, TrustInv, Steps
<1> QED
  BY <1>1, <1>2, <1>3, <1>4, <1>5

\* The flush of the table.
LEMMA FlushKeeps ==
  ASSUME IInv, NEW o \in Op, Flush(o)
  PROVE  IInv'
<1> USE DEF Flush, IInv, disk, copy, counts, Open, NeedsRecovery, At, Then, Work, Idle
<1>1. TypeOK'
  <2>1. kept' \in [Root -> Roster \cup {None}]
    BY StoredType
  <2>2. claim[o].input \in Roster \cup {None} /\ plan[o].roster \in Roster \cup {None}
    BY DEF TypeOK, Claims, Plans
  <2>3. ver' \in Version
    BY DEF TypeOK, Version, WorkerInv
  <2> QED
    BY <2>1, <2>2, <2>3 DEF TypeOK, Steps
<1>2. OneOpenPlan' /\ RecoveryHasItsInputs' /\ BurnIsOwned'
  BY DEF TypeOK, Claims, Plans, OneOpenPlan, RecoveryHasItsInputs, BurnIsOwned,
      PlanInv, WorkerInv, Steps
<1>3. PlanInv'
  BY DEF TypeOK, Claims, Plans, PlanInv, WorkerInv, Steps
<1>4. WorkerInv'
  BY DEF TypeOK, Claims, Plans, OneOpenPlan, PlanInv, WorkerInv, Steps
<1>5. TrustInv'
  BY DEF TypeOK, Claims, Plans, OneOpenPlan, PlanInv, WorkerInv, TrustInv, Steps
<1> QED
  BY <1>1, <1>2, <1>3, <1>4, <1>5

\* The deletion of the superseded root key.
LEMMA RetireKeyKeeps ==
  ASSUME IInv, NEW o \in Op, RetireKey(o)
  PROVE  IInv'
<1> USE DEF RetireKey, IInv, disk, copy, counts, Open, NeedsRecovery, At, Then, Work,
    Idle
<1>1. TypeOK'
  BY SettlementAssumption DEF TypeOK, Claims, Plans, Steps
<1>2. OneOpenPlan' /\ RecoveryHasItsInputs' /\ BurnIsOwned'
  BY DEF TypeOK, Claims, Plans, OneOpenPlan, RecoveryHasItsInputs, BurnIsOwned,
      PlanInv, WorkerInv, Steps
<1>3. PlanInv'
  BY DEF TypeOK, Claims, Plans, PlanInv, WorkerInv, Steps
<1>4. WorkerInv'
  BY DEF TypeOK, Claims, Plans, OneOpenPlan, PlanInv, WorkerInv, Steps
<1>5. TrustInv'
  BY DEF TypeOK, Claims, Plans, OneOpenPlan, PlanInv, WorkerInv, TrustInv, Steps,
      Superseded
<1> QED
  BY <1>1, <1>2, <1>3, <1>4, <1>5

\* pair_two_roots, at retirement.
LEMMA RetireRefusedKeeps ==
  ASSUME IInv, NEW o \in Op, RetireRefused(o)
  PROVE  IInv'
<1> USE DEF RetireRefused, LetGo, IInv, disk, copy, counts, Open, NeedsRecovery, At, Then,
    Work, Idle
<1>1. TypeOK'
  BY SettlementAssumption DEF TypeOK, Claims, Plans, Steps, Version
<1>2. OneOpenPlan' /\ RecoveryHasItsInputs' /\ BurnIsOwned'
  BY DEF TypeOK, Claims, Plans, OneOpenPlan, RecoveryHasItsInputs, BurnIsOwned,
      PlanInv, WorkerInv, Steps
<1>3. PlanInv'
  BY DEF TypeOK, Claims, Plans, PlanInv, WorkerInv, Steps
<1>4. WorkerInv'
  BY DEF TypeOK, Claims, Plans, OneOpenPlan, PlanInv, WorkerInv, Steps
<1>5. TrustInv'
  BY DEF TypeOK, Claims, Plans, OneOpenPlan, PlanInv, WorkerInv, TrustInv, Steps
<1> QED
  BY <1>1, <1>2, <1>3, <1>4, <1>5

\* The pairing's own row is advanced while its plan is still ready.
LEMMA AdvanceOwnerKeeps ==
  ASSUME IInv, NEW o \in Op, AdvanceOwner(o)
  PROVE  IInv'
<1> USE DEF AdvanceOwner, IInv, disk, copy, counts, Open, NeedsRecovery, At, Then,
    Work, Idle
<1>1. TypeOK'
  BY ClaimType DEF TypeOK, Steps
<1>2. OneOpenPlan' /\ RecoveryHasItsInputs' /\ BurnIsOwned'
  BY DEF TypeOK, Claims, Plans, OneOpenPlan, RecoveryHasItsInputs, BurnIsOwned,
      PlanInv, WorkerInv, Steps
<1>3. PlanInv'
  BY DEF TypeOK, Claims, Plans, PlanInv, WorkerInv, Steps
<1>4. WorkerInv'
  BY DEF TypeOK, Claims, Plans, OneOpenPlan, PlanInv, WorkerInv, Steps
<1>5. TrustInv'
  BY DEF TypeOK, Claims, Plans, OneOpenPlan, PlanInv, WorkerInv, TrustInv, Steps
<1> QED
  BY <1>1, <1>2, <1>3, <1>4, <1>5

\* The plan is finished.
LEMMA FinishKeeps ==
  ASSUME IInv, NEW o \in Op, Finish(o)
  PROVE  IInv'
<1> USE DEF Finish, LetGo, IInv, disk, copy, counts, Open, NeedsRecovery, At, Then,
    Work, Idle
<1>1. TypeOK'
  BY PlanType DEF TypeOK, Steps, Version
<1>2. OneOpenPlan' /\ RecoveryHasItsInputs' /\ BurnIsOwned'
  BY DEF TypeOK, Claims, Plans, OneOpenPlan, RecoveryHasItsInputs, BurnIsOwned,
      PlanInv, WorkerInv, Steps
<1>3. PlanInv'
  BY DEF TypeOK, Claims, Plans, PlanInv, WorkerInv, Steps
<1>4. WorkerInv'
  BY DEF TypeOK, Claims, Plans, OneOpenPlan, PlanInv, WorkerInv, Steps
<1>5. TrustInv'
  BY DEF TypeOK, Claims, Plans, OneOpenPlan, PlanInv, WorkerInv, TrustInv, Steps
<1> QED
  BY <1>1, <1>2, <1>3, <1>4, <1>5

\* abort_pair and abort_local_pair touch no ready plan.
LEMMA AbortKeeps ==
  ASSUME IInv, NEW o \in Op, Abort(o)
  PROVE  IInv'
<1> USE DEF Abort, IInv, disk, copy, counts, Open, NeedsRecovery, At, Then, Work, Idle,
    AbortAllowed
<1>1. TypeOK'
  BY ClaimType, NoPlanType DEF TypeOK, Steps
<1>2. OneOpenPlan' /\ RecoveryHasItsInputs' /\ BurnIsOwned'
  BY DEF TypeOK, Claims, Plans, NoPlan, OneOpenPlan, RecoveryHasItsInputs, BurnIsOwned,
      PlanInv, WorkerInv, Steps
<1>3. PlanInv'
  BY DEF TypeOK, Claims, Plans, NoPlan, PlanInv, WorkerInv, Steps
<1>4. WorkerInv'
  BY DEF TypeOK, Claims, Plans, NoPlan, OneOpenPlan, PlanInv, WorkerInv, Steps
<1>5. TrustInv'
  BY DEF TypeOK, Claims, Plans, NoPlan, OneOpenPlan, PlanInv, WorkerInv, TrustInv, Steps
<1> QED
  BY <1>1, <1>2, <1>3, <1>4, <1>5

\* collect_pairing runs only when nothing is open.
LEMMA CollectKeeps ==
  ASSUME IInv, NEW o \in Op, Collect(o)
  PROVE  IInv'
<1> USE DEF Collect, IInv, disk, copy, counts, Open, NeedsRecovery, At, Then, Work, Idle
<1>1. TypeOK'
  BY ClaimType, NoPlanType DEF TypeOK, Steps
<1>2. OneOpenPlan' /\ RecoveryHasItsInputs' /\ BurnIsOwned'
  BY DEF TypeOK, Claims, Plans, NoPlan, OneOpenPlan, RecoveryHasItsInputs, BurnIsOwned,
      PlanInv, WorkerInv, Steps
<1>3. PlanInv'
  BY DEF TypeOK, Claims, Plans, NoPlan, PlanInv, WorkerInv, Steps
<1>4. WorkerInv'
  BY DEF TypeOK, Claims, Plans, NoPlan, OneOpenPlan, PlanInv, WorkerInv, Steps
<1>5. TrustInv'
  BY DEF TypeOK, Claims, Plans, NoPlan, OneOpenPlan, PlanInv, WorkerInv, TrustInv, Steps
<1> QED
  BY <1>1, <1>2, <1>3, <1>4, <1>5

\* prepare_pair_settlement, up to its first write, in its three outcomes.
LEMMA PrepareKeeps ==
  ASSUME IInv, NEW o \in Op, Prepare(o)
  PROVE  IInv'
<1> USE DEF IInv, disk, copy, counts, Open, NeedsRecovery, Work, Idle
<1> DEFINE c == claim[o]
           act == Verdict(Mine, c.input, c.dialed)
           a == IF act = "Adopt" THEN c.input.root ELSE anchor
<1>1. /\ c \in Claims /\ c.phase = "Receiving" /\ ~NeedsRecovery
      /\ plan[o].stage \in {"none", "preparing"}
  BY DEF Prepare, MayPrepare, TypeOK, PlanInv, Plans
<1>2. a \in Root \cup {None} /\ (a = None => anchor = None)
  <2>1. act = "Adopt" => c.input \in Roster
    BY <1>1 DEF Verdict, Claims
  <2> QED
    BY <2>1, SettlementAssumption DEF TypeOK, Roster
<1>3. CASE /\ plan[o].stage = "preparing" /\ blob[o]
           /\ plan' = [plan EXCEPT ![o].stage = "ready"]
           /\ Work("check", o)
           /\ UNCHANGED <<anchor, key, kept, archive, ver, claim, invite, blob,
                          signed, counts>>
  <2>1. TypeOK'
    BY <1>3, PlanType DEF TypeOK, Steps
  <2>2. OneOpenPlan' /\ RecoveryHasItsInputs' /\ BurnIsOwned' /\ PlanInv'
    BY <1>1, <1>3 DEF TypeOK, Plans, OneOpenPlan, RecoveryHasItsInputs, BurnIsOwned,
        PlanInv
  <2>3. WorkerInv' /\ TrustInv'
    BY <1>1, <1>3 DEF TypeOK, Plans, WorkerInv, TrustInv, Steps, PlanInv
  <2> QED
    BY <2>1, <2>2, <2>3
<1>4. CASE /\ \E r \in Desired(o, a, act, c.input) :
                plan' = [plan EXCEPT ![o] =
                  [stage |-> "preparing", beforeAnchor |-> anchor, beforeRoster |-> Mine,
                   beforeKey |-> key, anchor |-> a, roster |-> r, target |-> None]]
           /\ ~blob[o] /\ Work("stage", o)
           /\ UNCHANGED <<anchor, key, kept, archive, ver, claim, invite, blob,
                          signed, counts>>
  <2>1. PICK r \in Desired(o, a, act, c.input) :
           plan' = [plan EXCEPT ![o] =
             [stage |-> "preparing", beforeAnchor |-> anchor, beforeRoster |-> Mine,
              beforeKey |-> key, anchor |-> a, roster |-> r, target |-> None]]
    BY <1>4
  <2>2. r \in Roster \cup {None} /\ Mine \in Roster \cup {None}
    BY <1>1, <1>2, DesiredType, MineType DEF Claims
  <2>3. plan'[o] \in Plans
    BY <1>2, <2>1, <2>2 DEF TypeOK, Plans
  <2>4. TypeOK'
    BY <1>4, <2>1, <2>3 DEF TypeOK, Steps
  <2>5. OneOpenPlan' /\ RecoveryHasItsInputs' /\ BurnIsOwned' /\ PlanInv'
    BY <1>1, <1>2, <1>4, <2>1
       DEF TypeOK, OneOpenPlan, RecoveryHasItsInputs, BurnIsOwned, PlanInv
  <2>6. WorkerInv' /\ TrustInv'
    BY <1>1, <1>4, <2>1 DEF TypeOK, WorkerInv, TrustInv, Steps
  <2> QED
    BY <2>4, <2>5, <2>6
<1>5. CASE /\ claim' = [claim EXCEPT ![o].phase = "Aborted"]
           /\ plan' = [plan EXCEPT ![o] = NoPlan]
           /\ UNCHANGED <<anchor, key, kept, archive, ver, invite, blob,
                          pc, cur, copy, signed, counts>>
  <2>1. TypeOK'
    BY <1>5, ClaimType, NoPlanType DEF TypeOK
  <2>2. OneOpenPlan' /\ RecoveryHasItsInputs' /\ BurnIsOwned' /\ PlanInv'
    BY <1>1, <1>5 DEF TypeOK, Claims, Plans, NoPlan, OneOpenPlan, RecoveryHasItsInputs,
        BurnIsOwned, PlanInv
  <2>3. WorkerInv' /\ TrustInv'
    BY <1>1, <1>5 DEF Prepare, MayPrepare, TypeOK, Plans, NoPlan, WorkerInv, TrustInv,
        Steps
  <2> QED
    BY <2>1, <2>2, <2>3
<1>6. CASE /\ plan' = [plan EXCEPT ![o] = NoPlan]
           /\ UNCHANGED <<anchor, key, kept, archive, ver, claim, invite, blob,
                          pc, cur, copy, signed, counts>>
  <2>1. TypeOK'
    BY <1>6, NoPlanType DEF TypeOK
  <2>2. OneOpenPlan' /\ RecoveryHasItsInputs' /\ BurnIsOwned' /\ PlanInv'
    BY <1>1, <1>6 DEF TypeOK, Claims, Plans, NoPlan, OneOpenPlan, RecoveryHasItsInputs,
        BurnIsOwned, PlanInv
  <2>3. WorkerInv' /\ TrustInv'
    BY <1>1, <1>6 DEF Prepare, MayPrepare, TypeOK, Plans, NoPlan, WorkerInv, TrustInv,
        Steps
  <2> QED
    BY <2>1, <2>2, <2>3
<1> QED
  BY <1>3, <1>4, <1>5, <1>6 DEF Prepare, MayPrepare

\* A crash or an I/O error, wherever it comes.
LEMMA InterruptKeeps ==
  ASSUME IInv, Interrupt
  PROVE  IInv'
<1> USE DEF IInv, Interrupt, LetGo, disk, copy, counts, Open, NeedsRecovery
<1>1. TypeOK'
  BY DEF TypeOK, Steps, Version
<1>2. OneOpenPlan' /\ RecoveryHasItsInputs' /\ BurnIsOwned' /\ PlanInv'
  BY DEF OneOpenPlan, RecoveryHasItsInputs, BurnIsOwned, PlanInv
<1>3. WorkerInv' /\ TrustInv'
  BY DEF WorkerInv, TrustInv
<1> QED
  BY <1>1, <1>2, <1>3

\* Row edits, which take neither gate nor fence, disturb nothing but the
\* version.
LEMMA EditKeeps ==
  ASSUME IInv, NEW p \in Pen, Edit(p)
  PROVE  IInv'
<1> USE DEF IInv, Edit, disk, copy, counts, Open, NeedsRecovery
<1>1. TypeOK'
  <2>1. overtaken' \subseteq Root \cup {None}
    BY DEF TypeOK, Plans
  <2> QED
    BY <2>1 DEF TypeOK, Version
<1>2. OneOpenPlan' /\ RecoveryHasItsInputs' /\ BurnIsOwned' /\ PlanInv'
  BY DEF OneOpenPlan, RecoveryHasItsInputs, BurnIsOwned, PlanInv
<1>3. WorkerInv' /\ TrustInv'
  BY DEF WorkerInv, TrustInv
<1> QED
  BY <1>1, <1>2, <1>3

\* Whatever the mutation writes, nothing is open while it runs.
LEMMA MutationKeeps ==
  ASSUME IInv, Mutation
  PROVE  IInv'
<1>1. RootMutation
  BY DEF Mutation, Sign, RootInit, Arrive, Leave
<1>2. TypeOK'
  <2> USE DEF IInv
  <2>1. First \in Roster /\ \A lone \in BOOLEAN : [First EXCEPT !.lone = lone] \in Roster
    BY SettlementAssumption DEF First, Roster
  <2>2. ASSUME NEW lone \in BOOLEAN, Sign(lone)
        PROVE  TypeOK'
    <3>1. Newest(Own) \in Roster
      BY <2>2, NewestType, SettlementAssumption DEF Sign
    <3>2. [root |-> Own, seq |-> Newest(Own).seq + 1, lone |-> lone, by |-> None] \in Roster
      BY <3>1, SettlementAssumption DEF Roster
    <3> QED
      BY <2>2, <3>2, PruneType DEF Sign, RootMutation, TypeOK, copy
  <2>3. ASSUME NEW lone \in BOOLEAN, RootInit(lone)
        PROVE  TypeOK'
    BY <2>1, <2>3, PruneType, SettlementAssumption DEF RootInit, RootMutation, TypeOK,
        copy
  <2>4. ASSUME NEW r \in World, Arrive(r)
        PROVE  TypeOK'
    BY <2>4, PruneType, SettlementAssumption DEF Arrive, RootMutation, TypeOK, copy
  <2>5. ASSUME Leave
        PROVE  TypeOK'
    BY <2>5 DEF Leave, RootMutation, TypeOK, copy
  <2> QED
    BY <2>2, <2>3, <2>4, <2>5 DEF Mutation
<1>3. OneOpenPlan' /\ RecoveryHasItsInputs' /\ BurnIsOwned' /\ PlanInv'
  BY <1>1 DEF IInv, RootMutation, Open, OneOpenPlan, RecoveryHasItsInputs, BurnIsOwned,
      PlanInv
<1>4. WorkerInv' /\ TrustInv'
  BY <1>1 DEF IInv, RootMutation, Idle, NeedsRecovery, Open, WorkerInv, TrustInv
<1> QED
  BY <1>2, <1>3, <1>4 DEF IInv

\* The invariant holds on a disk no pairing has touched.
LEMMA InitHolds == Init => IInv
<1> SUFFICES ASSUME Init PROVE IInv
  OBVIOUS
<1>1. /\ First \in Roster /\ [First EXCEPT !.seq = 2, !.lone = FALSE] \in Roster
      /\ NoClaim \in Claims /\ NoPlan \in Plans
  BY SettlementAssumption DEF First, Roster, NoClaim, Claims, NoPlan, Plans
<1>2. TypeOK
  <2>1. kept \in [Root -> Roster \cup {None}] /\ signed \subseteq Roster
    BY <1>1, SettlementAssumption DEF Init
  <2>2. anchor \in Root \cup {None} /\ key \in Root \cup {None}
    BY SettlementAssumption DEF Init, Roster
  <2> QED
    BY <1>1, <2>1, <2>2, SettlementAssumption DEF Init, TypeOK, Version, Steps
<1>3. OneOpenPlan /\ RecoveryHasItsInputs /\ BurnIsOwned /\ PlanInv
  BY DEF Init, Open, NoPlan, NoClaim, OneOpenPlan, RecoveryHasItsInputs, BurnIsOwned,
      PlanInv
<1>4. WorkerInv /\ TrustInv
  BY DEF Init, NoPlan, Open, WorkerInv, TrustInv
<1> QED
  BY <1>2, <1>3, <1>4 DEF IInv

\* Every step keeps the invariant: one lemma per action.
LEMMA StepKeeps == IInv /\ [Next]_vars => IInv'
<1> SUFFICES ASSUME IInv, [Next]_vars PROVE IInv'
  OBVIOUS
<1>1. ASSUME NEW o \in Op, Pairing(o)
      PROVE  IInv'
  <2>1. CASE Apply(o)
    BY <2>1, StageKeeps, MarkReadyKeeps, CheckKeeps, RefuseKeeps, BurnKeeps,
        PublishAnchorKeeps,
       SaveTargetKeeps, FlushKeeps, RetireKeyKeeps, RetireRefusedKeeps, AdvanceOwnerKeeps,
       FinishKeeps DEF Apply
  <2>2. CASE ~Apply(o)
    BY <1>1, <2>2, StartKeeps, RecoverKeeps, PrepareKeeps, AbortKeeps,
        CollectKeeps DEF Pairing
  <2> QED
    BY <2>1, <2>2
<1>2. CASE UNCHANGED vars
  BY <1>2 DEF vars, disk, copy, counts, IInv, TypeOK, OneOpenPlan, RecoveryHasItsInputs,
              BurnIsOwned, PlanInv, WorkerInv, TrustInv, Open, NeedsRecovery
<1> QED
  BY <1>1, <1>2, EditKeeps, MutationKeeps, InterruptKeeps DEF Next

\* The inductive invariant holds in every state the machine's disk goes
\* through.
THEOREM Invariance == Spec => []IInv
BY InitHolds, StepKeeps, PTL DEF Spec

\* Type correctness of the settlement's files, rows and table.
THEOREM TypeCorrect == Spec => []TypeOK
<1>1. IInv => TypeOK
  BY DEF IInv
<1> QED
  BY <1>1, Invariance, PTL

\* Whatever is interrupted and however pairings, changes of trust and edits
\* interleave, there is at most one ready plan that is not finished.
THEOREM OnePlanAtATime == Spec => []OneOpenPlan
<1>1. IInv => OneOpenPlan
  BY DEF IInv
<1> QED
  BY <1>1, Invariance, PTL

\* apply_pair_settlement, resumed after any interruption, finds the staged
\* bytes and the row of its pairing.
THEOREM RecoveryIsProvided == Spec => []RecoveryHasItsInputs
<1>1. IInv => RecoveryHasItsInputs
  BY DEF IInv
<1> QED
  BY <1>1, Invariance, PTL

\* No ticket is burnt for a pairing that can still be rolled back.
THEOREM BurnsAreOwned == Spec => []BurnIsOwned
<1>1. IInv => BurnIsOwned
  BY DEF IInv
<1> QED
  BY <1>1, Invariance, PTL

-----------------------------------------------------------------------------
(* PairSettlement implements PairAdmission: Start is Claim, the write that *)
(* makes the plan ready is Decide, PublishAnchor is Move, RetireKey is     *)
(* Retire, Finish is Admit, Abort and a refusal are Abandon, Collect is    *)
(* Forget, a change of trust is Mutate, and every other step is invisible. *)

AbsSt == [o \in Op |-> Progress(o)]
AbsTo == [o \in Op |-> IF plan[o].stage \in {"ready", "finished"} THEN plan[o].anchor ELSE None]

\* A step of one pairing shows as a change of that pairing only.
LEMMA OnlyOne ==
  ASSUME NEW o \in Op, \A q \in Op \ {o} : plan'[q] = plan[q] /\ claim'[q].phase = claim[q].phase
  PROVE  /\ AbsSt' = [AbsSt EXCEPT ![o] = Progress(o)']
         /\ AbsTo' = [AbsTo EXCEPT ![o] = AbsTo'[o]]
<1>1. \A q \in Op \ {o} : Progress(q)' = Progress(q)
  BY DEF Progress
<1>2. AbsSt' = [AbsSt EXCEPT ![o] = Progress(o)']
  BY <1>1 DEF AbsSt
<1>3. AbsTo' = [AbsTo EXCEPT ![o] = AbsTo'[o]]
  BY DEF AbsTo
<1> QED
  BY <1>2, <1>3

\* A step that moves neither a plan's stage or root, nor a pairing's phase,
\* is invisible.
LEMMA Invisible ==
  ASSUME anchor' = anchor, key' = key,
         \A o \in Op : /\ plan'[o].stage = plan[o].stage
                       /\ claim'[o].phase = claim[o].phase
                       /\ plan[o].stage \in {"ready", "finished"} => plan'[o].anchor = plan[o].anchor
  PROVE  UNCHANGED Abstract!vars
<1>1. AbsSt' = AbsSt /\ AbsTo' = AbsTo
  BY DEF AbsSt, AbsTo, Progress
<1> QED
  BY <1>1 DEF AbsSt, AbsTo, Abstract!vars

\* The two writes that make a plan ready decide the pairing.
LEMMA ReadyDecides ==
  ASSUME IInv, NEW o \in Op, plan[o].stage = "preparing", ~NeedsRecovery,
         plan' = [plan EXCEPT ![o].stage = "ready"], UNCHANGED <<claim, anchor, key>>
  PROVE  Abstract!Next
<1>1. /\ AbsSt' = [AbsSt EXCEPT ![o] = "decided"]
      /\ AbsTo' = [AbsTo EXCEPT ![o] = plan[o].anchor]
  BY OnlyOne DEF AbsTo, Progress, IInv, TypeOK, Plans
<1>2. AbsSt[o] = "claimed" /\ \A q \in Op : AbsSt[q] # "decided"
  BY DEF AbsSt, Progress, IInv, PlanInv, NeedsRecovery, Open
<1>3. plan[o].anchor \in Abstract!Maybe
  BY DEF IInv, TypeOK, Plans, Abstract!Maybe
<1>4. \E a \in Abstract!Maybe : Abstract!Decide(o, a)
  BY <1>1, <1>2, <1>3 DEF Abstract!Decide, Abstract!Decided, AbsSt, AbsTo
<1> QED
  BY <1>4 DEF Abstract!Next

\* Giving up a pairing that is not ready abandons it.
LEMMA GivingUpAbandons ==
  ASSUME IInv, NEW o \in Op,
         claim[o].phase = "Receiving", plan[o].stage \in {"none", "preparing"},
         plan' = [plan EXCEPT ![o] = NoPlan],
         claim' = [claim EXCEPT ![o].phase = "Aborted"],
         UNCHANGED <<anchor, key>>
  PROVE  Abstract!Next
<1>1. plan'[o].stage = "none" /\ claim'[o].phase = "Aborted"
  BY DEF IInv, TypeOK, Claims, NoPlan
<1>2. AbsSt' = [AbsSt EXCEPT ![o] = Progress(o)'] /\ AbsTo' = [AbsTo EXCEPT ![o] = AbsTo'[o]]
  BY OnlyOne DEF IInv, TypeOK
<1>3. Progress(o)' = "gone" /\ AbsTo'[o] = None /\ AbsTo[o] = None
  BY <1>1 DEF Progress, AbsTo
<1>4. AbsSt' = [AbsSt EXCEPT ![o] = "gone"] /\ AbsTo' = AbsTo
  BY <1>2, <1>3 DEF AbsTo
<1>5. AbsSt[o] = "claimed"
  BY DEF AbsSt, Progress
<1>6. Abstract!Abandon(o)
  BY <1>4, <1>5 DEF Abstract!Abandon, AbsSt, AbsTo
<1> QED
  BY <1>6 DEF Abstract!Next

\* Every write of the settlement is a step of PairAdmission or invisible
\* to it.
LEMMA StepRefines == IInv /\ [Next]_vars => [Abstract!Next]_(Abstract!vars)
<1> SUFFICES ASSUME IInv, [Next]_vars PROVE [Abstract!Next]_(Abstract!vars)
  OBVIOUS
<1>1. ASSUME NEW o \in Op, NEW d \in BOOLEAN, NEW input, Start(o, d, input)
      PROVE  Abstract!Next
  <2>1. plan[o].stage \in {"none", "preparing", "ready", "finished"} /\ claim[o].phase = "None"
    BY <1>1 DEF Start, IInv, TypeOK, Plans
  <2>2. AbsSt[o] = "new" /\ plan[o].stage = "none"
    BY <2>1 DEF AbsSt, Progress, IInv, PlanInv
  <2>3. AbsSt' = [AbsSt EXCEPT ![o] = "claimed"] /\ AbsTo' = AbsTo
    BY <1>1, <2>2, OnlyOne DEF Start, AbsTo, Progress, IInv, TypeOK
  <2>4. Abstract!Claim(o)
    BY <1>1, <2>2, <2>3 DEF Start, Abstract!Claim, AbsSt, AbsTo
  <2> QED
    BY <2>4 DEF Abstract!Next
<1>2. ASSUME NEW o \in Op, Prepare(o)
      PROVE  [Abstract!Next]_(Abstract!vars)
  <2>1. /\ claim[o].phase = "Receiving" /\ ~NeedsRecovery
        /\ plan[o].stage \in {"none", "preparing"}
    BY <1>2 DEF Prepare, MayPrepare, IInv, TypeOK, PlanInv, Plans, NeedsRecovery, Open
  <2>2. CASE plan[o].stage = "preparing" /\ plan' = [plan EXCEPT ![o].stage = "ready"]
             /\ UNCHANGED <<claim, anchor, key>>
    BY <2>1, <2>2, ReadyDecides
  <2>3. ASSUME UNCHANGED <<claim, anchor, key>>, NEW a, NEW r,
               plan' = [plan EXCEPT ![o] =
                 [stage |-> "preparing", beforeAnchor |-> anchor, beforeRoster |-> Mine,
                  beforeKey |-> key, anchor |-> a, roster |-> r, target |-> None]]
        PROVE  UNCHANGED Abstract!vars
    <3>1. plan'[o].stage = "preparing"
      BY <2>3 DEF IInv, TypeOK
    <3>2. AbsSt' = [AbsSt EXCEPT ![o] = "claimed"] /\ AbsTo' = [AbsTo EXCEPT ![o] = None]
      BY <2>1, <2>3, <3>1, OnlyOne DEF AbsTo, Progress, IInv, TypeOK
    <3>3. AbsSt[o] = "claimed" /\ AbsTo[o] = None
      BY <2>1 DEF AbsSt, AbsTo, Progress
    <3>4. AbsSt' = AbsSt /\ AbsTo' = AbsTo
      BY <3>2, <3>3 DEF AbsSt, AbsTo
    <3> QED
      BY <2>3, <3>4 DEF AbsSt, AbsTo, Abstract!vars
  <2>4. CASE /\ claim' = [claim EXCEPT ![o].phase = "Aborted"] /\ plan' = [plan EXCEPT ![o] = NoPlan]
             /\ UNCHANGED <<anchor, key>>
    BY <2>1, <2>4, GivingUpAbandons
  <2>5. ASSUME plan' = [plan EXCEPT ![o] = NoPlan], UNCHANGED <<claim, anchor, key>>
        PROVE  UNCHANGED Abstract!vars
    <3>1. plan'[o].stage = "none"
      BY <2>5 DEF IInv, TypeOK, NoPlan
    <3>2. /\ AbsSt' = [AbsSt EXCEPT ![o] = "claimed"]
          /\ AbsTo' = [AbsTo EXCEPT ![o] = None]
      BY <2>1, <2>5, <3>1, OnlyOne DEF AbsTo, Progress, IInv, TypeOK
    <3>3. AbsSt[o] = "claimed" /\ AbsTo[o] = None
      BY <2>1 DEF AbsSt, AbsTo, Progress
    <3>4. AbsSt' = AbsSt /\ AbsTo' = AbsTo
      BY <3>2, <3>3 DEF AbsSt, AbsTo
    <3> QED
      BY <2>5, <3>4 DEF AbsSt, AbsTo, Abstract!vars
  <2> QED
    BY <1>2, <2>2, <2>3, <2>4, <2>5, Zenon DEF Prepare, MayPrepare
<1>3. ASSUME NEW o \in Op, MarkReady(o)
      PROVE  Abstract!Next
  BY <1>3, ReadyDecides DEF MarkReady, At, IInv, WorkerInv, NeedsRecovery, Open
<1>4. ASSUME NEW o \in Op, PublishAnchor(o)
      PROVE  Abstract!Next
  <2>1. Open(o) /\ anchor' = plan[o].anchor
    BY <1>4 DEF PublishAnchor, At, IInv, WorkerInv, TrustInv, PlanInv, Steps
  <2>2. AbsSt' = AbsSt /\ AbsTo' = AbsTo /\ AbsSt[o] = "decided" /\ AbsTo[o] = plan[o].anchor
    BY <1>4, <2>1 DEF PublishAnchor, AbsSt, AbsTo, Progress, Open
  <2>3. Abstract!Move(o)
    BY <1>4, <2>1, <2>2 DEF PublishAnchor, Abstract!Move, Abstract!Decided, AbsSt, AbsTo
  <2> QED
    BY <2>3 DEF Abstract!Next
<1>5. ASSUME NEW o \in Op, RetireKey(o)
      PROVE  [Abstract!Next]_(Abstract!vars)
  <2>1. Open(o) /\ anchor = plan[o].anchor
    BY <1>5 DEF RetireKey, At, IInv, WorkerInv, TrustInv, Steps
  <2>2. AbsSt' = AbsSt /\ AbsTo' = AbsTo /\ AbsSt[o] = "decided" /\ AbsTo[o] = plan[o].anchor
    BY <1>5, <2>1 DEF RetireKey, AbsSt, AbsTo, Progress, Open
  <2>3. CASE Superseded(o)
    <3>1. key # plan[o].anchor /\ key' = None
      BY <1>5, <2>3 DEF RetireKey, At, Superseded, IInv, TrustInv
    <3>2. Abstract!Retire(o)
      BY <1>5, <2>1, <2>2, <3>1 DEF RetireKey, Abstract!Retire, Abstract!Decided,
          AbsSt, AbsTo
    <3> QED
      BY <3>2 DEF Abstract!Next
  <2>4. CASE ~Superseded(o)
    BY <1>5, <2>2, <2>4 DEF RetireKey, AbsSt, AbsTo, Abstract!vars
  <2> QED
    BY <2>3, <2>4
<1>6. ASSUME NEW o \in Op, Finish(o)
      PROVE  Abstract!Next
  <2>1. Open(o) /\ anchor = plan[o].anchor /\ key \in {None, plan[o].anchor}
    BY <1>6 DEF Finish, At, IInv, WorkerInv, TrustInv, Steps
  <2>2. /\ AbsSt' = [AbsSt EXCEPT ![o] = "admitted"] /\ AbsTo' = AbsTo
        /\ AbsSt[o] = "decided" /\ AbsTo[o] = plan[o].anchor
    <3>1. AbsSt' = [AbsSt EXCEPT ![o] = Progress(o)'] /\ AbsTo' = [AbsTo EXCEPT ![o] = AbsTo'[o]]
      BY <1>6, OnlyOne DEF Finish, IInv, TypeOK, Plans
    <3>2. Progress(o)' = "admitted" /\ AbsTo'[o] = plan[o].anchor
      BY <1>6, <2>1 DEF Finish, Progress, AbsTo, IInv, TypeOK, Plans
    <3>3. AbsSt[o] = "decided" /\ AbsTo[o] = plan[o].anchor
      BY <2>1 DEF AbsSt, AbsTo, Progress, Open
    <3> QED
      BY <3>1, <3>2, <3>3 DEF AbsTo
  <2>3. Abstract!Admit(o)
    BY <1>6, <2>1, <2>2 DEF Finish, Abstract!Admit, Abstract!Decided, AbsSt, AbsTo
  <2> QED
    BY <2>3 DEF Abstract!Next
<1>7. ASSUME NEW o \in Op, Abort(o)
      PROVE  Abstract!Next
  BY <1>7, GivingUpAbandons DEF Abort, AbortAllowed
<1>8. ASSUME NEW o \in Op, Collect(o)
      PROVE  Abstract!Next
  <2>1. /\ AbsSt' = [AbsSt EXCEPT ![o] = "gone"]
        /\ AbsTo' = [AbsTo EXCEPT ![o] = None]
    <3>1. plan'[o].stage = "none" /\ claim'[o].phase = "Collected"
      BY <1>8 DEF Collect, IInv, TypeOK, Claims, NoPlan
    <3>2. AbsSt' = [AbsSt EXCEPT ![o] = Progress(o)'] /\ AbsTo' = [AbsTo EXCEPT ![o] = AbsTo'[o]]
      BY <1>8, OnlyOne DEF Collect, IInv, TypeOK
    <3>3. Progress(o)' = "gone" /\ AbsTo'[o] = None
      BY <3>1 DEF Progress, AbsTo
    <3> QED
      BY <3>2, <3>3
  <2>2. AbsSt[o] = "admitted" /\ \A q \in Op : AbsSt[q] # "decided"
    BY <1>8 DEF Collect, AbsSt, Progress, NeedsRecovery, Open
  <2>3. Abstract!Forget(o)
    BY <1>8, <2>1, <2>2 DEF Collect, Abstract!Forget, Abstract!Decided, AbsSt, AbsTo
  <2> QED
    BY <2>3 DEF Abstract!Next
<1>9. ASSUME NEW o \in Op, \/ Recover(o) \/ Stage(o) \/ Check(o) \/ Refuse(o) \/ Burn(o)
                           \/ SaveTarget(o) \/ Flush(o) \/ RetireRefused(o)
      PROVE  UNCHANGED Abstract!vars
  BY <1>9, Invisible DEF Recover, Stage, Check, Refuse, Burn, SaveTarget, Flush,
      RetireRefused, disk,
                         IInv, TypeOK, Plans
<1>10. ASSUME NEW o \in Op, AdvanceOwner(o)
       PROVE  UNCHANGED Abstract!vars
  <2>1. Open(o)
    BY <1>10 DEF AdvanceOwner, At, IInv, WorkerInv, Steps
  <2>2. AbsSt' = AbsSt /\ AbsTo' = AbsTo
    BY <1>10, <2>1 DEF AdvanceOwner, AbsSt, AbsTo, Progress, Open, IInv, TypeOK, Claims
  <2> QED
    BY <1>10, <2>2 DEF AdvanceOwner, AbsSt, AbsTo, Abstract!vars
<1>11. ASSUME Mutation
       PROVE  Abstract!Next
  <2>1. RootMutation
    BY <1>11 DEF Mutation, Sign, RootInit, Arrive, Leave
  <2>2. AbsSt' = AbsSt /\ AbsTo' = AbsTo /\ \A q \in Op : AbsSt[q] # "decided"
    BY <2>1 DEF RootMutation, AbsSt, AbsTo, Progress, NeedsRecovery, Open
  <2>3. anchor' \in Abstract!Maybe /\ key' \in Abstract!Maybe
    BY <1>11, MutationKeeps DEF IInv, TypeOK, Abstract!Maybe
  <2> QED
    BY <2>2, <2>3 DEF Abstract!Next, Abstract!Mutate, Abstract!Decided, AbsSt, AbsTo
<1>12. ASSUME UNCHANGED <<plan, claim, anchor, key>>
       PROVE  UNCHANGED Abstract!vars
  BY <1>12, Invisible
<1>13. ASSUME Interrupt \/ UNCHANGED vars \/ \E p \in Pen : Edit(p)
       PROVE  UNCHANGED <<plan, claim, anchor, key>>
  BY <1>13 DEF Interrupt, Edit, vars, disk
<1> QED
  BY <1>1, <1>2, <1>3, <1>4, <1>5, <1>6, <1>7, <1>8, <1>9, <1>10, <1>11, <1>12, <1>13
     DEF Next, Pairing, Apply

\* The sequence of writes implements PairAdmission: wherever it is
\* interrupted, whatever edits or changes of trust come between, a decision
\* is never taken back, is carried out alone, and gives up a key only for
\* the root it decided on.
THEOREM Refinement == Spec => ImplementsPairAdmission
<1>1. Init => Abstract!Init
  BY InitHolds, SettlementAssumption
     DEF Init, Abstract!Init, Abstract!Maybe, NoPlan, NoClaim, Progress, IInv, TypeOK
<1> QED
  BY <1>1, StepRefines, Invariance, PTL DEF Spec, ImplementsPairAdmission, Abstract!Spec

-----------------------------------------------------------------------------
(* The anchor and its roster.  A machine that is anchored goes by a roster *)
(* of that root, is in the middle of a settlement that still can be        *)
(* carried out, or goes by a root whose roster was overtaken; and it       *)
(* deletes its old key only for a saved version that the disk has reached. *)
(*                                                                         *)
(* The saved version is the one the settlement's pen will reach with its   *)
(* SettleOps ops, so it is out of the disk's reach until the flush, or     *)
(* until as many edits took the same pen after a crash.  No bound on the   *)
(* edits or the crashes is assumed: what the edits pass over is what       *)
(* overtaken remembers.                                                    *)

\* A plan settles on a root with a roster of it, or leaves the anchor as it
\* found it; and the key it found was the anchor's.
PlanData ==
  \A o \in Op : plan[o].stage # "none" =>
    /\ plan[o].beforeKey \in {None, plan[o].beforeAnchor}
    /\ IF plan[o].roster = None THEN plan[o].anchor = plan[o].beforeAnchor
                               ELSE plan[o].anchor = plan[o].roster.root

Rooted == anchor # None /\ anchor \notin overtaken => kept[anchor] # None

\* Everything plan o was computed from is still there, its anchor apart.
Undone(o) ==
  LET p == plan[o]
      old == IF p.beforeAnchor = None THEN None ELSE Newest(p.beforeAnchor)
      new == IF p.anchor = None THEN None ELSE Newest(p.anchor)
  IN  /\ anchor \in {p.beforeAnchor, p.anchor} /\ key = p.beforeKey
      /\ old = p.beforeRoster \/ new = p.roster
      /\ ~(new # None /\ new # p.roster /\ p.beforeAnchor # p.anchor)

TableInv ==
  /\ key \in {None, Own}
  /\ \A r \in Root : kept[r] # None => kept[r].root = r
  /\ ~NeedsRecovery => key \in {None, anchor} /\ Rooted
  /\ \A o \in Op : Open(o) =>
       Rooted \/ (plan[o].roster # None /\ anchor = plan[o].anchor /\ Undone(o))

\* The newest of the archives has a version number.
ArchiveBound == \E n \in Nat : \A o \in Op : archive[o] # None => archive[o].seq <= n

\* The disk reaches a saved version by the flush, or by overtaking it.
SavedInv == \A o \in Op : Open(o) /\ Covered(o) => Rooted

\* The worker's copy is ahead of the disk with its own pen alone.
StepInv ==
  /\ pc \in {"burn", "anchor", "target", "flush"} =>
       /\ Undone(cur) /\ mem[pen] = ver[pen] + SettleOps
       /\ \A p \in Pen \ {pen} : mem[p] <= ver[p]
  /\ pc = "flush" => plan[cur].target = mem
  /\ pc = "retire" => Covered(cur)
  /\ pc \in {"retire", "owner", "finish"} => Rooted

AnchorInv == PlanData /\ TableInv /\ ArchiveBound /\ SavedInv /\ StepInv

\* A bounded set of version numbers has a greatest one.
LEMMA BoundedMax ==
  ASSUME NEW S \in SUBSET Nat, S # {}, NEW n \in Nat, \A x \in S : x <= n
  PROVE  \E m \in S : \A x \in S : x <= m
<1> DEFINE B == {k \in Nat : \A x \in S : x <= k}
<1>1. B # {} /\ B \subseteq Nat
  OBVIOUS
<1>2. PICK k \in B : \A j \in B : ~(<<j, k>> \in OpToRel(<, Nat))
  BY <1>1, NatLessThanWellFounded, WFMin
<1>3. \A j \in B : ~(j < k)
  BY <1>2 DEF OpToRel
<1>4. CASE k \in S
  BY <1>4
<1>5. CASE k \notin S
  <2>1. \A x \in S : x < k
    BY <1>5
  <2>2. PICK x \in S : TRUE
    OBVIOUS
  <2>3. x \in Nat /\ x < k /\ k \in Nat
    BY <2>1, <2>2
  <2>4. k - 1 \in Nat /\ \A y \in S : y <= k - 1
    BY <2>1, <2>3
  <2>5. k - 1 \in B
    BY <2>4
  <2> QED
    BY <1>3, <2>3, <2>5
<1> QED
  BY <1>4, <1>5

\* What the table holds of a root is found there (newest_in).
LEMMA KeptIsFound ==
  ASSUME TypeOK, ArchiveBound, NEW r \in Root, kept[r] # None, kept[r].root = r
  PROVE  Newest(r) # None
<1> DEFINE all == {s \in {kept[r]} \cup {archive[o] : o \in Op} : s # None /\ s.root = r}
           top == {s \in all : \A t \in all : t.seq <= s.seq}
           S == {s.seq : s \in all}
<1>1. all \subseteq Roster /\ kept[r] \in all
  BY DEF TypeOK
<1>2. S \subseteq Nat /\ S # {}
  BY <1>1 DEF Roster
<1>3. PICK n \in Nat : \A o \in Op : archive[o] # None => archive[o].seq <= n
  BY DEF ArchiveBound
<1>4. kept[r].seq \in Nat
  BY <1>1 DEF Roster
<1>5. \E b \in Nat : \A x \in S : x <= b
  <2>1. CASE kept[r].seq <= n
    BY <1>2, <1>3, <2>1
  <2>2. CASE ~(kept[r].seq <= n)
    <3>1. \A x \in S : x <= kept[r].seq
      BY <1>2, <1>3, <1>4, <2>2
    <3> QED
      BY <1>4, <3>1
  <2> QED
    BY <2>1, <2>2
<1>6. PICK m \in S : \A x \in S : x <= m
  BY <1>2, <1>5, BoundedMax
<1>7. top # {}
  BY <1>6
<1>8. (CHOOSE s \in top : TRUE) \in top
  BY <1>7
<1>9. top \subseteq Roster
  BY <1>1
<1>10. Newest(r) = IF top = {} THEN None ELSE CHOOSE s \in top : TRUE
  BY DEF Newest
<1> QED
  BY <1>7, <1>8, <1>9, <1>10, SettlementAssumption

\* What newest_in finds is a roster of the root it was asked for.
LEMMA NewestRoot ==
  ASSUME TypeOK, NEW r \in Root, Newest(r) # None
  PROVE  Newest(r) \in Roster /\ Newest(r).root = r
<1> DEFINE all == {s \in {kept[r]} \cup {archive[o] : o \in Op} : s # None /\ s.root = r}
           top == {s \in all : \A t \in all : t.seq <= s.seq}
<1>1. Newest(r) = IF top = {} THEN None ELSE CHOOSE s \in top : TRUE
  BY DEF Newest
<1>2. Newest(r) \in top
  BY <1>1
<1> QED
  BY <1>2 DEF TypeOK

\* A step that writes neither the anchor, the key nor the table leaves an
\* unfinished plan as undone as it was.
LEMMA UndoneStays ==
  ASSUME NEW o \in Op, UNCHANGED <<anchor, key, kept, archive>>,
         \A f \in {"beforeAnchor", "beforeRoster", "beforeKey", "anchor", "roster"} :
           plan'[o][f] = plan[o][f]
  PROVE  Undone(o)' = Undone(o)
<1>1. \A r : Newest(r)' = Newest(r)
  BY DEF Newest
<1>2. /\ plan'[o].beforeAnchor = plan[o].beforeAnchor
      /\ plan'[o].beforeRoster = plan[o].beforeRoster
      /\ plan'[o].beforeKey = plan[o].beforeKey
      /\ plan'[o].anchor = plan[o].anchor /\ plan'[o].roster = plan[o].roster
  OBVIOUS
<1> QED
  BY <1>1, <1>2 DEF Undone

\* The steps that write neither plans nor trust.
LEMMA TableStays ==
  ASSUME AnchorInv, UNCHANGED <<anchor, key, kept, archive, plan, overtaken>>
  PROVE  PlanData' /\ TableInv' /\ ArchiveBound'
<1>1. \A o \in Op : Undone(o)' = Undone(o)
  BY UndoneStays
<1>2. PlanData' /\ ArchiveBound'
  BY DEF AnchorInv, PlanData, ArchiveBound
<1>3. TableInv'
  BY <1>1 DEF AnchorInv, TableInv, NeedsRecovery, Open, Rooted
<1> QED
  BY <1>2, <1>3

\* Loading the table: a plan whose saved version the table has reached was
\* flushed or overtaken.
LEMMA CheckKeepsAnchor ==
  ASSUME IInv, AnchorInv, NEW o \in Op, Check(o)
  PROVE  AnchorInv'
<1>1. /\ UNCHANGED <<anchor, key, kept, archive, plan, ver, overtaken>>
      /\ pc = "check" /\ cur = o /\ cur' = o /\ Open(o)
  BY DEF Check, At, disk, counts, IInv, WorkerInv, Steps
<1>2. PlanData' /\ TableInv' /\ ArchiveBound'
  BY <1>1, TableStays
<1>3. \A q \in Op : Covered(q)' = Covered(q)
  BY <1>1 DEF Covered
<1>4. SavedInv'
  BY <1>1, <1>3 DEF AnchorInv, SavedInv, Rooted, Open
<1>5. CASE Covered(o)
  <2>1. pc' = "retire" /\ Rooted' /\ Covered(o)'
    BY <1>1, <1>3, <1>5 DEF Check, AnchorInv, SavedInv, Rooted
  <2> QED
    BY <1>1, <1>2, <1>4, <2>1 DEF AnchorInv, StepInv
<1>6. CASE ~Covered(o)
  <2>1. pc' = "burn"
    BY <1>6 DEF Check
  <2>2. Undone(o)
    BY <1>6 DEF Check, Applies, Undone
  <2>3. Undone(o)'
    BY <1>1, <2>2, UndoneStays
  <2>4. /\ mem'[pen'] = ver'[pen'] + SettleOps
        /\ \A p \in Pen \ {pen'} : mem'[p] <= ver'[p]
    BY <1>1 DEF Check, IInv, TypeOK, Version
  <2> QED
    BY <1>1, <1>2, <1>4, <2>1, <2>3, <2>4 DEF AnchorInv, StepInv
<1> QED
  BY <1>5, <1>6

\* The steps of the worker before and after the ones that change trust.
LEMMA WorkKeepsAnchor ==
  ASSUME IInv, AnchorInv, NEW o \in Op,
         \/ Recover(o) \/ Stage(o) \/ Burn(o) \/ AdvanceOwner(o)
         \/ Refuse(o) \/ RetireRefused(o)
  PROVE  AnchorInv'
<1>1. UNCHANGED <<anchor, key, kept, archive, plan, ver, overtaken>>
  BY DEF Recover, Stage, Burn, AdvanceOwner, Refuse, RetireRefused, disk, counts, Then
<1>2. PlanData' /\ TableInv' /\ ArchiveBound'
  BY <1>1, TableStays
<1>3. SavedInv'
  BY <1>1 DEF AnchorInv, SavedInv, Rooted, Covered, Open
<1>4. StepInv'
  <2>1. /\ pc' \in {"burn", "anchor", "target", "flush"} =>
             pc \in {"burn", "anchor", "target", "flush"} /\ UNCHANGED <<cur, pen, mem>>
        /\ pc' \in {"retire", "owner", "finish"} => pc \in {"retire", "owner", "finish"}
        /\ pc' \notin {"flush", "retire"}
    BY DEF Recover, Stage, Burn, AdvanceOwner, Refuse, RetireRefused, At, Then, Work, LetGo,
           copy
  <2>2. ASSUME pc' \in {"burn", "anchor", "target", "flush"}
        PROVE  /\ Undone(cur)' /\ mem'[pen'] = ver'[pen'] + SettleOps
               /\ \A p \in Pen \ {pen'} : mem'[p] <= ver'[p]
    <3>1. /\ cur \in Op /\ Undone(cur) /\ mem[pen] = ver[pen] + SettleOps
          /\ \A p \in Pen \ {pen} : mem[p] <= ver[p]
      BY <2>1, <2>2 DEF AnchorInv, StepInv, IInv, WorkerInv
    <3>2. PICK q \in Op : q = cur
      BY <3>1
    <3>3. Undone(q)'
      BY <1>1, <3>1, <3>2, UndoneStays
    <3> QED
      BY <1>1, <2>1, <2>2, <3>1, <3>2, <3>3
  <2> QED
    BY <1>1, <2>1, <2>2 DEF AnchorInv, StepInv, Rooted
<1> QED
  BY <1>2, <1>3, <1>4 DEF AnchorInv

\* Neither a claim nor a crash changes trust.
LEMMA ClaimOrCrashKeepsAnchor ==
  ASSUME IInv, AnchorInv,
         \/ Interrupt
         \/ \E o \in Op, dialed \in BOOLEAN, input \in World \cup signed \cup {None} :
              Start(o, dialed, input)
  PROVE  AnchorInv'
<1>1. UNCHANGED <<anchor, key, kept, archive, plan, ver, overtaken>> /\ pc' = "idle"
  BY DEF Interrupt, Start, LetGo, disk, counts, Idle
<1>2. PlanData' /\ TableInv' /\ ArchiveBound'
  BY <1>1, TableStays
<1>3. SavedInv' /\ StepInv'
  BY <1>1 DEF AnchorInv, SavedInv, StepInv, Rooted, Covered, Open
<1> QED
  BY <1>2, <1>3 DEF AnchorInv

\* Edits take another pen than the worker's; and the root of a plan whose
\* saved version they reach is overtaken.
LEMMA EditKeepsAnchor ==
  ASSUME IInv, AnchorInv, NEW p \in Pen, Edit(p)
  PROVE  AnchorInv'
<1>1. /\ UNCHANGED <<anchor, key, kept, archive, plan, pc, cur, pen, mem>>
      /\ overtaken \subseteq overtaken'
      /\ ver' = [ver EXCEPT ![p] = @ + 1] /\ ver \in Version
  BY DEF Edit, copy, IInv, TypeOK
<1>2. \A q \in Pen : ver'[q] \in Nat /\ ver[q] \in Nat /\ ver'[q] >= ver[q]
  BY <1>1 DEF Version
<1>3. Rooted => Rooted'
  BY <1>1 DEF Rooted
<1>4. \A o \in Op : Undone(o)' = Undone(o)
  BY <1>1, UndoneStays
<1>5. PlanData' /\ TableInv' /\ ArchiveBound'
  BY <1>1, <1>3, <1>4 DEF AnchorInv, PlanData, ArchiveBound, TableInv, NeedsRecovery, Open
<1>6. SavedInv'
  <2> SUFFICES ASSUME NEW o \in Op, Open(o), Covered(o)', ~Covered(o)
               PROVE  Rooted'
    BY <1>1, <1>3 DEF AnchorInv, SavedInv, Open
  <2>1. plan[o].anchor \in overtaken'
    BY DEF Edit
  <2>2. anchor = plan[o].anchor
    BY <1>1 DEF Covered, IInv, TrustInv
  <2> QED
    BY <1>1, <2>1, <2>2 DEF Rooted
<1>7. ASSUME pc \in {"burn", "anchor", "target", "flush"}
      PROVE  /\ Undone(cur)' /\ mem'[pen'] = ver'[pen'] + SettleOps
             /\ \A q \in Pen \ {pen'} : mem'[q] <= ver'[q]
  <2>1. /\ cur \in Op /\ Undone(cur) /\ mem[pen] = ver[pen] + SettleOps /\ p # pen
        /\ \A q \in Pen \ {pen} : mem[q] <= ver[q] /\ mem[q] \in Nat
    BY <1>7 DEF AnchorInv, StepInv, IInv, WorkerInv, Edit, TypeOK, Version
  <2>2. PICK o \in Op : o = cur
    BY <2>1
  <2>3. Undone(o)'
    BY <1>4, <2>1, <2>2
  <2>4. ver'[pen] = ver[pen]
    BY <1>7, <2>1 DEF Edit, IInv, WorkerInv, TypeOK, Version
  <2>5. \A q \in Pen \ {pen} : mem[q] <= ver'[q]
    BY <1>2, <2>1
  <2> QED
    BY <1>1, <2>1, <2>2, <2>3, <2>4, <2>5
<1>8. ASSUME pc = "retire"
      PROVE  Covered(cur)'
  <2>1. cur \in Op /\ Covered(cur)
    BY <1>8 DEF AnchorInv, StepInv, IInv, WorkerInv
  <2>2. plan[cur].target \in Version
    BY <2>1 DEF Covered, IInv, TypeOK, Plans
  <2> QED
    BY <1>1, <1>2, <2>1, <2>2 DEF Covered, Version
<1>9. StepInv'
  BY <1>1, <1>3, <1>7, <1>8 DEF AnchorInv, StepInv
<1> QED
  BY <1>5, <1>6, <1>9 DEF AnchorInv

\* The published anchor is the one the plan was checked for.
LEMMA PublishKeepsAnchor ==
  ASSUME IInv, AnchorInv, NEW o \in Op, PublishAnchor(o)
  PROVE  AnchorInv'
<1>1. /\ pc = "anchor" /\ cur = o /\ pc' = "target" /\ Open(o) /\ Undone(o)
      /\ UNCHANGED <<key, kept, archive, plan, ver, cur, pen, mem, overtaken>>
  BY DEF PublishAnchor, At, Then, copy, counts, IInv, WorkerInv, Steps, AnchorInv, StepInv
<1>2. /\ anchor' = plan[o].anchor
      /\ plan[o].roster = None => anchor' = anchor
  BY <1>1 DEF PublishAnchor, At, IInv, TrustInv, PlanInv, AnchorInv, PlanData, Open
<1>3. Undone(o)'
  <2>1. \A r : Newest(r)' = Newest(r)
    BY <1>1 DEF Newest
  <2> QED
    BY <1>1, <1>2, <2>1 DEF Undone
<1>4. PlanData' /\ ArchiveBound'
  BY <1>1 DEF AnchorInv, PlanData, ArchiveBound
<1>5. TableInv'
  BY <1>1, <1>2, <1>3 DEF AnchorInv, TableInv, IInv, OneOpenPlan, NeedsRecovery, Open, Rooted
<1>6. SavedInv'
  BY <1>1, <1>2 DEF AnchorInv, SavedInv, IInv, OneOpenPlan, TrustInv, Open, Rooted, Covered
<1>7. StepInv'
  BY <1>1, <1>3 DEF AnchorInv, StepInv
<1> QED
  BY <1>4, <1>5, <1>6, <1>7 DEF AnchorInv

\* The version that is saved is the one the worker's pen will reach.
LEMMA SaveTargetKeepsAnchor ==
  ASSUME IInv, AnchorInv, NEW o \in Op, SaveTarget(o)
  PROVE  AnchorInv'
<1>1. /\ pc = "target" /\ cur = o /\ pc' = "flush" /\ Open(o) /\ Undone(o) /\ pen \in Pen
      /\ mem[pen] = ver[pen] + SettleOps /\ mem \in Version /\ ver \in Version
      /\ plan' = [plan EXCEPT ![o].target = mem]
      /\ UNCHANGED <<anchor, key, kept, archive, ver, cur, pen, mem, overtaken>>
  BY DEF SaveTarget, At, Then, copy, counts, IInv, TypeOK, WorkerInv, Steps, AnchorInv, StepInv
<1>2. /\ \A q \in Op \ {o} : plan'[q] = plan[q]
      /\ \A f \in {"stage", "beforeAnchor", "beforeRoster", "beforeKey", "anchor", "roster"} :
           plan'[o][f] = plan[o][f]
      /\ plan'[o].target = mem
      /\ plan'[o].stage = plan[o].stage /\ plan'[o].anchor = plan[o].anchor
      /\ plan'[o].roster = plan[o].roster /\ plan'[o].beforeKey = plan[o].beforeKey
      /\ plan'[o].beforeAnchor = plan[o].beforeAnchor
  BY <1>1 DEF IInv, TypeOK, Plans
<1>3. \A q \in Op : Undone(q)' = Undone(q)
  BY <1>1, <1>2, UndoneStays
<1>4. PlanData' /\ ArchiveBound'
  BY <1>1, <1>2 DEF AnchorInv, PlanData, ArchiveBound
<1>5. TableInv'
  BY <1>1, <1>2, <1>3 DEF AnchorInv, TableInv, NeedsRecovery, Open, Rooted
<1>6. SavedInv'
  <2>1. ver[pen] < mem[pen]
    BY <1>1, SettlementAssumption DEF Version
  <2>2. ~Covered(o)'
    BY <1>1, <1>2, <2>1 DEF Covered, Version
  <2> QED
    BY <1>1, <1>2, <2>2 DEF SavedInv, IInv, OneOpenPlan, Open
<1>7. StepInv'
  BY <1>1, <1>2, <1>3 DEF AnchorInv, StepInv
<1> QED
  BY <1>4, <1>5, <1>6, <1>7 DEF AnchorInv

\* The flush brings the roster of the published anchor.
LEMMA FlushKeepsAnchor ==
  ASSUME IInv, AnchorInv, NEW o \in Op, Flush(o)
  PROVE  AnchorInv'
<1>1. /\ pc = "flush" /\ cur = o /\ pc' = "retire" /\ Open(o) /\ anchor = plan[o].anchor
      /\ kept' = Stored(o) /\ archive' = [archive EXCEPT ![o] = claim[o].input]
      /\ plan[o].target = mem /\ ver' = [ver EXCEPT ![pen] = mem[pen]] /\ pen \in Pen
      /\ \A p \in Pen \ {pen} : mem[p] <= ver[p]
      /\ UNCHANGED <<anchor, key, plan, cur>>
  BY DEF Flush, At, IInv, WorkerInv, TrustInv, Steps, AnchorInv, StepInv
<1>2. /\ plan[o].roster \in Roster \cup {None} /\ claim[o].input \in Roster \cup {None}
      /\ anchor \in Root \cup {None}
      /\ plan[o].roster # None => plan[o].roster.root = plan[o].anchor
  BY <1>1 DEF IInv, TypeOK, Plans, Claims, AnchorInv, PlanData, Open
<1>3. Rooted'
  <2>1. CASE plan[o].roster = None
    <3>1. kept' = kept /\ overtaken' = overtaken /\ Rooted
      BY <1>1, <2>1 DEF Flush, Stored, AnchorInv, TableInv
    <3> QED
      BY <1>1, <3>1 DEF Rooted
  <2>2. CASE plan[o].roster # None
    <3>1. anchor \in Root /\ kept'[anchor] = plan[o].roster
      BY <1>1, <1>2, <2>2 DEF Stored, Roster
    <3> QED
      BY <1>1, <2>2, <3>1 DEF Rooted
  <2> QED
    BY <2>1, <2>2
<1>4. \A r \in Root : kept'[r] # None => kept'[r].root = r
  BY <1>1, <1>2 DEF Stored, AnchorInv, TableInv
<1>5. PlanData'
  BY <1>1 DEF AnchorInv, PlanData
<1>6. TableInv'
  BY <1>1, <1>3, <1>4 DEF AnchorInv, TableInv, NeedsRecovery, Open
<1>7. ArchiveBound'
  <2>1. PICK n \in Nat : \A q \in Op : archive[q] # None => archive[q].seq <= n
    BY DEF AnchorInv, ArchiveBound
  <2>2. claim[o].input # None => claim[o].input.seq \in Nat
    BY <1>2 DEF Roster
  <2>3. CASE claim[o].input # None /\ claim[o].input.seq > n
    <3>1. \A q \in Op : archive'[q] # None => archive'[q].seq <= claim[o].input.seq
      BY <1>1, <2>1, <2>2, <2>3 DEF IInv, TypeOK, Roster
    <3> QED
      BY <2>2, <2>3, <3>1 DEF ArchiveBound
  <2>4. CASE ~(claim[o].input # None /\ claim[o].input.seq > n)
    <3>1. \A q \in Op : archive'[q] # None => archive'[q].seq <= n
      BY <1>1, <2>1, <2>2, <2>4 DEF IInv, TypeOK, Roster
    <3> QED
      BY <3>1 DEF ArchiveBound
  <2> QED
    BY <2>3, <2>4
<1>8. SavedInv'
  BY <1>1, <1>3 DEF SavedInv
<1>9. StepInv'
  <2>1. ver \in Version /\ mem \in Version /\ mem # None
    BY SettlementAssumption DEF IInv, TypeOK
  <2>2. \A p \in Pen : ver'[p] >= mem[p]
    BY <1>1, <2>1 DEF Version
  <2>3. Covered(cur)'
    BY <1>1, <2>1, <2>2 DEF Covered
  <2> QED
    BY <1>1, <1>3, <2>3 DEF StepInv
<1> QED
  BY <1>5, <1>6, <1>7, <1>8, <1>9 DEF AnchorInv

\* Retirement leaves anchor and table as the flush left them.
LEMMA RetireKeepsAnchor ==
  ASSUME IInv, AnchorInv, NEW o \in Op, RetireKey(o)
  PROVE  AnchorInv'
<1>1. /\ pc = "retire" /\ cur = o /\ pc' = "owner" /\ Open(o) /\ Rooted
      /\ UNCHANGED <<anchor, kept, archive, plan, ver, cur, overtaken>>
  BY DEF RetireKey, At, Then, counts, IInv, WorkerInv, Steps, AnchorInv, StepInv
<1>2. PlanData' /\ ArchiveBound' /\ Rooted' /\ key' \in {None, key}
  BY <1>1 DEF AnchorInv, PlanData, ArchiveBound, Rooted, RetireKey
<1>3. TableInv'
  BY <1>1, <1>2 DEF AnchorInv, TableInv, NeedsRecovery, Open
<1>4. SavedInv' /\ StepInv'
  BY <1>1, <1>2 DEF AnchorInv, SavedInv, StepInv
<1> QED
  BY <1>2, <1>3, <1>4 DEF AnchorInv

\* A finished plan leaves the machine with the plan's root, its roster and
\* no other root's key.
LEMMA FinishKeepsAnchor ==
  ASSUME IInv, AnchorInv, NEW o \in Op, Finish(o)
  PROVE  AnchorInv'
<1>1. /\ pc = "finish" /\ cur = o /\ pc' = "idle" /\ Open(o) /\ Rooted
      /\ anchor = plan[o].anchor /\ key \in {None, plan[o].anchor}
      /\ plan' = [plan EXCEPT ![o].stage = "finished"]
      /\ UNCHANGED <<anchor, key, kept, archive, ver, overtaken>>
  BY DEF Finish, At, LetGo, counts, IInv, WorkerInv, TrustInv, Steps, AnchorInv, StepInv
<1>2. /\ \A q \in Op \ {o} : plan'[q] = plan[q] /\ ~Open(q)
      /\ plan'[o].stage = "finished" /\ plan'[o].anchor = plan[o].anchor
      /\ plan'[o].roster = plan[o].roster /\ plan'[o].beforeKey = plan[o].beforeKey
      /\ plan'[o].beforeAnchor = plan[o].beforeAnchor
  BY <1>1 DEF IInv, TypeOK, Plans, OneOpenPlan
<1>3. ~NeedsRecovery' /\ \A q \in Op : ~Open(q)'
  BY <1>2 DEF NeedsRecovery, Open
<1>4. PlanData' /\ ArchiveBound' /\ Rooted'
  BY <1>1, <1>2 DEF AnchorInv, PlanData, ArchiveBound, Rooted, Open
<1>5. TableInv' /\ SavedInv'
  BY <1>1, <1>3, <1>4 DEF AnchorInv, TableInv, SavedInv
<1>6. StepInv'
  BY <1>1 DEF AnchorInv, StepInv
<1> QED
  BY <1>4, <1>5, <1>6 DEF AnchorInv

\* While nothing is open, writing one plan that is not opened, or opening
\* one that is new, changes nothing about the anchor.
LEMMA PlanKeepsAnchor ==
  ASSUME IInv, AnchorInv, NEW o \in Op, ~NeedsRecovery,
         UNCHANGED <<anchor, key, kept, ver, overtaken>>,
         \A q \in Op : archive'[q] \in {archive[q], None},
         \A q \in Op \ {o} : plan'[q] = plan[q],
         plan'[o].stage # "none" =>
           /\ plan'[o].beforeKey \in {None, plan'[o].beforeAnchor}
           /\ IF plan'[o].roster = None THEN plan'[o].anchor = plan'[o].beforeAnchor
                                        ELSE plan'[o].anchor = plan'[o].roster.root,
         plan'[o].stage = "ready" => plan'[o].target = None,
         pc' \in {"idle", "stage", "ready", "check"}
  PROVE  AnchorInv'
<1>1. Rooted' /\ key' \in {None, anchor'}
  BY DEF AnchorInv, TableInv, Rooted
<1>2. PlanData'
  BY DEF AnchorInv, PlanData
<1>3. TableInv' /\ SavedInv'
  BY <1>1 DEF AnchorInv, TableInv, SavedInv, NeedsRecovery, Open, Covered
<1>4. ArchiveBound'
  BY DEF AnchorInv, ArchiveBound
<1>5. StepInv'
  BY DEF AnchorInv, StepInv
<1> QED
  BY <1>2, <1>3, <1>4, <1>5 DEF AnchorInv

\* A settlement decides on a roster of the root it decides on; without one
\* it stays with the root that is there.
LEMMA DesiredRoot ==
  ASSUME IInv, AnchorInv, ~NeedsRecovery, NEW o \in Op, NEW c \in Claims, NEW a,
         NEW act, act = Verdict(Mine, c.input, c.dialed), act # "Clash",
         a = IF act = "Adopt" THEN c.input.root ELSE anchor,
         NEW r \in Desired(o, a, act, c.input)
  PROVE  IF r = None THEN a = anchor ELSE a = r.root
<1>1. Mine # None => Mine \in Roster /\ Mine.root = anchor /\ anchor # None
  BY NewestRoot DEF Mine, IInv, TypeOK
<1>2. key \in {None, anchor} /\ key \in {None, Own}
  BY DEF AnchorInv, TableInv
<1>3. c.input \in Roster \cup {None} /\ None \notin Root /\ None \notin Roster
  BY SettlementAssumption DEF Claims
<1>4. \A s \in Roster : s.root \in Root /\ s.root # None
  BY <1>3 DEF Roster
<1>5. /\ First \in Roster /\ First.root = Own /\ Own \in Root
      /\ \A s \in Roster : Admitting(s, o) \in Roster /\ Admitting(s, o).root = s.root
  BY SettlementAssumption DEF First, Roster, Admitting
<1> DEFINE offered == IF c.input # None /\ c.input.root = a THEN c.input ELSE None
           kpt == CASE act = "Adopt" -> c.input
                    [] offered = None -> Mine
                    [] OTHER -> IF Mine # None /\ Mine.seq > offered.seq THEN Mine ELSE offered
<1>6. act \in {"Keep", "Adopt"} /\ (act = "Adopt" => c.input # None)
  BY DEF Verdict
<1>7. /\ kpt \in Roster \cup {None}
      /\ IF kpt = None THEN a = anchor ELSE a = kpt.root
  <2>1. CASE act = "Adopt"
    BY <1>3, <1>4, <1>6, <2>1
  <2>2. CASE act # "Adopt" /\ offered = None
    <3>1. kpt = Mine /\ a = anchor
      BY <2>2
    <3> QED
      BY <1>1, <3>1, NewestType DEF Mine, IInv, TypeOK
  <2>3. CASE act # "Adopt" /\ offered # None
    <3>1. kpt \in {Mine, offered} /\ (kpt = Mine => Mine # None \/ kpt = offered) /\ a = anchor
      BY <2>3
    <3>2. offered \in Roster /\ offered.root = a
      BY <1>3, <2>3
    <3> QED
      BY <1>1, <1>3, <1>4, <3>1, <3>2
  <2> QED
    BY <2>1, <2>2, <2>3
<1>8. r = kpt \/ /\ key # None /\ anchor = key /\ key = a
                 /\ LET s == IF kpt = None THEN First ELSE kpt
                    IN  r \in {Admitting(s, o), s}
  BY DEF Desired
<1>9. CASE r = kpt
  BY <1>7, <1>9
<1>10. ASSUME key # None, key = a, NEW s \in Roster, s.root = a, r \in {Admitting(s, o), s}
       PROVE  r # None /\ r.root = a
  BY <1>3, <1>5, <1>10
<1>11. CASE r # kpt
  <2> DEFINE s == IF kpt = None THEN First ELSE kpt
  <2>1. key # None /\ key = a /\ r \in {Admitting(s, o), s}
    BY <1>8, <1>11
  <2>2. s \in Roster /\ s.root = a
    BY <1>2, <1>5, <1>7, <2>1
  <2> HIDE DEF s
  <2> QED
    BY <1>10, <2>1, <2>2
<1> QED
  BY <1>9, <1>11

\* A plan that was saved before is taken up with the trust that is there
\* now; a new one is computed from it.
LEMMA PrepareKeepsAnchor ==
  ASSUME IInv, AnchorInv, NEW o \in Op, Prepare(o)
  PROVE  AnchorInv'
<1> DEFINE c == claim[o]
           act == Verdict(Mine, c.input, c.dialed)
           a == IF act = "Adopt" THEN c.input.root ELSE anchor
<1>1. /\ c \in Claims /\ ~NeedsRecovery /\ pc = "idle" /\ key \in {None, anchor}
      /\ UNCHANGED <<anchor, key, kept, archive, ver, overtaken>>
  BY DEF Prepare, MayPrepare, Idle, counts, IInv, TypeOK, AnchorInv, TableInv
<1>2. CASE /\ plan[o].stage = "preparing"
           /\ plan' = [plan EXCEPT ![o].stage = "ready"]
           /\ Work("check", o)
  <2>1. /\ \A q \in Op \ {o} : plan'[q] = plan[q]
        /\ \A f \in {"beforeAnchor", "beforeKey", "anchor", "roster", "target"} :
             plan'[o][f] = plan[o][f]
        /\ plan'[o].anchor = plan[o].anchor /\ plan'[o].roster = plan[o].roster
        /\ plan'[o].beforeKey = plan[o].beforeKey
        /\ plan'[o].beforeAnchor = plan[o].beforeAnchor
        /\ plan'[o].target = plan[o].target
    BY <1>2 DEF IInv, TypeOK, Plans
  <2>2. plan[o].target = None /\ pc' = "check"
    BY <1>2 DEF IInv, PlanInv, Work
  <2> QED
    BY <1>1, <1>2, <2>1, <2>2, PlanKeepsAnchor DEF AnchorInv, PlanData
<1>3. ASSUME act # "Clash", NEW r \in Desired(o, a, act, c.input), Work("stage", o),
             plan' = [plan EXCEPT ![o] =
               [stage |-> "preparing", beforeAnchor |-> anchor, beforeRoster |-> Mine,
                beforeKey |-> key, anchor |-> a, roster |-> r, target |-> None]]
      PROVE  AnchorInv'
  <2>1. IF r = None THEN a = anchor ELSE a = r.root
    BY <1>1, <1>3, DesiredRoot
  <2>2. /\ \A q \in Op \ {o} : plan'[q] = plan[q]
        /\ plan'[o] = [stage |-> "preparing", beforeAnchor |-> anchor, beforeRoster |-> Mine,
                       beforeKey |-> key, anchor |-> a, roster |-> r, target |-> None]
    BY <1>3 DEF IInv, TypeOK
  <2>3. /\ plan'[o].stage = "preparing" /\ plan'[o].beforeKey = key
        /\ plan'[o].beforeAnchor = anchor
        /\ plan'[o].anchor = a /\ plan'[o].roster = r
    BY <2>2
  <2>4. pc' = "stage"
    BY <1>3 DEF Work
  <2> HIDE DEF a
  <2> QED
    BY <1>1, <2>1, <2>2, <2>3, <2>4, PlanKeepsAnchor
<1>4. CASE plan' = [plan EXCEPT ![o] = NoPlan] /\ pc' = pc
  <2>1. plan'[o].stage = "none" /\ \A q \in Op \ {o} : plan'[q] = plan[q]
    BY <1>4 DEF IInv, TypeOK, NoPlan
  <2> QED
    BY <1>1, <1>4, <2>1, PlanKeepsAnchor
<1> QED
  BY <1>2, <1>3, <1>4 DEF Prepare

\* The second save opens the plan.
LEMMA MarkReadyKeepsAnchor ==
  ASSUME IInv, AnchorInv, NEW o \in Op, MarkReady(o)
  PROVE  AnchorInv'
<1>1. /\ plan[o].stage = "preparing" /\ ~NeedsRecovery /\ pc' = "check"
      /\ UNCHANGED <<anchor, key, kept, archive, ver, overtaken>>
  BY DEF MarkReady, At, Then, counts, IInv, WorkerInv
<1>2. plan[o].target = None
  BY <1>1 DEF IInv, PlanInv
<1>3. /\ \A q \in Op \ {o} : plan'[q] = plan[q]
      /\ plan'[o].anchor = plan[o].anchor /\ plan'[o].roster = plan[o].roster
      /\ plan'[o].beforeKey = plan[o].beforeKey
      /\ plan'[o].beforeAnchor = plan[o].beforeAnchor
      /\ plan'[o].target = plan[o].target
  BY DEF MarkReady, IInv, TypeOK, Plans
<1> QED
  BY <1>1, <1>2, <1>3, PlanKeepsAnchor DEF AnchorInv, PlanData

\* Giving up a pairing, with or without another's plan open.
LEMMA AbortKeepsAnchor ==
  ASSUME IInv, AnchorInv, NEW o \in Op, Abort(o)
  PROVE  AnchorInv'
<1>1. /\ plan'[o].stage = "none" /\ plan[o].stage # "ready" /\ pc' = "idle" /\ pc = "idle"
      /\ \A q \in Op \ {o} : plan'[q] = plan[q]
      /\ UNCHANGED <<anchor, key, kept, archive, ver, overtaken>>
  BY DEF Abort, AbortAllowed, Idle, copy, counts, IInv, TypeOK, NoPlan
<1>2. \A q \in Op \ {o} : Undone(q)' = Undone(q)
  BY <1>1, UndoneStays
<1>3. PlanData' /\ ArchiveBound' /\ SavedInv' /\ StepInv'
  BY <1>1 DEF AnchorInv, PlanData, ArchiveBound, SavedInv, StepInv, Open, Rooted, Covered
<1>4. TableInv'
  BY <1>1, <1>2 DEF AnchorInv, TableInv, NeedsRecovery, Open, Rooted
<1> QED
  BY <1>3, <1>4 DEF AnchorInv

\* collect_pairing takes archives only.
LEMMA CollectKeepsAnchor ==
  ASSUME IInv, AnchorInv, NEW o \in Op, Collect(o)
  PROVE  AnchorInv'
<1>1. /\ plan'[o].stage = "none" /\ ~NeedsRecovery /\ pc' = "idle"
      /\ \A q \in Op \ {o} : plan'[q] = plan[q]
      /\ \A q \in Op : archive'[q] \in {archive[q], None}
      /\ UNCHANGED <<anchor, key, kept, ver, overtaken>>
  BY DEF Collect, Idle, copy, counts, IInv, TypeOK, NoPlan
<1> QED
  BY <1>1, PlanKeepsAnchor

\* A new anchor, or another roster of it, is in the table when the verb that
\* takes it returns; and only a machine that holds no other root leaves one.
LEMMA MutationKeepsAnchor ==
  ASSUME IInv, AnchorInv, Mutation
  PROVE  AnchorInv'
<1>1. RootMutation
  BY DEF Mutation, Sign, RootInit, Arrive, Leave
<1>2. /\ ~NeedsRecovery /\ pc = "idle" /\ pc' = pc /\ plan' = plan
      /\ overtaken' = overtaken
      /\ key \in {None, anchor} /\ key \in {None, Own} /\ Rooted
      /\ \A r \in Root : kept[r] # None => kept[r].root = r
  BY <1>1
     DEF RootMutation, Idle, AnchorInv, StepInv, TableInv, IInv, TypeOK
<1>3. ASSUME NEW r \in Roster, anchor' = r.root, kept' = Prune(r)
      PROVE  Rooted' /\ \A x \in Root : kept'[x] # None => kept'[x].root = x
  BY <1>2, <1>3, SettlementAssumption DEF Rooted, Prune, Roster
<1>4. /\ key' \in {None, anchor'} /\ key' \in {None, Own} /\ Rooted'
      /\ \A x \in Root : kept'[x] # None => kept'[x].root = x
  <2>1. ASSUME NEW lone \in BOOLEAN, Sign(lone)
        PROVE  \E r \in Roster : anchor' = r.root /\ kept' = Prune(r) /\ key' = key
    <3>1. Newest(Own) \in Roster
      BY <2>1, NewestType, SettlementAssumption DEF Sign, IInv
    <3> DEFINE r == [root |-> Own, seq |-> Newest(Own).seq + 1, lone |-> lone, by |-> None]
    <3>2. r \in Roster
      BY <3>1, SettlementAssumption DEF Roster
    <3> QED
      BY <2>1, <3>2 DEF Sign
  <2>2. ASSUME NEW lone \in BOOLEAN, RootInit(lone)
        PROVE  \E r \in Roster : /\ anchor' = r.root /\ kept' = Prune(r) /\ key' = r.root
                                 /\ r.root = Own
    <3>1. [First EXCEPT !.lone = lone] \in Roster /\ [First EXCEPT !.lone = lone].root = Own
      BY SettlementAssumption DEF First, Roster
    <3> QED
      BY <2>2, <3>1 DEF RootInit
  <2>3. ASSUME NEW r \in World, Arrive(r)
        PROVE  r \in Roster /\ anchor' = r.root /\ kept' = Prune(r) /\ key' = key /\ anchor' = anchor
    BY <2>3, SettlementAssumption DEF Arrive
  <2>4. ASSUME Leave
        PROVE  /\ key' \in {None, anchor'} /\ key' = key /\ Rooted'
               /\ \A x \in Root : kept'[x] # None => kept'[x].root = x
    BY <1>2, <2>4, SettlementAssumption DEF Leave, Rooted
  <2> QED
    BY <1>2, <1>3, <2>1, <2>2, <2>3, <2>4 DEF Mutation, Sign
<1>5. ArchiveBound'
  BY DEF Mutation, Sign, RootInit, Arrive, Leave, AnchorInv, ArchiveBound
<1>6. PlanData' /\ SavedInv' /\ StepInv'
  BY <1>2, <1>4 DEF AnchorInv, PlanData, SavedInv, StepInv, Open, NeedsRecovery
<1>7. TableInv'
  BY <1>2, <1>4 DEF TableInv, Open, NeedsRecovery
<1> QED
  BY <1>5, <1>6, <1>7 DEF AnchorInv

\* No pairing has touched the disk, and the anchor's roster is there.
LEMMA InitAnchored == Init => AnchorInv
<1> SUFFICES ASSUME Init PROVE AnchorInv
  OBVIOUS
<1>1. PlanData /\ SavedInv /\ StepInv /\ \A o \in Op : ~Open(o)
  BY SettlementAssumption DEF Init, PlanData, SavedInv, StepInv, Open, NoPlan
<1>2. ArchiveBound
  BY DEF Init, ArchiveBound
<1>3. ASSUME NEW w \in Roster, anchor = w.root, key \in {None, w.root} \cap {None, Own},
             kept = [r \in Root |-> IF r = w.root THEN w ELSE None]
      PROVE  TableInv
  <2>1. w.root \in Root /\ w # None
    BY SettlementAssumption DEF Roster
  <2>2. \A r \in Root : kept[r] # None => kept[r].root = r
    BY <1>3
  <2>3. kept[anchor] = w
    BY <1>3, <2>1
  <2> QED
    BY <1>1, <1>3, <2>1, <2>2, <2>3 DEF TableInv, NeedsRecovery, Rooted
<1>4. ASSUME anchor = None, key = None, kept = [r \in Root |-> None]
      PROVE  TableInv
  BY <1>1, <1>4 DEF TableInv, NeedsRecovery, Rooted
<1>5. /\ First \in Roster /\ First.root = Own
      /\ [First EXCEPT !.seq = 2, !.lone = FALSE] \in Roster
      /\ [First EXCEPT !.seq = 2, !.lone = FALSE].root = Own
  BY SettlementAssumption DEF First, Roster
<1>6. ASSUME anchor = Own, key = Own
      PROVE  TableInv
  <2>1. PICK own \in {First, [First EXCEPT !.seq = 2, !.lone = FALSE]} :
           kept = [r \in Root |-> IF r = Own THEN own ELSE None]
    BY <1>6, SettlementAssumption DEF Init
  <2>2. own \in Roster /\ own.root = Own
    BY <1>5, <2>1
  <2> QED
    BY <1>3, <1>6, <2>1, <2>2
<1>7. ASSUME key = None,
             \E w \in World : /\ anchor = w.root
                              /\ kept = [r \in Root |-> IF r = w.root THEN w ELSE None]
      PROVE  TableInv
  <2>1. PICK w \in Roster : /\ anchor = w.root
                            /\ kept = [r \in Root |-> IF r = w.root THEN w ELSE None]
    BY <1>7, SettlementAssumption
  <2> QED
    BY <1>3, <1>7, <2>1
<1>8. TableInv
  BY <1>4, <1>6, <1>7 DEF Init
<1> QED
  BY <1>1, <1>2, <1>8 DEF AnchorInv

\* Every step keeps it: one lemma per action.
LEMMA StepKeepsAnchor ==
  ASSUME IInv, AnchorInv, [Next]_vars
  PROVE  AnchorInv'
<1>1. ASSUME NEW o \in Op, Pairing(o)
      PROVE  AnchorInv'
  <2>1. CASE Apply(o)
    BY <2>1, WorkKeepsAnchor, MarkReadyKeepsAnchor, CheckKeepsAnchor, PublishKeepsAnchor,
       SaveTargetKeepsAnchor, FlushKeepsAnchor, RetireKeepsAnchor, FinishKeepsAnchor DEF Apply
  <2>2. CASE ~Apply(o)
    BY <1>1, <2>2, ClaimOrCrashKeepsAnchor, WorkKeepsAnchor, PrepareKeepsAnchor,
       AbortKeepsAnchor, CollectKeepsAnchor DEF Pairing
  <2> QED
    BY <2>1, <2>2
<1>2. CASE UNCHANGED vars
  <2>1. UNCHANGED <<anchor, key, kept, archive, plan, ver, overtaken,
                    pc, cur, pen, mem>>
    BY <1>2 DEF vars, disk, copy, counts
  <2>2. PlanData' /\ TableInv' /\ ArchiveBound'
    BY <2>1, TableStays
  <2>3. SavedInv'
    BY <2>1 DEF AnchorInv, SavedInv, Rooted, Covered, Open
  <2>4. StepInv'
    <3>1. \A r : Newest(r)' = Newest(r)
      BY <2>1 DEF Newest
    <3> QED
      BY <2>1, <3>1 DEF AnchorInv, StepInv, Rooted, Undone, Covered
  <2> QED
    BY <2>2, <2>3, <2>4 DEF AnchorInv
<1> QED
  BY <1>1, <1>2, EditKeepsAnchor, MutationKeepsAnchor, ClaimOrCrashKeepsAnchor DEF Next

\* What the plans, the table and the worker say of the anchor is so in every
\* state, however many edits and crashes there are.
THEOREM AnchorInvariance == Spec => []AnchorInv
<1>1. IInv /\ AnchorInv /\ [Next]_vars => AnchorInv'
  BY StepKeepsAnchor
<1> QED
  BY <1>1, InitAnchored, Invariance, PTL DEF Spec

\* A machine is never left anchored to a root whose roster it does not
\* have, except by a settlement that recovery can carry out, or by one that
\* other edits overtook.
THEOREM AnchorAlwaysHasRoster == Spec => []AnchorHasRoster
<1>1. IInv /\ AnchorInv => AnchorHasRoster
  <2> SUFFICES ASSUME IInv, AnchorInv, anchor # None, Newest(anchor) = None,
                      anchor \notin overtaken
               PROVE  \E o \in Op : Open(o) /\ plan[o].anchor = anchor /\ blob[o] /\ Applies(o)
    BY DEF AnchorHasRoster
  <2>1. ~Rooted
    BY KeptIsFound DEF IInv, TypeOK, AnchorInv, TableInv, Rooted
  <2>2. PICK o \in Op : /\ Open(o) /\ anchor = plan[o].anchor /\ Undone(o)
                        /\ plan[o].roster # None
    BY <2>1 DEF AnchorInv, TableInv, NeedsRecovery
  <2>3. blob[o] /\ Applies(o)
    BY <2>2 DEF IInv, RecoveryHasItsInputs, Undone, Applies
  <2> QED
    BY <2>2, <2>3
<1> QED
  BY <1>1, AnchorInvariance, Invariance, PTL

\* The private key of a root is deleted only by a machine that is anchored
\* to the root of a ready plan whose saved version is on the disk, and that
\* has its roster, unless other edits overtook it.
THEOREM KeysRetireOnceCovered == Spec => KeyRetiredOnceCovered
<1>1. ASSUME IInv, AnchorInv, [Next]_vars, key # None, key' = None
      PROVE  /\ anchor \notin {None, key}
             /\ Newest(anchor) # None \/ anchor \in overtaken
             /\ \E o \in Op : Open(o) /\ plan[o].anchor = anchor /\ Covered(o)
  <2>1. PICK o \in Op : RetireKey(o)
    <3>1. ~Mutation
      BY <1>1, SettlementAssumption DEF Mutation, Sign, RootInit, Arrive, Leave
    <3> QED
      BY <1>1, <3>1 DEF Next, Pairing, Apply, Start, Recover, Prepare, Stage, MarkReady, Check,
         Refuse, Burn, PublishAnchor, SaveTarget, Flush, RetireRefused, AdvanceOwner, Finish,
         Abort, Collect, Edit, Interrupt, disk, vars
  <2>2. /\ pc = "retire" /\ cur = o /\ Open(o) /\ anchor = plan[o].anchor
        /\ key = plan[o].beforeKey /\ key # plan[o].anchor /\ Rooted /\ Covered(o)
    BY <1>1, <2>1 DEF RetireKey, At, Superseded, IInv, WorkerInv, TrustInv, Steps, AnchorInv,
       StepInv
  <2>3. plan[o].anchor # None
    <3>1. plan[o].beforeAnchor # None
      BY <1>1, <2>2 DEF AnchorInv, PlanData, Open
    <3> QED
      BY <1>1, <3>1 DEF IInv, PlanInv
  <2>4. Newest(anchor) # None \/ anchor \in overtaken
    BY <1>1, <2>2, <2>3, KeptIsFound DEF IInv, TypeOK, AnchorInv, TableInv, Rooted
  <2> QED
    BY <2>2, <2>3, <2>4
<1>2. IInv /\ AnchorInv /\ [Next]_vars =>
        [key # None /\ key' = None
           => /\ anchor \notin {None, key}
              /\ Newest(anchor) # None \/ anchor \in overtaken
              /\ \E o \in Op : Open(o) /\ plan[o].anchor = anchor /\ Covered(o)]_vars
  BY <1>1
<1> QED
  BY <1>2, AnchorInvariance, Invariance, PTL DEF Spec, KeyRetiredOnceCovered

=============================================================================
