-------------------------- MODULE CliInstallProofs --------------------------
(***************************************************************************)
(* What is proved of CliInstall for every set of images and offers and any *)
(* number of installations and failures: the selected program and what it  *)
(* may be rolled back to are never collected, no process loses the image   *)
(* it runs, and no reservation leaks.                                      *)
(*                                                                         *)
(* None of these is inductive.  Why the selection survives depends on      *)
(* where an installation is: it is in the index of the store, except       *)
(* between the step that points at a candidate and the one that selects    *)
(* it, where the reservation protects it, and that reservation is given up *)
(* only once the index holds the selection.  Why the fallback survives     *)
(* depends on the order of the two entries of the index.                   *)
(***************************************************************************)
EXTENDS CliInstall, TLAPS

-----------------------------------------------------------------------------
(* The inductive invariant *)

\* Whatever protects an image protects one that is on disk.
ProtectedOnDisk ==
  /\ Recent(recent) \subseteq images
  /\ reserved \subseteq images
  /\ Leases(held) \subseteq images

\* The selection is in the index or reserved; in the index, in front, from the
\* release of the last reservation to the next candidate's activation.
PointerProtected ==
  /\ current # None => current \in Recent(recent) \cup reserved
  /\ job.pc \in {"release", "check", "stage", "prepare", "reserve", "activate", "point"}
       => current \in {None, recent.newest}

\* What the record may roll back to is in the index, and stays there when the
\* selection of the moment is put in front.
FallbackIndexed ==
  /\ receipt.previous # None => current # None
  /\ MayRollBack /\ receipt.previous # None =>
       \/ receipt.previous = recent.newest
       \/ receipt.previous = recent.older /\ current \in {recent.newest, receipt.previous}

\* Which operation may be where, and what it has done by then.
Installing(pcs) == job.op # "adopt" /\ job.pc \in pcs
Progress ==
  /\ job.settling => job.op = "install"
  /\ job.op = "adopt" => current = None /\ job.pc \in {"stage", "publish", "point"}
  /\ Finishing => job.pc \in {"start", "rollback", "rolled", "retain"}
  /\ job.pc = "publish" => job.op = "adopt"
  /\ Installing({"prepare", "reserve"}) => held["updater"] = job.image
  /\ Installing({"check", "stage", "prepare"}) => reserved = {}
  /\ Installing({"reserve", "activate", "point"}) =>
       receipt.image = job.image /\ receipt.previous = current
  /\ Installing({"reserve", "activate", "point", "health", "complete"}) => Interrupted
  /\ Installing({"activate", "point"}) => job.image \in reserved
  /\ job.op = "adopt" /\ job.pc = "point" => job.image = recent.newest
  /\ job.pc = "rollback" => MayRollBack /\ (Finishing => StartPending(job.image))
  /\ job.op # "none" /\ ~Finishing => job.image \in Image

\* There is no record, or it names an image.
Recorded ==
  /\ receipt = NoReceipt \/ (receipt.state # "none" /\ receipt.image \in Image)
  /\ job.pc = "rolled" => receipt # NoReceipt

IInv ==
  /\ TypeOK /\ ProtectedOnDisk /\ PointerProtected /\ FallbackIndexed /\ Progress
  /\ Recorded /\ OneReservation


-----------------------------------------------------------------------------
(* Every step preserves it *)

\* The vocabulary of the specification and the parts of the invariant.  Recent, Leases
\* and the collection stay folded wherever a step leaves the store alone.
USE DEF ImageOrNone, LockFree, At, Goes, NoJob, Ends, Takes, Records, storeVars,
        installVars, counters, MayRollBack, Interrupted, Finishing, Installing
USE DEF IInv, TypeOK, StoreTypeOK, ProtectedOnDisk, PointerProtected, FallbackIndexed,
        Progress, Recorded, OneReservation

\* Collection (collect_locked) takes nothing that the index, a reservation or a lease
\* protects.
LEMMA CollectionKeeps ==
  ASSUME NEW index, NEW marks, NEW leases, CollectsFor(index, marks, leases)
  PROVE  /\ images' \subseteq images
         /\ \A id \in images : id \in Recent(index) \cup marks \cup Leases(leases)
              => id \in images'
  BY DEF CollectsFor, Garbage

\* Nothing runs and nothing is recorded at first.
LEMMA InitEstablishes == Init => IInv
  BY HolderAssumption, OfferAssumption
  DEF Init, StoreInit, NoReceipt, NoKeeper, Recent, Leases, Ops, Pcs, States, KeeperPcs

\* What the keeper does by itself disturbs only the types (supervise in keeper.rs).
LEMMA KeeperAlone ==
  ASSUME IInv, UNCHANGED <<storeVars, installVars, source, job>>,
         keeper' \in [pc : KeeperPcs, program : ImageOrNone, pending : BOOLEAN],
         keeper'.pc = "finishing" <=> keeper.pc = "finishing"
  PROVE  IInv'
  BY DEF StartPending

\* An operation begins where its first step is (install, on_node, recover,
\* finish_service_start).
LEMMA BeginKeeps == ASSUME IInv, Begins \/ KeeperConfirms \/ KeeperReverts PROVE IInv'
<1>1. ASSUME NEW id \in Offers, Install(id) PROVE IInv'
  BY <1>1, OfferAssumption DEF Install, StartPending, Ops, Pcs
<1>2. CASE Adopt
  BY <1>2 DEF Adopt, StartPending, Ops, Pcs
<1>3. CASE Recover
  BY <1>3 DEF Recover, StartPending, Ops, Pcs
<1>4. CASE KeeperConfirms
  BY <1>4 DEF KeeperConfirms, StartPending, Ops, Pcs, KeeperPcs
<1>5. CASE KeeperReverts
  BY <1>5 DEF KeeperReverts, StartPending, Ops, Pcs, KeeperPcs
<1> QED
  BY <1>1, <1>2, <1>3, <1>4, <1>5 DEF Begins

\* The steps of an installation that only move on, or change the record.
LEMMA RecordKeeps ==
  ASSUME IInv,
         Settle \/ Check \/ Prepare \/ Activate \/ Health \/ Complete \/ RecordRolledBack
  PROVE  IInv'
<1>1. CASE Settle
  <2>1. At("settle") /\ UNCHANGED <<storeVars, installVars, source, keeper>>
    BY <1>1 DEF Settle
  <2>2. CASE Goes("retain")
    BY <2>1, <2>2 DEF Pcs, StartPending
  <2>3. CASE Interrupted /\ (Goes("rolled") \/ Goes("rollback"))
    BY <2>1, <2>3 DEF Pcs, StartPending, NoReceipt
  <2>4. CASE Ends
    BY <2>1, <2>4 DEF Ops, Pcs
  <2> QED
    BY <1>1, <2>2, <2>3, <2>4 DEF Settle
<1>2. CASE Check
  <2>1. UNCHANGED <<storeVars, installVars, source, keeper>>
    BY <1>2 DEF Check
  <2>2. CASE Ends
    BY <2>1, <2>2, <1>2 DEF Check, Ops, Pcs
  <2>3. CASE Goes("retain")
    BY <2>1, <2>3, <1>2 DEF Check, Pcs, StartPending
  <2>4. CASE Goes("stage")
    BY <2>1, <2>4, <1>2 DEF Check, Pcs, StartPending
  <2> QED
    BY <1>2, <2>2, <2>3, <2>4 DEF Check
<1>3. CASE Prepare
  BY <1>3 DEF Prepare, Pcs, States, StartPending, Recent, NoReceipt
<1>4. CASE Activate
  BY <1>4 DEF Activate, Pcs, States, StartPending, NoReceipt
<1>5. CASE Health
  BY <1>5 DEF Health, Pcs, StartPending
<1>6. CASE Complete
  BY <1>6 DEF Complete, Pcs, States, StartPending, NoReceipt
<1>7. CASE RecordRolledBack
  BY <1>7 DEF RecordRolledBack, Pcs, States, StartPending, NoReceipt
<1> QED
  BY <1>1, <1>2, <1>3, <1>4, <1>5, <1>6, <1>7

\* The steps of an installation that move the pointer, or write the store.
LEMMA StoreKeeps ==
  ASSUME IInv,
         StageCandidate \/ PublishAdopted \/ ReserveCandidate \/ Point \/ Rollback
  PROVE  IInv'
<1>1. CASE StageCandidate
  <2>1. PICK removed \in SUBSET images :
           /\ \A id \in images : id \in Recent(recent) \cup reserved \cup Leases(held)
                => id \notin removed
           /\ images' = (images \ removed) \cup {job.image}
    <3>1. CASE job.image \in images /\ UNCHANGED images
      <4>1. images' = (images \ {}) \cup {job.image}
        BY <3>1
      <4> QED
        BY <4>1
    <3>2. CASE \E removed \in SUBSET Garbage(recent, reserved, held) :
                 images' = (images \ removed) \cup {job.image}
      BY <3>2 DEF Garbage
    <3> QED
      BY <1>1, <3>1, <3>2 DEF StageCandidate, Stage
  <2>2. job.image \in Image /\ ~Finishing
    BY <1>1 DEF StageCandidate
  <2>3. held' = [held EXCEPT !["updater"] = job.image] /\ UNCHANGED <<recent, reserved>>
    BY <1>1 DEF StageCandidate, Stage
  <2>4. ProtectedOnDisk'
    BY <2>1, <2>3 DEF Recent, Leases
  <2>5. TypeOK'
    BY <1>1, <2>1, <2>2, <2>3 DEF StageCandidate, Pcs
  <2>6. Progress'
    BY <1>1, <2>2, <2>3, HolderAssumption DEF StageCandidate
  <2> QED
    BY <1>1, <2>3, <2>4, <2>5, <2>6 DEF StageCandidate, StartPending, NoReceipt, Recent
<1>2. CASE PublishAdopted
  <2>1. CollectsFor(recent', reserved, held)
    BY <1>2 DEF PublishAdopted, Select
  <2>2. ProtectedOnDisk'
    BY <1>2, <2>1, CollectionKeeps DEF PublishAdopted, Select, Retained, Recent, Leases
  <2> QED
    BY <1>2, <2>1, <2>2, CollectionKeeps
    DEF PublishAdopted, Select, Retained, Pcs, StartPending
<1>3. CASE ReserveCandidate
  <2>1. job.image \in images
    BY <1>3, HolderAssumption, ImageAssumption DEF ReserveCandidate, Leases
  <2> QED
    BY <1>3, <2>1 DEF ReserveCandidate, Reserve, Pcs, StartPending
<1>4. CASE Point
  <2>1. CASE job.op = "adopt"
    <3>1. receipt.previous = None /\ job.image \in Recent(recent)
      BY <1>4, <2>1, ImageAssumption DEF Point, Recent
    <3>2. job' = NoJob /\ held' = [held EXCEPT !["updater"] = None]
          /\ UNCHANGED <<images, recent, reserved, receipt, source, keeper>>
      BY <1>4, <2>1 DEF Point, Drop
    <3>3. ProtectedOnDisk'
      BY <3>2 DEF Recent, Leases
    <3>4. job.image \in Image /\ current' = job.image
      BY <1>4, <2>1 DEF Point
    <3>5. TypeOK'
      BY <2>1, <3>2, <3>4 DEF Ops, Pcs
    <3> QED
      BY <3>1, <3>2, <3>3, <3>4, <3>5, ImageAssumption DEF NoReceipt, Recent
  <2>2. CASE job.op # "adopt"
    <3>1. receipt.previous \in {None, recent.newest} /\ job.image \in Image
      BY <1>4, <2>2 DEF Point
    <3> QED
      BY <1>4, <2>2, <3>1, ImageAssumption DEF Point, Pcs, StartPending, Recent
  <2> QED
    BY <2>1, <2>2
<1>5. CASE Rollback
  <2>1. MayRollBack /\ current' = receipt.previous /\ UNCHANGED <<storeVars, receipt>>
    BY <1>5 DEF Rollback
  <2>2. receipt.previous # None => receipt.previous \in Recent(recent)
    BY <2>1 DEF Recent
  <2> QED
    BY <1>5, <2>1, <2>2 DEF Rollback, Pcs, NoReceipt
<1> QED
  BY <1>1, <1>2, <1>3, <1>4, <1>5

\* Selecting what the pointer names puts it in front and keeps what may be gone back
\* to behind it (retain_selected); only then is a reservation given up
\* (release_reservation).
LEMMA RetainKeeps == ASSUME IInv, Retain \/ ReleaseReservation PROVE IInv'
<1>1. CASE Retain
  <2>1. TypeOK'
    <3>1. StoreTypeOK' /\ UNCHANGED <<installVars, source>>
      BY <1>1, CollectionKeeps DEF Retain, Select, Retained
    <3>2. CASE Finishing
      <4>1. job' = NoJob
        BY <1>1, <3>2 DEF Retain
      <4>2. \/ keeper' = [keeper EXCEPT !.pc = "serving", !.pending = FALSE]
            \/ keeper' = [keeper EXCEPT !.pc = "entering"]
        BY <1>1, <3>2 DEF Retain, Answered
      <4> QED
        BY <3>1, <4>1, <4>2 DEF Ops, Pcs, KeeperPcs
    <3>3. CASE ~Finishing
      BY <1>1, <3>1, <3>3 DEF Retain, Pcs
    <3> QED
      BY <3>2, <3>3
  <2>2. ProtectedOnDisk'
    BY <1>1, CollectionKeeps DEF Retain, Select, Retained, Recent, Leases
  <2>3. current # None => recent'.newest = current
    BY <1>1 DEF Retain, Select, Retained
  <2>4. PointerProtected'
    BY <1>1, <2>3 DEF Retain, Recent
  <2>5. FallbackIndexed'
    BY <1>1, <2>3 DEF Retain, Select, Retained, StartPending
  <2>6. job' = NoJob \/ (~Finishing /\ Goes("release"))
    BY <1>1 DEF Retain
  <2>7. Progress'
    BY <1>1, <2>6 DEF Retain
  <2>8. Recorded' /\ OneReservation'
    BY <1>1, <2>6 DEF Retain, Select, NoReceipt
  <2> QED
    BY <2>1, <2>2, <2>4, <2>5, <2>7, <2>8
<1>2. CASE ReleaseReservation
  <2>1. reserved' = {} /\ UNCHANGED <<images, recent, installVars, source, keeper>>
    BY <1>2 DEF ReleaseReservation
  <2>2. current # None => current \in Recent(recent)
    BY <1>2 DEF ReleaseReservation, Recent
  <2>3. CASE job.settling
    <3>1. job' = [job EXCEPT !.pc = "check", !.settling = FALSE] /\ UNCHANGED held
      BY <1>2, <2>3 DEF ReleaseReservation
    <3>2. TypeOK'
      BY <1>2, <2>1, <2>3, <3>1 DEF ReleaseReservation, Pcs
    <3>3. Progress'
      BY <1>2, <2>1, <2>3, <3>1 DEF ReleaseReservation
    <3> QED
      BY <1>2, <2>1, <2>2, <3>1, <3>2, <3>3 DEF ReleaseReservation, StartPending, NoReceipt
  <2>4. CASE ~job.settling
    <3>1. job' = NoJob /\ held' = [held EXCEPT !["updater"] = None]
      BY <1>2, <2>4 DEF ReleaseReservation, Drop
    <3>2. TypeOK'
      BY <1>2, <2>1, <3>1 DEF ReleaseReservation, Ops, Pcs
    <3>3. ProtectedOnDisk'
      BY <2>1, <3>1 DEF Leases
    <3> QED
      BY <2>1, <2>2, <3>1, <3>2, <3>3 DEF NoReceipt
  <2> QED
    BY <2>3, <2>4
<1> QED
  BY <1>1, <1>2

\* A late answer changes the record only of the start that is still pending.
LEMMA FinishKeeps == ASSUME IInv, FinishServiceStart PROVE IInv'
<1>1. At("start") /\ UNCHANGED <<storeVars, current, source>>
  BY DEF FinishServiceStart
<1>2. CASE Ends /\ Answered(FALSE) /\ UNCHANGED receipt
  <2>1. keeper' \in {[keeper EXCEPT !.pc = "serving", !.pending = FALSE],
                     [keeper EXCEPT !.pc = "entered"]}
    BY <1>2 DEF Answered
  <2>2. TypeOK'
    BY <1>1, <1>2, <2>1 DEF Ops, Pcs, KeeperPcs
  <2> QED
    BY <1>1, <1>2, <2>2 DEF NoReceipt
<1>3. CASE /\ receipt' = [receipt EXCEPT !.ready = TRUE]
           /\ StartPending(job.image) /\ job.op = "confirm"
           /\ Goes("retain") /\ UNCHANGED keeper
  <2>1. TypeOK'
    BY <1>1, <1>3 DEF Pcs
  <2>2. Progress' /\ Recorded'
    BY <1>1, <1>3 DEF StartPending, NoReceipt
  <2> QED
    BY <1>1, <1>3, <2>1, <2>2
<1>4. CASE /\ StartPending(job.image) /\ job.op = "revert" /\ Goes("rollback")
           /\ UNCHANGED <<receipt, keeper>>
  BY <1>1, <1>4 DEF Pcs, StartPending, NoReceipt
<1> QED
  BY <1>2, <1>3, <1>4 DEF FinishServiceStart

\* The keeper and the hosts hold images that are on disk.
LEMMA HolderKeeps ==
  ASSUME IInv, KeeperTakes \/ KeeperLeaves \/ HostStarts \/ HostExits
  PROVE  IInv'
<1>1. CASE KeeperTakes
  <2>1. CASE keeper.pc = "swapping" /\ current = keeper.program
    BY <1>1, <2>1, KeeperAlone DEF KeeperTakes, KeeperPcs
  <2>2. CASE ~(keeper.pc = "swapping" /\ current = keeper.program)
    <3>1. /\ keeper' = [pc |-> "entered", program |-> current, pending |-> FALSE]
          /\ held' = [held EXCEPT !["keeper"] = current] /\ current \in images
          /\ keeper.pc # "finishing"
          /\ UNCHANGED <<images, recent, reserved, installVars, source, job>>
      BY <1>1, <2>2 DEF KeeperTakes, Hold
    <3>2. TypeOK'
      BY <3>1 DEF KeeperPcs
    <3>3. ProtectedOnDisk'
      BY <3>1 DEF Leases
    <3>4. Progress'
      BY <3>1, HolderAssumption DEF StartPending
    <3> QED
      BY <3>1, <3>2, <3>3, <3>4
  <2> QED
    BY <2>1, <2>2
<1>2. CASE KeeperLeaves
  BY <1>2, HolderAssumption
  DEF KeeperLeaves, Drop, NoKeeper, KeeperPcs, StartPending, Recent, Leases
<1>3. CASE HostStarts
  BY <1>3, HolderAssumption DEF HostStarts, Hold, StartPending, Recent, Leases
<1>4. CASE HostExits
  BY <1>4, HolderAssumption DEF HostExits, Drop, StartPending, Recent, Leases
<1> QED
  BY <1>1, <1>2, <1>3, <1>4

\* Faults lose the lock, leases and processes, never what is on disk.
LEMMA FaultKeeps == ASSUME IInv, Faults PROVE IInv'
<1>1. CASE Fails
  <2>1. keeper' \in {[keeper EXCEPT !.pc = "serving"], NoKeeper, keeper}
    BY <1>1 DEF Fails
  <2>2. TypeOK'
    BY <1>1, <2>1, HolderAssumption DEF Fails, NoKeeper, Ops, Pcs, KeeperPcs
  <2> QED
    BY <1>1, <2>2, HolderAssumption DEF Fails, Recent, Leases, NoReceipt
<1>2. CASE PowerFails
  BY <1>2, HolderAssumption DEF PowerFails, NoKeeper, Ops, Pcs, KeeperPcs, Recent, Leases
<1> QED
  BY <1>1, <1>2 DEF Faults

\* Maintenance collects with what is protected now (maintain in updates.rs).
LEMMA MaintainKeeps == ASSUME IInv, Maintain PROVE IInv'
<1>1. CollectsFor(recent, reserved, held) /\ UNCHANGED <<recent, reserved, held>>
  BY DEF Maintain, Collect
<1>2. ProtectedOnDisk'
  BY <1>1, CollectionKeeps DEF Recent, Leases
<1> QED
  BY <1>1, <1>2, CollectionKeeps DEF Maintain, Collect, StartPending, Recent

-----------------------------------------------------------------------------
(* The theorems *)

\* Every step of the specification, and none at all, preserves the invariant.
LEMMA NextKeeps == ASSUME IInv, [Next]_vars PROVE IInv'
<1>1. CASE Begins
  BY <1>1, BeginKeeps
<1>2. CASE Steps
  BY <1>2, RecordKeeps, StoreKeeps, RetainKeeps, FinishKeeps DEF Steps
<1>3. CASE KeeperSteps
  <2>1. CASE KeeperEnters
    BY <2>1, KeeperAlone DEF KeeperEnters, KeeperPcs
  <2>2. CASE KeeperSpawns
    <3>1. StartPending(keeper.program) \in BOOLEAN
      BY DEF StartPending
    <3> QED
      BY <2>2, <3>1, KeeperAlone DEF KeeperSpawns, KeeperPcs
  <2>3. CASE KeeperLooks
    BY <2>3, KeeperAlone DEF KeeperLooks, KeeperPcs
  <2> QED
    BY <1>3, <2>1, <2>2, <2>3, BeginKeeps, HolderKeeps DEF KeeperSteps
<1>4. CASE Surroundings
  <2>1. CASE ChildDies
    BY <2>1, KeeperAlone DEF ChildDies, KeeperPcs
  <2> QED
    BY <1>4, <2>1, HolderKeeps, MaintainKeeps DEF Surroundings
<1>5. CASE Faults
  BY <1>5, FaultKeeps
<1>6. CASE UNCHANGED vars
  BY <1>6, KeeperAlone DEF vars
<1> QED
  BY <1>1, <1>2, <1>3, <1>4, <1>5, <1>6 DEF Next

HIDE DEF IInv

LEMMA InvariantHolds == Spec => []IInv
  BY InitEstablishes, NextKeeps, PTL DEF Spec

\* The state of the installation and of the keeper keeps its types, and the keeper
\* waits for an answer exactly while one is being worked out.
THEOREM TypeCorrect == Spec => []TypeOK
<1>1. IInv => TypeOK
  BY DEF IInv
<1> QED
  BY <1>1, InvariantHolds, PTL

\* Whatever fails and whoever collects, the selected program is on disk.
THEOREM SelectionSurvives == Spec => []SelectedKept
<1>1. IInv => SelectedKept
  BY DEF IInv, SelectedKept
<1> QED
  BY <1>1, InvariantHolds, PTL

\* As long as the record may be rolled back, what it goes back to is on disk.
THEOREM FallbackSurvives == Spec => []FallbackKept
<1>1. IInv => FallbackKept
  BY DEF IInv, FallbackKept, Recent
<1> QED
  BY <1>1, InvariantHolds, PTL

\* Nobody loses the image it runs or prepares.
THEOREM OccupiedSurvive == Spec => []OccupiedKept
<1>1. IInv => OccupiedKept
  BY DEF IInv, OccupiedKept
<1> QED
  BY <1>1, InvariantHolds, PTL

\* A reservation is always the one the record names.
THEOREM ReservationsKnown == Spec => []OneReservation
<1>1. IInv => OneReservation
  BY DEF IInv
<1> QED
  BY <1>1, InvariantHolds, PTL

\* An answer moves the selection, or marks a program ready, only if it is about the
\* selected program.
THEOREM LateAnswersHarmless == Spec => LateAnswersIgnored
<1>1. ASSUME IInv, [Next]_vars, Finishing,
             current' # current \/ receipt'.ready # receipt.ready
      PROVE  current = job.image
  <2>1. CASE FinishServiceStart
    BY <1>1, <2>1 DEF FinishServiceStart, StartPending
  <2>2. CASE Rollback
    BY <1>1, <2>2 DEF IInv, Rollback, StartPending
  <2>3. CASE ~FinishServiceStart /\ ~Rollback
    <3>1. UNCHANGED installVars \/ RecordRolledBack
      BY <1>1, <2>3
      DEF IInv, Next, Begins, Install, Adopt, Recover, Steps, Settle, Check,
          StageCandidate, PublishAdopted, Prepare, ReserveCandidate, Activate, Point,
          Health, Complete, Retain, ReleaseReservation, KeeperSteps, KeeperEnters,
          KeeperTakes, KeeperSpawns, KeeperConfirms, KeeperReverts, KeeperLooks,
          Surroundings, ChildDies, KeeperLeaves, HostStarts, HostExits, Maintain, Faults,
          Fails, PowerFails, vars
    <3>2. receipt'.ready = receipt.ready /\ current' = current
      BY <1>1, <3>1 DEF IInv, RecordRolledBack
    <3> QED
      BY <1>1, <3>2
  <2> QED
    BY <2>1, <2>2, <2>3
<1>2. IInv /\ [Next]_vars =>
        [Finishing /\ (current' # current \/ receipt'.ready # receipt.ready)
           => current = job.image]_vars
  BY <1>1
<1> QED
  BY <1>2, InvariantHolds, PTL DEF Spec, LateAnswersIgnored

\* Until the record says so, what has been undone is known by the step that records it.
UndoneAtRolled ==
  job.pc = "rolled" /\ receipt.previous # None => current = receipt.previous

\* Only Rollback and the two settlements lead to the step that records, and once it is
\* recorded the pointer moves again only under a new record, or where there was no
\* program to go back to (settle_previous_installation, recover, on_node).
LEMMA RestoredKeeps ==
  ASSUME IInv, UndoneAtRolled, RolledBackRestored, [Next]_vars
  PROVE  UndoneAtRolled' /\ RolledBackRestored'
<1> USE DEF UndoneAtRolled, RolledBackRestored
<1>0. \A pc : Goes(pc) => job'.pc = pc
  <2>1. job \in [op : Ops, pc : Pcs, image : Image \cup {None}, settling : BOOLEAN]
    BY DEF IInv
  <2> QED
    BY <2>1
<1>1. CASE Settle
  BY <1>1 DEF IInv, Settle
<1>2. CASE Recover
  BY <1>2 DEF Recover
<1>3. CASE Rollback
  BY <1>3 DEF Rollback
<1>4. CASE RecordRolledBack
  BY <1>4 DEF IInv, RecordRolledBack
<1>5. CASE Point
  BY <1>5 DEF IInv, Point
<1>6. CASE Prepare \/ Activate \/ Complete \/ FinishServiceStart
  <2>1. CASE Prepare
    BY <2>1 DEF IInv, Prepare
  <2>2. CASE Activate
    BY <2>2 DEF IInv, Activate
  <2>3. CASE Complete
    BY <2>3 DEF IInv, Complete
  <2>4. CASE FinishServiceStart
    <3>1. UNCHANGED installVars \/ (StartPending(job.image) /\ UNCHANGED current
             /\ receipt' = [receipt EXCEPT !.ready = TRUE])
      BY <2>4 DEF FinishServiceStart
    <3>2. Ends \/ Goes("retain") \/ Goes("rollback")
      BY <2>4 DEF FinishServiceStart
    <3>3. job'.pc # "rolled"
      BY <1>0, <3>2
    <3> QED
      BY <3>1, <3>3 DEF IInv, StartPending
  <2> QED
    BY <1>6, <2>1, <2>2, <2>3, <2>4
<1>7. CASE ~(\/ Settle \/ Recover \/ Rollback \/ RecordRolledBack \/ Point \/ Prepare
             \/ Activate \/ Complete \/ FinishServiceStart)
  <2>1. CASE Steps
    <3>1. UNCHANGED installVars
      BY <1>7, <2>1
      DEF Steps, Check, StageCandidate, PublishAdopted, ReserveCandidate, Health, Retain,
          ReleaseReservation
    <3>2. CASE ReleaseReservation /\ job.settling
      <4>1. job' = [job EXCEPT !.pc = "check", !.settling = FALSE]
        BY <3>2 DEF ReleaseReservation
      <4>2. job'.pc = "check"
        BY <4>1 DEF IInv
      <4> QED
        BY <3>1, <4>2
    <3>3. CASE ~(ReleaseReservation /\ job.settling)
      <4>1. \/ Ends \/ Goes("retain") \/ Goes("stage") \/ Goes("publish") \/ Goes("prepare")
            \/ Goes("point") \/ Goes("activate") \/ Goes("complete") \/ Goes("rollback")
            \/ Goes("release")
        BY <1>7, <2>1, <3>3
        DEF Steps, Check, StageCandidate, PublishAdopted, ReserveCandidate, Health, Retain,
            ReleaseReservation
      <4>2. job'.pc # "rolled"
        BY <1>0, <4>1
      <4> QED
        BY <3>1, <4>2
    <3> QED
      BY <3>2, <3>3
  <2>2. CASE Begins \/ KeeperConfirms \/ KeeperReverts
    BY <1>7, <2>2 DEF Begins, Install, Adopt, KeeperConfirms, KeeperReverts
  <2>3. CASE Faults
    BY <2>3 DEF Faults, Fails, PowerFails
  <2>4. CASE ~(Steps \/ Begins \/ KeeperConfirms \/ KeeperReverts \/ Faults)
    <3>1. UNCHANGED <<installVars, job>>
      BY <2>4
      DEF Next, KeeperSteps, KeeperEnters, KeeperTakes, KeeperSpawns, KeeperLooks,
          Surroundings, ChildDies, KeeperLeaves, HostStarts, HostExits, Maintain, vars
    <3> QED
      BY <3>1
  <2> QED
    BY <2>1, <2>2, <2>3, <2>4
<1> QED
  BY <1>1, <1>2, <1>3, <1>4, <1>5, <1>6, <1>7

\* A record that says it was rolled back is believed: the selection is what it was
\* before that installation.
THEOREM RolledBackIsRestored == Spec => []RolledBackRestored
<1>1. Init => UndoneAtRolled /\ RolledBackRestored
  BY DEF Init, NoReceipt, UndoneAtRolled, RolledBackRestored
<1> QED
  BY <1>1, RestoredKeeps, InvariantHolds, PTL DEF Spec

==============================================================================
