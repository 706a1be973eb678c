----------------------------- MODULE CliInstall -----------------------------
(***************************************************************************)
(* The managed command line of one node (crates/update/src/install.rs) and *)
(* the keeper that serves it (crates/node/src/keeper.rs,                   *)
(* keeper/startup.rs).                                                     *)
(*                                                                         *)
(* The pointer `current', the record update.json and the image store are   *)
(* three things on disk, changed one after the other under update.lock.  A *)
(* step of the model is one of those changes; whoever holds the lock may   *)
(* fail or be killed between any two of them, and the next command of any  *)
(* kind meets what is left.  The keeper reads the pointer and the record   *)
(* without the lock.                                                       *)
(***************************************************************************)
EXTENDS ImageStore, Naturals

CONSTANTS
  Offers,      \* images that releases offer
  Bytes,       \* the bytes of an image: a promoted candidate keeps its own
  Sources,     \* programs that may be there before Khor manages any
  MaxInstalls, \* bound: installations begun
  MaxFailures  \* bound: operations failed or killed, and processes killed

ASSUME OfferAssumption == Offers \subseteq Image /\ Sources \subseteq ImageOrNone
ASSUME HolderAssumption == Holder = {"updater", "keeper", "host"}

VARIABLES
  current,  \* the pointer to the selected program
  receipt,  \* update.json
  source,   \* bootstrap_source; never changes
  job,      \* what the holder of update.lock does, and how far it is
  keeper,   \* the keeper: where it is, its program, whether its start is pending
  installs, failures

installVars == <<current, receipt>>
counters == <<installs, failures>>
vars == <<storeVars, installVars, source, job, keeper, counters>>

NoReceipt == [state |-> "none", image |-> None, previous |-> None, ready |-> FALSE]
NoJob == [op |-> "none", pc |-> "idle", image |-> None, settling |-> FALSE]
NoKeeper == [pc |-> "off", program |-> None, pending |-> FALSE]

Interrupted == receipt.state \in {"prepared", "activating"}
HasBytesOf(id) == current # None /\ Bytes[current] = Bytes[id]

\* service_start_pending
StartPending(program) ==
  receipt.state = "complete" /\ ~receipt.ready /\ current = program

LockFree == job.op = "none"
Takes(op, pc, image) ==
  LockFree /\ job' = [op |-> op, pc |-> pc, image |-> image, settling |-> op = "install"]
At(pc) == job.pc = pc
Goes(pc) == job' = [job EXCEPT !.pc = pc]

\* The lock is let go; a lease taken to prepare an image goes with it.
Ends == job' = NoJob
Records(state) == receipt' = [receipt EXCEPT !.state = state]

-----------------------------------------------------------------------------
(* Operations begin: the lock is taken *)

\* install: after the download was unpacked and hashed.  A program found beforehand
\* is adopted before anything is installed.
Install(id) ==
  /\ installs < MaxInstalls
  /\ current # None \/ source = None
  /\ Takes("install", "settle", id)
  /\ installs' = installs + 1
  /\ UNCHANGED <<storeVars, installVars, source, keeper, failures>>

\* on_node: nothing is selected on this node yet.
Adopt ==
  /\ source # None /\ current = None
  /\ Takes("adopt", "stage", source)
  /\ UNCHANGED <<storeVars, installVars, source, keeper, counters>>

\* Mutant: an installation that never moved the pointer is left as it is.
RecoverPointed ==
  /\ receipt # NoReceipt
  /\ \/ ~Interrupted /\ Takes("recover", "retain", receipt.image)
     \/ Interrupted /\ HasBytesOf(receipt.image) /\ Takes("recover", "health", receipt.image)
  /\ UNCHANGED <<storeVars, installVars, source, keeper, counters>>

\* recover, by any process that starts: try_lock, nothing when it is held.
Recover ==
  /\ receipt # NoReceipt
  /\ \/ ~Interrupted /\ Takes("recover", "retain", receipt.image)
     \/ Interrupted /\ HasBytesOf(receipt.image) /\ Takes("recover", "health", receipt.image)
     \/ /\ Interrupted /\ ~HasBytesOf(receipt.image) /\ current = receipt.previous
        /\ Takes("recover", "rolled", receipt.image)
  /\ UNCHANGED <<storeVars, installVars, source, keeper, counters>>

-----------------------------------------------------------------------------
(* Steps under the lock *)

\* Mutant: an installation that is over is not settled again.
SettleInterrupted ==
  /\ At("settle")
  /\ \/ ~Interrupted /\ job' = [job EXCEPT !.pc = "check", !.settling = FALSE]
     \/ Interrupted /\ current = receipt.previous /\ Goes("rolled")
     \/ /\ Interrupted /\ current # receipt.previous /\ HasBytesOf(receipt.image)
        /\ Goes("rollback")
     \/ /\ Interrupted /\ current # receipt.previous /\ ~HasBytesOf(receipt.image)
        /\ Ends
  /\ UNCHANGED <<storeVars, installVars, source, keeper, counters>>

\* settle_previous_installation; a selection that is neither is refused.
Settle ==
  /\ At("settle")
  /\ \/ ~Interrupted /\ Goes("retain")
     \/ Interrupted /\ current = receipt.previous /\ Goes("rolled")
     \/ /\ Interrupted /\ current # receipt.previous /\ HasBytesOf(receipt.image)
        /\ Goes("rollback")
     \/ /\ Interrupted /\ current # receipt.previous /\ ~HasBytesOf(receipt.image)
        /\ Ends
  /\ UNCHANGED <<storeVars, installVars, source, keeper, counters>>

\* The candidate is refused, is what is installed already, or is to be staged.
SameRelease == receipt.state = "complete" /\ receipt.image = job.image /\ HasBytesOf(job.image)
Check ==
  /\ At("check")
  /\ \/ Ends
     \/ SameRelease /\ Goes("retain")
     \/ ~SameRelease /\ Goes("stage")
  /\ UNCHANGED <<storeVars, installVars, source, keeper, counters>>

StageCandidate ==
  /\ At("stage")
  /\ Stage(job.image, "updater")
  /\ Goes(IF job.op = "adopt" THEN "publish" ELSE "prepare")
  /\ UNCHANGED <<installVars, source, keeper, counters>>

\* publish selects what it staged.
PublishAdopted ==
  /\ At("publish")
  /\ Select(job.image)
  /\ Goes("point")
  /\ UNCHANGED <<installVars, source, keeper, counters>>

Prepare ==
  /\ At("prepare")
  /\ receipt' = [state |-> "prepared", image |-> job.image, previous |-> current,
                 ready |-> FALSE]
  /\ Goes("reserve")
  /\ UNCHANGED <<storeVars, current, source, keeper, counters>>

ReserveCandidate ==
  /\ At("reserve")
  /\ Reserve(job.image)
  /\ Goes("activate")
  /\ UNCHANGED <<installVars, source, keeper, counters>>

Activate ==
  /\ At("activate")
  /\ Records("activating")
  /\ Goes("point")
  /\ UNCHANGED <<storeVars, current, source, keeper, counters>>

Point ==
  /\ At("point")
  /\ current' = job.image
  /\ IF job.op = "adopt" THEN Ends /\ Drop("updater") ELSE Goes("health") /\ UNCHANGED held
  /\ UNCHANGED <<images, recent, reserved, receipt, source, keeper, counters>>

\* Mutant: the record is written, the pointer stays.
HealthUnpointed ==
  /\ At("health")
  /\ Goes("complete") \/ Goes("rolled")
  /\ UNCHANGED <<storeVars, installVars, source, keeper, counters>>

\* The program is run once: it answers as its record says, or not.
Health ==
  /\ At("health")
  /\ Goes("complete") \/ Goes("rollback")
  /\ UNCHANGED <<storeVars, installVars, source, keeper, counters>>

Complete ==
  /\ At("complete")
  /\ Records("complete")
  /\ Goes("retain")
  /\ UNCHANGED <<storeVars, current, source, keeper, counters>>

Rollback ==
  /\ At("rollback")
  /\ current' = receipt.previous
  /\ Goes("rolled")
  /\ UNCHANGED <<storeVars, receipt, source, keeper, counters>>

RecordRolledBack ==
  /\ At("rolled")
  /\ Records("rolledback")
  /\ Goes("retain")
  /\ UNCHANGED <<storeVars, current, source, keeper, counters>>

\* What finish_service_start answered the keeper.
Answered(done) ==
  keeper' = IF job.op = "confirm" THEN [keeper EXCEPT !.pc = "serving", !.pending = FALSE]
            ELSE [keeper EXCEPT !.pc = IF done THEN "entering" ELSE "entered"]

\* retain_selected; install selects the image it completed, which is the same.
Retain ==
  /\ At("retain")
  /\ IF current = None THEN UNCHANGED storeVars ELSE Select(current)
  /\ IF job.op \in {"confirm", "revert"} THEN Ends /\ Answered(TRUE)
     ELSE Goes("release") /\ UNCHANGED keeper
  /\ UNCHANGED <<installVars, source, counters>>

\* release_reservation; a settled installation goes on, all else is over.
ReleaseReservation ==
  /\ At("release")
  /\ reserved' = reserved \ {receipt.image}
  /\ IF job.settling
     THEN job' = [job EXCEPT !.pc = "check", !.settling = FALSE] /\ UNCHANGED held
     ELSE Ends /\ Drop("updater")
  /\ UNCHANGED <<images, recent, installVars, source, keeper, counters>>

\* Mutant: the answer is not looked at again under the lock.
FinishUnchecked ==
  /\ At("start")
  /\ \/ /\ job.op = "revert" /\ receipt.previous = None
        /\ Ends /\ Answered(FALSE) /\ UNCHANGED receipt
     \/ /\ job.op = "confirm"
        /\ receipt' = [receipt EXCEPT !.ready = TRUE]
        /\ Goes("retain") /\ UNCHANGED keeper
     \/ /\ job.op = "revert" /\ receipt.previous # None
        /\ Goes("rollback") /\ UNCHANGED <<receipt, keeper>>
  /\ UNCHANGED <<storeVars, current, source, counters>>

\* finish_service_start, once it has the lock.
FinishServiceStart ==
  /\ At("start")
  /\ \/ /\ ~StartPending(job.image) \/ (job.op = "revert" /\ receipt.previous = None)
        /\ Ends /\ Answered(FALSE) /\ UNCHANGED receipt
     \/ /\ StartPending(job.image) /\ job.op = "confirm"
        /\ receipt' = [receipt EXCEPT !.ready = TRUE]
        /\ Goes("retain") /\ UNCHANGED keeper
     \/ /\ StartPending(job.image) /\ job.op = "revert" /\ receipt.previous # None
        /\ Goes("rollback") /\ UNCHANGED <<receipt, keeper>>
  /\ UNCHANGED <<storeVars, current, source, counters>>

-----------------------------------------------------------------------------
(* The keeper *)

\* Process entry: recover_current_installation has settled what was interrupted,
\* or somebody is at it.
KeeperEnters ==
  /\ keeper.pc = "off" /\ current # None
  /\ ~Interrupted \/ ~LockFree
  /\ keeper' = [keeper EXCEPT !.pc = "entering"]
  /\ UNCHANGED <<storeVars, installVars, source, job, counters>>

\* take_generation: the selected program, whatever the record says of it.
KeeperTakes ==
  /\ keeper.pc \in {"entering", "swapping"}
  /\ current # None
  /\ IF keeper.pc = "swapping" /\ current = keeper.program
     THEN keeper' = [keeper EXCEPT !.pc = "serving"] /\ UNCHANGED storeVars
     ELSE /\ keeper' = [pc |-> "entered", program |-> current, pending |-> FALSE]
          /\ Hold(current, "keeper")
  /\ UNCHANGED <<installVars, source, job, counters>>

\* Startup::for_image, and the child is spawned.
KeeperSpawns ==
  /\ keeper.pc = "entered"
  /\ keeper' = [keeper EXCEPT !.pc = "serving", !.pending = StartPending(keeper.program)]
  /\ UNCHANGED <<storeVars, installVars, source, job, counters>>

\* The child said it is ready.
KeeperConfirms ==
  /\ keeper.pc = "serving" /\ keeper.pending
  /\ Takes("confirm", "start", keeper.program)
  /\ keeper' = [keeper EXCEPT !.pc = "finishing"]
  /\ UNCHANGED <<storeVars, installVars, source, counters>>

\* The child died, or was not ready in time.
ChildDies ==
  /\ keeper.pc = "serving"
  /\ keeper' = [keeper EXCEPT !.pc = IF keeper.pending THEN "dying" ELSE "entered"]
  /\ UNCHANGED <<storeVars, installVars, source, job, counters>>

KeeperReverts ==
  /\ keeper.pc = "dying"
  /\ Takes("revert", "start", keeper.program)
  /\ keeper' = [keeper EXCEPT !.pc = "finishing"]
  /\ UNCHANGED <<storeVars, installVars, source, counters>>

\* fingerprint: another program is selected, and no installation is under way.
KeeperLooks ==
  /\ keeper.pc = "serving"
  /\ ~Interrupted /\ current \notin {None, keeper.program}
  /\ keeper' = [keeper EXCEPT !.pc = "swapping"]
  /\ UNCHANGED <<storeVars, installVars, source, job, counters>>

\* It leaves: stopped, the lock was not to be had, or nothing is selected.
KeeperLeaves ==
  /\ keeper.pc \in {"entering", "entered", "serving", "dying", "swapping"}
  /\ keeper' = NoKeeper
  /\ Drop("keeper")
  /\ UNCHANGED <<images, recent, reserved, installVars, source, job, counters>>

\* A session's own host keeps the image it was started from until it exits.
HostStarts ==
  /\ current # None /\ held["host"] = None
  /\ Hold(current, "host")
  /\ UNCHANGED <<installVars, source, job, keeper, counters>>
HostExits ==
  /\ held["host"] # None
  /\ Drop("host")
  /\ UNCHANGED <<images, recent, reserved, installVars, source, job, keeper, counters>>

\* updates.rs maintain, every thirty seconds.
Maintain ==
  /\ Collect /\ images' # images
  /\ UNCHANGED <<installVars, source, job, keeper, counters>>

-----------------------------------------------------------------------------
(* Faults *)

Finishing == job.op \in {"confirm", "revert"}

\* An operation fails with an error at any step: a confirmation is tried again,
\* a rollback that fails ends the keeper.
Fails ==
  /\ failures < MaxFailures /\ ~LockFree
  /\ failures' = failures + 1
  /\ Ends
  /\ keeper' = IF job.op = "confirm" THEN [keeper EXCEPT !.pc = "serving"]
               ELSE IF job.op = "revert" THEN NoKeeper ELSE keeper
  /\ held' = [held EXCEPT !["updater"] = None,
                          !["keeper"] = IF job.op = "revert" THEN None ELSE @]
  /\ UNCHANGED <<images, recent, reserved, installVars, source, installs>>

\* The machine stops.
PowerFails ==
  /\ failures < MaxFailures
  /\ job # NoJob \/ keeper # NoKeeper
  /\ failures' = failures + 1
  /\ Ends
  /\ keeper' = NoKeeper
  /\ held' = [h \in Holder |-> None]
  /\ UNCHANGED <<images, recent, reserved, installVars, source, installs>>

-----------------------------------------------------------------------------
Init ==
  /\ StoreInit
  /\ current = None /\ receipt = NoReceipt
  /\ source \in Sources
  /\ job = NoJob /\ keeper = NoKeeper
  /\ installs = 0 /\ failures = 0

Steps ==
  \/ Settle \/ Check \/ StageCandidate \/ PublishAdopted \/ Prepare \/ ReserveCandidate
  \/ Activate \/ Point \/ Health \/ Complete \/ Rollback \/ RecordRolledBack \/ Retain
  \/ ReleaseReservation \/ FinishServiceStart
KeeperSteps ==
  \/ KeeperEnters \/ KeeperTakes \/ KeeperSpawns \/ KeeperConfirms \/ KeeperReverts
  \/ KeeperLooks
Surroundings == ChildDies \/ KeeperLeaves \/ HostStarts \/ HostExits \/ Maintain
Begins == Adopt \/ Recover \/ \E id \in Offers : Install(id)
Faults == Fails \/ PowerFails

Next == Begins \/ Steps \/ KeeperSteps \/ Surroundings \/ Faults

Spec == Init /\ [][Next]_vars

\* Who holds the lock goes on, and somebody starts who recovers (process_entry).
FairSpec == Spec /\ WF_vars(Steps) /\ WF_vars(Recover)

-----------------------------------------------------------------------------
Ops == {"none", "install", "adopt", "recover", "confirm", "revert"}
Pcs == {"idle", "settle", "check", "stage", "publish", "prepare", "reserve", "activate",
        "point", "health", "complete", "rollback", "rolled", "retain", "release", "start"}
States == {"none", "prepared", "activating", "complete", "rolledback"}
KeeperPcs == {"off", "entering", "entered", "serving", "finishing", "dying", "swapping"}

\* The keeper waits for its answer exactly while its question is being answered.
TypeOK ==
  /\ StoreTypeOK
  /\ current \in ImageOrNone /\ source \in ImageOrNone
  /\ receipt \in [state : States, image : ImageOrNone, previous : ImageOrNone,
                  ready : BOOLEAN]
  /\ job \in [op : Ops, pc : Pcs, image : ImageOrNone, settling : BOOLEAN]
  /\ keeper \in [pc : KeeperPcs, program : ImageOrNone, pending : BOOLEAN]
  /\ LockFree <=> At("idle")
  /\ keeper.pc = "finishing" <=> Finishing

\* The selected program is on disk: no collection, whoever runs it and wherever an
\* installation was cut short, takes it (retain_selected before
\* release_reservation, reserve before point).
SelectedKept == current # None => current \in images

\* "A failed candidate does not push out the fallback" (docs/INSTALLATION.md:27):
\* as long as the record may still be rolled back, what it would go back to is
\* on disk.
MayRollBack == Interrupted \/ (receipt.state = "complete" /\ ~receipt.ready)
FallbackKept == MayRollBack /\ receipt.previous # None => receipt.previous \in images

\* No process loses the image it runs or prepares (Lease, collect_locked).
OccupiedKept == Leases(held) \subseteq images

\* A reservation is always the one the record names, so that the next recovery or
\* installation releases it: none leaks, whatever was cut short.
OneReservation == reserved \subseteq {receipt.image}

\* A record that says it was rolled back is believed: the selection is what it was
\* before that installation.
RolledBackRestored ==
  receipt.state = "rolledback" /\ receipt.previous # None => current = receipt.previous

\* A late answer about a program that is no longer the pending one neither moves the
\* selection nor marks another program ready.
LateAnswersIgnored ==
  [][Finishing /\ (current' # current \/ receipt'.ready # receipt.ready)
       => current = job.image]_vars

\* An installation that was cut short is completed or rolled back.
InterruptedSettles == Interrupted ~> ~Interrupted

\* docs/INSTALLATION.md:29: the keeper only takes a completed selection.
KeeperTakesCompleted ==
  [][keeper.pc # "entered" /\ keeper'.pc = "entered" /\ keeper'.program # keeper.program
       => ~Interrupted]_vars
=============================================================================
