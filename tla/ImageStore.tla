----------------------------- MODULE ImageStore -----------------------------
(***************************************************************************)
(* The store of immutable program images of one installation               *)
(* (crates/runtime/src/store.rs, lease.rs): what is on disk, the two most  *)
(* recent selections, the reservations of unfinished installations, and    *)
(* the leases of the processes that run or prepare an image.               *)
(*                                                                         *)
(* Every operation runs under the catalog's lock, so it is one step here.  *)
(* A collection that is cut short, or cannot remove an image, leaves part  *)
(* of the garbage: it removes any subset of it.  Left out: staging and     *)
(* tombstone directories, manifests, sizes and the cache limit (a store    *)
(* that is full refuses to stage: the operation ends there), and every     *)
(* role but the command line's, the only one such a store holds.           *)
(***************************************************************************)
EXTENDS FiniteSets

CONSTANTS
  Image,   \* identities of images: version, contract and bytes
  None,    \* no image
  Holder   \* the processes that may hold a lease

ASSUME ImageAssumption == None \notin Image

VARIABLES
  images,   \* the generations on disk
  recent,   \* index.json: the two last selections of the role
  reserved, \* the .reservation- files
  held      \* the lease each process holds

storeVars == <<images, recent, reserved, held>>

ImageOrNone == Image \cup {None}

\* Mutant: only the last selection is kept.
RetainedAlone(id) == [newest |-> id, older |-> None]

\* Index::retain keeps the selection in front, once, and one before it.
Retained(id) ==
  IF recent.newest = id THEN recent ELSE [newest |-> id, older |-> recent.newest]

Recent(index) == {index.newest, index.older} \ {None}
Leases(leases) == {leases[h] : h \in Holder} \ {None}

\* Mutant: the reservations are not looked at.
GarbageReserved(index, marks, leases) == images \ (Recent(index) \cup Leases(leases))

\* Store::protected, and the leases that are not vacant.
Garbage(index, marks, leases) == images \ (Recent(index) \cup marks \cup Leases(leases))

\* collect_locked
CollectsFor(index, marks, leases) ==
  \E removed \in SUBSET Garbage(index, marks, leases) : images' = images \ removed

Collect ==
  /\ CollectsFor(recent, reserved, held)
  /\ UNCHANGED <<recent, reserved, held>>

\* select: the index is written, then the store is collected with it.
Select(id) ==
  /\ id \in images
  /\ recent' = Retained(id)
  /\ CollectsFor(recent', reserved, held)
  /\ UNCHANGED <<reserved, held>>

\* stage_checked: what is not there is published after a collection; the
\* holder's lease is taken before the catalog is released.
Stage(id, h) ==
  /\ \/ id \in images /\ UNCHANGED images
     \/ /\ id \notin images
        /\ \E removed \in SUBSET Garbage(recent, reserved, held) :
              images' = (images \ removed) \cup {id}
  /\ held' = [held EXCEPT ![h] = id]
  /\ UNCHANGED <<recent, reserved>>

\* hold: only an image that is on disk.
Hold(id, h) ==
  /\ id \in images
  /\ held' = [held EXCEPT ![h] = id]
  /\ UNCHANGED <<images, recent, reserved>>

Drop(h) == held' = [held EXCEPT ![h] = None]

Reserve(id) ==
  /\ reserved' = reserved \cup {id}
  /\ UNCHANGED <<images, recent, held>>

Release(id) ==
  /\ reserved' = reserved \ {id}
  /\ UNCHANGED <<images, recent, held>>

StoreInit ==
  /\ images = {}
  /\ recent = [newest |-> None, older |-> None]
  /\ reserved = {}
  /\ held = [h \in Holder |-> None]

StoreTypeOK ==
  /\ images \subseteq Image
  /\ recent \in [newest : ImageOrNone, older : ImageOrNone]
  /\ reserved \subseteq Image
  /\ held \in [Holder -> ImageOrNone]
=============================================================================
