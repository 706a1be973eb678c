---------------------------- MODULE DocDelivery ----------------------------
(***************************************************************************)
(* What the transfer journal promises of one shared document: a plan that  *)
(* was published stays until the other machine has its fixed target, and   *)
(* a copy takes in nothing but what such a plan carries.                   *)
(***************************************************************************)
EXTENDS Naturals

CONSTANTS Machine

VARIABLES
  ver,    \* ver[m]: operations of each writer in m's copy
  epoch,  \* epoch[m]: the epoch of m's copy
  open    \* published plans: manifests of the bodies they carry

Covers(v, w) == \A x \in Machine : v[x] >= w[x]
Join(v, w) == [x \in Machine |-> IF v[x] >= w[x] THEN v[x] ELSE w[x]]

Init ==
  /\ ver = [m \in Machine |-> [x \in Machine |-> 0]]
  /\ epoch = [m \in Machine |-> 0]
  /\ open = {}

\* m's copy gets an operation of its own.
Change(m) ==
  /\ ver' = [ver EXCEPT ![m][m] = @ + 1]
  /\ UNCHANGED <<epoch, open>>

\* m's copy is rebuilt in the next epoch, its contents, if any, as one operation.
Rebuild(m) ==
  /\ epoch' = [epoch EXCEPT ![m] = @ + 1]
  /\ \E n \in {0, 1} : ver' = [ver EXCEPT ![m] = [x \in Machine |-> IF x = m THEN n ELSE 0]]
  /\ UNCHANGED open

\* A plan may go once the other copy has its target, or has moved on.
Delivered(man) == epoch[man.dst] = man.epoch => Covers(ver[man.dst], man.target)

\* m takes in the target of a plan that is open to it.
Land(m, man) ==
  /\ man.dst = m /\ epoch[m] = man.epoch /\ Covers(ver[m], man.base)
  /\ ver' = [ver EXCEPT ![m] = Join(@, man.target)]

\* m lets go of plans, takes one in and publishes one: any of these at once.  A
\* plan that was made before m's copy was rebuilt may still be published.
Transfer(m) ==
  /\ \A man \in open \ open' : man.src = m /\ Delivered(man)
  /\ ver' = ver \/ \E man \in open : Land(m, man)
  /\ \A man \in open' \ open :
       /\ man.src = m /\ man.epoch <= epoch[m] /\ ~Covers(man.base, man.target)
       /\ man.epoch = epoch[m] => Covers(ver'[m], man.target)
       /\ \A other \in open' : other.src = m => other = man
  /\ epoch' = epoch

Next == \E m \in Machine : Change(m) \/ Rebuild(m) \/ Transfer(m)

Spec == Init /\ [][Next]_<<ver, epoch, open>>
=============================================================================
