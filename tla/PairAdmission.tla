--------------------------- MODULE PairAdmission ---------------------------
(***************************************************************************)
(* What pairings promise about one machine's trust, without the disk: a    *)
(* pairing is claimed, and then either abandoned or decided.  A decision   *)
(* fixes the root the machine will be anchored to and is never taken back; *)
(* until it is carried out no other pairing decides and nothing else       *)
(* changes the anchor or the key; a key is given up only once the machine  *)
(* is anchored to the decided root; and the pairing counts as admitted     *)
(* only when no other root's key is left.                                  *)
(***************************************************************************)
CONSTANTS Op, Root, None

VARIABLES st,      \* how far each pairing is
          to,      \* the root each decision anchors the machine to
          anchor, key

vars == <<st, to, anchor, key>>

Maybe == Root \cup {None}

Init ==
  /\ st = [o \in Op |-> "new"]
  /\ to = [o \in Op |-> None]
  /\ anchor \in Maybe /\ key \in Maybe

Decided(o) == st[o] = "decided"

Claim(o) ==
  /\ st[o] = "new" /\ st' = [st EXCEPT ![o] = "claimed"]
  /\ UNCHANGED <<to, anchor, key>>

Decide(o, a) ==
  /\ st[o] = "claimed" /\ \A q \in Op : ~Decided(q)
  /\ st' = [st EXCEPT ![o] = "decided"] /\ to' = [to EXCEPT ![o] = a]
  /\ UNCHANGED <<anchor, key>>

Move(o) ==
  /\ Decided(o) /\ anchor' = to[o]
  /\ UNCHANGED <<st, to, key>>

Retire(o) ==
  /\ Decided(o) /\ anchor = to[o] /\ key # to[o]
  /\ key' = None
  /\ UNCHANGED <<st, to, anchor>>

Admit(o) ==
  /\ Decided(o) /\ anchor = to[o] /\ key \in {None, to[o]}
  /\ st' = [st EXCEPT ![o] = "admitted"]
  /\ UNCHANGED <<to, anchor, key>>

Abandon(o) ==
  /\ st[o] = "claimed" /\ st' = [st EXCEPT ![o] = "gone"]
  /\ UNCHANGED <<to, anchor, key>>

Forget(o) ==
  /\ st[o] = "admitted" /\ \A q \in Op : ~Decided(q)
  /\ st' = [st EXCEPT ![o] = "gone"] /\ to' = [to EXCEPT ![o] = None]
  /\ UNCHANGED <<anchor, key>>

\* Any other change of trust.
Mutate ==
  /\ \A q \in Op : ~Decided(q)
  /\ anchor' \in Maybe /\ key' \in Maybe
  /\ UNCHANGED <<st, to>>

Next ==
  \/ \E o \in Op : \/ Claim(o) \/ Move(o) \/ Retire(o) \/ Admit(o) \/ Abandon(o) \/ Forget(o)
                   \/ \E a \in Maybe : Decide(o, a)
  \/ Mutate

Spec == Init /\ [][Next]_vars
=============================================================================
