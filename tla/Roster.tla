------------------------------- MODULE Roster -------------------------------
(***************************************************************************)
(* The signed records of crates/net/src/trust.rs, as values.               *)
(*                                                                         *)
(* A roster is what one root key signs: a version number (seq), a date,    *)
(* the machines it certifies (certs maps a subject to the seq its          *)
(* certificate was issued with) and the machines it revokes.  The bytes of *)
(* the record, which only break ties, are the number `tail`.  Signatures   *)
(* are abstracted by unforgeability: the only rosters and certificates in  *)
(* the model are the ones Genesis, Admit, Revoke and Refresh build, so     *)
(* verify_roster and verify_cert reduce to "is it of this root?".          *)
(* Certificates never expire in this version (expires_ms is always None).  *)
(***************************************************************************)
EXTENDS Integers, FiniteSets, Functions

CONSTANTS Machine,      \* machines, by device id
          Root,         \* root public keys
          None,         \* Option::None
          Fresh,        \* FRESH_DAYS
          RefreshAfter  \* REFRESH_DAYS

\* What a root signs, and the certificate one machine takes out of it.
SignedRoster ==
  [root : Root, seq : Nat, date : Nat, tail : Nat,
   certs : UNION {[S -> Nat] : S \in SUBSET Machine}, revoked : SUBSET Machine]
Certificate == [root : Root, subject : Machine, seq : Nat]

ASSUME RosterAssumption ==
  /\ None \notin Machine /\ None \notin Root /\ None \notin BOOLEAN
  /\ None \notin SignedRoster /\ None \notin Certificate
  /\ Fresh \in Nat /\ RefreshAfter \in Nat
  /\ RefreshAfter <= Fresh

Certified(r) == DOMAIN r.certs

\* Roster::signed_cert: the certificate x presents to others.
SignedCert(r, x) ==
  IF x \in Certified(r)
    THEN [root |-> r.root, subject |-> x, seq |-> r.certs[x]]
    ELSE None

Admits(r, x) == x \notin r.revoked /\ x \in Certified(r)

\* Mutant: one other machine still counts as nobody.
LoneOffByOne(r, owner) == Cardinality(Certified(r) \ {owner}) <= 1

\* Roster::lone: a network of one.
Lone(r, owner) == Certified(r) \subseteq {owner}

\* A date in the future reads as age zero.
Age(r, now) == IF now > r.date THEN now - r.date ELSE 0
IsStale(r, now) == Age(r, now) > Fresh
NeedsRefresh(r, now) == Age(r, now) > RefreshAfter

-----------------------------------------------------------------------------
(* What a holder signs. *)

Genesis(root, now, tail, members) ==
  [root |-> root, seq |-> 1, date |-> now, tail |-> tail,
   certs |-> [x \in members |-> 1], revoked |-> {}]

Successor(r, now, tail, certs, revoked) ==
  [root |-> r.root, seq |-> r.seq + 1, date |-> now, tail |-> tail,
   certs |-> certs, revoked |-> revoked]

\* Certifies x anew and takes it off the revoked list.
Admit(r, now, tail, x) ==
  Successor(r, now, tail,
            [y \in Certified(r) \cup {x} |-> IF y = x THEN r.seq + 1 ELSE r.certs[y]],
            r.revoked \ {x})

\* Mutant: the list starts anew with every revocation.
RevokeForgetful(r, now, tail, x) ==
  Successor(r, now, tail, Restrict(r.certs, Certified(r) \ {x}), {x})

\* Mutant: the version stays.
RevokeSameSeq(r, now, tail, x) ==
  [r EXCEPT !.certs = Restrict(r.certs, Certified(r) \ {x}), !.revoked = @ \cup {x}, !.tail = tail]

\* Drops x's certificate and lists its id.
Revoke(r, now, tail, x) ==
  Successor(r, now, tail, Restrict(r.certs, Certified(r) \ {x}), r.revoked \cup {x})

Refresh(r, now, tail) == Successor(r, now, tail, r.certs, r.revoked)

-----------------------------------------------------------------------------
(* Which of several rosters counts. *)

\* The order of `newest`: seq, then date, then bytes.
Later(a, b) ==
  \/ a.seq > b.seq
  \/ a.seq = b.seq /\ a.date > b.date
  \/ a.seq = b.seq /\ a.date = b.date /\ a.tail > b.tail

Newest(S) ==
  IF S = {} THEN None ELSE CHOOSE r \in S : \A q \in S \ {r} : Later(r, q)

NewestUnder(S, root) == Newest({r \in S : r.root = root})

-----------------------------------------------------------------------------
(* What a pairing does with the two sides' roots. *)

\* Mutant: a machine alone keeps its root whoever it meets.
SettleKeepsLone(mine, me, theirs, them, dialed) ==
  CASE theirs = None -> "Keep"
    [] theirs # None /\ mine = None -> "Adopt"
    [] theirs # None /\ mine # None /\ mine.root = theirs.root -> "Keep"
    [] OTHER -> IF Lone(mine, me) \/ Lone(theirs, them) THEN "Keep" ELSE "Clash"

Settle(mine, me, theirs, them, dialed) ==
  CASE theirs = None -> "Keep"
    [] theirs # None /\ mine = None -> "Adopt"
    [] theirs # None /\ mine # None /\ mine.root = theirs.root -> "Keep"
    [] OTHER ->
         IF Lone(mine, me)
           THEN IF Lone(theirs, them) /\ ~dialed THEN "Keep" ELSE "Adopt"
           ELSE IF Lone(theirs, them) THEN "Keep" ELSE "Clash"

(* node/src/trust.rs `standing`: how x stands under a roster, with the     *)
(* certificate its row carries.                                            *)
Standing(r, anchor, x, presented, now) ==
  CASE anchor = None -> "Legacy"
    [] anchor # None /\ r = None -> "Pending"
    [] OTHER ->
         IF x \in r.revoked THEN "Revoked"
         ELSE IF \/ Admits(r, x)
                 \/ /\ ~IsStale(r, now)
                    /\ presented # None
                    /\ presented.root = anchor
                    /\ presented.subject = x
                    /\ presented.seq > r.seq
              THEN "Trusted"
              ELSE "Pending"

Admitted(standing) == standing \in {"Legacy", "Trusted"}
=============================================================================
