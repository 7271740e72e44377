------------------------------ MODULE UserFlags ------------------------------
(***************************************************************************)
(* What the list of reserves and the users' bitmaps promise: an asset is   *)
(* listed once and for good, and whether a user borrows it or uses it as   *)
(* collateral changes with the calls that name this user and this asset    *)
(* and with no other.  This is how LendingPool.tla keeps usersConfig;      *)
(* ReserveList implements it.                                              *)
(***************************************************************************)
CONSTANTS Assets, Users
VARIABLES listed, borrowing, collateral

flags == <<listed, borrowing, collateral>>

FlagsInit ==
  /\ listed = {}
  /\ borrowing = [u \in Users |-> {}]
  /\ collateral = [u \in Users |-> {}]

ListAsset(a) ==
  /\ a \notin listed
  /\ listed' = listed \cup {a}
  /\ UNCHANGED <<borrowing, collateral>>

(* The sets after user u has turned asset a on or off. *)
Turned(sets, u, a, on) ==
  [sets EXCEPT ![u] = IF on THEN @ \cup {a} ELSE @ \ {a}]

TurnBorrowing(u, a, on) ==
  /\ a \in listed
  /\ borrowing' = Turned(borrowing, u, a, on)
  /\ UNCHANGED <<listed, collateral>>

TurnCollateral(u, a, on) ==
  /\ a \in listed
  /\ collateral' = Turned(collateral, u, a, on)
  /\ UNCHANGED <<listed, borrowing>>

FlagsNext ==
  \/ \E a \in Assets : ListAsset(a)
  \/ \E u \in Users, a \in Assets, on \in BOOLEAN :
       TurnBorrowing(u, a, on) \/ TurnCollateral(u, a, on)

FlagsSpec == FlagsInit /\ [][FlagsNext]_flags
=============================================================================
