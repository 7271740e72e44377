----------------------------- MODULE ReserveList -----------------------------
(***************************************************************************)
(* The pool's list of reserves and the bitmaps of the users: initReserve   *)
(* and _addReserveToList of LendingPool.sol, UserConfiguration.sol, and    *)
(* the walk over the list in GenericLogic.sol.                             *)
(*                                                                         *)
(* A word of the contract is the set of the positions of its bits that are *)
(* set.  An address that was never listed has id 0, like the first         *)
(* reserve.                                                                *)
(***************************************************************************)
EXTENDS Integers

CONSTANTS Addresses,     \* what a caller may name as an asset
          Contracts,     \* the addresses Address.isContract accepts
          ZERO_ADDRESS,  \* what an entry of the list holds before it is set
          Users,
          MAX_RESERVES,  \* _maxNumberOfReserves, 128
          INDEX_LIMIT,   \* the bound UserConfiguration.sol checks, 128
          ID_RANGE,      \* ids are uint8, 256
          WORD_BITS      \* a bitmap is a uint256, 256

ASSUME ListConstants ==
  /\ Contracts \subseteq Addresses
  /\ ZERO_ADDRESS \in Addresses \ Contracts
  /\ MAX_RESERVES \in Nat \ {0}
  /\ INDEX_LIMIT \in Nat /\ MAX_RESERVES <= INDEX_LIMIT
  /\ ID_RANGE \in Nat /\ MAX_RESERVES <= ID_RANGE
  /\ WORD_BITS \in Nat /\ 2 * INDEX_LIMIT <= WORD_BITS

VARIABLES initialised,   \* the assets whose reserve has an aToken
          id,            \* _reserves[asset].id
          reservesList,  \* _reservesList
          reservesCount, \* _reservesCount
          data           \* _usersConfig[user].data

listVars == <<initialised, id, reservesList, reservesCount>>
vars == <<listVars, data>>

Word == 0 .. WORD_BITS - 1

Init ==
  /\ initialised = {}
  /\ id = [a \in Addresses |-> 0]
  /\ reservesList = [i \in 0 .. MAX_RESERVES - 1 |-> ZERO_ADDRESS]
  /\ reservesCount = 0
  /\ data = [u \in Users |-> {}]

-----------------------------------------------------------------------------
(* _addReserveToList.  The first reserve keeps id 0, so the id alone does  *)
(* not say whether an asset is listed.                                     *)

reserveAlreadyAdded(a) == id[a] # 0 \/ reservesList[0] = a

AddReserveToList(a) ==
  /\ reservesCount < MAX_RESERVES
  /\ IF reserveAlreadyAdded(a)
     THEN UNCHANGED <<id, reservesList, reservesCount>>
     ELSE /\ id' = [id EXCEPT ![a] = reservesCount % ID_RANGE]
          /\ reservesList' = [reservesList EXCEPT ![reservesCount] = a]
          /\ reservesCount' = reservesCount + 1

(* LendingPool.initReserve with ReserveLogic.init. *)
initReserve(a) ==
  /\ a \in Contracts
  /\ a \notin initialised
  /\ initialised' = initialised \cup {a}
  /\ AddReserveToList(a)
  /\ UNCHANGED data

-----------------------------------------------------------------------------
(* UserConfiguration.sol. *)

BorrowingBit(i) == 2 * i

(* A seeded fault: the shift without the one. *)
CollateralBitUnshifted(i) == 2 * i

CollateralBit(i) == 2 * i + 1

(* The word with bit p set or cleared; a bit shifted past the word is lost. *)
SetBit(word, p, on) ==
  (word \ {p}) \cup (IF on /\ p \in Word THEN {p} ELSE {})

isBorrowing(word, i) == BorrowingBit(i) \in word

isUsingAsCollateral(word, i) == CollateralBit(i) \in word

isUsingAsCollateralOrBorrowing(word, i) ==
  {BorrowingBit(i), CollateralBit(i)} \cap word # {}

(* A seeded fault: the mask of the other half of the bits, 0xAA... *)
BORROWING_MASK_ODD == {p \in Word : p % 2 = 1}

(* 0x55... *)
BORROWING_MASK == {p \in Word : p % 2 = 0}

isBorrowingAny(word) == word \cap BORROWING_MASK # {}

isEmpty(word) == word = {}

(* The pool gets this far only for an asset that has its tokens: every     *)
(* call checks that the reserve is active, or asks its aToken for a        *)
(* balance, before it touches a bitmap.                                    *)

setBorrowing(u, a, on) ==
  /\ a \in initialised
  /\ id[a] < INDEX_LIMIT
  /\ data' = [data EXCEPT ![u] = SetBit(@, BorrowingBit(id[a]), on)]
  /\ UNCHANGED listVars

setUsingAsCollateral(u, a, on) ==
  /\ a \in initialised
  /\ id[a] < INDEX_LIMIT
  /\ data' = [data EXCEPT ![u] = SetBit(@, CollateralBit(id[a]), on)]
  /\ UNCHANGED listVars

Next ==
  \/ \E a \in Addresses : initReserve(a)
  \/ \E u \in Users, a \in Addresses, on \in BOOLEAN :
       setBorrowing(u, a, on) \/ setUsingAsCollateral(u, a, on)

Spec == Init /\ [][Next]_vars

-----------------------------------------------------------------------------
(* What calculateUserAccountData reads: it walks the list and takes the    *)
(* reserve at each position whose bits are set.  (Of the collateral it     *)
(* then sums only reserves with a liquidation threshold.)                  *)

Walked(word) ==
  {i \in 0 .. reservesCount - 1 : isUsingAsCollateralOrBorrowing(word, i)}

AccountBorrowing(u) ==
  {reservesList[i] : i \in {j \in Walked(data[u]) : isBorrowing(data[u], j)}}

AccountCollateral(u) ==
  {reservesList[i] : i \in {j \in Walked(data[u]) : isUsingAsCollateral(data[u], j)}}

Listed == {reservesList[i] : i \in 0 .. reservesCount - 1}

Flags == INSTANCE UserFlags WITH
  Assets <- Contracts,
  listed <- Listed,
  borrowing <- [u \in Users |-> AccountBorrowing(u)],
  collateral <- [u \in Users |-> AccountCollateral(u)]

(* However reserves are added between the calls of the users, the account  *)
(* data of a user counts exactly the assets of the calls that named them:  *)
(* no two assets share a bit, none lies past the list or the word, and an  *)
(* asset never listed, whose id is that of the first reserve, moves        *)
(* nothing (LendingPool.sol:878, UserConfiguration.sol:22).                *)
ImplementsUserFlags == Flags!FlagsSpec

(* The two shortcuts of GenericLogic.sol, isBorrowingAny (line 65) and     *)
(* isEmpty (line 170), which look at the word alone, agree with the walk   *)
(* over the list: no bit is set that the walk would not reach.             *)
ShortcutsAgree ==
  \A u \in Users :
    /\ isBorrowingAny(data[u]) <=> AccountBorrowing(u) # {}
    /\ isEmpty(data[u]) <=> AccountBorrowing(u) \cup AccountCollateral(u) = {}

TypeOK ==
  /\ initialised \subseteq Contracts
  /\ id \in [Addresses -> 0 .. ID_RANGE - 1]
  /\ reservesList \in [0 .. MAX_RESERVES - 1 -> Addresses]
  /\ reservesCount \in 0 .. MAX_RESERVES
  /\ data \in [Users -> SUBSET Word]

(* The list and the ids are inverse to each other on what is initialised,  *)
(* the rest of either is untouched, and no bit lies past the list: what    *)
(* keeps the two entries of an asset, id in _reserves and place in         *)
(* _reservesList (LendingPool.sol:888), in step.  It is inductive.         *)
ListInv ==
  /\ TypeOK
  /\ \A a \in initialised : id[a] < reservesCount /\ reservesList[id[a]] = a
  /\ \A a \in Addresses \ initialised : id[a] = 0
  /\ \A i \in 0 .. reservesCount - 1 :
        reservesList[i] \in initialised /\ id[reservesList[i]] = i
  /\ \A i \in reservesCount .. MAX_RESERVES - 1 : reservesList[i] = ZERO_ADDRESS
  /\ \A u \in Users : \A p \in data[u] : p < 2 * reservesCount
=============================================================================
