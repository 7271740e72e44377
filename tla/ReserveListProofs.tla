-------------------------- MODULE ReserveListProofs --------------------------
(***************************************************************************)
(* The list of reserves and the bitmaps implement the users' flags, for    *)
(* every number of reserves the widths of ids and words allow.             *)
(*                                                                         *)
(* The argument: ListInv says that ids and list are inverse to each other  *)
(* and that every bit set belongs to a reserve of the list.  Then the walk *)
(* over the list finds an asset exactly when the bit at its id is set      *)
(* (CountedByBit), so each call, which writes one bit at one id, moves one *)
(* asset of one user.                                                      *)
(***************************************************************************)
EXTENDS ReserveList, TLAPS

(* Initially nothing is listed and every word is empty. *)
LEMMA ListInvInit == Init => ListInv
  BY ListConstants DEF Init, ListInv, TypeOK, Word

(* Adding a reserve extends the list by one, and takes the next id.        *)
LEMMA AddedAtEnd ==
  ASSUME ListInv, NEW a \in Addresses, initReserve(a)
  PROVE  /\ a \in Contracts \ initialised
         /\ a # ZERO_ADDRESS
         /\ initialised' = initialised \cup {a}
         /\ reservesCount < MAX_RESERVES
         /\ reservesCount' = reservesCount + 1
         /\ id' = [id EXCEPT ![a] = reservesCount]
         /\ reservesList' = [reservesList EXCEPT ![reservesCount] = a]
         /\ data' = data
<1>1. a \in Contracts \ initialised /\ a # ZERO_ADDRESS /\ reservesCount < MAX_RESERVES
  BY ListConstants DEF initReserve, AddReserveToList
<1>2. id[a] = 0
  BY <1>1 DEF ListInv
<1>3. reservesList[0] # a
  <2>1. CASE reservesCount = 0
    BY <1>1, <2>1, ListConstants DEF ListInv
  <2>2. CASE reservesCount > 0
    <3>1. reservesList[0] \in initialised
      BY <2>2 DEF ListInv, TypeOK
    <3> QED BY <1>1, <3>1
  <2> QED BY <2>1, <2>2 DEF ListInv, TypeOK
<1>4. ~reserveAlreadyAdded(a)
  BY <1>2, <1>3 DEF reserveAlreadyAdded
<1>5. reservesCount % ID_RANGE = reservesCount
  <2>1. reservesCount \in Nat /\ ID_RANGE \in Nat /\ reservesCount < ID_RANGE
    BY <1>1, ListConstants DEF ListInv, TypeOK
  <2> QED BY <2>1
<1> QED BY <1>1, <1>4, <1>5 DEF initReserve, AddReserveToList

(* A new reserve keeps the list and the ids inverse to each other.         *)
LEMMA InitReserveKeepsListInv ==
  ASSUME ListInv, NEW a \in Addresses, initReserve(a)
  PROVE  ListInv'
<1>1. TypeOK'
  BY AddedAtEnd, ListConstants DEF ListInv, TypeOK
<1>2. \A b \in initialised' : id'[b] < reservesCount' /\ reservesList'[id'[b]] = b
  <2> SUFFICES ASSUME NEW b \in initialised'
               PROVE  id'[b] < reservesCount' /\ reservesList'[id'[b]] = b
    OBVIOUS
  <2>1. CASE b = a
    BY <2>1, AddedAtEnd, ListConstants DEF ListInv, TypeOK
  <2>2. CASE b # a
    BY <2>2, AddedAtEnd, ListConstants DEF ListInv, TypeOK
  <2> QED BY <2>1, <2>2
<1>3. \A b \in Addresses \ initialised' : id'[b] = 0
  BY AddedAtEnd DEF ListInv, TypeOK
<1>4. \A i \in 0 .. reservesCount' - 1 :
         reservesList'[i] \in initialised' /\ id'[reservesList'[i]] = i
  BY AddedAtEnd, ListConstants DEF ListInv, TypeOK
<1>5. \A i \in reservesCount' .. MAX_RESERVES - 1 : reservesList'[i] = ZERO_ADDRESS
  BY AddedAtEnd, ListConstants DEF ListInv, TypeOK
<1>6. \A u \in Users : \A p \in data'[u] : p < 2 * reservesCount'
  BY AddedAtEnd, ListConstants DEF ListInv, TypeOK, Word
<1> QED BY <1>1, <1>2, <1>3, <1>4, <1>5, <1>6 DEF ListInv

(* A call on the flags writes one bit, of a reserve of the list.           *)
LEMMA WrittenBit ==
  ASSUME ListInv, NEW u \in Users, NEW a \in Addresses, NEW on \in BOOLEAN, NEW p,
         a \in initialised, p \in {BorrowingBit(id[a]), CollateralBit(id[a])},
         data' = [data EXCEPT ![u] = SetBit(@, p, on)]
  PROVE  /\ p \in Word /\ p < 2 * reservesCount
         /\ data' = [data EXCEPT ![u] = (@ \ {p}) \cup (IF on THEN {p} ELSE {})]
<1>1. id[a] \in 0 .. reservesCount - 1 /\ reservesCount <= MAX_RESERVES
  BY ListConstants DEF ListInv, TypeOK
<1>2. p \in Word /\ p < 2 * reservesCount
  BY <1>1, ListConstants DEF BorrowingBit, CollateralBit, Word, ListInv, TypeOK
<1> QED BY <1>2 DEF SetBit

LEMMA WrittenBitKeepsListInv ==
  ASSUME ListInv, NEW u \in Users, NEW a \in Addresses, NEW on \in BOOLEAN, NEW p,
         a \in initialised, p \in {BorrowingBit(id[a]), CollateralBit(id[a])},
         data' = [data EXCEPT ![u] = SetBit(@, p, on)], UNCHANGED listVars
  PROVE  ListInv'
<1>1. /\ p \in Word /\ p < 2 * reservesCount
      /\ data' = [data EXCEPT ![u] = (@ \ {p}) \cup (IF on THEN {p} ELSE {})]
  BY WrittenBit
<1>2. data' \in [Users -> SUBSET Word]
  BY <1>1 DEF ListInv, TypeOK
<1>3. \A v \in Users : \A q \in data'[v] : q < 2 * reservesCount
  BY <1>1 DEF ListInv, TypeOK
<1> QED BY <1>2, <1>3 DEF ListInv, TypeOK, listVars

LEMMA ListInvStep == ListInv /\ [Next]_vars => ListInv'
<1> SUFFICES ASSUME ListInv, [Next]_vars PROVE ListInv'
  OBVIOUS
<1>1. ASSUME NEW a \in Addresses, initReserve(a) PROVE ListInv'
  BY <1>1, InitReserveKeepsListInv
<1>2. ASSUME NEW u \in Users, NEW a \in Addresses, NEW on \in BOOLEAN, setBorrowing(u, a, on)
      PROVE  ListInv'
  BY <1>2, WrittenBitKeepsListInv DEF setBorrowing
<1>3. ASSUME NEW u \in Users, NEW a \in Addresses, NEW on \in BOOLEAN,
             setUsingAsCollateral(u, a, on)
      PROVE  ListInv'
  BY <1>3, WrittenBitKeepsListInv DEF setUsingAsCollateral
<1>4. CASE UNCHANGED vars
  BY <1>4 DEF vars, listVars, ListInv, TypeOK
<1> QED BY <1>1, <1>2, <1>3, <1>4 DEF Next

(* Ids and list stay inverse to each other, whatever is listed and set in  *)
(* whatever order (LendingPool.sol:878).                                   *)
THEOREM ListInvariant == Spec => []ListInv
  BY ListInvInit, ListInvStep, PTL DEF Spec

-----------------------------------------------------------------------------
(* The walk over the list finds an asset by the bit at its id. *)
CountedByBits ==
  /\ Listed = initialised
  /\ \A u \in Users :
        /\ AccountBorrowing(u) = {a \in initialised : BorrowingBit(id[a]) \in data[u]}
        /\ AccountCollateral(u) = {a \in initialised : CollateralBit(id[a]) \in data[u]}

LEMMA CountedByBit == ListInv => CountedByBits
<1> SUFFICES ASSUME ListInv PROVE CountedByBits
  OBVIOUS
<1>1. \A a \in initialised : id[a] \in 0 .. reservesCount - 1 /\ reservesList[id[a]] = a
  <2> SUFFICES ASSUME NEW a \in initialised
               PROVE  id[a] \in 0 .. reservesCount - 1 /\ reservesList[id[a]] = a
    OBVIOUS
  <2>1. id[a] \in Nat /\ reservesCount \in Nat
    BY ListConstants DEF ListInv, TypeOK
  <2>2. id[a] < reservesCount /\ reservesList[id[a]] = a
    BY DEF ListInv
  <2> QED BY <2>1, <2>2
<1>2. \A i \in 0 .. reservesCount - 1 :
         reservesList[i] \in initialised /\ id[reservesList[i]] = i
  BY DEF ListInv
<1>3. Listed = initialised
  BY <1>1, <1>2 DEF Listed
<1>4. \A u \in Users :
         AccountBorrowing(u) = {a \in initialised : BorrowingBit(id[a]) \in data[u]}
  BY <1>1, <1>2
  DEF AccountBorrowing, Walked, isBorrowing, isUsingAsCollateralOrBorrowing
<1>5. \A u \in Users :
         AccountCollateral(u) = {a \in initialised : CollateralBit(id[a]) \in data[u]}
  BY <1>1, <1>2
  DEF AccountCollateral, Walked, isUsingAsCollateral, isUsingAsCollateralOrBorrowing
<1> QED BY <1>3, <1>4, <1>5 DEF CountedByBits

LEMMA CountedByBitNext == ListInv' => CountedByBits'
  BY CountedByBit, PTL

LEMMA IdsDistinct ==
  ASSUME ListInv, NEW a \in initialised, NEW b \in initialised, a # b
  PROVE  /\ id[a] \in Nat /\ id[b] \in Nat
         /\ id[a] # id[b]
  BY ListConstants DEF ListInv, TypeOK

LEMMA IdsNatural ==
  ASSUME ListInv, NEW a \in initialised
  PROVE  id[a] \in Nat
  BY ListConstants DEF ListInv, TypeOK

LEMMA FlagsInitially == Init => Flags!FlagsInit
<1> SUFFICES ASSUME Init PROVE Flags!FlagsInit
  OBVIOUS
<1>1. ListInv
  BY ListInvInit
<1>2. \A u \in Users : AccountBorrowing(u) = {} /\ AccountCollateral(u) = {}
  BY <1>1, CountedByBit DEF Init, CountedByBits
<1>3. Listed = {}
  BY <1>1, CountedByBit DEF Init, CountedByBits
<1> QED BY <1>2, <1>3 DEF Flags!FlagsInit

(* Listing a reserve gives nobody a flag: no bit was set past the list.    *)
LEMMA InitReserveLists ==
  ASSUME ListInv, NEW a \in Addresses, initReserve(a)
  PROVE  Flags!ListAsset(a)
<1>1. CountedByBits /\ CountedByBits'
  BY InitReserveKeepsListInv, CountedByBit, CountedByBitNext
<1>2. Listed = initialised /\ Listed' = initialised'
  BY <1>1 DEF CountedByBits
<1>3. \A u \in Users : AccountBorrowing(u)' = AccountBorrowing(u)
                    /\ AccountCollateral(u)' = AccountCollateral(u)
  <2> SUFFICES ASSUME NEW u \in Users
               PROVE  AccountBorrowing(u)' = AccountBorrowing(u)
                      /\ AccountCollateral(u)' = AccountCollateral(u)
    OBVIOUS
  <2>1. BorrowingBit(reservesCount) \notin data[u] /\ CollateralBit(reservesCount) \notin data[u]
    BY DEF ListInv, TypeOK, BorrowingBit, CollateralBit
  <2>2. data' = data /\ id'[a] = reservesCount /\ initialised' = initialised \cup {a}
    BY AddedAtEnd DEF ListInv, TypeOK
  <2>3. \A b \in initialised : b # a /\ id'[b] = id[b]
    BY AddedAtEnd, ListConstants DEF ListInv, TypeOK
  <2>4. {b \in initialised' : BorrowingBit(id'[b]) \in data'[u]}
          = {b \in initialised : BorrowingBit(id[b]) \in data[u]}
    BY <2>1, <2>2, <2>3
  <2>5. {b \in initialised' : CollateralBit(id'[b]) \in data'[u]}
          = {b \in initialised : CollateralBit(id[b]) \in data[u]}
    BY <2>1, <2>2, <2>3
  <2> QED BY <1>1, <2>4, <2>5 DEF CountedByBits, BorrowingBit, CollateralBit
<1> QED BY <1>2, <1>3, AddedAtEnd DEF Flags!ListAsset

(* Setting the borrowing bit of one reserve turns one asset of one user,   *)
(* and no collateral: the bits of two reserves, and the two bits of one,   *)
(* differ.                                                                 *)
LEMMA SetBorrowingTurns ==
  ASSUME ListInv, NEW u \in Users, NEW a \in Addresses, NEW on \in BOOLEAN,
         setBorrowing(u, a, on)
  PROVE  Flags!TurnBorrowing(u, a, on)
<1> DEFINE p == BorrowingBit(id[a])
<1>1. a \in initialised /\ data' = [data EXCEPT ![u] = SetBit(@, p, on)] /\ UNCHANGED listVars
  BY DEF setBorrowing
<1>2. data' = [data EXCEPT ![u] = (@ \ {p}) \cup (IF on THEN {p} ELSE {})]
  BY <1>1, WrittenBit
<1>3. CountedByBits /\ CountedByBits'
  BY <1>1, WrittenBitKeepsListInv, CountedByBit, CountedByBitNext
<1>4. \A b \in initialised : b # a => BorrowingBit(id[b]) # p
  BY <1>1, IdsDistinct DEF BorrowingBit
<1>5. \A b \in initialised : CollateralBit(id[b]) # p
  BY <1>1, IdsNatural DEF BorrowingBit, CollateralBit
<1>6. \A v \in Users : AccountCollateral(v)' = AccountCollateral(v)
  <2> SUFFICES ASSUME NEW v \in Users PROVE AccountCollateral(v)' = AccountCollateral(v)
    OBVIOUS
  <2>1. \A q : q # p => (q \in data'[v] <=> q \in data[v])
    BY <1>2 DEF ListInv, TypeOK
  <2>2. AccountCollateral(v)' = {b \in initialised : CollateralBit(id[b]) \in data'[v]}
    BY <1>1, <1>3 DEF CountedByBits, listVars, CollateralBit
  <2> QED BY <1>3, <1>5, <2>1, <2>2 DEF CountedByBits
<1>7. \A v \in Users : v # u => AccountBorrowing(v)' = AccountBorrowing(v)
  <2> SUFFICES ASSUME NEW v \in Users, v # u PROVE AccountBorrowing(v)' = AccountBorrowing(v)
    OBVIOUS
  <2>1. data'[v] = data[v]
    BY <1>2 DEF ListInv, TypeOK
  <2>2. AccountBorrowing(v)' = {b \in initialised : BorrowingBit(id[b]) \in data'[v]}
    BY <1>1, <1>3 DEF CountedByBits, listVars, BorrowingBit
  <2> QED BY <1>3, <2>1, <2>2 DEF CountedByBits
<1>8. AccountBorrowing(u)' = IF on THEN AccountBorrowing(u) \cup {a}
                                   ELSE AccountBorrowing(u) \ {a}
  <2>1. data'[u] = (data[u] \ {p}) \cup (IF on THEN {p} ELSE {})
    BY <1>2 DEF ListInv, TypeOK
  <2>2. AccountBorrowing(u)' = {b \in initialised : BorrowingBit(id[b]) \in data'[u]}
    BY <1>1, <1>3 DEF CountedByBits, listVars, BorrowingBit
  <2> QED BY <1>1, <1>3, <1>4, <2>1, <2>2 DEF CountedByBits
<1>9. a \in Listed /\ Listed' = Listed
  BY <1>1, <1>3 DEF CountedByBits, listVars
<1> QED BY <1>6, <1>7, <1>8, <1>9 DEF Flags!TurnBorrowing, Flags!Turned

(* The same for the collateral bit. *)
LEMMA SetUsingAsCollateralTurns ==
  ASSUME ListInv, NEW u \in Users, NEW a \in Addresses, NEW on \in BOOLEAN,
         setUsingAsCollateral(u, a, on)
  PROVE  Flags!TurnCollateral(u, a, on)
<1> DEFINE p == CollateralBit(id[a])
<1>1. a \in initialised /\ data' = [data EXCEPT ![u] = SetBit(@, p, on)] /\ UNCHANGED listVars
  BY DEF setUsingAsCollateral
<1>2. data' = [data EXCEPT ![u] = (@ \ {p}) \cup (IF on THEN {p} ELSE {})]
  BY <1>1, WrittenBit
<1>3. CountedByBits /\ CountedByBits'
  BY <1>1, WrittenBitKeepsListInv, CountedByBit, CountedByBitNext
<1>4. \A b \in initialised : b # a => CollateralBit(id[b]) # p
  BY <1>1, IdsDistinct DEF CollateralBit
<1>5. \A b \in initialised : BorrowingBit(id[b]) # p
  BY <1>1, IdsNatural DEF BorrowingBit, CollateralBit
<1>6. \A v \in Users : AccountBorrowing(v)' = AccountBorrowing(v)
  <2> SUFFICES ASSUME NEW v \in Users PROVE AccountBorrowing(v)' = AccountBorrowing(v)
    OBVIOUS
  <2>1. \A q : q # p => (q \in data'[v] <=> q \in data[v])
    BY <1>2 DEF ListInv, TypeOK
  <2>2. AccountBorrowing(v)' = {b \in initialised : BorrowingBit(id[b]) \in data'[v]}
    BY <1>1, <1>3 DEF CountedByBits, listVars, BorrowingBit
  <2> QED BY <1>3, <1>5, <2>1, <2>2 DEF CountedByBits
<1>7. \A v \in Users : v # u => AccountCollateral(v)' = AccountCollateral(v)
  <2> SUFFICES ASSUME NEW v \in Users, v # u PROVE AccountCollateral(v)' = AccountCollateral(v)
    OBVIOUS
  <2>1. data'[v] = data[v]
    BY <1>2 DEF ListInv, TypeOK
  <2>2. AccountCollateral(v)' = {b \in initialised : CollateralBit(id[b]) \in data'[v]}
    BY <1>1, <1>3 DEF CountedByBits, listVars, CollateralBit
  <2> QED BY <1>3, <2>1, <2>2 DEF CountedByBits
<1>8. AccountCollateral(u)' = IF on THEN AccountCollateral(u) \cup {a}
                                    ELSE AccountCollateral(u) \ {a}
  <2>1. data'[u] = (data[u] \ {p}) \cup (IF on THEN {p} ELSE {})
    BY <1>2 DEF ListInv, TypeOK
  <2>2. AccountCollateral(u)' = {b \in initialised : CollateralBit(id[b]) \in data'[u]}
    BY <1>1, <1>3 DEF CountedByBits, listVars, CollateralBit
  <2> QED BY <1>1, <1>3, <1>4, <2>1, <2>2 DEF CountedByBits
<1>9. a \in Listed /\ Listed' = Listed
  BY <1>1, <1>3 DEF CountedByBits, listVars
<1> QED BY <1>6, <1>7, <1>8, <1>9 DEF Flags!TurnCollateral, Flags!Turned

LEMMA FlagsStep == ListInv /\ [Next]_vars => [Flags!FlagsNext]_Flags!flags
<1> SUFFICES ASSUME ListInv, [Next]_vars PROVE [Flags!FlagsNext]_Flags!flags
  OBVIOUS
<1>1. ASSUME NEW a \in Addresses, initReserve(a) PROVE Flags!FlagsNext
  <2>1. a \in Contracts
    BY <1>1 DEF initReserve
  <2> QED BY <1>1, <2>1, InitReserveLists DEF Flags!FlagsNext
<1>2. ASSUME NEW u \in Users, NEW a \in Addresses, NEW on \in BOOLEAN, setBorrowing(u, a, on)
      PROVE  Flags!FlagsNext
  <2>1. a \in Contracts
    BY <1>2 DEF setBorrowing, ListInv, TypeOK
  <2> QED BY <1>2, <2>1, SetBorrowingTurns DEF Flags!FlagsNext
<1>3. ASSUME NEW u \in Users, NEW a \in Addresses, NEW on \in BOOLEAN,
             setUsingAsCollateral(u, a, on)
      PROVE  Flags!FlagsNext
  <2>1. a \in Contracts
    BY <1>3 DEF setUsingAsCollateral, ListInv, TypeOK
  <2> QED BY <1>3, <2>1, SetUsingAsCollateralTurns DEF Flags!FlagsNext
<1>4. CASE UNCHANGED vars
  <2>1. UNCHANGED <<Listed, [u \in Users |-> AccountBorrowing(u)],
                    [u \in Users |-> AccountCollateral(u)]>>
    BY <1>4 DEF vars, listVars, Listed, AccountBorrowing, AccountCollateral, Walked
  <2> QED BY <2>1 DEF Flags!flags
<1> QED BY <1>1, <1>2, <1>3, <1>4 DEF Next

(* Whatever the number of reserves, a user's account data counts exactly   *)
(* the assets of the calls that named this user and them (UserConfigura-   *)
(* tion.sol:22, GenericLogic.sol:173).                                     *)
THEOREM FlagsRefined == Spec => ImplementsUserFlags
<1>1. Init => Flags!FlagsInit
  BY FlagsInitially
<1>2. ListInv /\ [Next]_vars => [Flags!FlagsNext]_Flags!flags
  BY FlagsStep
<1> QED BY <1>1, <1>2, ListInvariant, PTL DEF Spec, ImplementsUserFlags, Flags!FlagsSpec

(* The shortcuts on the word agree with the walk over the list             *)
(* (GenericLogic.sol:65 and 170).                                          *)
THEOREM ShortcutsAgreeAlways == Spec => []ShortcutsAgree
<1>1. ListInv => ShortcutsAgree
  <2> SUFFICES ASSUME ListInv, NEW u \in Users
               PROVE  /\ isBorrowingAny(data[u]) <=> AccountBorrowing(u) # {}
                      /\ isEmpty(data[u]) <=> AccountBorrowing(u) \cup AccountCollateral(u) = {}
    BY DEF ShortcutsAgree
  <2>1. /\ AccountBorrowing(u) = {a \in initialised : BorrowingBit(id[a]) \in data[u]}
        /\ AccountCollateral(u) = {a \in initialised : CollateralBit(id[a]) \in data[u]}
    BY CountedByBit DEF CountedByBits
  <2>2. ASSUME NEW p \in data[u]
        PROVE  \E a \in initialised :
                 p = IF p % 2 = 0 THEN BorrowingBit(id[a]) ELSE CollateralBit(id[a])
    <3>1. p \in Nat /\ p < 2 * reservesCount /\ reservesCount \in Nat
      BY ListConstants DEF ListInv, TypeOK, Word
    <3>2. p \div 2 \in 0 .. reservesCount - 1
      BY <3>1
    <3>3. reservesList[p \div 2] \in initialised /\ id[reservesList[p \div 2]] = p \div 2
      BY <3>2 DEF ListInv
    <3>4. p = IF p % 2 = 0 THEN 2 * (p \div 2) ELSE 2 * (p \div 2) + 1
      BY <3>1
    <3> QED BY <3>3, <3>4 DEF BorrowingBit, CollateralBit
  <2>3. \A a \in initialised : BorrowingBit(id[a]) % 2 = 0
    BY IdsNatural DEF BorrowingBit
  <2>4. data[u] \subseteq Word
    BY DEF ListInv, TypeOK
  <2>5. isBorrowingAny(data[u]) <=> AccountBorrowing(u) # {}
    BY <2>1, <2>2, <2>3, <2>4 DEF isBorrowingAny, BORROWING_MASK
  <2>6. isEmpty(data[u]) <=> AccountBorrowing(u) \cup AccountCollateral(u) = {}
    BY <2>1, <2>2 DEF isEmpty
  <2> QED BY <2>5, <2>6
<1> QED BY <1>1, ListInvariant, PTL
=============================================================================
