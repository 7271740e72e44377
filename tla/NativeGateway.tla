---------------------------- MODULE NativeGateway ----------------------------
(***************************************************************************)
(* The gateways through which users reach the pool with the chain's native *)
(* coin: WETHGateway.sol and WHBARGateway.sol, which mirrors it on Hedera. *)
(* Kind says which of the two runs.  The gateway is an address of the pool *)
(* like any other: it wraps what it is sent and deposits or repays on      *)
(* behalf of its caller, or takes the caller's aTokens (or credit), then   *)
(* unwraps and pays out.                                                   *)
(*                                                                         *)
(* Every call but a withdrawal makes one call to the pool and is one step. *)
(* A withdrawal makes two, aToken.transferFrom and LendingPool.withdraw,   *)
(* and is undone when the second reverts.  The payout to the caller comes  *)
(* last, so a recipient that calls back does so between calls.             *)
(***************************************************************************)
EXTENDS PoolProperties

CONSTANTS Kind,       \* "WETH" or "WHBAR"
          Gateway,    \* its address
          Wrapped     \* the wrapped coin's reserve

ASSUME GatewayConstants ==
  /\ Kind \in {"WETH", "WHBAR"}
  /\ Gateway \in Users
  /\ Wrapped \in Assets

VARIABLES wrapped,     \* wrapped coins the gateway holds
          native,      \* native coins the last step brought each account,
                       \* less what it sent to the gateway
          aAllowance,  \* aTokens each account lets the gateway transfer
          authorized,  \* authorizeLendingPool has been called
          withdrawal,  \* the withdrawal between its two calls of the pool
          saved        \* what a revert of it restores

gatewayVars == <<vars, wrapped, native, aAllowance, authorized, withdrawal, saved>>

Callers == Users \ {Gateway}

NoWithdrawal == [caller |-> Gateway, whole |-> FALSE, amount |-> 0, to |-> Gateway]

NoCoins == [u \in Users |-> 0]

Idle == withdrawal = NoWithdrawal

GatewayInit ==
  /\ Init
  /\ wrapped = 0
  /\ native = NoCoins
  /\ aAllowance = [u \in Users |-> 0]
  /\ authorized = FALSE
  /\ withdrawal = NoWithdrawal
  /\ saved = <<>>

Pays(u, amount) == native' = [NoCoins EXCEPT ![u] = -amount]
Gets(u, amount) == native' = [NoCoins EXCEPT ![u] = amount]
NoNative        == native' = NoCoins

(* WETHGateway takes the pool from its caller and only lacks the pool's    *)
(* approval to pull; WHBARGateway refuses every call before it.            *)
MayPull   == authorized
MayEnter  == Kind = "WETH" \/ authorized

-----------------------------------------------------------------------------
authorizeLendingPool ==
  /\ Idle
  /\ authorized' = TRUE
  /\ NoNative
  /\ UNCHANGED <<vars, wrapped, aAllowance, withdrawal, saved>>

depositNative(caller, value, onBehalfOf) ==
  /\ Idle
  /\ MayPull
  /\ Deposit(Wrapped, value, onBehalfOf)
  /\ Pays(caller, value)
  /\ UNCHANGED <<wrapped, aAllowance, authorized, withdrawal, saved>>

(* A seeded fault: the whole balance is read without its interest.         *)
withdrawNativeScaled(caller, amount, to) ==
  LET balance == BalanceOf(reserves[Wrapped], caller, now)
      taken   == IF amount = MAX_UINT THEN reserves[Wrapped].aBalance[caller] ELSE amount
  IN  /\ Idle
      /\ MayEnter
      /\ taken \in 1 .. balance
      /\ taken <= aAllowance[caller]
      /\ Transfer(caller, Gateway, Wrapped, taken)
      /\ aAllowance' = [aAllowance EXCEPT ![caller] = @ - taken]
      /\ withdrawal' = [caller |-> caller, whole |-> amount = MAX_UINT, amount |-> taken, to |-> to]
      /\ saved' = [reserves |-> reserves, usersConfig |-> usersConfig,
                   aAllowance |-> aAllowance]
      /\ NoNative
      /\ UNCHANGED <<wrapped, authorized>>

(* The first half: the aTokens come to the gateway.                        *)
withdrawNative(caller, amount, to) ==
  LET balance == BalanceOf(reserves[Wrapped], caller, now)
      taken   == IF amount = MAX_UINT THEN balance ELSE amount
  IN  /\ Idle
      /\ MayEnter
      /\ Kind = "WHBAR" => taken \in 1 .. balance
      /\ taken <= aAllowance[caller]
      /\ Transfer(caller, Gateway, Wrapped, taken)
      /\ aAllowance' = [aAllowance EXCEPT ![caller] = @ - taken]
      /\ withdrawal' = [caller |-> caller, whole |-> amount = MAX_UINT, amount |-> taken, to |-> to]
      /\ saved' = [reserves |-> reserves, usersConfig |-> usersConfig,
                   aAllowance |-> aAllowance]
      /\ NoNative
      /\ UNCHANGED <<wrapped, authorized>>

(* The second: the pool is left, the coins unwrapped and paid out.         *)
withdrawFromPool ==
  /\ ~Idle
  /\ Withdraw(Gateway, Wrapped, withdrawal.amount)
  /\ Gets(withdrawal.to, withdrawal.amount)
  /\ withdrawal' = NoWithdrawal
  /\ saved' = <<>>
  /\ UNCHANGED <<wrapped, aAllowance, authorized>>

(* The pool, or the recipient of the coins, refuses.                       *)
revertWithdrawal ==
  /\ ~Idle
  /\ reserves' = saved.reserves
  /\ usersConfig' = saved.usersConfig
  /\ aAllowance' = saved.aAllowance
  /\ withdrawal' = NoWithdrawal
  /\ saved' = <<>>
  /\ NoNative
  /\ UNCHANGED <<borrowAllowance, paused, price, now, wrapped, authorized>>

-----------------------------------------------------------------------------
(* repay: what the gateway wraps, and what it asks the pool to take.       *)
paybackAmount(u, amount) ==
  LET debt == DebtOf(reserves[Wrapped], u, now)
  IN  IF amount < debt THEN amount ELSE debt

(* A seeded fault: all that was sent, in both gateways.                    *)
repayRequestOfAllSent(payback, value) == value

repayRequest(payback, value) == IF Kind = "WETH" THEN value ELSE payback

(* What the pool pulls for a request.                                      *)
pulled(u, request) ==
  LET debt == DebtOf(reserves[Wrapped], u, now)
  IN  IF request < debt THEN request ELSE debt

(* A seeded fault: what was sent is kept when it is more than the debt.    *)
repayNativeUnrefunded(caller, amount, value, u) ==
  LET payback == paybackAmount(u, amount)
      request == repayRequest(payback, value)
  IN  /\ Idle
      /\ MayPull
      /\ payback > 0
      /\ value >= payback
      /\ pulled(u, request) <= wrapped + payback
      /\ Repay(Gateway, Wrapped, u, request)
      /\ wrapped' = wrapped + payback - pulled(u, request)
      /\ Pays(caller, value)
      /\ UNCHANGED <<aAllowance, authorized, withdrawal, saved>>

(* value is sent along and what exceeds the payback is refunded.           *)
repayNative(caller, amount, value, u) ==
  LET payback == paybackAmount(u, amount)
      request == repayRequest(payback, value)
  IN  /\ Idle
      /\ MayPull
      /\ Kind = "WHBAR" => payback > 0
      /\ value >= payback
      /\ pulled(u, request) <= wrapped + payback
      /\ Repay(Gateway, Wrapped, u, request)
      /\ wrapped' = wrapped + payback - pulled(u, request)
      /\ Pays(caller, payback)
      /\ UNCHANGED <<aAllowance, authorized, withdrawal, saved>>

borrowNative(caller, amount) ==
  /\ Idle
  /\ MayEnter
  /\ Borrow(Gateway, Wrapped, caller, amount)
  /\ Gets(caller, amount)
  /\ UNCHANGED <<wrapped, aAllowance, authorized, withdrawal, saved>>

-----------------------------------------------------------------------------
(* The aToken's approve, for the gateway.                                  *)
approveGateway(u, amount) ==
  /\ Idle
  /\ aAllowance' = [aAllowance EXCEPT ![u] = amount]
  /\ NoNative
  /\ UNCHANGED <<vars, wrapped, authorized, withdrawal, saved>>

(* Wrapped coins sent to the gateway's address by mistake.                 *)
sendWrapped(amount) ==
  /\ Idle
  /\ wrapped' = wrapped + amount
  /\ NoNative
  /\ UNCHANGED <<vars, aAllowance, authorized, withdrawal, saved>>

(* emergencyTokenTransfer and recoverERC20 of the owner, of the two tokens. *)
recoverWrapped ==
  /\ Idle
  /\ wrapped > 0
  /\ wrapped' = 0
  /\ NoNative
  /\ UNCHANGED <<vars, aAllowance, authorized, withdrawal, saved>>

recoverATokens(to) ==
  /\ Idle
  /\ BalanceOf(reserves[Wrapped], Gateway, now) > 0
  /\ Transfer(Gateway, to, Wrapped, BalanceOf(reserves[Wrapped], Gateway, now))
  /\ NoNative
  /\ UNCHANGED <<wrapped, aAllowance, authorized, withdrawal, saved>>

(* The pool without the gateway; it calls nothing of its own accord.       *)
PoolCall ==
  \/ \E a \in Assets, x \in Amounts, u \in Users : Deposit(a, x, u)
  \/ \E u \in Callers, a \in Assets, x \in Amounts \cup {MAX_UINT} : Withdraw(u, a, x)
  \/ \E caller \in Callers, a \in Assets, u \in Users, x \in Amounts : Borrow(caller, a, u, x)
  \/ \E u \in Callers, v \in Users, a \in Assets, x \in AllowanceAmounts :
       ApproveDelegation(u, v, a, x)
  \/ \E caller \in Callers, a \in Assets, u \in Users, x \in Amounts \cup {MAX_UINT} :
       Repay(caller, a, u, x)
  \/ \E u \in Callers, a \in Assets, using \in BOOLEAN :
       SetUserUseReserveAsCollateral(u, a, using)
  \/ \E l \in Callers, c, d \in Assets, u \in Users, x \in Amounts \cup {MAX_UINT},
        b \in BOOLEAN : LiquidationCall(l, c, d, u, x, b)
  \/ \E from \in Callers, to \in Users, a \in Assets, x \in Amounts : Transfer(from, to, a, x)

PoolStep ==
  /\ Idle
  /\ PoolCall \/ Environment
  /\ NoNative
  /\ UNCHANGED <<wrapped, aAllowance, authorized, withdrawal, saved>>

GatewayCall ==
  \/ \E caller \in Callers, x \in Amounts, u \in Users : depositNative(caller, x, u)
  \/ \E caller, to \in Callers, x \in Amounts \cup {MAX_UINT} : withdrawNative(caller, x, to)
  \/ withdrawFromPool \/ revertWithdrawal
  \/ \E caller \in Callers, u \in Users, x \in Amounts \cup {MAX_UINT}, value \in Amounts :
       repayNative(caller, x, value, u)
  \/ \E caller \in Callers, x \in Amounts : borrowNative(caller, x)

GatewayNext ==
  \/ authorizeLendingPool
  \/ GatewayCall
  \/ \E u \in Callers, x \in AllowanceAmounts : approveGateway(u, x)
  \/ \E x \in Amounts : sendWrapped(x)
  \/ recoverWrapped
  \/ \E to \in Callers : recoverATokens(to)
  \/ PoolStep

GatewaySpec == GatewayInit /\ [][GatewayNext]_gatewayVars

-----------------------------------------------------------------------------
(* What a call, both halves of a withdrawal included, started from.        *)
ReservesBefore == IF Idle THEN reserves ELSE saved.reserves

(* Coins and aTokens that strayed to the gateway stay there until its      *)
(* owner recovers them: no call spends them on a user's behalf, although   *)
(* users' coins and aTokens pass through the same two balances and come    *)
(* and go in rounded amounts.                                              *)
StrayStays ==
  [][Idle' =>
       /\ wrapped' >= wrapped \/ recoverWrapped
       /\ \/ reserves'[Wrapped].aBalance[Gateway] >= ReservesBefore[Wrapped].aBalance[Gateway]
          \/ \E to \in Callers : recoverATokens(to)
    ]_gatewayVars

(* What an account has in the reserve, settled.                            *)
Worth(r, u) ==
  LET s == UpdateState(r, now)
  IN  BalanceOf(s, u, now) - DebtOf(s, u, now)

(* A user's coins become a position and a position becomes coins at par,   *)
(* refunds included: what a call that paid in or out moved in native       *)
(* coins, it moved the other way in positions and in coins the gateway     *)
(* keeps.                                                                  *)
NativeAtPar ==
  [][Idle' /\ native' # NoCoins =>
       LET gained == [u \in Users |-> native'[u] + Worth(reserves[Wrapped], u)'
                                       - Worth(ReservesBefore[Wrapped], u)]
           change == SumFunction(gained) + wrapped' - wrapped
       IN  change \in -RoundingDust(Wrapped) .. RoundingDust(Wrapped)
    ]_gatewayVars

(* Whoever asks for everything (type(uint256).max) gets it: the transfer   *)
(* empties the account and the gateway's balance covers the withdrawal     *)
(* that follows.                                                           *)
WholeBalanceWithdrawable ==
  ~Idle /\ withdrawal.whole =>
    /\ reserves[Wrapped].aBalance[withdrawal.caller] = 0
    /\ withdrawal.amount <= BalanceOf(reserves[Wrapped], Gateway, now)

(* "repays a borrow on the WETH reserve, for the specified amount": the    *)
(* pool gets no more than was specified, however much was sent along.      *)
RepaysTheSpecifiedAmount ==
  [][\A caller \in Callers, u \in Users, amount, value \in Amounts :
       repayNative(caller, amount, value, u) =>
         reserves'[Wrapped].cash - reserves[Wrapped].cash <= amount]_gatewayVars
=============================================================================
