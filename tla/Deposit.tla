------------------------------ MODULE Deposit ------------------------------
(***************************************************************************)
(* Proposal deposits: packages/dao-voting/src/deposit.rs.  A deposit is in *)
(* a native coin, which is sent along with the call, or in a cw20 token,   *)
(* which is pulled from the depositor.                                     *)
(***************************************************************************)
EXTENDS CosmWasm

CONSTANTS
    Natives,    \* denominations of native coins
    Cw20s       \* cw20 token contracts

Denom == Natives \cup Cw20s

\* enum DepositRefundPolicy
DepositRefundPolicy == {"always", "only_passed", "never"}

\* struct UncheckedDepositInfo
DepositInfo == [denom : Denom, amount : Nat, refund_policy : DepositRefundPolicy]

\* struct CheckedDepositInfo
CheckedDepositInfo ==
    [denom : Denom, amount : Nat \ {0}, refund_policy : DepositRefundPolicy]

\* Option::None
NoDeposit == [denom |-> "none", amount |-> 0, refund_policy |-> "none"]

\* Mutant: a deposit of nothing is accepted.
into_checked_zero(info) == info.denom \in Denom

\* The condition on which into_checked returns no error; what it returns is its
\* argument.
into_checked(info) == info.amount # 0 /\ info.denom \in Denom

\* Mutant: the amount that was paid is not compared.
check_native_deposit_paid_any(info, funds) ==
    info.denom \in Natives => funds.denom = info.denom

\* must_pay: the call comes with exactly the deposit.
check_native_deposit_paid(info, funds) ==
    info.denom \in Natives => funds = [denom |-> info.denom, amount |-> info.amount]

\* Native deposits come with the call.
get_take_deposit_messages(info, depositor, contract) ==
    IF info.denom \in Cw20s
    THEN <<Msg(info.denom, [kind |-> "transfer_from", owner |-> depositor,
                            to |-> contract, amount |-> info.amount])>>
    ELSE <<>>

\* The message is tagged with the submission the deposit was made for.
get_return_deposit_message(info, to, ref) ==
    <<Msg(info.denom,
          [kind |-> "transfer", to |-> to, amount |-> info.amount, ref |-> ref])>>
=============================================================================
