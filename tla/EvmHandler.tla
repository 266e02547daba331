------------------------------ MODULE EvmHandler ------------------------------
(***************************************************************************)
(* The execution of a transaction by the EVM kernel: validity and fees     *)
(* (kernel/src/apply.rs, fees.rs), the payment of gas (evm_execution/src/  *)
(* lib.rs) and the handler of the EVM (handler.rs, account_storage.rs,     *)
(* precompiles), with its two stacks: the layers of the account storage    *)
(* and the data of the transactions in progress.                           *)
(*                                                                         *)
(* The SputnikVM runtime and its gasometer are external.  A contract may   *)
(* execute any opcode at any point; an opcode costs gas, is refused in a   *)
(* static context when it writes, and ends with the runtime's exit reason. *)
(* A run of contract code is a frame; the frames and the pending opcode of *)
(* each stand for the recursion of the handler.  Warm and cold accesses    *)
(* are left out: the kernel runs with all accesses warm.                   *)
(***************************************************************************)
EXTENDS Integers, Sequences, SequencesExt, FiniteSetsExt

CONSTANTS User,              \* the account that sends the transactions
          GasPrice, DaFeePerByte,
          CallValueCost,     \* of a call with a value, in gas
          CallStipend,       \* call_stipend
          BaseCost,          \* gas_transaction_call, gas_transaction_create
          DepositCost,       \* gas per code deposit
          RetainedShare,     \* 64: the caller keeps one part in so many
          StackLimit,        \* stack_limit
          TicksPerGas,
          PrecompileTicks, PrecompileCost, PairingTicks,
          WeiPerMumav,       \* 10^12
          NewAddress(_, _),  \* (creator, nonce): the address of a contract
          Scenarios          \* what the user sends, and to which contracts

-------------------------------------------------------------------------------
(* The fees of a transaction over and above its execution gas (fees.rs).     *)
(* Amounts are natural numbers: they stay far below the saturation of U256.  *)

cdiv_floor(l, r) == l \div r

cdiv(l, r) == IF l % r = 0 THEN l \div r ELSE (l \div r) + 1

\* The fee for the bytes a transaction takes in the inbox.
da_fee(da_fee_per_byte, size) == size * da_fee_per_byte

gas_for_fees(da_fee_per_byte, gas_price, size) ==
    cdiv(da_fee(da_fee_per_byte, size), gas_price)

of_gas_and_da_fee(gas_price, execution_gas_used, fee) ==
    LET execution_gas_fees == execution_gas_used * gas_price
        initial_total_fees == fee + execution_gas_fees
        gas_used == cdiv(initial_total_fees, gas_price)
        total_fees == gas_price * gas_used
    IN  [overall_gas_used |-> gas_used,
         burn_amount |-> execution_gas_fees + total_fees - initial_total_fees,
         charge_user_amount |-> total_fees - execution_gas_fees,
         compensate_sequencer_amount |-> fee]

for_deposit(gas_used) ==
    [overall_gas_used |-> gas_used, burn_amount |-> 0,
     charge_user_amount |-> 0, compensate_sequencer_amount |-> 0]

for_tx(gas_price, da_fee_per_byte, size, execution_gas_used) ==
    of_gas_and_da_fee(gas_price, execution_gas_used, da_fee(da_fee_per_byte, size))

for_delayed_tx(gas_price, execution_gas_used) ==
    of_gas_and_da_fee(gas_price, execution_gas_used, 0)

-------------------------------------------------------------------------------
VARIABLES h,       \* the handler, with the history of its effects
          tx,      \* the transaction in progress
          last,    \* the outcome of the last transaction
          books,   \* fees burned, deposits made, withdrawals posted
          scenario

vars == <<h, tx, last, books, scenario>>

Scene == Scenarios[scenario]
World == Scene.world                \* the accounts in the beginning
Accounts == DOMAIN World
Sequencer == Scene.sequencer        \* the sequencer pool, or None
TicksAllocated == Scene.ticks
Transactions == Scene.transactions  \* what the user may send
MaxTransactions == Scene.max        \* bound: transactions
Opcodes == Scene.opcodes            \* the opcodes contracts may execute
Calls == Scene.calls                \* the calls they make
Heirs == Scene.heirs                \* the targets of SELFDESTRUCT

None == <<>>
Some(x) == <<x>>
Get(o) == o[1]

\* History: layers are numbered; those rolled back are dead; what a layer did
\* is recorded with its number.
Did(s, kind, a, amount) ==
    [s EXCEPT !.effects = Append(@, [kind |-> kind, at |-> a, amount |-> amount,
                                     id |-> Last(s.data).id])]

Dead(s, id) == [s EXCEPT !.dead = @ \cup (id .. s.next - 1)]

Precompiles == {"withdrawal", "identity", "ecrecover", "blake2f", "modexp", "ecpairing"}

-------------------------------------------------------------------------------
(* Accounts, in the last layer of the storage *)

accounts(s) == Last(s.layers)

set_account(s, a, account) == [s EXCEPT !.layers[Len(s.layers)][a] = account]

balance(s, a) == accounts(s)[a].balance

balance_add(s, a, amount) ==
    set_account(s, a, [accounts(s)[a] EXCEPT !.balance = @ + amount])

\* balance_remove: refused when the account does not hold the amount.
balance_remove(s, a, amount) ==
    set_account(s, a, [accounts(s)[a] EXCEPT !.balance = @ - amount])

increment_nonce(s, a) ==
    set_account(s, a, [accounts(s)[a] EXCEPT !.nonce = @ + 1])

decrement_nonce(s, a) ==
    set_account(s, a, [accounts(s)[a] EXCEPT !.nonce = IF @ = 0 THEN 0 ELSE @ - 1])

clear_storage(s, a) == set_account(s, a, [accounts(s)[a] EXCEPT !.slot = 0])

set_storage(s, a, value) == set_account(s, a, [accounts(s)[a] EXCEPT !.slot = value])

set_code(s, a) == set_account(s, a, [accounts(s)[a] EXCEPT !.code = TRUE])

delete_contract(s, a) ==
    set_account(s, a, [nonce |-> 0, balance |-> 0, code |-> FALSE, slot |-> 0])

is_colliding(s, a) == accounts(s)[a].code \/ accounts(s)[a].nonce # 0

has_enough_fund(s, a, value) == balance(s, a) >= value

transfer_without_remove(s, from, to, value) == balance_add(s, to, value)

execute_transfer(s, from, to, value) ==
    balance_add(balance_remove(s, from, value), to, value)

-------------------------------------------------------------------------------
(* The gasometer of a layer: external *)

Gasometer(limit) == [limit |-> limit, used |-> 0, out |-> FALSE]

total_used_gas(g) == IF g.out THEN g.limit ELSE g.used

gas(g) == IF g.out THEN 0 ELSE g.limit - g.used

meter_cost(g, cost) ==
    IF g.out \/ g.used + cost > g.limit THEN [g EXCEPT !.out = TRUE]
    ELSE [g EXCEPT !.used = @ + cost]

-------------------------------------------------------------------------------
(* The data of the transaction layers *)

TransactionLayerData(is_static, gas_limit, id) ==
    [gas |-> Gasometer(gas_limit), is_static |-> is_static, logs |-> <<>>,
     deleted |-> {}, withdrawals |-> <<>>, id |-> id]

layer(s) == Last(s.data)

set_layer(s, l) == [s EXCEPT !.data[Len(s.data)] = l]

gas_used(s) == total_used_gas(layer(s).gas)

gas_remaining(s) == gas(layer(s).gas)

record_cost(s, cost) == set_layer(s, [layer(s) EXCEPT !.gas = meter_cost(@, cost)])

out_of_gas(s) == layer(s).gas.out

record_stipend(s, stipend) == set_layer(s, [layer(s) EXCEPT !.gas.used = @ - stipend])

is_static_now(s) == s.data # <<>> /\ layer(s).is_static

\* begin_initial_transaction, begin_inter_transaction.
begin_layer(s, is_static, gas_limit) ==
    [s EXCEPT !.layers = Append(@, Last(@)),
              !.data = Append(@, TransactionLayerData(is_static_now(s) \/ is_static,
                                                      gas_limit, s.next)),
              !.next = @ + 1]

commit_forgetting_deleted(s) ==
    LET done == layer(s)
        popped == [s EXCEPT !.layers = Append(Front(Front(@)), Last(@)),
                            !.data = Front(@)]
    IN  record_stipend(set_layer(popped, [layer(popped) EXCEPT !.logs = @ \o done.logs]),
                       gas(done.gas))

commit_inter_transaction(s) ==
    LET done == layer(s)
        popped == [s EXCEPT !.layers = Append(Front(Front(@)), Last(@)),
                            !.data = Front(@)]
    IN  record_stipend(
          set_layer(popped,
            [layer(popped) EXCEPT !.logs = @ \o done.logs,
                                  !.withdrawals = @ \o done.withdrawals,
                                  !.deleted = @ \cup done.deleted]),
          gas(done.gas))

rollback_keeping_logs(s, refund_gas) ==
    LET popped == Dead([s EXCEPT !.layers = Front(@), !.data = Front(@)], layer(s).id)
        kept == set_layer(popped, [layer(popped) EXCEPT !.logs = @ \o layer(s).logs])
    IN  IF refund_gas THEN record_stipend(kept, gas_remaining(s)) ELSE kept

rollback_inter_transaction(s, refund_gas) ==
    LET popped == Dead([s EXCEPT !.layers = Front(@), !.data = Front(@)], layer(s).id)
    IN  IF refund_gas THEN record_stipend(popped, gas_remaining(s)) ELSE popped

-------------------------------------------------------------------------------
(* The ends of a frame *)

Succeeds(reason) == reason \in {"Returned", "Suicided"}

Fatal(reason) == reason \in {"FatalOther", "FatalCreateContractLimit"}

\* end_create: what is returned by the initial code becomes the code.
end_create(s, reason, address, code) ==
    LET paid == record_cost(s, DepositCost)
    IN  CASE reason # "Returned" -> [s |-> s, reason |-> reason]
          [] code # "good" -> [s |-> s, reason |-> "Error"]
          [] out_of_gas(paid) -> [s |-> paid, reason |-> "Error"]
          [] OTHER -> [s |-> set_code(paid, address), reason |-> reason]

\* end_inter_transaction: the reason that the calling opcode sees.
seen_by_caller(reason) ==
    CASE reason \in {"FatalCreateContractLimit", "PrecompileFailed"} -> "Error"
      [] reason = "OutOfTicks" -> "FatalOther"
      [] OTHER -> reason

end_inter_transaction(s, reason) ==
    [(IF Succeeds(reason) THEN commit_inter_transaction(s)
      ELSE rollback_inter_transaction(s, reason = "Revert"))
     EXCEPT !.ret = seen_by_caller(reason), !.pc = "finish"]

delete_all(s, deleted) ==
    FoldSet(LAMBDA a, acc : delete_contract(acc, a), s, deleted)

\* commit_initial_transaction, rollback_initial_transaction.
end_initial_transaction(s, reason) ==
    LET done == layer(s)
        success == Succeeds(reason)
        final == IF success THEN delete_all(s, done.deleted) ELSE s
    IN  [(IF success THEN s ELSE Dead(s, done.id)) EXCEPT
           !.layers = IF success THEN <<Last(final.layers)>> ELSE <<Head(s.layers)>>,
           !.data = <<>>, !.pc = "done", !.ret = reason,
           !.outcome = [gas_used |-> gas_used(s), is_success |-> success,
                        logs |-> IF success THEN done.logs ELSE <<>>,
                        withdrawals |-> IF success THEN done.withdrawals ELSE <<>>]]

\* The end of execute_call or execute_create.
end_transaction(s, reason) ==
    IF Len(s.data) = 1 THEN end_initial_transaction(s, reason)
    ELSE end_inter_transaction(s, reason)

\* A frame leaves execute.
exit_frame(s, reason, code) ==
    LET frame == Last(s.frames)
        popped == [s EXCEPT !.frames = Front(@)]
        created == end_create(popped, reason, frame.address, code)
    IN  IF frame.create THEN end_transaction(created.s, created.reason)
        ELSE end_transaction(popped, reason)

\* The rest of a step of execute once the opcode is done.
account_for_ticks(s, gas_before, exit, code) ==
    LET ticked == [s EXCEPT !.ticks = @ + (gas_used(s) - gas_before) * TicksPerGas]
    IN  IF ticked.ticks > TicksAllocated THEN exit_frame(ticked, "OutOfTicks", code)
        ELSE IF exit = None THEN [ticked EXCEPT !.pc = "step", !.ret = "none"]
        ELSE exit_frame(ticked, Get(exit), code)

-------------------------------------------------------------------------------
(* Precompiled contracts: the estimated ticks are checked first, the cost  *)
(* recorded, then the input is looked at.                                  *)

Outcome(s, ticks, reason) == [s |-> [s EXCEPT !.ticks = @ + ticks], reason |-> reason]

fail_if_too_much(s, ticks) == s.ticks + ticks > TicksAllocated

identity_precompile(s, value, input) ==
    LET paid == record_cost(s, PrecompileCost)
    IN  IF fail_if_too_much(s, PrecompileTicks) THEN Outcome(s, 0, "OutOfTicks")
        ELSE IF out_of_gas(paid) THEN Outcome(paid, PrecompileTicks, "Error")
        ELSE Outcome(paid, PrecompileTicks, "Returned")

withdrawal_precompile(s, value, input) ==
    LET paid == record_cost(s, PrecompileCost)
        withdrawn == Did(set_layer(paid, [layer(paid) EXCEPT !.withdrawals = Append(@, value)]),
                         "withdraw", User, value)
    IN  CASE fail_if_too_much(s, PrecompileTicks) -> Outcome(s, 0, "OutOfTicks")
          [] out_of_gas(paid) -> Outcome(paid, PrecompileTicks, "Error")
          [] value = 0 \/ input # "good" -> Outcome(paid, PrecompileTicks, "Revert")
          [] OTHER -> Outcome(withdrawn, PrecompileTicks, "Returned")

\* A wrong input is a success without output, and without ticks.
ecrecover_precompile(s, value, input) ==
    LET paid == record_cost(s, PrecompileCost)
    IN  CASE fail_if_too_much(s, PrecompileTicks) -> Outcome(s, 0, "OutOfTicks")
          [] out_of_gas(paid) -> Outcome(paid, PrecompileTicks, "Error")
          [] input # "good" -> Outcome(paid, 0, "Returned")
          [] OTHER -> Outcome(paid, PrecompileTicks, "Returned")

\* The lengths in the input are too large for a machine integer, or the cost
\* is computed from them.  The ticks are not compared with those allocated.
modexp_precompile(s, value, input) ==
    LET paid == record_cost(s, PrecompileCost)
    IN  CASE input # "good" -> Outcome(s, 0, "Error")
          [] out_of_gas(paid) -> Outcome(paid, PairingTicks, "Error")
          [] OTHER -> Outcome(paid, PairingTicks, "Returned")

\* An error of the precompile takes all the gas that is left.
call_precompile_with_gas_draining(s, error) ==
    Outcome(record_cost(s, gas_remaining(s)), 0, error)

blake2f_precompile(s, value, input) ==
    LET paid == record_cost(s, PrecompileCost)
    IN  CASE input = "short" -> call_precompile_with_gas_draining(s, "PrecompileFailed")
          [] fail_if_too_much(s, PrecompileTicks) ->
               call_precompile_with_gas_draining(s, "OutOfTicks")
          [] out_of_gas(paid) -> Outcome(paid, PrecompileTicks, "Error")
          [] input # "good" -> call_precompile_with_gas_draining(paid, "PrecompileFailed")
          [] OTHER -> Outcome(paid, PrecompileTicks, "Returned")

\* ecadd, ecmul and ecpairing: the ticks are not compared with those allocated.
ecpairing_precompile(s, value, input) ==
    LET paid == record_cost(s, PrecompileCost)
    IN  CASE out_of_gas(paid) -> Outcome(paid, PairingTicks, "Error")
          [] input # "good" -> call_precompile_with_gas_draining(paid, "PrecompileFailed")
          [] OTHER -> Outcome(paid, PairingTicks, "Returned")

execute_precompile(s, address, value, input) ==
    CASE address = "withdrawal" -> withdrawal_precompile(s, value, input)
      [] address = "identity" -> identity_precompile(s, value, input)
      [] address = "ecrecover" -> ecrecover_precompile(s, value, input)
      [] address = "blake2f" -> blake2f_precompile(s, value, input)
      [] address = "modexp" -> modexp_precompile(s, value, input)
      [] OTHER -> ecpairing_precompile(s, value, input)

-------------------------------------------------------------------------------
(* Calls and creations *)

push_frame(s, address, create) ==
    [s EXCEPT !.frames = Append(@, [address |-> address, create |-> create,
                                    gas_before |-> 0]),
              !.pc = "step", !.ret = "none"]

execute_call(s, caller, address, value, input) ==
    LET moved == execute_transfer(s, caller, address, value)
        done == execute_precompile(moved, address, value, input)
    IN  CASE ~has_enough_fund(s, caller, value) -> end_transaction(s, "Error")
          [] address \in Precompiles -> end_transaction(done.s, done.reason)
          [] ~accounts(s)[address].code -> end_transaction(moved, "Returned")
          [] OTHER -> push_frame(moved, address, FALSE)

\* The contract was deleted in the same transaction, or exists already.
contract_will_collide(s, address) ==
    \/ \E i \in DOMAIN s.data : address \in s.data[i].deleted
    \/ is_colliding(s, address)

execute_create(s, caller, value, address, size) ==
    LET moved == execute_transfer(s, caller, address, value)
    IN  CASE size = "big" -> end_transaction(s, "Error")
          [] contract_will_collide(s, address) -> end_transaction(s, "Error")
          [] ~has_enough_fund(s, caller, value) -> end_transaction(s, "Error")
          [] OTHER -> push_frame(Did(clear_storage(increment_nonce(moved, address), address),
                                     "clear", address, 0),
                                 address, TRUE)

can_begin_inter_transaction(s, caller, value) ==
    has_enough_fund(s, caller, value) /\ Len(s.layers) - 2 < StackLimit

nested_call_gas_limit(s, target_gas) ==
    LET max_gas_limit == gas_remaining(s) - gas_remaining(s) \div RetainedShare
    IN  IF target_gas = None THEN max_gas_limit ELSE Min({Get(target_gas), max_gas_limit})

\* The opcode ends without a layer of its own.
answer(s, reason) == [s EXCEPT !.ret = reason, !.pc = "finish"]

call(s, caller, address, value, input, target_gas, is_static) ==
    LET gas_limit == nested_call_gas_limit(s, target_gas)
        paid == record_cost(s, gas_limit)
        stipend == IF value > 0 THEN CallStipend ELSE 0
    IN  IF can_begin_inter_transaction(s, caller, value)
        THEN execute_call(begin_layer(paid, is_static, gas_limit + stipend),
                          caller, address, value, input)
        ELSE answer(record_stipend(s, stipend), "Error")

create(s, caller, value, size, target_gas) ==
    LET address == NewAddress(caller, accounts(s)[caller].nonce)
        numbered == increment_nonce(s, caller)
        gas_limit == nested_call_gas_limit(numbered, target_gas)
    IN  CASE ~can_begin_inter_transaction(s, caller, value) -> answer(s, "Error")
          [] size = "big" -> answer(s, "FatalCreateContractLimit")
          [] OTHER -> execute_create(begin_layer(record_cost(numbered, gas_limit), FALSE, gas_limit),
                                     caller, value, address, size)

\* SELFDESTRUCT: the balance goes to the target, or nowhere when the contract
\* is its own target.
mark_delete(s, address, target) ==
    LET marked == Did(set_layer(s, [layer(s) EXCEPT !.deleted = @ \cup {address}]),
                      "delete", address, 0)
    IN  CASE address \in layer(s).deleted -> s
          [] address = target -> balance_remove(marked, address, balance(s, address))
          [] OTHER -> execute_transfer(marked, address, target, balance(s, address))

-------------------------------------------------------------------------------
(* The opcodes: pre_validate, the opcode, and the accounting of its ticks *)

Top == Last(h.frames)

Me == Top.address

Paid(cost) == record_cost(h, cost)

\* done is the handler once the opcode, paid for, is done.
Opcode(name, writes, cost, done) ==
    LET paid == Paid(cost)
    IN  /\ h.pc = "step"
        /\ name \in Opcodes
        /\ h' = CASE writes /\ is_static_now(h) ->
                       account_for_ticks(h, gas_used(h), Some("Error"), "none")
                  [] out_of_gas(paid) ->
                       account_for_ticks(paid, gas_used(h), Some("Error"), "none")
                  [] OTHER -> done
        /\ UNCHANGED <<tx, last, books, scenario>>

Continue(s) == account_for_ticks(s, gas_used(h), None, "none")

Exit(s, reason, code) == account_for_ticks(s, gas_used(h), Some(reason), code)

Nested(s) == [s EXCEPT !.frames[Len(s.frames)].gas_before = gas_used(h)]

Sstore ==
    Opcode("Sstore", TRUE, 1,
      Continue(Did(set_storage(Paid(1), Me, layer(h).id), "store", Me, 0)))

log(s) == set_layer(s, [layer(s) EXCEPT !.logs = Append(@, layer(s).id)])

Log == Opcode("Log", TRUE, 1, Continue(Did(log(Paid(1)), "log", Me, 0)))

SelfDestruct(target) ==
    Opcode("SelfDestruct", TRUE, 1,
      Exit(mark_delete(Paid(1), Me, target), "Suicided", "none"))

Call(address, value, input, target_gas) ==
    LET cost == IF value > 0 THEN CallValueCost ELSE 1
    IN  Opcode("Call", value > 0, cost,
          call(Nested(Paid(cost)), Me, address, value, input, target_gas, FALSE))

StaticCall(address) ==
    Opcode("StaticCall", FALSE, 1,
      call(Nested(Paid(1)), Me, address, 0, "good", None, TRUE))

Create(value, size) ==
    Opcode("Create", TRUE, 1, create(Nested(Paid(1)), Me, value, size, None))

Return(code) == Opcode("Return", FALSE, 0, Exit(h, "Returned", code))

Revert == Opcode("Revert", FALSE, 0, Exit(h, "Revert", "none"))

Invalid == Opcode("Invalid", FALSE, 0, Exit(h, "Error", "none"))

\* finish_call, finish_create: the calling opcode is done.  Only a fatal
\* reason ends the caller as well.
Finish ==
    /\ h.pc = "finish"
    /\ h' = account_for_ticks(h, Top.gas_before,
                              IF Fatal(h.ret) THEN Some(h.ret) ELSE None, "none")
    /\ UNCHANGED <<tx, last, books, scenario>>

-------------------------------------------------------------------------------
(* The transaction *)

gas_limit_with_fees(t) == t.gas_limit

\* tx_execution_gas_limit; negative when the limit does not cover the fees.
tx_execution_gas_limit(t) ==
    IF t.delayed THEN t.gas_limit
    ELSE t.gas_limit - gas_for_fees(DaFeePerByte, GasPrice, t.size)

\* signed: the chain identifier, the base fee and the signature are right.
is_valid_ethereum_transaction(t) ==
    LET account == accounts(h)[User]
    IN  /\ t.signed
        /\ t.nonce = account.nonce
        /\ account.balance >= gas_limit_with_fees(t) * GasPrice
        /\ ~account.code
        /\ tx_execution_gas_limit(t) >= 0

pre_pay_transactions(s, gas_limit) == balance_remove(s, User, gas_limit * GasPrice)

repay_gas(s, unused_gas) == balance_add(s, User, unused_gas * GasPrice)

call_contract(s, t, gas_limit) ==
    LET begun == record_cost(begin_layer(increment_nonce(s, User), FALSE, gas_limit), BaseCost)
    IN  IF out_of_gas(begun) THEN end_transaction(begun, "Error")
        ELSE execute_call(begun, User, t.to, t.value, t.input)

create_contract(s, t, gas_limit) ==
    LET address == NewAddress(User, accounts(s)[User].nonce)
        begun == record_cost(begin_layer(increment_nonce(s, User), FALSE, gas_limit), BaseCost)
    IN  IF out_of_gas(begun) THEN end_transaction(begun, "Error")
        ELSE execute_create(begun, User, t.value, address, t.input)

Idle == h.pc = "idle"

\* apply_ethereum_transaction_common and run_transaction up to the first opcode.
apply_ethereum_transaction(t) ==
    LET gas_limit == tx_execution_gas_limit(t)
        fresh == [h EXCEPT !.before = accounts(h), !.ticks = 0, !.effects = <<>>,
                           !.dead = {}, !.next = 1]
        paid == pre_pay_transactions(fresh, gas_limit)
    IN  /\ Idle /\ books.applied < MaxTransactions
        /\ books' = [books EXCEPT !.applied = @ + 1]
        /\ IF is_valid_ethereum_transaction(t)
           THEN /\ tx' = [t EXCEPT !.gas_limit = gas_limit]
                /\ h' = IF t.to = "create" THEN create_contract(paid, t, gas_limit)
                        ELSE call_contract(paid, t, gas_limit)
                /\ last' = [result |-> "none"]
           ELSE /\ h' = fresh /\ tx' = t
                /\ last' = [result |-> "Invalid"]
        /\ UNCHANGED scenario

apply_deposit(amount) ==
    /\ Idle /\ books.applied < MaxTransactions
    /\ h' = balance_add(h, User, amount)
    /\ books' = [books EXCEPT !.applied = @ + 1, !.deposited = @ + amount]
    /\ last' = [result |-> "none"]
    /\ UNCHANGED <<tx, scenario>>

do_refund(reason) == Succeeds(reason) \/ reason \in {"Revert", "OutOfTicks"}

Retriable == h.ret = "OutOfTicks" /\ tx.retriable

\* run_transaction once the transaction is over.
run_transaction_end_numbered(s) ==
    CASE ~do_refund(s.ret) -> s
      [] Retriable -> repay_gas(s, tx.gas_limit)
      [] OTHER -> repay_gas(s, tx.gas_limit - s.outcome.gas_used)

run_transaction_end(s) ==
    LET numbered == IF Retriable THEN decrement_nonce(s, User) ELSE s
    IN  CASE ~do_refund(s.ret) -> numbered
          [] Retriable -> repay_gas(numbered, tx.gas_limit)
          [] OTHER -> repay_gas(numbered, tx.gas_limit - s.outcome.gas_used)

fee_updates(gas_used_) ==
    IF tx.delayed THEN for_delayed_tx(GasPrice, gas_used_)
    ELSE for_tx(GasPrice, DaFeePerByte, tx.size, gas_used_)

\* FeeUpdates::apply, when the user can pay the charge.
apply_fees(s, fees) ==
    LET charged == balance_remove(s, User, fees.charge_user_amount)
    IN  IF Sequencer = None THEN charged
        ELSE balance_add(charged, Get(Sequencer), fees.compensate_sequencer_amount)

burned_fees(fees) ==
    fees.burn_amount + IF Sequencer = None THEN fees.compensate_sequencer_amount ELSE 0

\* post_withdrawals: amounts go out in mumav, and a ticket of none is an error.
post_withdrawals(withdrawals) == [i \in DOMAIN withdrawals |-> withdrawals[i] \div WeiPerMumav]

\* The host gives the block up, and with it what the transaction has changed.
Abort(result) ==
    /\ h' = [h EXCEPT !.layers = <<h.before>>, !.pc = "idle"]
    /\ last' = [result |-> result]
    /\ UNCHANGED <<tx, books, scenario>>

\* handle_transaction_result; a retriable transaction does not pay the fees.
handle_transaction_result ==
    LET ended == run_transaction_end(h)
        fees == fee_updates(h.outcome.gas_used)
        affordable == has_enough_fund(ended, User, fees.charge_user_amount)
        messages == post_withdrawals(h.outcome.withdrawals)
        result == IF Retriable THEN "Retriable" ELSE "Valid"
    IN  /\ h.pc = "done"
        /\ IF h.ret \in {"FatalOther", "PrecompileFailed"} THEN Abort("InvalidRunTransaction")
           ELSE IF 0 \in Range(messages) THEN Abort("InvalidAmount")
           ELSE IF ~Retriable /\ ~affordable THEN Abort("FailedToCharge")
           ELSE /\ h' = [(IF Retriable THEN ended ELSE apply_fees(ended, fees))
                         EXCEPT !.pc = "idle"]
                /\ last' = [result |-> result, reason |-> h.ret, ticks |-> h.ticks,
                            outcome |-> h.outcome]
                /\ books' = IF Retriable THEN books
                            ELSE [books EXCEPT !.burned = @ + burned_fees(fees),
                                               !.posted = @ \o messages]
                /\ UNCHANGED <<tx, scenario>>

-------------------------------------------------------------------------------

Init ==
    /\ scenario \in DOMAIN Scenarios
    /\ h = [layers |-> <<World>>, data |-> <<>>, frames |-> <<>>, ticks |-> 0,
            pc |-> "idle", ret |-> "none", before |-> World, effects |-> <<>>,
            dead |-> {}, next |-> 1,
            outcome |-> [gas_used |-> 0, is_success |-> FALSE, logs |-> <<>>,
                         withdrawals |-> <<>>]]
    /\ tx \in Transactions
    /\ last = [result |-> "none"]
    /\ books = [applied |-> 0, burned |-> 0, deposited |-> 0, posted |-> <<>>]

Next ==
    \/ \E t \in Transactions : apply_ethereum_transaction(t)
    \/ apply_deposit(1)
    \/ Sstore \/ Log \/ Revert \/ Invalid \/ Finish
    \/ \E a \in Heirs : SelfDestruct(a)
    \/ \E c \in Calls : Call(c.to, c.value, c.input, c.gas)
    \/ \E c \in Calls : StaticCall(c.to)
    \/ \E v \in 0 .. 1, size \in {"small", "big"} : Create(v, size)
    \/ \E code \in {"good", "bad"} : Return(code)
    \/ handle_transaction_result

Spec == Init /\ [][Next]_vars

-------------------------------------------------------------------------------
(* Properties *)

Alive(kinds) ==
    SelectSeq(h.effects, LAMBDA e : e.kind \in kinds /\ e.id \notin h.dead)

Field(s, f(_)) == [i \in DOMAIN s |-> f(s[i])]

\* The slot of an account once the transaction is over.
SlotExpected(a) ==
    LET writes == SelectSeq(Alive({"store", "clear"}), LAMBDA e : e.at = a)
    IN  IF \E i \in DOMAIN h.effects :
               h.effects[i].kind = "delete" /\ h.effects[i].at = a /\ h.effects[i].id \notin h.dead
        THEN 0
        ELSE IF writes = <<>> THEN h.before[a].slot
        ELSE IF Last(writes).kind = "store" THEN Last(writes).id ELSE 0

\* What a transaction leaves behind is what its calls did, in order, without
\* anything done by a call that was rolled back or by a call below one that
\* was: logs, withdrawals and storage agree, although the logs and the
\* withdrawals live in the transaction data and the storage in its own stack
\* of layers (handler.rs, commit and rollback of initial and inter
\* transactions).
CommittedEffects ==
    (Idle /\ last.result \in {"Valid", "Retriable"}) =>
        /\ last.outcome.logs = Field(Alive({"log"}), LAMBDA e : e.id)
        /\ last.outcome.withdrawals = Field(Alive({"withdraw"}), LAMBDA e : e.amount)
        /\ \A a \in Accounts : accounts(h)[a].slot = SlotExpected(a)

\* The two stacks go together: a layer of storage for each layer of data, and
\* a frame for each; the InconsistentTransactionStack and Data errors of the
\* handler are never returned.
StacksAgree ==
    /\ h.pc \in {"step", "finish"} =>
          /\ Len(h.layers) = Len(h.data) + 1
          /\ Len(h.frames) = Len(h.data)
    /\ h.pc \in {"idle", "done"} => Len(h.layers) = 1 /\ h.data = <<>> /\ h.frames = <<>>

\* The gas of every layer stays within its limit and never goes below zero,
\* and an opcode never ends with less gas used than it began with: the
\* subtractions gas_after - gas_before, gas_limit - gas_used and those of the
\* stipend do not wrap.
GasSound ==
    /\ \A i \in DOMAIN h.data : h.data[i].gas.used \in 0 .. h.data[i].gas.limit
    /\ h.pc = "finish" => gas_used(h) >= Top.gas_before
    /\ h.pc = "done" => h.outcome.gas_used <= tx.gas_limit

\* Below a static call nothing is changed, however deep: the storage of the
\* layer is the storage of the layer under it, and it has no log, no deleted
\* contract and no withdrawal.
StaticPure ==
    \A i \in DOMAIN h.data : h.data[i].is_static =>
        /\ h.layers[i + 1] = h.layers[i]
        /\ h.data[i].logs = <<>> /\ h.data[i].deleted = {} /\ h.data[i].withdrawals = <<>>

TotalBalance(world) ==
    FoldSet(LAMBDA a, sum : sum + world[a].balance, 0, Accounts)

\* Transfers, the payment of gas in advance, its refund, fees and contracts
\* that are deleted never create funds, at any point of any execution.
NoFundsCreated ==
    LET paid_in_advance == IF Idle THEN 0 ELSE tx.gas_limit * GasPrice
    IN  TotalBalance(accounts(h)) + books.burned + paid_in_advance
          <= TotalBalance(World) + books.deposited

\* A transaction that runs out of ticks and will be tried again leaves every
\* account as it was, nonce and balance included; one that fails for good
\* changes nothing but the nonce of its sender and the fees.
FailureAtomic ==
    (Idle /\ last.result \in {"Valid", "Retriable"} /\ ~last.outcome.is_success) =>
        LET untouched == Accounts \ ({User} \cup Range(Sequencer))
        IN  /\ \A a \in untouched : accounts(h)[a] = h.before[a]
            /\ accounts(h)[User].code = h.before[User].code
            /\ accounts(h)[User].nonce =
                 h.before[User].nonce + IF last.result = "Valid" THEN 1 ELSE 0
            /\ last.result = "Retriable" => accounts(h) = h.before

\* No transaction makes funds, and no call gas (transfer, fees, record_stipend).
FundsAndGasSound == NoFundsCreated /\ GasSound

\* A failure stays in its transaction: a failed one changes nothing but fees, a
\* static call nothing at all, and the layers of storage and of transaction data
\* stay in step (rollback_inter_transaction, end_inter_transaction).
FailureContained == FailureAtomic /\ StaticPure /\ StacksAgree

-------------------------------------------------------------------------------
(* Instances for TLC: a user, two contracts that call each other and create  *)
(* contracts, and the precompiled contracts.                                 *)

MCUser == "user"

Account(balance_, code_) == [nonce |-> 0, balance |-> balance_, code |-> code_, slot |-> 0]

WorldOf(addresses) == [a \in addresses |->
    IF a = "user" THEN Account(40, FALSE)
    ELSE IF a \in {"a", "b"} THEN Account(1, TRUE)
    ELSE Account(0, FALSE)]

Callers == WorldOf({"user", "a", "b"})
Creators == WorldOf({"user", "a", "b", "n", "withdrawal"})
Precompiled == WorldOf({"user", "a"} \cup Precompiles)

Transaction(to, value, gas_limit, retriable) ==
    [to |-> to, value |-> value, gas_limit |-> gas_limit, size |-> 1, input |-> "good",
     nonce |-> 0, signed |-> TRUE, delayed |-> FALSE, retriable |-> retriable]

ACall(to, value, input, gas_) == [to |-> to, value |-> value, input |-> input, gas |-> gas_]

\* Two contracts call each other, with and without value, statically or not.
CallsScenario ==
    [world |-> Callers, sequencer |-> None, ticks |-> 100, max |-> 1,
     transactions |-> {Transaction("a", 1, 8, FALSE)},
     opcodes |-> {"Sstore", "Log", "Call", "StaticCall", "Return", "Revert"},
     calls |-> {ACall("a", 0, "good", None), ACall("b", 1, "good", Some(2)),
                ACall("b", 0, "good", None)},
     heirs |-> {}]

\* Initial code that creates, writes, withdraws and deletes itself.
CreationScenario ==
    [world |-> Creators, sequencer |-> Some("b"), ticks |-> 100, max |-> 1,
     transactions |-> {Transaction("create", 1, 12, FALSE)},
     opcodes |-> {"Sstore", "SelfDestruct", "Call", "Create", "Return"},
     calls |-> {ACall("n", 0, "good", None), ACall("withdrawal", 1, "good", None)},
     heirs |-> {"user", "n"}]

\* Two transactions that run out of ticks at any depth.
RetryScenario ==
    [world |-> Callers, sequencer |-> Some("b"), ticks |-> 5, max |-> 2,
     transactions |->
        {Transaction("a", 1, 8, TRUE),
         [Transaction("a", 0, 6, TRUE) EXCEPT !.delayed = TRUE, !.nonce = 1]},
     opcodes |-> {"Sstore", "Call", "Return", "Invalid"},
     calls |-> {ACall("b", 1, "good", None), ACall("b", 0, "good", None)},
     heirs |-> {}]

\* Every precompiled contract, called directly and from a contract.
PrecompileScenario ==
    [world |-> Precompiled, sequencer |-> None, ticks |-> 8, max |-> 1,
     transactions |->
        {Transaction("a", 0, 14, FALSE)}
        \cup {[Transaction(p, 1, 8, FALSE) EXCEPT !.input = i] :
                p \in Precompiles, i \in {"good", "bad", "short"}},
     opcodes |-> {"Call", "Return", "Revert"},
     calls |-> {ACall(p, v, i, None) : p \in Precompiles, v \in 0 .. 1, i \in {"good", "bad"}},
     heirs |-> {}]

\* Contracts created a second time by the same creator collide.
MCNewAddress(creator, nonce) == "n"

MCScenarios == <<CallsScenario, CreationScenario, RetryScenario, PrecompileScenario>>

===============================================================================
