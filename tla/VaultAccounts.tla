--------------------------- MODULE VaultAccounts ---------------------------
(***************************************************************************)
(* Accounts and instructions of the vault program (chain/vault/pda.rs,     *)
(* manager.rs, account.rs, ix.rs).                                         *)
(*                                                                         *)
(* A public key is a tuple tagged with what it names.  A program derived   *)
(* address is the tuple of its seeds under its program, so two addresses   *)
(* are equal exactly when the seeds are; the bump search and the hash are  *)
(* left out.  A fallible constructor returns the set of what it built:     *)
(* empty when the code returns an error.                                   *)
(***************************************************************************)
EXTENDS Naturals, Sequences, FiniteSets, FiniteSetsExt

Default == <<"default">>
System == <<"program", "system">>
Ata == <<"program", "associated_token">>
Token == <<"program", "token">>
Token2022 == <<"program", "token_2022">>
TokenPrograms == {Token, Token2022}

ata(owner, mint, program) == <<"ata", owner, mint, program>>

global_config(program) == <<"global_config", program>>
price_route(program, mint) == <<"price_route", program, mint>>
swap_venues(program) == <<"swap_venues", program>>
vault_of(program, id) == <<"vault", program, id>>
vault_policy(program, vault) == <<"vault_policy", program, vault>>
vault_delegate(program, vault, delegate) == <<"vault_delegate", program, vault, delegate>>
manager_stake(program, vault) == <<"manager_stake", program, vault>>
deposit_request(program, vault, user) == <<"deposit_request", program, vault, user>>
deposit_escrow(program, vault, user) == <<"deposit_escrow", program, vault, user>>
withdraw_request(program, vault, user) == <<"withdraw_request", program, vault, user>>
withdraw_escrow(program, vault, user) == <<"withdraw_escrow", program, vault, user>>
pending_update(program, vault, kind) == <<"pending_update", program, vault, kind>>
position_of(program, order) == <<"position", program, order>>
premium_config(program, mint) == <<"config", program, mint>>
maker_pda(program, owner) == <<"maker", program, owner>>
market_pda(program, underlying, quote, expiry, put) ==
    <<"market", program, underlying, quote, expiry, put>>

\* AccountMeta: a key and the privileges an instruction asks for it.
Meta(key, signer, writable) == [key |-> key, signer |-> signer, writable |-> writable]
W(key) == Meta(key, FALSE, TRUE)
R(key) == Meta(key, FALSE, FALSE)
SW(key) == Meta(key, TRUE, TRUE)
SR(key) == Meta(key, TRUE, FALSE)
\* The sequence with these elements, as a tuple (TLC evaluates a function on every application).
Listed(f) == <<>> \o f

\* The lists of 1, ..., n end to end.
Joined(list(_), n) == MapThenFoldSet(LAMBDA next, acc : acc \o next, <<>>, list, Max, 1..n)

Writes(keys) == Listed([i \in DOMAIN keys |-> W(keys[i])])
Reads(keys) == Listed([i \in DOMAIN keys |-> R(keys[i])])

Instruction(program, accounts, data) ==
    [program |-> program, accounts |-> accounts, data |-> data]

KeysOf(metas) == {metas[i].key : i \in DOMAIN metas}

create_ata_idempotent(payer, owner, mint, program) ==
    Instruction(Ata, <<SW(payer), W(ata(owner, mint, program))>>
                     \o Reads(<<owner, mint, System, program>>), <<"create_idempotent">>)

StakePools == {<<"program", "stake_pool">>}

\* k: the pool, its validator list, reserve, fee account, mint and token program.
update_stake_pool_balance(program, k) ==
    Instruction(program,
        <<W(k[1]), R(<<"withdraw_authority", program, k[1]>>), W(k[2]), R(k[3]), W(k[4]), W(k[5]), R(k[6])>>,
        <<"update_stake_pool_balance">>)

-----------------------------------------------------------------------------
(* VaultManager: the addresses of one vault as its account last named them. *)

ManagerArgsValid(a) ==
    /\ Default \notin {a.vault_id, a.actor, a.delegate_authority}
    /\ Cardinality({a.main_mint, a.second_mint, a.share_mint}) = 3
    /\ {a.main_token_program, a.second_token_program} \subseteq TokenPrograms

Addresses(a) ==
    LET p == a.program_id
        vault == vault_of(p, a.vault_id)
        stake == manager_stake(p, vault)
    IN [vault |-> vault,
        policy |-> vault_policy(p, vault),
        delegate |-> vault_delegate(p, vault, a.delegate_authority),
        global_config |-> global_config(p),
        swap_venues |-> swap_venues(p),
        main_price_route |-> price_route(p, a.main_mint),
        second_price_route |-> price_route(p, a.second_mint),
        vault_main_ata |-> ata(vault, a.main_mint, a.main_token_program),
        vault_second_ata |-> ata(vault, a.second_mint, a.second_token_program),
        manager_stake_ata |-> ata(stake, a.share_mint, Token)]

Manager(a) == {[args |-> x, addresses |-> Addresses(x)] : x \in {y \in {a} : ManagerArgsValid(y)}}

from_vault(program, actor, v) ==
    Manager([program_id |-> program, vault_id |-> v.vault_id, actor |-> actor,
             delegate_authority |-> v.primary_delegate,
             main_mint |-> v.main_mint, second_mint |-> v.second_mint,
             share_mint |-> v.share_mint, main_token_program |-> v.main_token_program,
             second_token_program |-> v.second_token_program,
             second_leg_generation |-> v.second_leg_generation])

SecondLegIs(m, v) ==
    /\ v.second_leg_generation = m.args.second_leg_generation
    /\ v.second_mint = m.args.second_mint
    /\ v.second_token_program = m.args.second_token_program

ensure_current(m, v) == v.vault_id = m.args.vault_id /\ SecondLegIs(m, v)

VaultInstruction(m, tag, accounts, args) ==
    Instruction(m.args.program_id, accounts, <<tag>> \o args)
=============================================================================
