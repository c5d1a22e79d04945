------------------------------- MODULE Served -------------------------------
(***************************************************************************)
(* Verification of a transaction the server built, before the operator     *)
(* signs it (chain/vault/served.rs).                                       *)
(*                                                                         *)
(* A transaction is its compiled message: the header counts, the static    *)
(* keys, the lookups, and instructions that name accounts by their index   *)
(* in the key list.  The byte reader is abstracted to "trailing" and the   *)
(* counts; indexes start at 1.  Refusals are empty sets, as in             *)
(* VaultAccounts.                                                          *)
(***************************************************************************)
EXTENDS VaultTrading

CONSTANTS MaxComputeUnits,   \* MAX_COMPUTE_UNIT_LIMIT
          MaxWire            \* MAX_TRANSACTION_WIRE_BYTES

ComputeBudget == <<"program", "compute_budget">>
Ed25519 == <<"program", "ed25519">>
-----------------------------------------------------------------------------
(* Decoding. *)

\* CompiledMessage::decode: the header must cover a writable payer and fit the static keys.
HeaderValid(tx) ==
    /\ tx.signatures = tx.required
    /\ tx.ro_signed < tx.required
    /\ tx.required + tx.ro_unsigned <= Len(tx.static)
    /\ ~tx.trailing
    /\ tx.lookups # <<>> => tx.version0

StaticMeta(tx, i) ==
    IF i <= tx.required
    THEN Meta(tx.static[i], TRUE, i <= tx.required - tx.ro_signed)
    ELSE Meta(tx.static[i], FALSE, i <= Len(tx.static) - tx.ro_unsigned)

Loaded(table, indexes, writable) ==
    [i \in DOMAIN indexes |-> Meta(table[indexes[i]], FALSE, writable)]

Resolves(tx, tables) ==
    \A i \in DOMAIN tx.lookups :
        LET l == tx.lookups[i]
        IN /\ l.table \in DOMAIN tables
           /\ Range(l.writable) \cup Range(l.readonly) \subseteq DOMAIN tables[l.table]

\* The static keys, then every table's writable keys, then every table's read-only keys.
MessageKeys(tx, tables) ==
    LET side(w) ==
          Joined(LAMBDA i : LET l == tx.lookups[i]
                            IN Loaded(tables[l.table], IF w THEN l.writable ELSE l.readonly, w),
                 Len(tx.lookups))
    IN Listed([i \in DOMAIN tx.static |-> StaticMeta(tx, i)]) \o side(TRUE) \o side(FALSE)

IndexesValid(tx, n) ==
    \A i \in DOMAIN tx.ixs : {tx.ixs[i].program} \cup Range(tx.ixs[i].accounts) \subseteq 1..n

decode(tx, tables) ==
    {[keys |-> keys, static |-> Range(tx.static), version0 |-> tx.version0,
      has_lookup |-> \E i \in DOMAIN tx.lookups : tx.lookups[i].writable \o tx.lookups[i].readonly # <<>>,
      wire_len |-> tx.wire_len,
      instructions |-> Listed([i \in DOMAIN tx.ixs |->
          Instruction(keys[tx.ixs[i].program].key,
                      Listed([j \in DOMAIN tx.ixs[i].accounts |-> keys[tx.ixs[i].accounts[j]]]),
                      tx.ixs[i].data)]),
      signers |-> SubSeq(tx.static, 1, tx.required)]
     : keys \in {k \in {MessageKeys(tx, tables) : ok \in {TRUE} \cap {HeaderValid(tx) /\ Resolves(tx, tables)}} :
                    Cardinality(KeysOf(k)) = Len(k) /\ IndexesValid(tx, Len(k))}}

require_vault_open_wire_shape(s) == s.version0 /\ s.has_lookup /\ s.wire_len <= MaxWire

\* The first two instructions, when they are one limit and one price inside the bounds.
compute_budget(s, bounds) ==
    {SubSeq(s.instructions, 1, 2)
     : ok \in {TRUE} \cap
        {/\ Len(s.instructions) >= 2
         /\ \A i \in 1..2 : /\ s.instructions[i].program = ComputeBudget
                            /\ s.instructions[i].accounts = <<>>
                            /\ s.instructions[i].data[1] = <<"limit", "price">>[i]
         /\ s.instructions[1].data[2] \in
              1..(IF bounds.limit < MaxComputeUnits THEN bounds.limit ELSE MaxComputeUnits)
         /\ s.instructions[2].data[2] <= bounds.price}}

\* A signature is the pair it was made from; it verifies when it is the signer's over the order.
SignatureOf(signer, order) == <<"signature", signer, order>>

quote_signature(s, i, signer, order) ==
    {s.instructions[i]
     : ok \in {TRUE} \cap
        {/\ i \in DOMAIN s.instructions
         /\ s.instructions[i].program = Ed25519
         /\ s.instructions[i].accounts = <<>>
         /\ s.instructions[i].data[1] = "inline"
         /\ s.instructions[i].data[2] = signer
         /\ s.instructions[i].data[4] = order
         /\ s.instructions[i].data[3] = SignatureOf(signer, order)}}

-----------------------------------------------------------------------------
(* Matching. *)

Metas(ixs) == UNION {{ixs[i].accounts[j] : j \in DOMAIN ixs[i].accounts} : i \in DOMAIN ixs}

\* The privileges the expected instructions give a key, merged over every use of it.
Flags(key, payer, metas) ==
    Meta(key, key = payer \/ \E m \in metas : m.key = key /\ m.signer,
              key = payer \/ \E m \in metas : m.key = key /\ m.writable)

InstructionMatches(served, want, payer, metas) ==
    /\ served.program = want.program
    /\ Len(served.accounts) = Len(want.accounts)
    /\ \A j \in DOMAIN want.accounts :
         served.accounts[j] = Flags(want.accounts[j].key, payer, metas)
    /\ served.data = want.data

\* Mutant of NothingElse: keys that no instruction uses are let through.
UsedKeysOnly(s, payer, ixs, metas) ==
    \A i \in DOMAIN s.keys :
        (\E m \in metas : m.key = s.keys[i].key) => s.keys[i] = Flags(s.keys[i].key, payer, metas)

\* Every key of the message is expected, with exactly the privileges the instructions need.
NothingElse(s, payer, ixs, metas) ==
    \A i \in DOMAIN s.keys :
        /\ s.keys[i].key \in {payer} \cup {m.key : m \in metas} \cup {ixs[j].program : j \in DOMAIN ixs}
        /\ s.keys[i] = Flags(s.keys[i].key, payer, metas)

matches(s, payer, ixs) ==
    \E metas \in {Metas(ixs)} :
        /\ s.keys[1].key = payer
        /\ Len(s.instructions) = Len(ixs)
        /\ \A i \in DOMAIN ixs : InstructionMatches(s.instructions[i], ixs[i], payer, metas)
        /\ NothingElse(s, payer, ixs, metas)

-----------------------------------------------------------------------------
(* Opens.  An intent is [op, keeper, writer | holder, maker_owner | taker, quote_signer, terms]. *)

Physical(intent) == intent.terms.kind = "Physical"

OpenOf(i) ==
    CASE i.op = "Sale" ->
           IF Physical(i) THEN open_position_as_writer(i.writer, i.keeper, i.maker_owner, i.terms)
                          ELSE open_spread_as_writer(i.writer, i.keeper, i.maker_owner, i.terms)
      [] i.op = "BetweenVaults" ->
           IF Physical(i) THEN open_position_with_vault_holder(i.writer, i.keeper, i.holder, i.terms)
                          ELSE open_spread_with_vault_holder(i.writer, i.keeper, i.holder, i.terms)
      [] i.op = "Fill" ->
           IF Physical(i) THEN open_position_as_holder(i.holder, i.keeper, i.taker, i.terms)
                          ELSE open_spread_as_holder(i.holder, i.keeper, i.taker, i.terms)
      [] i.op = "Buy" ->
           IF Physical(i) THEN open_position_for_wallet_holder(i.writer, i.keeper, i.taker, i.terms)
                          ELSE open_spread_for_wallet_holder(i.writer, i.keeper, i.taker, i.terms)

Participant(i) == IF i.op \in {"Sale", "BetweenVaults"} THEN i.writer.args.actor ELSE i.taker

QuoteSigner(i) ==
    CASE i.op = "Sale" -> i.quote_signer
      [] i.op = "Buy" -> i.writer.args.delegate_authority
      [] OTHER -> i.holder.args.delegate_authority

\* A fill first makes sure the taker can receive the premium in the quote mint.
TakerAta(i) ==
    IF i.op # "Fill" THEN <<>>
    ELSE LET a == i.holder.args
             main == a.main_mint = i.terms.quote_mint
         IN <<create_ata_idempotent(i.keeper, i.taker,
                IF main THEN a.main_mint ELSE a.second_mint,
                IF main THEN a.main_token_program ELSE a.second_token_program)>>

CollateralAta(i, open) ==
    <<create_ata_idempotent(i.keeper, open.addresses.position, open.addresses.collateral_mint,
                            open.addresses.collateral_token_program)>>

RequiredStatic(i, open, ixs) ==
    {i.keeper, Participant(i), open.addresses.position, open.addresses.collateral_ata}
    \cup {ixs[j].program : j \in DOMAIN ixs}
    \cup {m.key : m \in {x \in Metas(ixs) : x.signer}}

verify_vault_open(tx, order, intent, tables, bounds) ==
    \E s \in decode(tx, tables) : \E open \in OpenOf(intent) : \E budget \in compute_budget(s, bounds) :
      \E setup \in {budget \o TakerAta(intent) \o CollateralAta(intent, open)} :
        /\ require_vault_open_wire_shape(s)
        /\ open.order_id = order
        /\ \E quote \in quote_signature(s, Len(setup) + 1, QuoteSigner(intent), open.order_id) :
             \E ixs \in {setup \o <<quote, open.instruction>>} :
                /\ RequiredStatic(intent, open, ixs) \subseteq s.static
                /\ matches(s, intent.keeper, ixs)
=============================================================================
