----------------------------- MODULE SaleTerms -----------------------------
(***************************************************************************)
(* What a vault operator agrees to sell, and the intent it signs for       *)
(* (ws/vault/sell.rs, chain/vault/counterparty.rs, ws/vault/client.rs).    *)
(***************************************************************************)
EXTENDS Served

CONSTANTS Vaults, Makers,  \* accounts on chain: vaults by address, maker accounts by owner
          Keeper, Program, Operator, Tables, Bounds

-----------------------------------------------------------------------------
(* Terms of a sale. *)

PutProducts == {"CashSecuredPut", "CashPut", "PutSpread"}
SpreadProducts == {"CashPut", "CallSpread", "PutSpread"}

MarketValid(sale) ==
    LET m == sale.market
    IN /\ sale.market_pda = market_pda(Program, m.underlying_mint, m.quote_mint, m.expiry_ts, m.is_put)
       /\ (sale.terms.product \in PutProducts) = m.is_put

\* A cash put is the put spread from zero on chain.
chain_lower(terms) == IF terms.product = "CashPut" THEN 0 ELSE terms.strike
chain_kind(terms) == IF terms.product = "CashPut" THEN "PutSpread" ELSE terms.product

StrikesValid(sale) ==
    LET t == sale.terms
    IN t.product \in SpreadProducts =>
          /\ t.product # "CashPut" => t.strike # 0
          /\ validate_strikes(chain_kind(t), chain_lower(t), t.upper)

\* The terms the writer signs: the sale's product and size, the quote's price, validity and nonce.
signed_terms(sale, quote) ==
    [underlying_mint |-> sale.market.underlying_mint, quote_mint |-> sale.market.quote_mint,
     expiry_ts |-> sale.market.expiry_ts, side |-> quote.side, quantity |-> sale.quantity,
     price |-> quote.price, valid_until |-> quote.valid_until, nonce |-> quote.nonce,
     kind |-> IF sale.terms.product \in SpreadProducts THEN chain_kind(sale.terms) ELSE "Physical",
     is_put |-> sale.market.is_put, strike |-> sale.terms.strike,
     lower_strike |-> chain_lower(sale.terms), upper_strike |-> sale.terms.upper]

\* Counterparty::load: a vault of the program at the quote's address, else its maker account.
load(owner) ==
    IF owner \in DOMAIN Vaults
    THEN {[op |-> "BetweenVaults", holder |-> h]
          : h \in {x \in from_vault(Program, Vaults[owner].primary_delegate, Vaults[owner]) :
                      x.addresses.vault = owner}}
    ELSE {[op |-> "Sale", maker_owner |-> owner, quote_signer |-> Makers[o].quote_signer]
          : o \in {x \in DOMAIN Makers : x = owner /\ Makers[x].owner = owner}}

sale_intent(counterparty, writer, keeper, terms) ==
    IF counterparty.op = "Sale"
    THEN [op |-> "Sale", writer |-> writer, keeper |-> keeper, maker_owner |-> counterparty.maker_owner,
          quote_signer |-> counterparty.quote_signer, terms |-> terms]
    ELSE [op |-> "BetweenVaults", writer |-> writer, keeper |-> keeper, holder |-> counterparty.holder,
          terms |-> terms]

\* The intent a job signs for; a sale looks its counterparty up, fills and buys bring their own.
Intents(j, quote) ==
    IF j.op = "Sale"
    THEN {sale_intent(c, j.writer, Keeper, signed_terms(j, quote)) : c \in load(quote.maker)}
    ELSE {j.intent}

Participates(intent) == Participant(intent) = Operator

Signs(j, quote, tx) ==
    \E intent \in Intents(j, quote) :
        Participates(intent) /\ verify_vault_open(tx, quote.order_id, intent, Tables, Bounds)
=============================================================================
