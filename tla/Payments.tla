------------------------------- MODULE Payments -------------------------------
(***************************************************************************)
(* What a wallet is told and given: its balance and the inputs of a new    *)
(* payment, taken from the unspent outputs and, when these are too few,    *)
(* from the outputs of transactions in the pool.  Both only read the       *)
(* caches of Ledger; CreateTransaction signs the payment and hands it to   *)
(* ReceivedNewTransaction.                                                 *)
(***************************************************************************)
EXTENDS Ledger, FiniteSetsExt

CONSTANTS
    Key,        \* keys of wallets
    KeyOf,      \* output -> the key it is locked with, which signs its use
    Value       \* output -> its amount

ASSUME PaymentAssumption ==
    /\ KeyOf \in [Output -> Key]
    /\ Value \in [Output -> Nat \ {0}]

Total(outputs) == MapThenSumSet(LAMBDA o : Value[o], outputs)
Locked(outputs, key) == {o \in outputs : KeyOf[o] = key}

(***************************************************************************)
(* The pool (GetPreparedBy)                                                *)
(***************************************************************************)

PendingInputs(key) == Locked(UNION {Inputs(t) : t \in pool}, key)
PendingOutputs(key) == Locked(UNION {Outputs(t) : t \in pool}, key)

\* Outputs of the pool no transaction of it uses, and inputs that are not
\* outputs of the pool.
RealOutputs(key) == PendingOutputs(key) \ PendingInputs(key)
ApprovedInputs(key) == PendingInputs(key) \ PendingOutputs(key)

(***************************************************************************)
(* Balance                                                                 *)
(***************************************************************************)

\* GetInputValue fails for an input that is not unspent, and with it the
\* whole query.
BalanceFails(key) == ~ApprovedInputs(key) \subseteq DOMAIN utxo

ApprovedBalance(key) == Total(Locked(DOMAIN utxo, key))

\* Mutant: what the wallet has spent is not taken off.
PendingReceived(key) == Total(RealOutputs(key))

PendingBalance(key) == Total(RealOutputs(key)) - Total(ApprovedInputs(key))

GetAddressBalance(key) == ApprovedBalance(key) + PendingBalance(key)

(***************************************************************************)
(* A new payment                                                           *)
(***************************************************************************)

\* Outputs are taken one after the other until the amount is reached.
TakenUntil(outputs, missing) ==
    {c \in SUBSET outputs :
        /\ Total(c) >= missing
        /\ \E o \in c : Total(c \ {o}) < missing}

\* Mutant: what pending transactions use is offered again.
OfferUsed(key, amount) ==
    LET free == Locked(DOMAIN utxo, key)
    IN  IF Total(free) < amount THEN {free} ELSE TakenUntil(free, amount)

\* The smallest outputs first; any order of equal ones.
ChooseSpendableOutputs(key, amount) ==
    LET free == Locked(DOMAIN utxo, key) \ PendingInputs(key)
    IN  IF Total(free) < amount THEN {free}
        ELSE {c \in TakenUntil(free, amount) :
                /\ \A o \in c, p \in free \ c : Value[o] <= Value[p]
                /\ \E o \in c : /\ \A p \in c : Value[p] <= Value[o]
                                /\ Total(c \ {o}) < amount}

\* In the order of the pool, which is that of hashes: any.
ExtendNewTransactionInputs(key, missing) ==
    IF Total(RealOutputs(key)) < missing THEN {}
    ELSE TakenUntil(RealOutputs(key), missing)

\* The inputs a payment may get, the approved and the pending ones; none when
\* the funds are too small or a block of an approved one cannot be read.
PrepareNewTransaction(key, amount) ==
    UNION {IF \E o \in c : utxo[o] \notin known THEN {}
           ELSE IF Total(c) >= amount THEN {[approved |-> c, pending |-> {}]}
           ELSE [approved : {c},
                 pending : ExtendNewTransactionInputs(key, amount - Total(c))]
        : c \in ChooseSpendableOutputs(key, amount)}

(***************************************************************************)
(* Properties                                                              *)
(***************************************************************************)

\* A payment that could be prepared is accepted by the pool at once, whatever
\* branches came and went before: no input is offered twice, none is spent or
\* used by another transaction of the pool (PrepareNewTransaction,
\* ReceivedNewTransaction).
PaymentAccepted ==
    Idle => \A key \in Key :
        \A amount \in 1 .. Total(Locked(Output, key)) :
            \A p \in PrepareNewTransaction(key, amount) :
                /\ p.approved \cap p.pending = {}
                /\ \A in \in p.approved \cup p.pending :
                      /\ InputExists(in)
                      /\ \A t \in pool : in \notin Inputs(t)

\* A wallet can spend the balance it is shown, and no more: the balance counts
\* no output twice and none that a payment could not use.
BalanceIsSpendable ==
    Idle => \A key \in Key : ~BalanceFails(key) =>
        \A amount \in 1 .. Total(Locked(Output, key)) :
            amount <= GetAddressBalance(key) <=>
                PrepareNewTransaction(key, amount) # {}

===============================================================================
