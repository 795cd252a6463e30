----------------------------- MODULE EvmAccount -----------------------------
(***************************************************************************)
(* The signing account of a deployment as an EVM chain sees it.  The chain  *)
(* and its RPC node are external: they are modelled by what the code in      *)
(* commands/deploy/hardened asks of them (transaction counts, receipts,      *)
(* block hashes, the latest and the finalized block, raw broadcasts).        *)
(*                                                                         *)
(* An account's history is indexed by nonce, so `hist[n]` is the canonical   *)
(* inclusion of the transaction that consumed nonce n (the code's nonces     *)
(* start at 0, these at 1).  A block is identified by its height and the     *)
(* fork it was mined on, which stands for its hash.                          *)
(***************************************************************************)
EXTENDS Integers, Sequences, FiniteSets

CONSTANTS
    Keys,         \* the deployment's action keys, "<step>/<label>"
    Foreign,      \* the key of a transaction the deployment did not sign
    MaxHead,      \* bound on the height of the chain
    MaxReorgs,    \* bound on the number of reorganizations
    MaxForeign,   \* bound on the transactions of other programs
    MaxDrops      \* bound on the transactions the mempool forgets

ASSUME ForeignAssumption == Foreign \notin Keys
ASSUME BoundsAssumption == {MaxHead, MaxReorgs, MaxForeign, MaxDrops} \subseteq Nat

VARIABLES
    hist,    \* the canonical inclusions, indexed by nonce
    head,    \* the height of the latest block
    final,   \* the height of the finalized block
    fork,    \* how many times the chain was reorganized
    pool,    \* signed transactions the network can still include
    drops    \* how many transactions the mempool forgot

chainVars == <<hist, head, final, fork, pool, drops>>

\* A signed transaction: its bytes are fixed by what it does, its nonce and its
\* maximum fee, so two equal records are one transaction hash.
Tx == [key : Keys, nonce : Nat \ {0}, cost : Nat]

\* A transaction that consumed a nonce, the deployment's own or not.
AnyTx == [key : Keys \cup {Foreign}, nonce : Nat, cost : Nat]

\* A receipt: the transaction, its status, and the block that contains it.
Receipt == [tx : AnyTx, ok : BOOLEAN, height : Nat, fork : Nat]

ForeignTx(n) == [key |-> Foreign, nonce |-> n, cost |-> 0]

ChainTypeOK ==
    /\ hist \in Seq(Receipt)
    /\ head \in Nat
    /\ final \in Nat
    /\ fork \in Nat
    /\ pool \in SUBSET Tx
    /\ drops \in Nat

ChainInit ==
    /\ hist = <<>>
    /\ head = 0
    /\ final = 0
    /\ fork = 0
    /\ pool = {}
    /\ drops = 0

-----------------------------------------------------------------------------
(* What an RPC node answers.  A node may lag: it answers from the canonical   *)
(* chain as it was at some height h between 0 and the head.                   *)

Heights == 0 .. head

SeenNonces(h) == {i \in DOMAIN hist : hist[i].height <= h}

\* The inclusions a node at height h knows (eth_getTransactionReceipt).
Seen(h) == {hist[i] : i \in SeenNonces(h)}

\* eth_getTransactionCount at the latest block.
Count(h) == Cardinality(SeenNonces(h))

\* The receipt's block is the canonical block of its height: its hash matches.
IsCanonical(r, h) == r \in Seen(h)

\* eth_getTransactionCount at the pending block: the node may or may not have
\* the pooled transactions that continue the account's sequence.
NextNonces(h) ==
    {n \in Count(h) + 1 .. Count(h) + 1 + Cardinality(pool) :
        \A m \in Count(h) + 1 .. n - 1 : \E t \in pool : t.nonce = m}

-----------------------------------------------------------------------------
(* The chain's own steps.                                                    *)

\* The next block holds the tx that has the account's next nonce; its execution
\* may revert, which still consumes the nonce.
Include(t, ok) ==
    /\ head < MaxHead
    /\ t.nonce = Len(hist) + 1
    /\ head' = head + 1
    /\ hist' = Append(hist, [tx |-> t, ok |-> ok, height |-> head + 1, fork |-> fork])
    /\ UNCHANGED <<final, fork, pool, drops>>

IncludePooled == \E t \in pool, ok \in BOOLEAN : Include(t, ok)

\* Another program that holds the same key uses the next nonce.
IncludeForeign ==
    /\ Cardinality({i \in DOMAIN hist : hist[i].tx.key = Foreign}) < MaxForeign
    /\ Include(ForeignTx(Len(hist) + 1), TRUE)

\* A block without a transaction of this account.
Mine ==
    /\ head < MaxHead
    /\ head' = head + 1
    /\ UNCHANGED <<hist, final, fork, pool, drops>>

Finalize ==
    /\ final < head
    /\ final' = final + 1
    /\ UNCHANGED <<hist, head, fork, pool, drops>>

\* The blocks above height h, never a finalized one, leave the canonical chain,
\* and with them every inclusion after the n-th.  Their transactions stay in the
\* pool unless Forget removes them.
Reorg(h, n) ==
    /\ fork < MaxReorgs
    /\ \A i \in DOMAIN hist : hist[i].height <= h <=> i <= n
    /\ head' = h
    /\ fork' = fork + 1
    /\ hist' = SubSeq(hist, 1, n)
    /\ UNCHANGED <<final, pool, drops>>

ReorgSome == \E h \in final .. head - 1, n \in 0 .. Len(hist) : Reorg(h, n)

\* The network forgets a transaction that is not in the canonical chain.
Forget(t) ==
    /\ drops < MaxDrops
    /\ \A i \in DOMAIN hist : hist[i].tx # t
    /\ pool' = pool \ {t}
    /\ drops' = drops + 1
    /\ UNCHANGED <<hist, head, final, fork>>

ForgetSome == \E t \in pool : Forget(t)

ChainNext ==
    \/ IncludePooled
    \/ IncludeForeign
    \/ Mine
    \/ Finalize
    \/ ReorgSome
    \/ ForgetSome

=============================================================================
