----------------------------- MODULE MCMempool -----------------------------
(* Instance of Mempool: a transaction, its child, and a rival of the first   *)
(* that needs the solutions of the third height or above.                    *)
EXTENDS Mempool, TLC

CONSTANTS a, child, rival, s1, s2

ThreeTxs == {a, child, rival}
ParentOf == (a :> NoTx) @@ (child :> a) @@ (rival :> NoTx)
RivalsOf == (a :> {rival}) @@ (child :> {}) @@ (rival :> {a})
Validity == (a :> -1 .. MaxHeight + 1) @@ (child :> -1 .. MaxHeight + 1) @@ (rival :> 3 .. MaxHeight + 1)
JustA == {a}
OnePackage == {<<a, child>>}
TwoSlots == {s1, s2}
SlotsAlike == Permutations(TwoSlots)
B(c, p, t) == [chain |-> c, pool |-> p, troubles |-> t]
PoolOrChain == {B(0, 3, 0), B(0, 2, 1), B(1, 1, 1), B(2, 0, 2), B(3, 0, 0)}
InfoOf == <<[floor |-> 1, size |-> 100, occ |-> 1], [floor |-> 2, size |-> 5000, occ |-> 4],
            [floor |-> 8, size |-> 5000, occ |-> 30]>>
=============================================================================
