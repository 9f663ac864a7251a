---------------------------- MODULE MCBlockBuild ----------------------------
(***************************************************************************)
(* Prefixes on both sides of every length check, with a one-byte and a     *)
(* three-byte VarInt; two that are not laid out as documented; coinbases   *)
(* that differ in the witness only; and transaction lists whose trees have *)
(* one to four levels, full, odd on one or on two of them, and two that    *)
(* repeat their last transaction where an odd level does so anyway.        *)
(***************************************************************************)
EXTENDS BlockBuild

Prefix(len, size, script, documented) ==
    [len |-> len, script_size |-> size, script |-> script, documented |-> documented]
Suffix(outputs, tail) == [outputs |-> outputs, tail |-> tail]
Job(prefix, suffix, txs, version) ==
    [prefix |-> prefix, suffix |-> suffix, txs |-> txs, version |-> version]

Usual == Prefix(46, 4, "pool", TRUE)
ThreeBytes == Prefix(46 + 251, 253, "long", TRUE)
NoHole == Prefix(48, 4, "pool", TRUE)
\* The extranonce of the first is read as a number of outputs, say, which zeros
\* survive; that of the second is past the part that is hashed.
Counted == Prefix(46, 4, "pool", FALSE)
Unhashed == Prefix(47, 5, "pool", FALSE)
Rejected == {Prefix(42, 4, None, TRUE), Prefix(43, 4, None, TRUE), Prefix(49, 4, "pool", TRUE),
             Prefix(45, 253, None, TRUE)}

MCMisread(coinbase) ==
    IF coinbase.prefix = Counted /\ coinbase.extranonce.value # 0 THEN None
    ELSE <<coinbase.prefix, coinbase.suffix>>

Witness == Suffix("outputs", "witness")
OtherWitness == Suffix("outputs", "other")

MCTxLists == {<<>>, <<"a">>, <<"a", "b">>, <<"b", "a">>, <<"a", "b", "b">>, <<"a", "b", "c">>,
              <<"a", "b", "c", "d">>, <<"a", "b", "c", "d", "d">>}
MCPmts == MCTxLists \cup {<<"undecodable">>, <<"a", "undecodable", "b">>}
MCJobs ==
    {Job(Usual, Witness, txs, 1) : txs \in MCTxLists}
    \cup {Job(prefix, Witness, txs, 1) : prefix \in {ThreeBytes, NoHole, Counted, Unhashed} \cup Rejected,
                                       txs \in {<<"a", "b">>, <<"a", "b", "b">>}}
    \cup {Job(Usual, OtherWitness, txs, 1) : txs \in {<<>>, <<"a", "b">>}}
    \cup {Job(Usual, Witness, <<"a", "b">>, 2), Job(Usual, Suffix("garbled", "witness"), <<>>, 1)}
MCExtranonces == {[len |-> 2, value |-> 0], [len |-> 2, value |-> 7], [len |-> 0, value |-> 0]}
MCSymmetry == Permutations(RequestIds)
=============================================================================
