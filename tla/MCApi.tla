------------------------------- MODULE MCApi -------------------------------
(* The parts that read and decode, for TLC: the cursor lists (ReadApi), the *)
(* audit endpoints with their codec (AgentAudit, CborEncoder), the EVM      *)
(* requests (EvmApi), the client of the node (Web3Client) and the registry  *)
(* of the runtimes that blocks are decoded with (RuntimeRegistry).  They    *)
(* share no state, so a behaviour is one of one part.                       *)
EXTENDS ReadApi, AgentAudit, CborEncoder, EvmApi, Web3Client, RuntimeRegistry

VARIABLE part

vars == <<part, readVars, auditVars, received, apiVars, web3Vars, registryVars>>

-----------------------------------------------------------------------------
MCAccountOrder == [id \in 0 .. 99 |-> id]

\* The audit logs: rows of three blocks and of both versions before a root of
\* each, two logs with one block and index, one of another operator.  Of the rows
\* below the second root the later one is of the earlier transaction.
Log(id, block, tx, index, event, kind, hash) ==
    [id |-> id, block |-> block, tx |-> tx, index |-> index, event |-> event, topics |-> 4, words |-> 3,
     operator |-> "op", actor |-> "act", kind |-> kind, hash |-> hash, merkle |-> "none",
     count |-> 0, bitmap |-> {}]
Root(id, block, event, count, bitmap, merkle) ==
    [Log(id, block, 0, 0, event, 0, "none") EXCEPT !.topics = 3, !.words = 2, !.count = count,
                                                   !.bitmap = bitmap, !.merkle = merkle]
MCAuditLogs ==
    {Log(1, 2, 0, 1, "v2", 0, "h1"), Log(2, 2, 0, 0, "v2", 21, "h2"), Root(3, 3, "rootV2", 2, {0, 21}, "m1"),
     Log(4, 4, 1, 0, "current", 0, "h1"), Log(5, 4, 0, 1, "current", 40, "h4"),
     Root(6, 5, "rootCurrent", 2, {}, "m2"), Log(8, 4, 2, 0, "v2", 21, "h2"),
     [Log(7, 1, 0, 1, "v2", 0, "h1") EXCEPT !.operator = "other"]}
\* Of two rows that are tied the database returns either one first.
MCTieOrders == {[l \in MCAuditLogs |-> l.id], [l \in MCAuditLogs |-> 9 - l.id]}
MCHashOf     == ("b1" :> "h1") @@ ("b4" :> "h4")
Envelope(kind, actor) ==
    [version |-> 1, kind |-> kind, result |-> 0, operator |-> "op", actor |-> actor,
     fields |-> [f \in DOMAIN EnvelopeFields |-> CHOOSE k \in EnvelopeFields[f] : TRUE],
     body |-> opKindSpecs[kind]]
MCEnvelopeOf == ("b1" :> Envelope(0, "act")) @@ ("b4" :> Envelope(40, "x"))

\* Filters of getLogs: every set of topics with at most one "and", the full sets
\* and the pairs with an "or", and some with several.
Opr(S, T)  == [p \in Pairs |-> IF p \in S THEN "and" ELSE IF p \in T THEN "or" ELSE ""]
Filter(t, o, c) == [topic |-> t, opr |-> o, capital |-> c, fromBlock |-> 0, toBlock |-> 0]
Given(S)   == [i \in Topics |-> IF i \in S THEN "a" ELSE ""]
MCLogFilters ==
    {Filter(Given(S), Opr(P, {}), 3 \in S) : S \in SUBSET Topics, P \in {{}} \cup {{p} : p \in Pairs}}
    \cup {Filter(Given(Topics), Opr({}, {p}), TRUE) : p \in Pairs}
    \cup {Filter(Given({p[1], p[2]}), Opr({}, {p}), p[2] = 3) : p \in Pairs}
    \cup {Filter(Given(Topics), Opr({<<0, 1>>}, {<<2, 3>>}), c) : c \in BOOLEAN}
    \cup {Filter(Given({0, 1, 2}), Opr({<<0, 1>>, <<1, 2>>}, {}), FALSE),
          Filter(Given({0, 3}), Opr({<<0, 3>>}, {}), FALSE),
          [NoFilter EXCEPT !.fromBlock = 2], [NoFilter EXCEPT !.toBlock = 1]}
LogOf(b, S) == [block |-> b, topics |-> [i \in Topics |-> IF i \in S THEN "a" ELSE "b"]]
MCApiLogs   == <<LogOf(1, {0}), LogOf(1, {0, 1}), LogOf(1, {1, 2}),
                 LogOf(2, {0, 1, 2, 3}), LogOf(2, {0, 2}), LogOf(2, {3})>>
MCAddressLists ==
    {<<<<1, 1>>, <<1, 2>>>>, <<<<1, 1>>, <<2, 1>>>>, <<<<1, 1>>, <<9, 1>>>>, <<<<1, 1>>, <<1, 1>>>>}

MCNodeMethods == Calls

\* The spec and the session both change, one block after the other.
Runtime(spec, session) == [spec |-> spec, session |-> session]
MCRuntimes == <<Runtime(1, 1), Runtime(1, 2), Runtime(2, 2)>>

\* The goroutines of every part are taken from one set.
Interchangeable == Permutations(Indexers \cup Clients \cup Callers \cup Fillers)

-----------------------------------------------------------------------------
Init ==
    /\ part \in {"reads", "audit", "cbor", "api", "web3", "registry"}
    /\ ReadInit /\ CborInit /\ ApiInit /\ Web3Init /\ RegistryInit
    /\ AuditInit({AnyKind, 0})
    /\ part # "audit" => endpoint = "envelopes"

Next ==
    \/ part = "reads" /\ ReadNext /\ UNCHANGED <<part, auditVars, received, apiVars, web3Vars, registryVars>>
    \/ part = "audit" /\ AuditNext /\ UNCHANGED <<part, readVars, received, apiVars, web3Vars, registryVars>>
    \/ part = "cbor" /\ CborNext /\ UNCHANGED <<part, readVars, auditVars, apiVars, web3Vars, registryVars>>
    \/ part = "api" /\ ApiNext /\ UNCHANGED <<part, readVars, auditVars, received, web3Vars, registryVars>>
    \/ part = "web3" /\ Web3Next /\ UNCHANGED <<part, readVars, auditVars, received, apiVars, registryVars>>
    \/ part = "registry" /\ RegistryNext
       /\ UNCHANGED <<part, readVars, auditVars, received, apiVars, web3Vars>>

Spec == Init /\ [][Next]_vars
=============================================================================
