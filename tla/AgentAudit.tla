----------------------------- MODULE AgentAudit -----------------------------
(***************************************************************************)
(* The audit endpoints: the logs of the CredentialAudit contract that the  *)
(* EVM plugin has stored, decoded and joined with the envelopes a worker   *)
(* serves by their hash.  A client walks the rows of one operator by       *)
(* cursor while blocks are stored; others ask for one envelope, or for the *)
(* leaves of a root.  Envelopes are cached for good in this process.       *)
(*                                                                         *)
(* A log is a record of the constant AuditLogs: tx is the place of its     *)
(* transaction in the block, index counts the logs of its transaction, not *)
(* of its block.  Body bytes are a model value whose hash and content are  *)
(* constants.                                                              *)
(***************************************************************************)
EXTENDS Naturals, FiniteSets, SequencesExt

CONSTANTS
    AuditLogs,     \* the contract's logs
    TieOrders,     \* orders of the logs that the database may use where ORDER BY leaves a choice
    AuditBlocks,   \* numbers of the blocks they are in; the genesis block has none
    Operator,      \* the operator whose rows and roots are read
    Bodies,        \* byte strings the worker may serve
    HashOf,        \* HashOf[b]: the hash of body b
    EnvelopeOf,    \* EnvelopeOf[b]: what body b decodes to
    Clients,       \* requests for one envelope
    MaxLimit,      \* bound: rows of one page
    MaxAnswers     \* bound: wrong answers of the worker

\* What normalizeHexHash leaves of a path without a hash.
NoHash == ""

ASSUME AuditAssumption ==
    /\ IsFiniteSet(AuditLogs)
    /\ \A l \in AuditLogs : /\ l.block \in AuditBlocks /\ l.tx \in Nat /\ l.index \in Nat
                           /\ l.id \in Nat /\ l.count \in Nat /\ l.hash # NoHash
    /\ \A l, m \in AuditLogs :
         l.id = m.id \/ (l.block = m.block /\ l.tx = m.tx /\ l.index = m.index) => l = m
    /\ \A tie \in TieOrders : \A l, m \in AuditLogs : tie[l] \in Nat /\ (tie[l] = tie[m] => l = m)
    /\ \A b \in Bodies : HashOf[b] # NoHash
    /\ AuditBlocks \subseteq Nat \ {0} /\ MaxLimit \in Nat

VARIABLES
    endpoint,     \* bound: the endpoint that this behaviour's requests use
    auditStored,  \* blocks whose receipts are stored
    served,       \* bodies the worker has
    wrong,        \* wrong answers of the worker so far
    cache,        \* EnvelopeCache: hash -> body
    client,       \* requests for one envelope
    auditWalk,    \* the walk over the operator's rows
    rootReply     \* the last answer about a root: [root, whole, leaves]; whole: every
                  \* block up to the root's was stored and the query of the leaves did not fail

auditVars == <<endpoint, auditStored, served, wrong, cache, client, auditWalk, rootReply>>

-----------------------------------------------------------------------------
(* Envelopes *)

NoEnvelope == [ok |-> FALSE]

\* The fields of an envelope and the CBOR kinds they may have.
EnvelopeFields ==
    [f \in {"version", "ts_unix", "op_kind", "result"} |-> {"uint"}]
    @@ [f \in {"actor_omni", "operator_omni"} |-> {"bytes32"}]
    @@ [intent_text |-> {"text", "null"}, intent_commitment |-> {"bytes32", "null"}]

HasFields(e) ==
    /\ DOMAIN EnvelopeFields \subseteq DOMAIN e.fields
    /\ \A f \in DOMAIN EnvelopeFields : e.fields[f] \in EnvelopeFields[f]

\* The texts and the uints of the body of each known kind of operation.
Body(texts, uints) == [f \in texts |-> "text"] @@ [f \in uints |-> "uint"]

opKindSpecs ==
    0 :> Body({"service", "payload_hash"}, {}) @@ 1 :> Body({"service", "cap_hash"}, {})
    @@ 2 :> Body({"actor_target"}, {}) @@ 10 :> Body({"key", "payload_hash"}, {})
    @@ 11 :> Body({"key", "cap_hash"}, {}) @@ 12 :> Body({"actor_target"}, {})
    @@ 20 :> Body({"message_digest", "wallet"}, {})
    @@ 21 :> Body({"verifying_contract", "primary_type", "type_hash", "domain_separator", "digest"},
                  {"chain_id"})
    @@ 30 :> Body({"escrow_addr", "amount", "recipient"}, {"chain_id"})
    @@ 31 :> Body({"rail", "ref", "amount_minor", "currency"}, {})
    @@ 40 :> Body({"agent_omni", "service", "max_amount"}, {"max_calls"})
    @@ 41 :> Body({"agent_omni", "service"}, {})
    @@ 50 :> Body({"device_key_hash", "attestation_hash"}, {"role_bits"})
    @@ 51 :> Body({"device_key_hash"}, {})
    @@ 52 :> Body({"old_device_key_hash", "new_device_key_hash"}, {})
    @@ 60 :> Body({"to_hash", "subject_hash", "message_id"}, {})
    @@ 61 :> Body({"from_hash", "message_id", "payload_hash"}, {})
    @@ 70 :> Body({"gov_tx"}, {"old_epoch", "new_epoch"})

\* A body of a known kind has exactly the fields of its kind; any other is opaque.
RenderOpBody(kind, body) == kind \in DOMAIN opKindSpecs => body = opKindSpecs[kind]

\* The hash is compared when there is one to compare with.
DecodeEnvelope(b, expected) ==
    LET e == EnvelopeOf[b]
    IN  IF /\ HasFields(e) /\ e.version = 1
           /\ e.kind \in 0 .. 255 /\ e.result \in 0 .. 255
           /\ RenderOpBody(e.kind, e.body)
           /\ expected = NoHash \/ expected = HashOf[b]
        THEN [ok |-> TRUE, kind |-> e.kind, actor |-> e.actor, operator |-> e.operator]
        ELSE NoEnvelope

\* What the worker may answer for a hash: its body, not found (404), another
\* error, or something else.  No body is the right answer for no hash.
Answers(h) ==
    {[found |-> "body", body |-> b] : b \in {x \in served : HashOf[x] = h}}
    \cup (IF \E x \in served : HashOf[x] = h THEN {} ELSE {[found |-> "missing"]})
    \cup (IF wrong < MaxAnswers
          THEN {[found |-> "error"]} \cup {[found |-> "body", body |-> b] : b \in Bodies}
          ELSE {})

IsWrong(h, a) ==
    \/ a.found = "error"
    \/ a.found = "body" /\ ~(a.body \in served /\ HashOf[a.body] = h)

Wrongs(answers) ==
    wrong' = wrong + Cardinality({h \in DOMAIN answers : IsWrong(h, answers[h])})

\* FetchAndDecode when no other request is between its steps: the cached body,
\* or the worker's answer, decoded.
FetchAndDecode(h, a) ==
    IF h \in DOMAIN cache THEN [found |-> "body", body |-> cache[h]]
    ELSE IF a.found = "body" /\ ~DecodeEnvelope(a.body, h).ok THEN [found |-> "error"]
    ELSE a

\* The envelope endpoint, a step per lock: look into the cache, fetch and
\* decode without the lock, look again and keep.
LookUp(c, h) ==
    /\ endpoint = "envelopes" /\ client[c].at = "idle"
    /\ client' = [client EXCEPT ![c] =
         IF h \in DOMAIN cache
         THEN [at |-> "done", hash |-> h, body |-> cache[h]]
         ELSE [at |-> "fetch", hash |-> h, body |-> "none"]]
    /\ UNCHANGED <<endpoint, auditStored, served, wrong, cache, auditWalk, rootReply>>

FetchEnvelope(c, a) ==
    /\ client[c].at = "fetch"
    /\ Wrongs([h \in {client[c].hash} |-> a])
    /\ LET good == a.found = "body" /\ DecodeEnvelope(a.body, client[c].hash).ok
       IN  client' = [client EXCEPT ![c].at = IF good THEN "store" ELSE "failed",
                                    ![c].body = IF good THEN a.body ELSE @]
    /\ UNCHANGED <<endpoint, auditStored, served, cache, auditWalk, rootReply>>

KeepEnvelope(c) ==
    /\ client[c].at = "store"
    /\ LET h == client[c].hash
       IN  IF h \in DOMAIN cache
           THEN /\ client' = [client EXCEPT ![c].at = "done", ![c].body = cache[h]]
                /\ UNCHANGED cache
           ELSE /\ client' = [client EXCEPT ![c].at = "done"]
                /\ cache' = [x \in DOMAIN cache \cup {h} |->
                                IF x = h THEN client[c].body ELSE cache[x]]
    /\ UNCHANGED <<endpoint, auditStored, served, wrong, auditWalk, rootReply>>

-----------------------------------------------------------------------------
(* Logs.  words: number of ABI words of the data; kind is Wide when the    *)
(* word does not fit a byte.                                               *)
Wide    == 256
AnyKind == 257   \* no op_kind filter in the request

DecodeAuditAppendedV2Log(l) == l.topics = 4 /\ l.kind # Wide /\ l.words >= 1

DecodeAuditAppendedCurrentLog(l) == l.topics = 4 /\ l.kind # Wide /\ l.words >= 3

DecodeAuditAppendedLog(l) ==
    CASE l.event = "v2"      -> DecodeAuditAppendedV2Log(l)
      [] l.event = "current" -> DecodeAuditAppendedCurrentLog(l)
      [] OTHER               -> FALSE

\* V2 roots carry the set of their operations' kinds and a count, current
\* ones an index and a count.
DecodeAuditRootAppendedLog(l) ==
    l.event \in {"rootV2", "rootCurrent"} /\ l.topics = 3 /\ l.words >= 2

OpKindTopicsFromBitmap(bitmap) == bitmap \cap (0 .. 255)

\* The order of rows: by block, then by the index in the transaction.
Above(l, m)       == l.block > m.block \/ (l.block = m.block /\ l.index > m.index)
Tied(l, m)        == l.block = m.block /\ l.index = m.index
Ahead(l, m, asc) == IF asc THEN Above(m, l) ELSE Above(l, m)
Take(s, n)        == SubSeq(s, 1, IF Len(s) < n THEN Len(s) ELSE n)
Stored(events)    == {l \in AuditLogs : l.block \in auditStored /\ l.event \in events}

Newest(S, tie) ==
    LET over(l, m) == Above(l, m) \/ (Tied(l, m) /\ tie[l] < tie[m])
    IN  [i \in 1 .. Cardinality(S) |->
            CHOOSE l \in S : Cardinality({m \in S : over(m, l)}) = i - 1]

\* What a query of the table may return: the newest (or, asc, the oldest) logs
\* that the filters leave.  One that fails returns nothing (see its callers):
\* its error is dropped.
API_GetLogsForAgentKeys(S, asc, limit) ==
    {Take(IF asc THEN Reverse(Newest(S, tie)) ELSE Newest(S, tie), limit) : tie \in TieOrders}

\* sort.SliceStable: rows the order does not tell apart stay as they came.
SliceStable(s, asc) ==
    LET first(i, j) == Ahead(s[i], s[j], asc) \/ (~Ahead(s[j], s[i], asc) /\ i < j)
    IN  [k \in 1 .. Len(s) |->
            s[CHOOSE i \in 1 .. Len(s) : Cardinality({j \in 1 .. Len(s) : first(j, i)}) = k - 1]]

\* A row is a log with its envelope, if the worker has it; a log or an
\* envelope that does not decode, or does not match its log, fails the page.
decodeTypedAuditRow(l, answers) ==
    LET a == FetchAndDecode(l.hash, answers[l.hash])
        e == DecodeEnvelope(a.body, l.hash)
    IN  CASE ~DecodeAuditAppendedLog(l) -> NoEnvelope
          [] DecodeAuditAppendedLog(l) /\ a.found = "missing" ->
               [ok |-> TRUE, log |-> l, available |-> FALSE]
          [] DecodeAuditAppendedLog(l) /\ a.found = "body" ->
               [ok |-> e.operator = l.operator /\ e.actor = l.actor /\ e.kind = l.kind,
                log |-> l, available |-> TRUE]
          [] OTHER -> NoEnvelope

DecodeTypedAuditRowsBestEffort(logs, answers) ==
    [i \in DOMAIN logs |-> decodeTypedAuditRow(logs[i], answers)]

\* The hashes whose envelopes have been fetched and decoded: those of the rows
\* up to the first that fails.
RowsReached(rows) == {i \in DOMAIN rows : \A j \in 1 .. i - 1 : rows[j].ok}

\* Mutant: an envelope that was found is forgotten after the page.
KeepNone(logs, rows, answers) == UNCHANGED cache

KeepAll(logs, rows, answers) ==
    LET new == {logs[i].hash : i \in {j \in RowsReached(rows) :
                    DecodeAuditAppendedLog(logs[j]) /\
                    FetchAndDecode(logs[j].hash, answers[logs[j].hash]).found = "body"}}
    IN  cache' = [h \in DOMAIN cache \cup new |->
                    IF h \in DOMAIN cache THEN cache[h] ELSE answers[h].body]

-----------------------------------------------------------------------------
(* The rows of the operator *)

agentkeysAuditLimit(limit) == limit \in 1 .. MaxLimit

NoCursor == [block |-> 0, index |-> 0]

agentkeysAuditLogFilters(S, kind, cursor, asc) ==
    {l \in S : /\ l.operator = Operator
               /\ kind = AnyKind \/ l.kind = kind
               /\ cursor # NoCursor => IF asc THEN Above(l, cursor) ELSE Above(cursor, l)}

\* Mutant: the rows of the two queries are not sorted together.
agentkeysAuditRowsPageUnsorted(rows, asc, limit) ==
    LET logs == [i \in DOMAIN rows |-> rows[i].log]
    IN  [logs |-> Take(logs, limit), more |-> Len(logs) > limit]

\* Both queries hold up to limit + 1 rows: sort them together and cut.
agentkeysAuditRowsPage(rows, asc, limit) ==
    LET sorted == SliceStable([i \in DOMAIN rows |-> rows[i].log], asc)
    IN  [logs |-> Take(sorted, limit), more |-> Len(sorted) > limit]

\* The first of the two queries of a page.  A refused page leaves the walk.
\* missed: the rows that a query of this page fails to return.
agentkeysAuditLogs(limit) ==
    /\ endpoint = "rows" /\ auditWalk.at \in {"start", "page"} /\ agentkeysAuditLimit(limit)
    /\ LET w == auditWalk
           S == agentkeysAuditLogFilters(Stored({"v2"}), w.kind, w.cursor, w.asc)
       IN  \E v2 \in API_GetLogsForAgentKeys(S, w.asc, limit + 1) \cup {<<>>} :
             auditWalk' = [w EXCEPT !.at = "queried", !.v2 = v2, !.limit = limit,
               !.missed = IF v2 = <<>> THEN S ELSE {},
               !.from = IF w.at = "start"
                        THEN agentkeysAuditLogFilters(Stored({"v2", "current"}), w.kind, NoCursor, w.asc)
                        ELSE @]
    /\ UNCHANGED <<endpoint, auditStored, served, wrong, cache, client, rootReply>>

\* The hashes a request needs answers for, and the answers it may get.
HashesNeeded(logs) == {logs[i].hash : i \in DOMAIN logs} \ DOMAIN cache
AllAnswers(logs) ==
    LET need == HashesNeeded(logs)
    IN  {f \in [{logs[i].hash : i \in DOMAIN logs} -> {[found |-> "missing"], [found |-> "error"]}
                    \cup {[found |-> "body", body |-> b] : b \in Bodies}] :
           \A h \in DOMAIN f : IF h \in need THEN f[h] \in Answers(h) ELSE f[h] = [found |-> "missing"]}

\* lost: rows that a failing query kept from the pages the walk has passed.
agentkeysAuditRowsHandle ==
    /\ auditWalk.at = "queried"
    /\ LET w == auditWalk
           Q == agentkeysAuditLogFilters(Stored({"current"}), w.kind, w.cursor, w.asc)
       IN  \E current \in API_GetLogsForAgentKeys(Q, w.asc, w.limit + 1) \cup {<<>>} :
           \E answers \in AllAnswers(w.v2 \o current) :
             LET logs == w.v2 \o current
                 rows == DecodeTypedAuditRowsBestEffort(logs, answers)
                 good == \A i \in DOMAIN rows : rows[i].ok
                 merged == agentkeysAuditRowsPage(rows, w.asc, w.limit)
                 last == IF merged.logs = <<>> THEN NoCursor ELSE Last(merged.logs)
                 cursor == IF merged.more THEN [block |-> last.block, index |-> last.index] ELSE NoCursor
                 missed == w.missed \cup (IF current = <<>> THEN Q ELSE {})
                 later == IF merged.more THEN agentkeysAuditLogFilters(missed, w.kind, cursor, w.asc) ELSE {}
             IN  /\ KeepAll(logs, rows, answers)
                 /\ Wrongs([h \in {logs[i].hash : i \in RowsReached(rows)} |->
                              IF h \in HashesNeeded(logs) THEN answers[h] ELSE [found |-> "missing"]])
                 /\ auditWalk' =
                      IF ~good THEN [w EXCEPT !.at = IF w.cursor = NoCursor THEN "start" ELSE "page",
                                              !.v2 = <<>>, !.limit = 0, !.missed = {}]
                      ELSE [w EXCEPT !.at = IF merged.more THEN "page" ELSE "end",
                                     !.v2 = <<>>, !.limit = 0, !.missed = {},
                                     !.lost = @ \cup (missed \ later),
                                     !.cursor = cursor,
                                     !.shown = @ \cup ToSet(merged.logs),
                                     !.found = @ \cup {rows[i].log.hash : i \in {j \in DOMAIN rows : rows[j].available}}]
    /\ UNCHANGED <<endpoint, auditStored, served, client, rootReply>>

-----------------------------------------------------------------------------
(* The leaves of a root *)

\* The newest stored root event e of merkle; nothing when the query fails.
RootQuery(merkle, e) ==
    API_GetLogsForAgentKeys({l \in Stored({e}) : l.merkle = merkle}, FALSE, 1) \cup {<<>>}

\* The newest root of either kind; a failing query finds none of its kind.
agentkeysAuditRootLogs(merkle) ==
    {Take(SliceStable(found[1] \o found[2], FALSE), 1) :
        found \in RootQuery(merkle, "rootCurrent") \X RootQuery(merkle, "rootV2")}

\* The newest count logs of the operator below the root, of the kinds its
\* bitmap names if it has one.
LeafLogs(root) ==
    LET S == {l \in Stored(IF root.event = "rootCurrent" THEN {"current"} ELSE {"v2"}) :
                l.operator = root.operator /\ Above(root, l)}
        in(l) == root.event = "rootV2" => l.kind \in OpKindTopicsFromBitmap(root.bitmap)
    IN  IF root.count = 0 THEN {<<>>} ELSE API_GetLogsForAgentKeys({l \in S : in(l)}, FALSE, root.count)

\* rows in ascending order
DecodeAuditRootRows(rows) == SliceStable([i \in DOMAIN rows |-> rows[i].log], TRUE)

agentkeysAuditRootHandle(merkle) ==
    /\ endpoint = "roots"
    /\ \E found \in agentkeysAuditRootLogs(merkle) \ {<<>>} :
       \E logs \in LeafLogs(Head(found)) \cup {<<>>} :
       \E answers \in AllAnswers(logs) :
         LET root == Head(found)
             rows == DecodeTypedAuditRowsBestEffort(logs, answers)
         IN  /\ DecodeAuditRootAppendedLog(root)
             /\ \A i \in DOMAIN rows : rows[i].ok
             /\ KeepAll(logs, rows, answers)
             /\ Wrongs([h \in HashesNeeded(logs) |-> answers[h]])
             /\ rootReply' = [root |-> root.id,
                              whole |-> /\ \A b \in AuditBlocks : b <= root.block => b \in auditStored
                                        /\ logs \in LeafLogs(root),
                              leaves |-> DecodeAuditRootRows(rows)]
    /\ UNCHANGED <<endpoint, auditStored, served, client, auditWalk>>

-----------------------------------------------------------------------------
AuditInit(kinds) ==
    /\ endpoint \in {"envelopes", "roots", "rows"}
    /\ auditStored = {} /\ served = {} /\ wrong = 0
    /\ cache = [h \in {} |-> "none"]
    /\ client = [c \in Clients |-> [at |-> "idle", hash |-> "none", body |-> "none"]]
    /\ rootReply = [root |-> 0, whole |-> FALSE, leaves |-> <<>>]
    /\ \E kind \in kinds, asc \in BOOLEAN :
         /\ endpoint # "rows" => kind = AnyKind /\ ~asc
         /\ auditWalk = [at |-> "start", kind |-> kind, asc |-> asc, cursor |-> NoCursor, limit |-> 0,
                         v2 |-> <<>>, missed |-> {}, lost |-> {}, from |-> {}, shown |-> {}, found |-> {}]

\* The EVM plugin stores the receipts of a block, in any order of blocks.
StoreLogs(b) ==
    /\ endpoint \in {"rows", "roots"} /\ b \notin auditStored
    /\ auditStored' = auditStored \cup {b}
    /\ UNCHANGED <<endpoint, served, wrong, cache, client, auditWalk, rootReply>>

\* The worker gets the body of an envelope, maybe long after the log, or
\* loses it.
WorkerChanges(b) ==
    /\ served' = IF b \in served THEN served \ {b} ELSE served \cup {b}
    /\ UNCHANGED <<endpoint, auditStored, wrong, cache, client, auditWalk, rootReply>>

AuditNext ==
    \/ \E c \in Clients :
         \/ \E h \in {HashOf[b] : b \in Bodies} \cup {NoHash} : LookUp(c, h)
         \/ \E a \in Answers(client[c].hash) : FetchEnvelope(c, a)
         \/ KeepEnvelope(c)
    \/ \E limit \in 0 .. MaxLimit : agentkeysAuditLogs(limit)
    \/ agentkeysAuditRowsHandle
    \/ \E m \in {l.merkle : l \in AuditLogs} : agentkeysAuditRootHandle(m)
    \/ \E b \in AuditBlocks : StoreLogs(b)
    \/ \E b \in Bodies : WorkerChanges(b)

AuditSpec(kinds) == AuditInit(kinds) /\ [][AuditNext]_auditVars

-----------------------------------------------------------------------------
(* Properties *)

\* A body is kept only under the hash of its bytes, but for the one kept for
\* requests that name no hash, whatever it is; every request for one hash is
\* answered the body that is kept, and an envelope that has been shown stays
\* available here even when the worker loses it: requests that race for one
\* hash neither keep another body nor take one away.
EnvelopesKept ==
    /\ \A h \in DOMAIN cache : h = NoHash \/ HashOf[cache[h]] = h
    /\ \A c \in Clients : client[c].at = "done" =>
         client[c].hash \in DOMAIN cache /\ client[c].body = cache[client[c].hash]
    /\ auditWalk.found \subseteq DOMAIN cache

\* Two logs with one block and one index, of different transactions.
TiedLogs == {l \in AuditLogs : \E m \in AuditLogs \ {l} : Tied(l, m)}

\* A walk over the operator's rows that reaches its last page has shown every
\* row stored when it began: the two queries of a page are merged without
\* loss, a block stored between them or out of order takes nothing away, and
\* a page that failed can be asked again.  Two rows that are tied may be
\* parted by a cursor, which loses one: the index is that of the transaction.
\* And a query that fails is a page without its rows.
AuditWalkComplete ==
    auditWalk.at = "end" => auditWalk.from \subseteq auditWalk.shown \cup TiedLogs \cup auditWalk.lost

\* The operator's logs that a root commits to: those after the root before it.
Committed(root) ==
    {l \in AuditLogs : /\ l.event = (IF root.event = "rootV2" THEN "v2" ELSE "current")
                       /\ l.operator = root.operator /\ l.block < root.block
                       /\ \A r \in AuditLogs :
                            r.event = root.event /\ r.operator = root.operator /\ r.block < root.block
                              => l.block > r.block}

\* A root as the contract appends it: it counts the logs it commits to, its
\* bitmap names their kinds, and its block has no log of the operator.
Faithful(root) ==
    /\ root.event \in {"rootV2", "rootCurrent"} /\ root.count = Cardinality(Committed(root))
    /\ root.event = "rootV2" => \A l \in Committed(root) : l.kind \in OpKindTopicsFromBitmap(root.bitmap)
    /\ \A l \in AuditLogs : l.event \in {"v2", "current"} /\ l.operator = root.operator => l.block # root.block

\* The leaves of a faithful root are what it commits to, each once, when every
\* block below it is stored by then and the query of the leaves succeeds.
\* Their order is the chain's between blocks and within a transaction, but two
\* transactions of a block may be mixed: the index is that of the transaction.
RootLeavesExact ==
    rootReply.whole =>
        \A root \in AuditLogs :
            root.id = rootReply.root /\ Faithful(root) =>
                LET leaves == rootReply.leaves
                IN  /\ ToSet(leaves) = Committed(root) /\ Len(leaves) = Cardinality(Committed(root))
                    /\ \A i, j \in DOMAIN leaves : i < j =>
                         /\ leaves[i].block <= leaves[j].block
                         /\ leaves[i].block = leaves[j].block /\ leaves[i].tx = leaves[j].tx
                              => leaves[i].index < leaves[j].index

\* What the two endpoints return of the contract's logs: a walk loses no row and
\* a root has its leaves, while blocks are stored and pages fail.
AuditExact == AuditWalkComplete /\ RootLeavesExact
=============================================================================
