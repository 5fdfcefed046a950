---------------------------- MODULE Completeness ----------------------------
(***************************************************************************)
(* The CheckCompleteness command: a walk over the blocks from a start      *)
(* block to holdOnNum below the finalized head, one chunk at a time and    *)
(* never across two tables, that fills what is missing itself or, in fast  *)
(* mode, publishes jobs for it.  The daemons store blocks meanwhile.       *)
(* Block numbers are unsigned; Redis is assumed to answer.                 *)
(***************************************************************************)
EXTENDS Naturals, FiniteSets

CONSTANTS
    CheckStarts,     \* bound: values of --StartBlock
    Finals,          \* bound: finalized heads when the command starts
    ChunkSize,       \* blocks of a chunk, 3000 in the code
    SplitBlocks,     \* blocks of a table, SplitTableBlockNum
    holdOnNum,       \* 20 in the code
    UintSize,        \* uint arithmetic is modulo UintSize
    MaxGaps          \* bound: blocks missing at the start

\* A chunk is no larger than a table, and a block number fits.
ASSUME CompletenessAssumption ==
    /\ CheckStarts \subseteq Nat /\ Finals \subseteq Nat /\ holdOnNum \in Nat
    /\ ChunkSize \in Nat \ {0} /\ SplitBlocks \in Nat /\ ChunkSize <= SplitBlocks
    /\ UintSize \in Nat \ {0} /\ \A n \in Finals : n < UintSize

VARIABLES
    present,         \* blocks of chain_blocks
    check,           \* the command: its arguments, position and chunk
    asked,           \* blocks it filled or published
    gaps             \* history: the blocks missing when it started

checkVars == <<present, check, asked, gaps>>

Top == CHOOSE m \in Finals : \A n \in Finals : n <= m

\* uint(latest)-holdOnNum
Limit(latest) == (latest + UintSize - holdOnNum) % UintSize

TableAt(n) == n \div SplitBlocks

\* Mutant: a chunk may reach into the next table.
EndBlockUncut(from, limit) == IF from + ChunkSize > limit THEN limit ELSE from + ChunkSize

\* The end of the chunk that begins after from: the last block of the table of
\* its first block, or of the table before when the chunk ends in a later one.
EndBlock(from, limit) ==
    LET to  == from + ChunkSize
        cut == IF TableAt(to) # TableAt(from + 1) THEN TableAt(to) * SplitBlocks - 1 ELSE to
    IN  IF cut > limit THEN limit ELSE cut

\* GetBlockNumArr reads the table of the last block only.
Fetched(from, to) == {n \in present : from <= n /\ n <= to /\ TableAt(n) = TableAt(to)}

StartCheck(start, fast, latest) ==
    /\ check.at = "start"
    /\ check' = [at |-> "walk", start |-> start, fast |-> fast, latest |-> latest,
                 from |-> IF start > 0 THEN start - 1 ELSE 1, to |-> 0, todo |-> {}]
    /\ present' \in {0..latest \ missing : missing \in {s \in SUBSET (0..latest) : Cardinality(s) <= MaxGaps}}
    /\ gaps' = 0..latest \ present'
    /\ UNCHANGED asked

CheckChunk ==
    /\ check.at = "walk" /\ check.from < Limit(check.latest)
    /\ LET to   == EndBlock(check.from, Limit(check.latest))
           have == Fetched(check.from + 1, to)
       IN  check' = IF Cardinality(have) < to - check.from
                    THEN [check EXCEPT !.at = "fill", !.to = to, !.todo = (check.from + 1)..to \ have]
                    ELSE [check EXCEPT !.from = to]
    /\ UNCHANGED <<present, asked, gaps>>

\* fillBlock, of the lowest missing block.  FillBlockData returns no error for
\* a block the chain has; for one it has not, the command panics.
FillMissing ==
    /\ check.at = "fill" /\ check.todo # {}
    /\ LET n == CHOOSE m \in check.todo : \A k \in check.todo : m <= k
       IN  /\ asked' = asked \cup {n}
           /\ present' = IF check.fast \/ n > check.latest THEN present ELSE present \cup {n}
           /\ check' = IF n > check.latest /\ ~check.fast THEN [check EXCEPT !.at = "panic"]
                       ELSE [check EXCEPT !.todo = @ \ {n}]
    /\ UNCHANGED gaps

NextChunk ==
    /\ check.at = "fill" /\ check.todo = {}
    /\ check' = [check EXCEPT !.at = "walk", !.from = check.to]
    /\ UNCHANGED <<present, asked, gaps>>

EndCheck ==
    /\ check.at = "walk" /\ check.from >= Limit(check.latest)
    /\ check' = [check EXCEPT !.at = "done"]
    /\ UNCHANGED <<present, asked, gaps>>

\* A worker stores a block meanwhile.
StoreMeanwhile(n) ==
    /\ check.at \in {"walk", "fill"} /\ n <= check.latest /\ n \notin present
    /\ present' = present \cup {n}
    /\ UNCHANGED <<check, asked, gaps>>

CompletenessInit ==
    /\ present = {} /\ asked = {} /\ gaps = {}
    /\ check = [at |-> "start", start |-> 0, fast |-> FALSE, latest |-> 0, from |-> 0, to |-> 0, todo |-> {}]

CompletenessNext ==
    \/ \E start \in CheckStarts, fast \in BOOLEAN, latest \in Finals : StartCheck(start, fast, latest)
    \/ CheckChunk \/ FillMissing \/ NextChunk \/ EndCheck
    \/ \E n \in 0..Top : StoreMeanwhile(n)

-----------------------------------------------------------------------------
\* On a chain of at least holdOnNum blocks the command asks for nothing but
\* blocks that were missing and final enough, whatever the chunks and tables,
\* and when it has ended every block from its start block on is stored or asked
\* for.  Without a start block the walk begins at block 2: blocks 0 and 1 are
\* not looked at.
CompletenessExact ==
    check.latest >= holdOnNum =>
        /\ asked \subseteq gaps
        /\ \A n \in asked : n <= check.latest - holdOnNum
        /\ check.at # "panic"
        /\ check.at = "done" =>
             \A n \in (IF check.start = 0 THEN 2 ELSE check.start)..(check.latest - holdOnNum) :
                n \in present \cup asked
=============================================================================
