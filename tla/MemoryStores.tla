---------------------------- MODULE MemoryStores ----------------------------
(***************************************************************************)
(* The episodic log and the long-term memory of runtime/src/memory, two    *)
(* tables behind one pool of database connections, under concurrent        *)
(* clients, a database that may fail any statement before or after it took *)
(* effect, and clients that are dropped while they await it.               *)
(*                                                                         *)
(* Every operation checks its arguments, acquires a connection, runs one   *)
(* statement, and decodes the answer; the query of the long-term memory    *)
(* runs two statements on its connection.  Text is a sequence of           *)
(* characters, as far as ILIKE looks at it.                                *)
(***************************************************************************)
EXTENDS Integers, FiniteSets, Sequences, SequencesExt

CONSTANTS
    Clients,            \* tasks with an operation on a store
    Connections,        \* connections of the pool
    NoConnection,
    Goals,              \* task goals of episodes
    Keywords,           \* keywords that are searched for
    Limits,             \* limit and top_k arguments, usize
    MaxI64,             \* largest i64; usize has one bit more
    Probes,             \* ivfflat_probes of the instances of LongTermMemory
    DebugBuild,         \* debug_assert! is compiled in
    MaxRows             \* bound on the rows ever inserted

ASSUME StoresAssumption ==
    /\ NoConnection \notin Connections
    /\ MaxI64 \in Nat /\ Limits \subseteq 0..(2 * MaxI64 + 1)
    /\ Probes \subseteq Nat \ {0} /\ DebugBuild \in BOOLEAN /\ MaxRows \in Nat
    /\ Goals \cup Keywords \subseteq Seq(STRING)

VARIABLES
    episodes,           \* rows of the table episodes
    memories,           \* ids in the table memories
    inserted,           \* rows inserted so far; the next one's id and time
    session,            \* ivfflat.probes of each connection
    op                  \* the operation of each client

storesVars == <<episodes, memories, inserted, session, op>>

AsI64(n) == IF n > MaxI64 THEN n - 2 * (MaxI64 + 1) ELSE n

-----------------------------------------------------------------------------

(***************************************************************************)
(* Text and rows.                                                          *)
(***************************************************************************)

Lower(char) == IF char = "A" THEN "a" ELSE char

Replaced(text, char) ==
    FlattenSeq([i \in 1..Len(text) |->
        IF text[i] = char THEN <<"\\", char>> ELSE <<text[i]>>])

\* Mutant: the backslash is escaped last.
EscapedLast(keyword) == Replaced(Replaced(Replaced(keyword, "%"), "_"), "\\")

\* The escape character itself is escaped first.
Escaped(keyword) == Replaced(Replaced(Replaced(keyword, "\\"), "%"), "_")

\* Where text matches pattern from its character j on, given where it matches
\* the rest of the pattern after the next character (one) and after the next two
\* (two).
MatchesFrom(text, pattern, j, one, two) ==
    LET n == Len(text)
    IN  CASE pattern[j] = "%" -> {i \in 1..(n + 1) : \E k \in i..(n + 1) : k \in one}
          [] pattern[j] = "_" -> {i \in 1..n : i + 1 \in one}
          [] pattern[j] = "\\" ->
                {i \in 1..n : /\ j < Len(pattern) /\ text[i] = pattern[j + 1]
                              /\ i + 1 \in two}
          [] OTHER -> {i \in 1..n : /\ Lower(text[i]) = Lower(pattern[j])
                                    /\ i + 1 \in one}

\* text ILIKE pattern, as PostgreSQL defines it; its escape character is "\".
ILike(text, pattern) ==
    LET m == Len(pattern)
        from[j \in 1..(m + 2)] ==
            IF j > m THEN {Len(text) + 1}
            ELSE MatchesFrom(text, pattern, j, from[j + 1], from[j + 2])
    IN  1 \in from[1]

\* Outcome::as_str.
AsStr(outcome) == IF outcome = "Success" THEN "success" ELSE "failure"

\* map_episode_row reads what as_str wrote, and nothing else.
Readable(row) == row.outcome \in {"success", "failure"}

\* ORDER BY created_at DESC LIMIT n.
Newest(rows, n) ==
    LET size == Cardinality(rows)
        sorted == CHOOSE seq \in [1..size -> rows] :
                     \A i, j \in 1..size : i < j => seq[i].id > seq[j].id
    IN  SubSeq(sorted, 1, IF n < size THEN n ELSE size)

\* The answer of recent, which has no keyword, and find_similar_goals.  A
\* negative LIMIT is an error of the database, and the first row that cannot be
\* read is the error of the whole answer.
EpisodesFound(rows, keyword, limit) ==
    LET pattern == <<"%">> \o Escaped(keyword) \o <<"%">>
        n == AsI64(limit)
        found == Newest({r \in rows : ILike(r.goal, pattern)}, n)
    IN  IF n < 0 THEN [reply |-> "Database", found |-> <<>>]
        ELSE IF \E i \in 1..Len(found) : ~Readable(found[i])
        THEN [reply |-> "InvalidOutcome", found |-> <<>>]
        ELSE [reply |-> "Ok", found |-> found]

-----------------------------------------------------------------------------

\* The argument of an operation is what the model looks at of it later: the row
\* of an insert, the id of a deletion, the probes of a query.
NoArg == [nothing |-> 0]

Idle == [kind |-> "none", arg |-> NoArg, at |-> "idle", conn |-> NoConnection]

StoresInit ==
    /\ episodes = {} /\ memories = {} /\ inserted = 0
    /\ session = [n \in Connections |-> 1]
    /\ op = [c \in Clients |-> Idle]

\* An operation begins.  When an assertion fails in a debug build it panics, and
\* on a wrong dimension it returns, before it changes anything; else it asks the
\* pool for a connection.
Begins(c, kind, arg, asserted, fits) ==
    /\ op[c].at = "idle"
    /\ asserted \/ ~DebugBuild
    /\ fits
    /\ op' = [op EXCEPT ![c] = [kind |-> kind, arg |-> arg, at |-> "acquire",
                                conn |-> NoConnection]]
    /\ UNCHANGED <<episodes, memories, inserted, session>>

\* The rule of the migration: an error on failure and none on success.
Insert(c, goal, outcome, error) ==
    Begins(c, "insert", [goal |-> goal, outcome |-> outcome],
           (outcome = "Failure") = error, TRUE)

\* recent and find_similar_goals; the statement's answer is EpisodesFound.
Read(c, limit) == Begins(c, "read", NoArg, limit > 0, TRUE)

Delete(c, id) == Begins(c, "delete", [id |-> id], TRUE, TRUE)

Store(c, fits) == Begins(c, "store", NoArg, TRUE, fits)

Query(c, fits, top_k, probes) ==
    Begins(c, "query", [probes |-> probes], top_k > 0, fits)

Forget(c, id) == Begins(c, "forget", [id |-> id], TRUE, TRUE)

Busy == {op[c].conn : c \in Clients} \ {NoConnection}

Acquire(c) ==
    /\ op[c].at = "acquire"
    /\ \E n \in Connections \ Busy :
          op' = [op EXCEPT ![c].conn = n,
                           ![c].at = IF op[c].kind = "query" THEN "set"
                                     ELSE "statement"]
    /\ UNCHANGED <<episodes, memories, inserted, session>>

\* Mutant: the probes are set through the pool, on another connection.
SetProbesOnPool(c) ==
    /\ op[c].at = "set"
    /\ \E n \in (Connections \ Busy) \cup {op[c].conn} :
          session' = [session EXCEPT ![n] = op[c].arg.probes]
    /\ op' = [op EXCEPT ![c].at = "statement"]
    /\ UNCHANGED <<episodes, memories, inserted>>

SetProbes(c) ==
    /\ op[c].at = "set"
    /\ session' = [session EXCEPT ![op[c].conn] = op[c].arg.probes]
    /\ op' = [op EXCEPT ![c].at = "statement"]
    /\ UNCHANGED <<episodes, memories, inserted>>

Runs(c, kinds) == op[c].at = "statement" /\ op[c].kind \in kinds

\* The operation returns and its connection goes back to the pool.
Ends(c) == op' = [op EXCEPT ![c] = Idle]

\* now() is the time of the transaction, and no two rows share one.
InsertRow(c) ==
    /\ Runs(c, {"insert"})
    /\ inserted < MaxRows /\ inserted' = inserted + 1
    /\ episodes' = episodes \cup
          {[id |-> inserted', goal |-> op[c].arg.goal,
            outcome |-> AsStr(op[c].arg.outcome), foreign |-> FALSE]}
    /\ Ends(c) /\ UNCHANGED <<memories, session>>

StoreRow(c) ==
    /\ Runs(c, {"store"})
    /\ inserted < MaxRows /\ inserted' = inserted + 1
    /\ memories' = memories \cup {inserted'}
    /\ Ends(c) /\ UNCHANGED <<episodes, session>>

DeleteRow(c) ==
    /\ Runs(c, {"delete", "forget"})
    /\ IF op[c].kind = "delete"
       THEN /\ episodes' = {r \in episodes : r.id # op[c].arg.id}
            /\ UNCHANGED memories
       ELSE memories' = memories \ {op[c].arg.id} /\ UNCHANGED episodes
    /\ Ends(c) /\ UNCHANGED <<inserted, session>>

\* Reads change nothing; what they answer is EpisodesFound.
ReadRows(c) ==
    /\ Runs(c, {"read", "query"})
    /\ Ends(c) /\ UNCHANGED <<episodes, memories, inserted, session>>

\* The pool times out, the database fails the statement, or the client is
\* dropped at its await; the statement may then still take effect, which is one
\* of the actions above with nobody to hear the answer.
GiveUpOperation(c) ==
    /\ op[c].at # "idle"
    /\ Ends(c) /\ UNCHANGED <<episodes, memories, inserted, session>>

\* Another program with access to the table writes an outcome of its own.
ForeignInsert(goal) ==
    /\ inserted < MaxRows /\ inserted' = inserted + 1
    /\ episodes' = episodes \cup {[id |-> inserted', goal |-> goal,
                                  outcome |-> "partial", foreign |-> TRUE]}
    /\ UNCHANGED <<memories, session, op>>

Operation(c) ==
    \/ \E goal \in Goals, outcome \in {"Success", "Failure"}, error \in BOOLEAN :
          Insert(c, goal, outcome, error)
    \/ \E limit \in Limits :
          \/ Read(c, limit)
          \/ \E fits \in BOOLEAN, p \in Probes : Query(c, fits, limit, p)
    \/ \E id \in 1..MaxRows : Delete(c, id) \/ Forget(c, id)
    \/ \E fits \in BOOLEAN : Store(c, fits)

StoresNext ==
    \/ \E c \in Clients :
          \/ Operation(c) \/ Acquire(c) \/ SetProbes(c)
          \/ InsertRow(c) \/ StoreRow(c) \/ DeleteRow(c)
          \/ ReadRows(c) \/ GiveUpOperation(c)
    \/ \E goal \in Goals : ForeignInsert(goal)

StoresSpec == StoresInit /\ [][StoresNext]_storesVars

-----------------------------------------------------------------------------

(***************************************************************************)
(* Properties                                                              *)
(***************************************************************************)

\* Type invariant.
StoresTypeOK ==
    /\ inserted \in 0..MaxRows
    /\ \A r \in episodes : r.id \in 1..inserted /\ r.goal \in Goals
    /\ memories \subseteq 1..inserted
    /\ session \in [Connections -> Probes \cup {1}]
    /\ \A c \in Clients :
          /\ op[c].at \in {"idle", "acquire", "set", "statement"}
          /\ op[c].conn \in Connections \cup {NoConnection}

\* The keyword as a substring, whatever the case of its letters.
ContainsText(goal, keyword) ==
    \E k \in 0..(Len(goal) - Len(keyword)) :
        \A i \in 1..Len(keyword) : Lower(goal[k + i]) = Lower(keyword[i])

\* Whatever has been written, lost, deleted or written by others, every read is
\* exact: it holds the newest rows whose goal contains the keyword literally, as
\* many as the limit lets it, and what the log wrote it can read back: rows make
\* a read fail only when one of those it asks for is another program's.
ReadsAreExact ==
    \A keyword \in Keywords, limit \in Limits :
        LET answer == EpisodesFound(episodes, keyword, limit)
            matching == {r \in episodes : ContainsText(r.goal, keyword)}
            best == {r \in matching :
                        Cardinality({s \in matching : s.id > r.id}) < limit}
        IN  /\ answer.reply = "Ok" =>
                  /\ ToSet(answer.found) = best
                  /\ \A i, j \in 1..Len(answer.found) :
                        i < j => answer.found[i].id > answer.found[j].id
            /\ answer.reply = "InvalidOutcome" => \E r \in best : r.foreign

\* A query scans with the probes of its own instance, however queries of other
\* instances and other statements share the connections with it.
QueryUsesOwnProbes ==
    \A c \in Clients :
        op[c].at = "statement" /\ op[c].kind = "query"
            => session[op[c].conn] = op[c].arg.probes
=============================================================================
