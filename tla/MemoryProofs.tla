---------------------------- MODULE MemoryProofs ----------------------------
(***************************************************************************)
(* Proofs about MemoryStores, for every set of clients and of connections, *)
(* every goal, keyword and limit, and about the three modules of the       *)
(* memory side by side.                                                    *)
(*                                                                         *)
(* A read is exact for four reasons.  Escaping lays a keyword out with a   *)
(* "\" before each of its special characters (EscapedLaid).  The recursion *)
(* of ILIKE exists (LikeShape), and down such a pattern its rows are where *)
(* the rest of the keyword occurs (RowsOccur, LikeIsContains).  Rows with  *)
(* ids of their own have one order, in which a row's place is the number   *)
(* of newer ones (DescendingRank, NewestIs).  And what the log writes it   *)
(* can read (EpisodesOK).                                                  *)
(***************************************************************************)
EXTENDS MCMemory, AgentMemoryProofs

OpKinds == {"none", "insert", "read", "delete", "store", "query", "forget"}

Rows == [goal : Goals, outcome : {"Success", "Failure"}]

OpArguments ==
    Rows \cup [id : 1..MaxRows] \cup [probes : Probes] \cup {NoArg}

OpPoints == {"idle", "acquire", "set", "statement"}

OpRecord == [kind : OpKinds, arg : OpArguments, at : OpPoints,
             conn : Connections \cup {NoConnection}]

\* What an operation holds and carries at each of its points.
OpOK(o) ==
    /\ o.at \in {"idle", "acquire"} => o.conn = NoConnection
    /\ o.at \in {"set", "statement"} => o.conn \in Connections
    /\ o.at = "set" => o.kind = "query"
    /\ o.at # "idle" /\ o.kind = "query" => o.arg \in [probes : Probes]
    /\ o.at # "idle" /\ o.kind = "insert" => o.arg \in Rows

\* The probes of a query are set on its connection.
ProbesSet(o, s) ==
    o.at = "statement" /\ o.kind = "query" => s[o.conn] = o.arg.probes

OpsOK == op \in [Clients -> OpRecord] /\ \A c \in Clients : OpOK(op[c])

\* A connection serves one client at a time.
ConnectionsNotShared ==
    \A c, d \in Clients : c # d => op[c].conn # op[d].conn
                                   \/ op[c].conn = NoConnection

RowsOK ==
    /\ inserted \in 0..MaxRows
    /\ \A r \in episodes : r.id \in 1..inserted /\ r.goal \in Goals
    /\ memories \subseteq 1..inserted

SessionOK ==
    /\ session \in [Connections -> Probes \cup {1}]
    /\ \A c \in Clients : ProbesSet(op[c], session)

StoresInv == OpsOK /\ ConnectionsNotShared /\ RowsOK /\ SessionOK

-----------------------------------------------------------------------------

\* The tables are empty and the connections free at the start.
LEMMA StoresInitEstablishes == StoresInit => StoresInv
<1> SUFFICES ASSUME StoresInit PROVE StoresInv
  OBVIOUS
<1>1. Idle \in OpRecord /\ Idle.at = "idle" /\ Idle.conn = NoConnection
  BY DEF Idle, OpRecord, OpKinds, OpArguments, OpPoints
<1>2. op \in [Clients -> OpRecord] /\ \A c \in Clients : op[c] = Idle
  BY <1>1 DEF StoresInit
<1>3. OpsOK /\ ConnectionsNotShared
  BY <1>1, <1>2 DEF OpsOK, OpOK, ConnectionsNotShared
<1>4. RowsOK
  BY StoresAssumption DEF StoresInit, RowsOK
<1>5. SessionOK
  BY <1>1, <1>2 DEF StoresInit, SessionOK, ProbesSet
<1> QED
  BY <1>3, <1>4, <1>5 DEF StoresInv

\* One client goes from one of its points to the next, on a connection that no
\* other client holds.
LEMMA ClientMoves ==
    ASSUME OpsOK, ConnectionsNotShared,
           NEW c \in Clients, NEW o \in OpRecord, OpOK(o),
           o.conn = NoConnection
               \/ \A d \in Clients \ {c} : op[d].conn # o.conn,
           op' = [op EXCEPT ![c] = o]
    PROVE  (OpsOK /\ ConnectionsNotShared)'
<1>1. /\ op' \in [Clients -> OpRecord]
      /\ op'[c] = o
      /\ \A d \in Clients \ {c} : op'[d] = op[d]
  BY DEF OpsOK
<1>2. OpsOK'
  BY <1>1 DEF OpsOK
<1>3. ConnectionsNotShared'
  <2> SUFFICES ASSUME NEW d \in Clients, NEW e \in Clients, d # e
               PROVE  op'[d].conn # op'[e].conn \/ op'[d].conn = NoConnection
    BY DEF ConnectionsNotShared
  <2>1. CASE d = c
    BY <1>1, <2>1
  <2>2. CASE e = c
    BY <1>1, <2>2
  <2>3. CASE d # c /\ e # c
    BY <1>1, <2>3 DEF ConnectionsNotShared
  <2> QED
    BY <2>1, <2>2, <2>3
<1> QED
  BY <1>2, <1>3

\* The session of the other clients is untouched while nobody sets probes.
LEMMA SessionKept ==
    ASSUME OpsOK, SessionOK, UNCHANGED session,
           NEW c \in Clients, NEW o \in OpRecord,
           op' = [op EXCEPT ![c] = o],
           ProbesSet(o, session)
    PROVE  SessionOK'
<1>1. /\ op'[c] = o
      /\ \A d \in Clients \ {c} : op'[d] = op[d]
  BY DEF OpsOK
<1>2. ASSUME NEW d \in Clients PROVE ProbesSet(op'[d], session)
  BY <1>1 DEF SessionOK
<1> QED
  BY <1>2 DEF SessionOK

\* An operation that ends frees its connection, whatever it did to the tables.
LEMMA EndsOK ==
    ASSUME StoresInv, NEW c \in Clients, Ends(c), UNCHANGED session
    PROVE  (OpsOK /\ ConnectionsNotShared /\ SessionOK)'
<1>1. /\ Idle \in OpRecord /\ OpOK(Idle) /\ Idle.conn = NoConnection
      /\ ProbesSet(Idle, session)
  BY DEF Idle, OpRecord, OpKinds, OpArguments, OpPoints, OpOK, ProbesSet
<1> QED
  BY <1>1, ClientMoves, SessionKept DEF Ends, StoresInv

\* Beginning an operation takes no connection.
LEMMA BeginsOK ==
    ASSUME StoresInv, NEW c \in Clients,
           NEW kind \in OpKinds, NEW arg \in OpArguments,
           kind = "query" => arg \in [probes : Probes],
           kind = "insert" => arg \in Rows,
           NEW asserted, NEW fits, Begins(c, kind, arg, asserted, fits)
    PROVE  StoresInv'
<1> DEFINE o == [kind |-> kind, arg |-> arg, at |-> "acquire",
                 conn |-> NoConnection]
<1>1. /\ o \in OpRecord /\ OpOK(o) /\ o.conn = NoConnection
      /\ ProbesSet(o, session)
  BY DEF OpRecord, OpPoints, OpOK, ProbesSet
<1>2. /\ op' = [op EXCEPT ![c] = o]
      /\ UNCHANGED <<episodes, memories, inserted, session>>
  BY DEF Begins
<1> HIDE DEF o
<1>3. (OpsOK /\ ConnectionsNotShared)'
  BY <1>1, <1>2, ClientMoves DEF StoresInv
<1>4. SessionOK'
  BY <1>1, <1>2, SessionKept DEF StoresInv
<1>5. RowsOK'
  BY <1>2 DEF StoresInv, RowsOK
<1> QED
  BY <1>3, <1>4, <1>5 DEF StoresInv

\* A connection comes from those that no client holds.
LEMMA AcquireOK ==
    ASSUME StoresInv, NEW c \in Clients, Acquire(c)
    PROVE  StoresInv'
<1>1. PICK n \in Connections \ Busy :
          op' = [op EXCEPT ![c].conn = n,
                           ![c].at = IF op[c].kind = "query" THEN "set"
                                     ELSE "statement"]
  BY DEF Acquire
<1>2. op[c].at = "acquire" /\ UNCHANGED <<episodes, memories, inserted, session>>
  BY DEF Acquire
<1> DEFINE o == [op[c] EXCEPT !.conn = n,
                              !.at = IF op[c].kind = "query" THEN "set"
                                     ELSE "statement"]
<1>3. op \in [Clients -> OpRecord] /\ op[c] \in OpRecord /\ OpOK(op[c])
  BY DEF StoresInv, OpsOK
<1>4. op' = [op EXCEPT ![c] = o]
  BY <1>1, <1>3
<1>5. /\ o \in OpRecord
      /\ o.kind = op[c].kind /\ o.arg = op[c].arg /\ o.conn = n
      /\ o.at = IF op[c].kind = "query" THEN "set" ELSE "statement"
  BY <1>3 DEF OpRecord, OpPoints
<1> HIDE DEF o
<1>6. OpOK(o) /\ ProbesSet(o, session)
  BY <1>2, <1>3, <1>5 DEF OpOK, ProbesSet
<1>7. \A d \in Clients : op[d].conn # n
  BY StoresAssumption DEF Busy
<1>8. (OpsOK /\ ConnectionsNotShared)'
  BY <1>3, <1>4, <1>5, <1>6, <1>7, ClientMoves DEF StoresInv
<1>9. SessionOK'
  BY <1>2, <1>4, <1>5, <1>6, SessionKept DEF StoresInv
<1>10. RowsOK'
  BY <1>2 DEF StoresInv, RowsOK
<1> QED
  BY <1>8, <1>9, <1>10 DEF StoresInv

\* Setting the probes of one client's connection leaves those of the others.
LEMMA SetProbesOK ==
    ASSUME StoresInv, NEW c \in Clients, SetProbes(c)
    PROVE  StoresInv'
<1> DEFINE o == [op[c] EXCEPT !.at = "statement"]
           n == op[c].conn
<1>1. /\ op[c].at = "set"
      /\ session' = [session EXCEPT ![n] = op[c].arg.probes]
      /\ op' = [op EXCEPT ![c].at = "statement"]
      /\ UNCHANGED <<episodes, memories, inserted>>
  BY DEF SetProbes
<1>2. op \in [Clients -> OpRecord] /\ op[c] \in OpRecord /\ OpOK(op[c])
  BY DEF StoresInv, OpsOK
<1>3. n \in Connections /\ op[c].kind = "query" /\ n # NoConnection
      /\ op[c].arg \in [probes : Probes] /\ op[c].arg.probes \in Probes
  BY <1>1, <1>2, StoresAssumption DEF OpOK
<1>4. op' = [op EXCEPT ![c] = o]
  BY <1>1, <1>2
<1>5. /\ o \in OpRecord /\ o.at = "statement"
      /\ o.kind = op[c].kind /\ o.arg = op[c].arg /\ o.conn = n
  BY <1>2 DEF OpRecord, OpPoints
<1> HIDE DEF o
<1>6. OpOK(o)
  BY <1>3, <1>5 DEF OpOK
<1>7. \A d \in Clients \ {c} : op[d].conn # n
  BY <1>3 DEF StoresInv, ConnectionsNotShared
<1>8. (OpsOK /\ ConnectionsNotShared)'
  BY <1>4, <1>5, <1>6, <1>7, ClientMoves DEF StoresInv
<1>9. SessionOK'
  <2>1. /\ session \in [Connections -> Probes \cup {1}]
        /\ session' \in [Connections -> Probes \cup {1}]
        /\ session'[n] = op[c].arg.probes
        /\ \A m \in Connections \ {n} : session'[m] = session[m]
    BY <1>1, <1>3 DEF StoresInv, SessionOK
  <2>2. op'[c] = o /\ \A d \in Clients \ {c} : op'[d] = op[d]
    BY <1>2, <1>4
  <2>3. ASSUME NEW d \in Clients PROVE ProbesSet(op'[d], session')
    <3>1. CASE d = c
      BY <1>5, <2>1, <2>2, <3>1 DEF ProbesSet
    <3>2. CASE d # c
      <4>1. ProbesSet(op[d], session) /\ OpOK(op[d]) /\ op'[d] = op[d]
        BY <2>2, <3>2 DEF StoresInv, SessionOK, OpsOK
      <4>2. op[d].conn # n
        BY <1>7, <3>2
      <4> QED
        BY <2>1, <4>1, <4>2 DEF ProbesSet, OpOK
    <3> QED
      BY <3>1, <3>2
  <2> QED
    BY <2>1, <2>3 DEF SessionOK
<1>10. RowsOK'
  BY <1>1 DEF StoresInv, RowsOK
<1> QED
  BY <1>8, <1>9, <1>10 DEF StoresInv

\* An operation that ends leaves the tables as their types say.
LEMMA TablesOK ==
    ASSUME StoresInv, NEW c \in Clients,
           InsertRow(c) \/ StoreRow(c) \/ DeleteRow(c) \/ ReadRows(c)
               \/ GiveUpOperation(c)
    PROVE  StoresInv'
<1>1. Ends(c) /\ UNCHANGED session
  BY DEF InsertRow, StoreRow, DeleteRow, ReadRows, GiveUpOperation
<1>2. (OpsOK /\ ConnectionsNotShared /\ SessionOK)'
  BY <1>1, EndsOK
<1>3. /\ inserted \in 0..MaxRows /\ MaxRows \in Nat
      /\ \A r \in episodes : r.id \in 1..inserted /\ r.goal \in Goals
      /\ memories \subseteq 1..inserted
  BY StoresAssumption DEF StoresInv, RowsOK
<1>4. RowsOK'
  <2>1. CASE InsertRow(c)
    <3>1. op[c].kind = "insert" /\ op[c].at = "statement" /\ OpOK(op[c])
      BY <2>1 DEF InsertRow, Runs, StoresInv, OpsOK
    <3>2. op[c].arg.goal \in Goals
      BY <3>1 DEF OpOK, Rows
    <3>3. inserted' = inserted + 1 /\ inserted' \in 1..MaxRows
      BY <1>3, <2>1 DEF InsertRow
    <3>4. ASSUME NEW r \in episodes'
          PROVE  r.id \in 1..inserted' /\ r.goal \in Goals
      <4>1. CASE r \in episodes
        BY <1>3, <3>3, <4>1
      <4>2. CASE r \notin episodes
        <5>1. r.id = inserted' /\ r.goal = op[c].arg.goal
          BY <2>1, <4>2 DEF InsertRow
        <5> QED
          BY <3>2, <3>3, <5>1
      <4> QED
        BY <4>1, <4>2
    <3>5. memories' \subseteq 1..inserted'
      BY <1>3, <2>1, <3>3 DEF InsertRow
    <3> QED
      BY <1>3, <3>3, <3>4, <3>5 DEF RowsOK
  <2>2. CASE StoreRow(c)
    <3>1. inserted' = inserted + 1 /\ inserted' \in 1..MaxRows
          /\ memories' = memories \cup {inserted'} /\ episodes' = episodes
      BY <1>3, <2>2 DEF StoreRow
    <3> QED
      BY <1>3, <3>1 DEF RowsOK
  <2>3. CASE DeleteRow(c)
    <3>1. episodes' \subseteq episodes /\ memories' \subseteq memories
          /\ inserted' = inserted
      BY <2>3 DEF DeleteRow
    <3> QED
      BY <1>3, <3>1 DEF RowsOK
  <2>4. CASE ReadRows(c) \/ GiveUpOperation(c)
    BY <1>3, <2>4 DEF ReadRows, GiveUpOperation, RowsOK
  <2> QED
    BY <2>1, <2>2, <2>3, <2>4
<1> QED
  BY <1>2, <1>4 DEF StoresInv

\* A row of another program changes nothing that an operation holds.
LEMMA ForeignOK ==
    ASSUME StoresInv, NEW goal \in Goals, ForeignInsert(goal)
    PROVE  StoresInv'
<1>1. /\ inserted \in 0..MaxRows /\ MaxRows \in Nat
      /\ \A r \in episodes : r.id \in 1..inserted /\ r.goal \in Goals
      /\ memories \subseteq 1..inserted
  BY StoresAssumption DEF StoresInv, RowsOK
<1>2. inserted' = inserted + 1 /\ inserted' \in 1..MaxRows
      /\ UNCHANGED <<memories, session, op>>
  BY <1>1 DEF ForeignInsert
<1>3. ASSUME NEW r \in episodes'
      PROVE  r.id \in 1..inserted' /\ r.goal \in Goals
  <2>1. CASE r \in episodes
    BY <1>1, <1>2, <2>1
  <2>2. CASE r \notin episodes
    <3>1. r.id = inserted' /\ r.goal = goal
      BY <2>2 DEF ForeignInsert
    <3> QED
      BY <1>2, <3>1
  <2> QED
    BY <2>1, <2>2
<1>4. RowsOK'
  BY <1>1, <1>2, <1>3 DEF RowsOK
<1> QED
  BY <1>2, <1>4
     DEF StoresInv, OpsOK, ConnectionsNotShared, SessionOK

\* Every statement of every client keeps the invariant.
LEMMA StoresStep == StoresInv /\ [StoresNext]_storesVars => StoresInv'
<1> SUFFICES ASSUME StoresInv, [StoresNext]_storesVars PROVE StoresInv'
  OBVIOUS
<1>1. ASSUME NEW c \in Clients, Operation(c) PROVE StoresInv'
  <2>1. ASSUME NEW goal \in Goals, NEW outcome \in {"Success", "Failure"},
               NEW error \in BOOLEAN, Insert(c, goal, outcome, error)
        PROVE  StoresInv'
    <3>1. [goal |-> goal, outcome |-> outcome] \in Rows
      BY DEF Rows
    <3> QED
      BY <2>1, <3>1, BeginsOK DEF Insert, OpKinds, OpArguments
  <2>2. ASSUME NEW limit \in Limits, Read(c, limit) PROVE StoresInv'
    BY <2>2, BeginsOK DEF Read, OpKinds, OpArguments
  <2>3. ASSUME NEW limit \in Limits, NEW fits \in BOOLEAN, NEW p \in Probes,
               Query(c, fits, limit, p)
        PROVE  StoresInv'
    BY <2>3, BeginsOK DEF Query, OpKinds, OpArguments
  <2>4. ASSUME NEW id \in 1..MaxRows, Delete(c, id) PROVE StoresInv'
    BY <2>4, BeginsOK DEF Delete, OpKinds, OpArguments
  <2>5. ASSUME NEW id \in 1..MaxRows, Forget(c, id) PROVE StoresInv'
    BY <2>5, BeginsOK DEF Forget, OpKinds, OpArguments
  <2>6. ASSUME NEW fits \in BOOLEAN, Store(c, fits) PROVE StoresInv'
    BY <2>6, BeginsOK DEF Store, OpKinds, OpArguments
  <2> QED
    BY <1>1, <2>1, <2>2, <2>3, <2>4, <2>5, <2>6 DEF Operation
<1>2. CASE UNCHANGED storesVars
  BY <1>2 DEF storesVars, StoresInv, OpsOK, ConnectionsNotShared, SessionOK, RowsOK
<1> QED
  BY <1>1, <1>2, AcquireOK, SetProbesOK, TablesOK, ForeignOK DEF StoresNext

\* What operations hold, what the tables hold, and what the sessions are set to.
THEOREM StoresInvariant == StoresSpec => []StoresInv
  BY StoresInitEstablishes, StoresStep, PTL DEF StoresSpec

\* The invariant gives the types, and that a query finds its own probes.
LEMMA StoresInvTypes == StoresInv => StoresTypeOK /\ QueryUsesOwnProbes
  BY DEF StoresInv, OpsOK, OpRecord, OpPoints, RowsOK, SessionOK, ProbesSet,
     StoresTypeOK, QueryUsesOwnProbes

\* The type invariant of the two tables, their clients and their connections.
THEOREM StoresTypesHold == StoresSpec => []StoresTypeOK
  BY StoresInvariant, StoresInvTypes, PTL

\* A query scans with the probes of its own instance, however many clients share
\* however few connections.
THEOREM QueryUsesOwnProbesHolds == StoresSpec => []QueryUsesOwnProbes
  BY StoresInvariant, StoresInvTypes, PTL

-----------------------------------------------------------------------------

(***************************************************************************)
(* The escaping of a keyword.                                              *)
(***************************************************************************)

\* The provers do not know that a literal is a string.
Chars == STRING \cup {"\\", "%", "_"}

Text == Seq(Chars)

Special == {"\\", "%", "_"}

\* out is text with "\" before each of its characters in C: what the first i
\* characters became ends at p[i].
Laid(p, n, text, out, C) ==
    /\ p \in [0..n -> Nat] /\ p[0] = 0 /\ p[n] = Len(out)
    /\ \A i \in 1..n :
          /\ p[i] <= Len(out)
          /\ IF text[i] \in C
             THEN /\ p[i] = p[i - 1] + 2
                  /\ out[p[i - 1] + 1] = "\\" /\ out[p[i - 1] + 2] = text[i]
             ELSE /\ p[i] = p[i - 1] + 1
                  /\ out[p[i - 1] + 1] = text[i]

\* One more character behind a laid out text.
LEMMA LaidFurther ==
    ASSUME NEW text \in Text, NEW n \in 0..(Len(text) - 1), NEW C,
           NEW out \in Text, NEW p, Laid(p, n, text, out, C),
           NEW piece \in Text,
           piece = IF text[n + 1] \in C THEN <<"\\", text[n + 1]>>
                   ELSE <<text[n + 1]>>
    PROVE  \E q : Laid(q, n + 1, text, out \o piece, C)
<1> DEFINE q == [i \in 0..(n + 1) |-> IF i <= n THEN p[i] ELSE p[n] + Len(piece)]
           longer == out \o piece
<1>1. /\ n \in Nat /\ Len(out) \in Nat /\ Len(piece) \in Nat
      /\ p \in [0..n -> Nat] /\ p[0] = 0 /\ p[n] = Len(out)
  BY DEF Laid, Text
<1>2. /\ Len(longer) = Len(out) + Len(piece)
      /\ \A k \in 1..Len(out) : longer[k] = out[k]
      /\ \A k \in 1..Len(piece) : longer[Len(out) + k] = piece[k]
  BY DEF Text
<1>3. /\ q \in [0..(n + 1) -> Nat] /\ q[0] = 0
      /\ q[n + 1] = Len(out) + Len(piece)
      /\ \A i \in 0..n : q[i] = p[i]
  BY <1>1
<1> HIDE DEF q, longer
<1>4. ASSUME NEW i \in 1..n
      PROVE  /\ q[i] <= Len(longer)
             /\ IF text[i] \in C
                THEN /\ q[i] = q[i - 1] + 2
                     /\ longer[q[i - 1] + 1] = "\\" /\ longer[q[i - 1] + 2] = text[i]
                ELSE /\ q[i] = q[i - 1] + 1
                     /\ longer[q[i - 1] + 1] = text[i]
  <2>1. /\ p[i] <= Len(out) /\ p[i] \in Nat /\ p[i - 1] \in Nat
        /\ q[i] = p[i] /\ q[i - 1] = p[i - 1]
    BY <1>1, <1>3 DEF Laid
  <2>2. CASE text[i] \in C
    <3>1. /\ p[i] = p[i - 1] + 2
          /\ out[p[i - 1] + 1] = "\\" /\ out[p[i - 1] + 2] = text[i]
      BY <2>2 DEF Laid
    <3>2. p[i - 1] + 1 \in 1..Len(out) /\ p[i - 1] + 2 \in 1..Len(out)
      BY <1>1, <2>1, <3>1
    <3>3. longer[p[i - 1] + 1] = "\\" /\ longer[p[i - 1] + 2] = text[i]
      BY <1>2, <3>1, <3>2
    <3>4. q[i] <= Len(longer) /\ q[i] = q[i - 1] + 2
      BY <1>1, <1>2, <2>1, <3>1
    <3> QED
      BY <2>1, <2>2, <3>3, <3>4
  <2>3. CASE text[i] \notin C
    <3>1. p[i] = p[i - 1] + 1 /\ out[p[i - 1] + 1] = text[i]
      BY <2>3 DEF Laid
    <3>2. p[i - 1] + 1 \in 1..Len(out)
      BY <1>1, <2>1, <3>1
    <3>3. longer[p[i - 1] + 1] = text[i]
      BY <1>2, <3>1, <3>2
    <3>4. q[i] <= Len(longer) /\ q[i] = q[i - 1] + 1
      BY <1>1, <1>2, <2>1, <3>1
    <3> QED
      BY <2>1, <2>3, <3>3, <3>4
  <2> QED
    BY <2>2, <2>3
<1>5. /\ q[n + 1] <= Len(longer)
      /\ IF text[n + 1] \in C
         THEN /\ q[n + 1] = q[n] + 2
              /\ longer[q[n] + 1] = "\\" /\ longer[q[n] + 2] = text[n + 1]
         ELSE /\ q[n + 1] = q[n] + 1
              /\ longer[q[n] + 1] = text[n + 1]
  <2>1. q[n] = Len(out)
    BY <1>1, <1>3
  <2>2. CASE text[n + 1] \in C
    <3>1. /\ Len(piece) = 2 /\ piece[1] = "\\" /\ piece[2] = text[n + 1]
      BY <2>2
    <3>2. longer[Len(out) + 1] = "\\" /\ longer[Len(out) + 2] = text[n + 1]
      BY <1>2, <3>1
    <3> QED
      BY <1>1, <1>2, <1>3, <2>1, <2>2, <3>1, <3>2
  <2>3. CASE text[n + 1] \notin C
    <3>1. Len(piece) = 1 /\ piece[1] = text[n + 1]
      BY <2>3
    <3>2. longer[Len(out) + 1] = text[n + 1]
      BY <1>2, <3>1
    <3> QED
      BY <1>1, <1>2, <1>3, <2>1, <2>3, <3>1, <3>2
  <2> QED
    BY <2>2, <2>3
<1>6. \A i \in 1..(n + 1) : i \in 1..n \/ (i = n + 1 /\ i - 1 = n)
  BY <1>1
<1>7. q[n + 1] = Len(longer)
  BY <1>2, <1>3
<1>8. Laid(q, n + 1, text, longer, C)
  BY <1>3, <1>4, <1>5, <1>6, <1>7 DEF Laid
<1> QED
  BY <1>8 DEF longer

\* What the recursion of FlattenSeq computes, piece by piece.
LEMMA FlattenShape ==
    ASSUME NEW seqs \in Seq(Text), NEW n, n = Len(seqs), n > 0
    PROVE  \E f : /\ f[1] = seqs[1]
                  /\ \A i \in 2..n : f[i] = f[i - 1] \o seqs[i]
                  /\ FlattenSeq(seqs) = f[n]
<1> DEFINE step == [i \in 1..n |-> [x \in Text |-> x \o seqs[i]]]
           Solves(f) == f = [i \in 1..n |->
                               IF i = 1 THEN seqs[i] ELSE f[i - 1] \o seqs[i]]
           flatten == CHOOSE f : Solves(f)
<1>1. n \in Nat /\ n > 0 /\ \A i \in 1..n : seqs[i] \in Text
  OBVIOUS
<1>2. \A x, y \in Text : x \o y \in Text
  BY DEF Text
<1>3. step \in [1..n -> [Text -> Text]]
  BY <1>1, <1>2
<1>4. \A i \in 1..n, x \in Text : step[i][x] = x \o seqs[i]
  OBVIOUS
<1>5. <<>> \in Text
  BY DEF Text
<1> HIDE DEF step
<1>6. PICK r : r \in [0..n -> Text] /\ Recurs(r, n, <<>>, step)
  BY <1>1, <1>3, <1>5, RecursionExists
<1>7. \A i \in 1..n : r[i] = r[i - 1] \o seqs[i]
  <2> SUFFICES ASSUME NEW i \in 1..n PROVE r[i] = r[i - 1] \o seqs[i]
    OBVIOUS
  <2>1. i - 1 \in 0..n
    BY <1>1
  <2>2. r[i - 1] \in Text /\ r[i] = step[i][r[i - 1]]
    BY <1>6, <2>1 DEF Recurs
  <2> QED
    BY <1>4, <2>2
<1>8. r[1] = seqs[1]
  <2>1. r[0] = <<>> /\ 1 \in 1..n /\ 1 - 1 = 0
    BY <1>1, <1>6 DEF Recurs
  <2>2. r[1] = <<>> \o seqs[1]
    BY <1>7, <2>1
  <2> QED
    BY <1>1, <2>1, <2>2, ConcatEmptySeq DEF Text
<1>9. Solves(flatten)
  <2> DEFINE f == [i \in 1..n |-> r[i]]
  <2>1. ASSUME NEW i \in 1..n
        PROVE  f[i] = IF i = 1 THEN seqs[i] ELSE f[i - 1] \o seqs[i]
    <3>1. CASE i = 1
      BY <1>8, <3>1
    <3>2. CASE i # 1
      <4>1. i - 1 \in 1..n
        BY <3>2
      <4> QED
        BY <1>7, <3>2, <4>1
    <3> QED
      BY <3>1, <3>2
  <2>2. Solves(f)
    BY <2>1
  <2> HIDE DEF Solves, f
  <2> QED
    BY <2>2
<1>10. FlattenSeq(seqs) = flatten[n]
  BY <1>1 DEF FlattenSeq
<1> HIDE DEF flatten
<1>11. /\ flatten[1] = seqs[1]
       /\ \A i \in 2..n : flatten[i] = flatten[i - 1] \o seqs[i]
  <2>1. 1 \in 1..n /\ 2..n \subseteq 1..n
    BY <1>1
  <2>2. \A i \in 2..n : i # 1
    OBVIOUS
  <2> QED
    BY <1>9, <2>1, <2>2
<1> QED
  BY <1>10, <1>11

\* Escaping one character lays the text out around it.
LEMMA ReplacedLaid ==
    ASSUME NEW text \in Text, NEW char \in Chars
    PROVE  /\ Replaced(text, char) \in Text
           /\ \E p : Laid(p, Len(text), text, Replaced(text, char), {char})
<1> DEFINE n == Len(text)
           pieces == [i \in 1..n |->
                        IF text[i] = char THEN <<"\\", char>> ELSE <<text[i]>>]
<1>1. n \in Nat /\ \A i \in 1..n : text[i] \in Chars
  BY DEF Text
<1>2. \A i \in 1..n : pieces[i] \in Text
  <2>1. /\ \A a, b \in Chars : <<a, b>> \in Text
        /\ \A a \in Chars : <<a>> \in Text
    BY DEF Text
  <2>2. "\\" \in Chars
    BY DEF Chars
  <2> QED
    BY <1>1, <2>1, <2>2
<1>3. pieces \in Seq(Text) /\ Len(pieces) = n
  BY <1>1, <1>2
<1>4. \A i \in 1..n : pieces[i] = IF text[i] \in {char} THEN <<"\\", text[i]>>
                                  ELSE <<text[i]>>
  OBVIOUS
<1>5. Replaced(text, char) = FlattenSeq(pieces)
  BY DEF Replaced
<1>6. \E p : Laid(p, 0, text, <<>>, {char})
  <2> DEFINE p == [i \in 0..0 |-> 0]
  <2>1. Laid(p, 0, text, <<>>, {char})
    BY DEF Laid
  <2> QED
    BY <2>1
<1>7. CASE n = 0
  <2>1. pieces = <<>>
    BY <1>3, <1>7, EmptySeq
  <2>2. FlattenSeq(pieces) = <<>>
    BY <2>1 DEF FlattenSeq
  <2>3. Replaced(text, char) = <<>> /\ <<>> \in Text
    BY <1>5, <2>2 DEF Text
  <2>4. \E p : Laid(p, n, text, <<>>, {char})
    BY <1>6, <1>7
  <2> HIDE DEF n, pieces
  <2> QED
    BY <2>3, <2>4 DEF n
<1>8. CASE n # 0
  <2> HIDE DEF pieces
  <2>5. n = Len(pieces) /\ n > 0
    BY <1>1, <1>3, <1>8
  <2>1. PICK f : /\ f[1] = pieces[1]
                 /\ \A i \in 2..n : f[i] = f[i - 1] \o pieces[i]
                 /\ FlattenSeq(pieces) = f[n]
    <3> HIDE DEF n
    <3> QED
      BY <1>3, <2>5, FlattenShape
  <2> DEFINE Good(i) == /\ f[i] \in Text
                        /\ \E p : Laid(p, i, text, f[i], {char})
             T == {i \in 1..n : ~Good(i)}
  <2>2. T = {}
    <3> SUFFICES ASSUME T # {} PROVE FALSE
      OBVIOUS
    <3>1. PICK m \in T : \A k \in T : m <= k
      <4>1. T \subseteq Nat
        OBVIOUS
      <4> HIDE DEF T
      <4> QED
        BY <4>1, LeastNumber
    <3>2. m \in 1..n /\ ~Good(m)
      OBVIOUS
    <3>3. CASE m = 1
      <4>1. /\ <<>> \in Text /\ pieces[1] \in Text
            /\ 0 \in 0..(n - 1) /\ 0 + 1 = 1
        BY <1>1, <1>2, <1>8 DEF Text
      <4> DEFINE piece == pieces[1]
      <4>5. piece = IF text[0 + 1] \in {char} THEN <<"\\", text[0 + 1]>>
                    ELSE <<text[0 + 1]>>
        BY <1>1, <1>4, <1>8, <4>1
      <4>6. piece \in Text /\ 0 \in 0..(Len(text) - 1)
        BY <4>1
      <4> HIDE DEF piece
      <4>7. \E q : Laid(q, 0 + 1, text, <<>> \o piece, {char})
        BY <1>6, <4>1, <4>5, <4>6, LaidFurther
      <4>2. \E p : Laid(p, 1, text, <<>> \o pieces[1], {char})
        BY <4>1, <4>7 DEF piece
      <4>3. <<>> \o pieces[1] = pieces[1]
        BY <4>1, ConcatEmptySeq DEF Text
      <4> QED
        BY <2>1, <3>2, <3>3, <4>1, <4>2, <4>3
    <3>4. CASE m # 1
      <4>1. m - 1 \in 1..n /\ m \in 2..n /\ ~(m <= m - 1)
        BY <3>2, <3>4
      <4>2. Good(m - 1)
        BY <3>1, <4>1
      <4>3. f[m] = f[m - 1] \o pieces[m] /\ pieces[m] \in Text
        BY <1>2, <2>1, <4>1
      <4>4. m - 1 \in 0..(Len(text) - 1) /\ (m - 1) + 1 = m
        BY <4>1
      <4>5. \E p : Laid(p, m, text, f[m - 1] \o pieces[m], {char})
        BY <1>4, <4>1, <4>2, <4>3, <4>4, LaidFurther
      <4>6. f[m - 1] \o pieces[m] \in Text
        BY <4>2, <4>3 DEF Text
      <4> QED
        BY <3>2, <4>3, <4>5, <4>6
    <3> QED
      BY <3>3, <3>4
  <2>3. n \in 1..n
    BY <1>1, <1>8
  <2>4. Good(n)
    BY <2>2, <2>3
  <2> QED
    BY <1>5, <2>1, <2>4
<1> QED
  BY <1>7, <1>8

\* Escaping one more character, other than "\", of an escaped text.
LEMMA ComposeLaid ==
    ASSUME NEW text \in Text, NEW mid \in Text, NEW out \in Text, NEW C, NEW c,
           c \notin C, c # "\\",
           NEW p, Laid(p, Len(text), text, mid, C),
           NEW q, Laid(q, Len(mid), mid, out, {c})
    PROVE  \E r : Laid(r, Len(text), text, out, C \cup {c})
<1> DEFINE n == Len(text)
           m == Len(mid)
           r == [i \in 0..n |-> q[p[i]]]
           D == C \cup {c}
<1>1. /\ n \in Nat /\ m \in Nat /\ Len(out) \in Nat
      /\ p \in [0..n -> Nat] /\ p[0] = 0 /\ p[n] = m
      /\ q \in [0..m -> Nat] /\ q[0] = 0 /\ q[m] = Len(out)
  BY DEF Laid, Text
<1>2. \A i \in 0..n : p[i] \in 0..m
  <2> SUFFICES ASSUME NEW i \in 0..n PROVE p[i] \in 0..m
    OBVIOUS
  <2>1. CASE i = 0
    BY <1>1, <2>1
  <2>2. CASE i # 0
    <3>1. i \in 1..n
      BY <1>1, <2>2
    <3>2. p[i] <= m /\ p[i] \in Nat
      BY <1>1, <3>1 DEF Laid
    <3> QED
      BY <1>1, <3>2
  <2> QED
    BY <2>1, <2>2
<1>3. r \in [0..n -> Nat] /\ r[0] = 0 /\ r[n] = Len(out)
  BY <1>1, <1>2
<1>4. \A k \in 1..m :
         /\ q[k] <= Len(out)
         /\ mid[k] = c => /\ q[k] = q[k - 1] + 2
                          /\ out[q[k - 1] + 1] = "\\"
                          /\ out[q[k - 1] + 2] = mid[k]
         /\ mid[k] # c => q[k] = q[k - 1] + 1 /\ out[q[k - 1] + 1] = mid[k]
  BY DEF Laid
<1>5. \A i \in 1..n :
         /\ text[i] \in C => /\ p[i] = p[i - 1] + 2
                             /\ mid[p[i - 1] + 1] = "\\"
                             /\ mid[p[i - 1] + 2] = text[i]
         /\ text[i] \notin C => /\ p[i] = p[i - 1] + 1
                                /\ mid[p[i - 1] + 1] = text[i]
  BY DEF Laid
<1>6. \A i \in 0..n : r[i] = q[p[i]]
  OBVIOUS
<1> HIDE DEF r, m
<1>7. ASSUME NEW i \in 1..n
      PROVE  /\ r[i] <= Len(out)
             /\ IF text[i] \in D
                THEN /\ r[i] = r[i - 1] + 2
                     /\ out[r[i - 1] + 1] = "\\" /\ out[r[i - 1] + 2] = text[i]
                ELSE /\ r[i] = r[i - 1] + 1
                     /\ out[r[i - 1] + 1] = text[i]
  <2> DEFINE a == p[i - 1]
  <2>1. i \in 0..n /\ i - 1 \in 0..n
    BY <1>1
  <2>2. /\ a \in 0..m /\ p[i] \in 0..m
        /\ r[i] = q[p[i]] /\ r[i - 1] = q[a] /\ q[a] \in Nat
    BY <1>1, <1>2, <1>6, <2>1
  <2>3. /\ text[i] \in C => /\ p[i] = a + 2
                            /\ mid[a + 1] = "\\" /\ mid[a + 2] = text[i]
        /\ text[i] \notin C => p[i] = a + 1 /\ mid[a + 1] = text[i]
    BY <1>5
  <2>4. p[i] \in 1..m
    BY <1>1, <2>2, <2>3
  <2>5. r[i] <= Len(out)
    BY <1>4, <2>2, <2>4
  <2> HIDE DEF a
  <2>6. CASE text[i] \in C
    <3>1. /\ a + 1 \in 1..m /\ a + 2 \in 1..m
          /\ (a + 1) - 1 = a /\ (a + 2) - 1 = a + 1
      BY <1>1, <2>2, <2>3, <2>4, <2>6
    <3>2. mid[a + 1] # c
      BY <2>3, <2>6
    <3>3. mid[a + 2] # c
      BY <2>3, <2>6
    <3>4. q[a + 1] = q[a] + 1 /\ out[q[a] + 1] = mid[a + 1]
      BY <1>4, <3>1, <3>2
    <3>5. q[a + 2] = q[a + 1] + 1 /\ out[q[a + 1] + 1] = mid[a + 2]
      BY <1>4, <3>1, <3>3
    <3>6. q[a + 2] = q[a] + 2 /\ q[a + 1] + 1 = q[a] + 2
      BY <2>2, <3>4, <3>5
    <3>7. /\ r[i] = r[i - 1] + 2
          /\ out[r[i - 1] + 1] = "\\" /\ out[r[i - 1] + 2] = text[i]
      <4>1. r[i] = r[i - 1] + 2
        BY <2>2, <2>3, <2>6, <3>6
      <4>2. out[r[i - 1] + 1] = "\\"
        BY <2>2, <2>3, <2>6, <3>4
      <4>3. out[r[i - 1] + 2] = text[i]
        BY <2>2, <2>3, <2>6, <3>5, <3>6
      <4> QED
        BY <4>1, <4>2, <4>3
    <3>8. text[i] \in D
      BY <2>6
    <3> QED
      BY <2>5, <3>7, <3>8
  <2>7. CASE text[i] \notin C
    <3>1. a + 1 \in 1..m /\ (a + 1) - 1 = a
      BY <1>1, <2>2, <2>3, <2>4, <2>7
    <3>2. p[i] = a + 1 /\ mid[a + 1] = text[i]
      BY <2>3, <2>7
    <3>3. CASE text[i] = c
      <4>1. /\ q[a + 1] = q[a] + 2 /\ out[q[a] + 1] = "\\"
            /\ out[q[a] + 2] = mid[a + 1]
        BY <1>4, <3>1, <3>2, <3>3
      <4>2. text[i] \in D
        BY <3>3
      <4>3. r[i] = r[i - 1] + 2
        BY <2>2, <3>2, <4>1
      <4>4. out[r[i - 1] + 1] = "\\" /\ out[r[i - 1] + 2] = text[i]
        BY <2>2, <3>2, <4>1
      <4> QED
        BY <2>5, <4>2, <4>3, <4>4
    <3>4. CASE text[i] # c
      <4>1. q[a + 1] = q[a] + 1 /\ out[q[a] + 1] = mid[a + 1]
        BY <1>4, <3>1, <3>2, <3>4
      <4>2. text[i] \notin D
        BY <2>7, <3>4
      <4>3. r[i] = r[i - 1] + 1
        BY <2>2, <3>2, <4>1
      <4>4. out[r[i - 1] + 1] = text[i]
        BY <2>2, <3>2, <4>1
      <4> QED
        BY <2>5, <4>2, <4>3, <4>4
    <3> QED
      BY <3>3, <3>4
  <2> QED
    BY <2>6, <2>7
<1> HIDE DEF D, n
<1>8. Laid(r, n, text, out, D)
  BY <1>3, <1>7 DEF Laid
<1> QED
  BY <1>8 DEF D, n

\* A keyword as it is written into a pattern.
LEMMA EscapedLaid ==
    ASSUME NEW keyword \in Text
    PROVE  /\ Escaped(keyword) \in Text
           /\ \E p : Laid(p, Len(keyword), keyword, Escaped(keyword), Special)
<1> DEFINE one == Replaced(keyword, "\\")
           two == Replaced(one, "%")
           three == Replaced(two, "_")
<1>1. {"\\", "%", "_"} \subseteq Chars
  BY DEF Chars
<1>2. one \in Text /\ \E p : Laid(p, Len(keyword), keyword, one, {"\\"})
  BY <1>1, ReplacedLaid
<1> HIDE DEF one
<1>3. two \in Text /\ \E p : Laid(p, Len(one), one, two, {"%"})
  BY <1>1, <1>2, ReplacedLaid
<1> HIDE DEF two
<1>4. three \in Text /\ \E p : Laid(p, Len(two), two, three, {"_"})
  BY <1>1, <1>3, ReplacedLaid
<1> HIDE DEF three
<1>5. \E p : Laid(p, Len(keyword), keyword, two, {"\\"} \cup {"%"})
  <2>1. "%" \notin {"\\"} /\ "%" # "\\"
    OBVIOUS
  <2> QED
    BY <1>2, <1>3, <2>1, ComposeLaid
<1> DEFINE C == {"\\"} \cup {"%"}
<1>6. \E p : Laid(p, Len(keyword), keyword, three, C \cup {"_"})
  <2>1. "_" \notin C /\ "_" # "\\"
    OBVIOUS
  <2>2. \E p : Laid(p, Len(keyword), keyword, two, C)
    BY <1>5
  <2> HIDE DEF C
  <2> QED
    BY <1>3, <1>4, <2>1, <2>2, ComposeLaid
<1>7. C \cup {"_"} = Special
  BY DEF Special
<1>8. Escaped(keyword) = three
  BY DEF Escaped, three, two, one
<1> HIDE DEF C
<1> QED
  BY <1>4, <1>6, <1>7, <1>8

(***************************************************************************)
(* ILIKE.                                                                  *)
(***************************************************************************)

\* f[j] is where text matches pattern from its character j on.
LikeRows(f, text, pattern) ==
    \A j \in 1..(Len(pattern) + 2) :
        f[j] = IF j > Len(pattern) THEN {Len(text) + 1}
               ELSE MatchesFrom(text, pattern, j, f[j + 1], f[j + 2])

\* The recursion of ILike has a solution.
LEMMA LikeShape ==
    ASSUME NEW text \in Text, NEW pattern \in Text
    PROVE  \E f : /\ LikeRows(f, text, pattern)
                  /\ ILike(text, pattern) <=> 1 \in f[1]
<1> DEFINE n == Len(text)
           m == Len(pattern)
           Places == SUBSET (1..(n + 1))
           Pairs == Places \X Places
           Match(j, x, y) == MatchesFrom(text, pattern, j, x, y)
           step == [k \in 1..m |-> [x \in Pairs |->
                      <<Match(m + 1 - k, x[1], x[2]), x[1]>>]]
           end == {n + 1}
           Solves(f) == f = [j \in 1..(m + 2) |->
                               IF j > m THEN {n + 1}
                               ELSE Match(j, f[j + 1], f[j + 2])]
           from == CHOOSE f : Solves(f)
<1>1. n \in Nat /\ m \in Nat
  BY DEF Text
<1>2. ASSUME NEW j, NEW x, NEW y PROVE Match(j, x, y) \in Places
  <2>1. \/ Match(j, x, y) = {i \in 1..(n + 1) : \E k \in i..(n + 1) : k \in x}
        \/ Match(j, x, y) = {i \in 1..n : i + 1 \in x}
        \/ Match(j, x, y) = {i \in 1..n : /\ j < Len(pattern)
                                          /\ text[i] = pattern[j + 1]
                                          /\ i + 1 \in y}
        \/ Match(j, x, y) = {i \in 1..n : /\ Lower(text[i]) = Lower(pattern[j])
                                          /\ i + 1 \in x}
    BY DEF MatchesFrom
  <2>2. 1..n \subseteq 1..(n + 1)
    BY <1>1
  <2> HIDE DEF Match, n
  <2> QED
    BY <2>1, <2>2
<1> HIDE DEF Match
<1>3. step \in [1..m -> [Pairs -> Pairs]]
  BY <1>2
<1>4. <<end, end>> \in Pairs
  BY <1>1
<1>5. \A k \in 1..m, x \in Pairs :
         step[k][x] = <<Match(m + 1 - k, x[1], x[2]), x[1]>>
  OBVIOUS
<1> HIDE DEF step, Pairs
<1>6. PICK r : r \in [0..m -> Pairs] /\ Recurs(r, m, <<end, end>>, step)
  BY <1>1, <1>3, <1>4, RecursionExists
<1>7. r[0][1] = end /\ r[0][2] = end
  BY <1>6 DEF Recurs
<1>8. \A k \in 1..m : /\ r[k][1] = Match(m + 1 - k, r[k - 1][1], r[k - 1][2])
                      /\ r[k][2] = r[k - 1][1]
  <2> SUFFICES ASSUME NEW k \in 1..m
               PROVE  /\ r[k][1] = Match(m + 1 - k, r[k - 1][1], r[k - 1][2])
                      /\ r[k][2] = r[k - 1][1]
    OBVIOUS
  <2>1. k - 1 \in 0..m
    BY <1>1
  <2>2. r[k - 1] \in Pairs /\ r[k] = step[k][r[k - 1]]
    BY <1>6, <2>1 DEF Recurs
  <2> QED
    BY <1>5, <2>2
<1> DEFINE f == [j \in 1..(m + 2) |-> IF j > m THEN end ELSE r[m + 1 - j][1]]
<1>9. \A j \in 1..(m + 2) : f[j] = IF j > m THEN end ELSE r[m + 1 - j][1]
  OBVIOUS
<1>10. f = [j \in 1..(m + 2) |-> f[j]]
  OBVIOUS
<1> HIDE DEF f, end
<1>11. ASSUME NEW j \in 1..(m + 2)
       PROVE  f[j] = IF j > m THEN end ELSE Match(j, f[j + 1], f[j + 2])
  <2>1. CASE j > m
    BY <1>9, <2>1
  <2>2. CASE j <= m
    <3>1. m + 1 - j \in 1..m /\ m + 1 - (m + 1 - j) = j /\ m + 1 - j - 1 = m - j
      BY <1>1, <2>2
    <3>2. r[m + 1 - j][1] = Match(j, r[m - j][1], r[m - j][2])
      BY <1>8, <3>1
    <3>3. f[j] = r[m + 1 - j][1]
      BY <1>1, <1>9, <2>2
    <3>4. f[j + 1] = r[m - j][1]
      <4>1. j + 1 \in 1..(m + 2) /\ m + 1 - (j + 1) = m - j
        BY <1>1, <2>2
      <4>2. CASE j = m
        <5>1. j + 1 > m /\ m - j = 0
          BY <1>1, <4>2
        <5> QED
          BY <1>7, <1>9, <4>1, <5>1
      <4>3. CASE j # m
        <5>1. ~(j + 1 > m)
          BY <1>1, <2>2, <4>3
        <5> QED
          BY <1>9, <4>1, <5>1
      <4> QED
        BY <4>2, <4>3
    <3>5. f[j + 2] = r[m - j][2]
      <4>1. j + 2 \in 1..(m + 2)
        BY <1>1, <2>2
      <4>2. CASE j = m
        <5>1. j + 2 > m /\ m - j = 0
          BY <1>1, <4>2
        <5> QED
          BY <1>7, <1>9, <4>1, <5>1
      <4>3. CASE j # m
        <5>1. m - j \in 1..m /\ m - j - 1 \in 0..m
          BY <1>1, <2>2, <4>3
        <5>2. r[m - j][2] = r[m - j - 1][1]
          BY <1>8, <5>1
        <5>3. CASE j + 1 = m
          <6>1. j + 2 > m /\ m - j - 1 = 0
            BY <1>1, <5>3
          <6> QED
            BY <1>7, <1>9, <4>1, <5>2, <6>1
        <5>4. CASE j + 1 # m
          <6>1. ~(j + 2 > m) /\ m + 1 - (j + 2) = m - j - 1
            BY <1>1, <2>2, <4>3, <5>4
          <6> QED
            BY <1>9, <4>1, <5>2, <6>1
        <5> QED
          BY <5>3, <5>4
      <4> QED
        BY <4>2, <4>3
    <3>6. ~(j > m)
      BY <1>1, <2>2
    <3> QED
      BY <3>2, <3>3, <3>4, <3>5, <3>6
  <2> QED
    BY <1>1, <2>1, <2>2
<1>12. Solves(f)
  BY <1>10, <1>11 DEF end
<1>13. Solves(from)
  <2> HIDE DEF Solves
  <2> QED
    BY <1>12
<1>14. ILike(text, pattern) <=> 1 \in from[1]
  BY DEF ILike, Match
<1> HIDE DEF from
<1>15. LikeRows(from, text, pattern)
  <2>1. \A j \in 1..(m + 2) : from[j] = IF j > m THEN {n + 1}
                                        ELSE Match(j, from[j + 1], from[j + 2])
    BY <1>13
  <2> QED
    BY <2>1 DEF LikeRows, Match
<1> QED
  BY <1>14, <1>15

\* Where the keyword from its character q + 1 on occurs in the text.
OccursFrom(text, keyword, q) ==
    {i \in 1..(Len(text) + 1) :
        /\ i + Len(keyword) - q <= Len(text) + 1
        /\ \A t \in (q + 1)..Len(keyword) :
              Lower(text[i + t - q - 1]) = Lower(keyword[t])}

\* The case of letters does not matter to the characters that are escaped.
LEMMA LowerOfSpecial ==
    \A c \in Special : \A x : (Lower(x) = Lower(c)) <=> x = c
<1>1. \A c \in Special : Lower(c) = c /\ c # "a"
  BY DEF Lower, Special
<1> QED
  BY <1>1 DEF Lower

\* The keyword occurs where its next character stands before its rest.
LEMMA OccursStep ==
    ASSUME NEW text \in Text, NEW keyword \in Text,
           NEW q \in 0..(Len(keyword) - 1)
    PROVE  OccursFrom(text, keyword, q) =
               {i \in 1..Len(text) :
                   /\ Lower(text[i]) = Lower(keyword[q + 1])
                   /\ i + 1 \in OccursFrom(text, keyword, q + 1)}
<1> DEFINE n == Len(text)
           l == Len(keyword)
           Same(i, t) == Lower(text[i + t - q - 1]) = Lower(keyword[t])
           Next1(i, t) == Lower(text[(i + 1) + t - (q + 1) - 1]) = Lower(keyword[t])
<1>1. n \in Nat /\ l \in Nat /\ q \in Nat /\ q + 1 \in (q + 1)..l
  BY DEF Text
<1>2. ASSUME NEW i \in Nat
      PROVE  /\ \A t \in (q + 2)..l : Same(i, t) <=> Next1(i, t)
             /\ Same(i, q + 1) <=> Lower(text[i]) = Lower(keyword[q + 1])
  <2>1. \A t \in (q + 2)..l : (i + 1) + t - (q + 1) - 1 = i + t - q - 1
    BY <1>1
  <2>2. i + (q + 1) - q - 1 = i
    BY <1>1
  <2> QED
    BY <2>1, <2>2
<1>3. \A t \in (q + 1)..l : t = q + 1 \/ t \in (q + 2)..l
  BY <1>1
<1>4. \A t \in (q + 2)..l : t \in (q + 1)..l
  BY <1>1
<1>5. ASSUME NEW i \in Nat
      PROVE  (\A t \in (q + 1)..l : Same(i, t)) <=>
                 /\ Lower(text[i]) = Lower(keyword[q + 1])
                 /\ \A t \in (q + 2)..l : Next1(i, t)
  <2> HIDE DEF Same, Next1
  <2> QED
    BY <1>1, <1>2, <1>3, <1>4
<1>6. ASSUME NEW i
      PROVE  i \in OccursFrom(text, keyword, q) <=>
                 /\ i \in 1..(n + 1) /\ i + l - q <= n + 1
                 /\ \A t \in (q + 1)..l : Same(i, t)
  BY DEF OccursFrom
<1>7. ASSUME NEW i
      PROVE  i + 1 \in OccursFrom(text, keyword, q + 1) <=>
                 /\ i + 1 \in 1..(n + 1) /\ (i + 1) + l - (q + 1) <= n + 1
                 /\ \A t \in ((q + 1) + 1)..l : Next1(i, t)
  BY DEF OccursFrom
<1>8. (q + 1) + 1 = q + 2
  BY <1>1
<1>9. ASSUME NEW i \in Nat
      PROVE  (i \in 1..(n + 1) /\ i + l - q <= n + 1) <=>
                 /\ i \in 1..n /\ i + 1 \in 1..(n + 1)
                 /\ (i + 1) + l - (q + 1) <= n + 1
  BY <1>1
<1> HIDE DEF Same, Next1, n, l
<1>10. ASSUME NEW i \in Nat
       PROVE  i \in OccursFrom(text, keyword, q) <=>
                  /\ i \in 1..n
                  /\ Lower(text[i]) = Lower(keyword[q + 1])
                  /\ i + 1 \in OccursFrom(text, keyword, q + 1)
  BY <1>5, <1>6, <1>7, <1>8, <1>9
<1>11. /\ OccursFrom(text, keyword, q) \subseteq Nat
       /\ 1..n \subseteq Nat
  BY DEF OccursFrom
<1> QED
  BY <1>10, <1>11 DEF n

Wrapped(out) == <<"%">> \o out \o <<"%">>

\* What a laid out pattern matches: the rest of the keyword.
LEMMA RowsOccur ==
    ASSUME NEW text \in Text, NEW keyword \in Text, NEW out \in Text,
           NEW p, Laid(p, Len(keyword), keyword, out, Special),
           NEW pattern \in Text, pattern = Wrapped(out),
           NEW f, LikeRows(f, text, pattern)
    PROVE  \A q \in 0..Len(keyword) : f[p[q] + 2] = OccursFrom(text, keyword, q)
<1> DEFINE n == Len(text)
           l == Len(keyword)
           e == Len(out)
           m == Len(pattern)
           C == Special
           T == {k \in 0..l : f[p[l - k] + 2] # OccursFrom(text, keyword, l - k)}
<1>1. n \in Nat /\ l \in Nat /\ e \in Nat
  BY DEF Text
<1>2. /\ m = e + 2 /\ pattern[1] = "%" /\ pattern[e + 2] = "%"
      /\ \A k \in 1..e : pattern[k + 1] = out[k]
  <2>1. <<"%">> \in Text
    <3>1. "%" \in Chars
      BY DEF Chars
    <3>2. \A x \in Chars : <<x>> \in Text
      BY DEF Text
    <3> QED
      BY <3>1, <3>2
  <2> QED
    BY <2>1 DEF Text, Wrapped
<1>3. p \in [0..l -> Nat] /\ p[l] = e /\ p[0] = 0
  BY DEF Laid
<1>4. \A i \in 1..l :
         /\ p[i] <= e
         /\ keyword[i] \in C => /\ p[i] = p[i - 1] + 2
                                /\ out[p[i - 1] + 1] = "\\"
                                /\ out[p[i - 1] + 2] = keyword[i]
         /\ keyword[i] \notin C => /\ p[i] = p[i - 1] + 1
                                   /\ out[p[i - 1] + 1] = keyword[i]
  BY DEF Laid
<1>5. \A j \in 1..(m + 2) :
         f[j] = IF j > m THEN {n + 1}
                ELSE MatchesFrom(text, pattern, j, f[j + 1], f[j + 2])
  BY DEF LikeRows
<1>6. SUFFICES ASSUME T # {} PROVE FALSE
  <2>1. \A q \in 0..l : l - q \in 0..l /\ l - (l - q) = q
    BY <1>1
  <2> HIDE DEF l
  <2>2. \A k \in 0..l : f[p[l - k] + 2] = OccursFrom(text, keyword, l - k)
    BY <1>6
  <2> QED
    BY <2>1, <2>2 DEF l
<1>7. PICK d \in T : \A k \in T : d <= k
  <2>1. T \subseteq Nat
    OBVIOUS
  <2> HIDE DEF T
  <2> QED
    BY <1>6, <2>1, LeastNumber
<1>8. d \in 0..l /\ f[p[l - d] + 2] # OccursFrom(text, keyword, l - d)
  OBVIOUS
<1>9. \A k \in 0..l : k < d => f[p[l - k] + 2] = OccursFrom(text, keyword, l - k)
  BY <1>1, <1>7
<1> HIDE DEF T
<1>10. CASE d = 0
  <2>11. m + 1 \in 1..(m + 2) /\ m + 1 > m /\ m \in 1..(m + 2) /\ ~(m > m)
    BY <1>1, <1>2
  <2>1. f[m + 1] = {n + 1}
    BY <1>5, <2>11
  <2>2. f[m] = MatchesFrom(text, pattern, m, f[m + 1], f[m + 2])
    BY <1>5, <2>11
  <2>3. f[m] = {i \in 1..(n + 1) : \E k \in i..(n + 1) : k \in f[m + 1]}
    BY <1>2, <2>2 DEF MatchesFrom
  <2>4. n + 1 \in f[m + 1]
    BY <2>1
  <2>5. \A i \in 1..(n + 1) : n + 1 \in i..(n + 1)
    BY <1>1
  <2>6. f[m] = 1..(n + 1)
    BY <2>3, <2>4, <2>5
  <2>7. \A i \in 1..(n + 1) : i + l - l <= n + 1
    BY <1>1
  <2>8. (l + 1)..l = {}
    BY <1>1
  <2>9. OccursFrom(text, keyword, l) = 1..(n + 1)
    BY <2>7, <2>8 DEF OccursFrom
  <2>10. l - d = l /\ p[l] + 2 = m
    BY <1>1, <1>2, <1>3, <1>10
  <2> QED
    BY <1>8, <2>6, <2>9, <2>10
<1>11. CASE d # 0
  <2> DEFINE q == l - d
             i == q + 1
             j == p[q] + 2
             c == keyword[i]
             Rest == OccursFrom(text, keyword, i)
  <2>1. /\ i \in 1..l /\ q \in 0..(l - 1) /\ q \in 0..l /\ i - 1 = q
        /\ d - 1 \in 0..l /\ d - 1 < d /\ l - (d - 1) = i
    BY <1>1, <1>8, <1>11
  <2>2. f[p[i] + 2] = Rest
    BY <1>9, <2>1
  <2>3. OccursFrom(text, keyword, q) =
            {x \in 1..n : Lower(text[x]) = Lower(c) /\ x + 1 \in Rest}
    BY <2>1, OccursStep
  <2>4. p[q] \in Nat /\ p[i] \in Nat /\ p[i] <= e
    BY <1>3, <1>4, <2>1
  <2>5. /\ c \in C => /\ p[i] = p[q] + 2 /\ out[p[q] + 1] = "\\"
                      /\ out[p[q] + 2] = c
        /\ c \notin C => p[i] = p[q] + 1 /\ out[p[q] + 1] = c
    <3>1. i \in 1..l /\ p[i - 1] = p[q] /\ keyword[i] = c
      BY <2>1
    <3> HIDE DEF q, i, c, C, l
    <3> QED
      BY <1>4, <3>1
  <2>6. j \in 1..(m + 2) /\ ~(j > m) /\ p[q] + 1 \in 1..e
    BY <1>1, <1>2, <2>4, <2>5
  <2>7. f[j] = MatchesFrom(text, pattern, j, f[j + 1], f[j + 2])
    BY <1>5, <2>6
  <2>8. pattern[j] = out[p[q] + 1]
    <3>1. j = (p[q] + 1) + 1
      BY <2>4
    <3> QED
      BY <1>2, <2>6, <3>1
  <2> HIDE DEF q, i, c, Rest, C
  <2>9. CASE c \in C
    <3>1. pattern[j] = "\\"
      BY <2>5, <2>8, <2>9
    <3>2. /\ p[q] + 2 \in 1..e /\ (p[q] + 2) + 1 = j + 1
          /\ j < m /\ j + 2 = p[i] + 2
      BY <1>1, <1>2, <2>4, <2>5, <2>9
    <3>3. pattern[j + 1] = c
      BY <1>2, <2>5, <2>9, <3>2
    <3> HIDE DEF j, m, n
    <3>4. f[j] = {x \in 1..n : /\ j < m /\ text[x] = pattern[j + 1]
                               /\ x + 1 \in f[j + 2]}
      BY <2>7, <3>1 DEF MatchesFrom, n, m
    <3>5. f[j] = {x \in 1..n : text[x] = c /\ x + 1 \in Rest}
      BY <2>2, <3>2, <3>3, <3>4
    <3>6. \A x : (Lower(x) = Lower(c)) <=> x = c
      BY <2>9, LowerOfSpecial DEF C
    <3>7. f[j] = OccursFrom(text, keyword, q)
      BY <2>3, <3>5, <3>6
    <3> QED
      BY <1>8, <3>7 DEF j, q
  <2>10. CASE c \notin C
    <3>1. pattern[j] = c /\ j + 1 = p[i] + 2
      BY <2>4, <2>5, <2>8, <2>10
    <3>2. c # "\\" /\ c # "%" /\ c # "_"
      BY <2>10 DEF C, Special
    <3> HIDE DEF j, m, n
    <3>3. f[j] = {x \in 1..n : /\ Lower(text[x]) = Lower(c)
                               /\ x + 1 \in f[j + 1]}
      BY <2>7, <3>1, <3>2 DEF MatchesFrom, n
    <3>4. f[j] = OccursFrom(text, keyword, q)
      BY <2>2, <2>3, <3>1, <3>3
    <3> QED
      BY <1>8, <3>4 DEF j, q
  <2> QED
    BY <2>9, <2>10
<1> QED
  BY <1>10, <1>11

\* The pattern of a keyword matches the texts that contain it literally.
LEMMA LikeIsContains ==
    ASSUME NEW text \in Text, NEW keyword \in Text
    PROVE  ILike(text, <<"%">> \o Escaped(keyword) \o <<"%">>)
               <=> ContainsText(text, keyword)
<1> DEFINE out == Escaped(keyword)
           pattern == <<"%">> \o out \o <<"%">>
           n == Len(text)
           l == Len(keyword)
<1>1. n \in Nat /\ l \in Nat
  BY DEF Text
<1>2. PICK p : /\ out \in Text
               /\ Laid(p, l, keyword, out, Special)
  BY EscapedLaid
<1> HIDE DEF out
<1>3. pattern \in Text
  <2>1. <<"%">> \in Text
    <3>1. "%" \in Chars
      BY DEF Chars
    <3>2. \A x \in Chars : <<x>> \in Text
      BY DEF Text
    <3> QED
      BY <3>1, <3>2
  <2> QED
    BY <1>2, <2>1 DEF Text
<1>4. pattern = Wrapped(out)
  BY DEF Wrapped
<1>5. Len(pattern) \in Nat /\ Len(pattern) > 0 /\ pattern[1] = "%"
  <2>1. <<"%">> \in Text
    <3>1. "%" \in Chars
      BY DEF Chars
    <3>2. \A x \in Chars : <<x>> \in Text
      BY DEF Text
    <3> QED
      BY <3>1, <3>2
  <2> QED
    BY <1>2, <2>1 DEF Text
<1> HIDE DEF pattern
<1>6. PICK f : /\ LikeRows(f, text, pattern)
               /\ ILike(text, pattern) <=> 1 \in f[1]
  BY <1>3, LikeShape
<1>7. f[p[0] + 2] = OccursFrom(text, keyword, 0)
  <2>1. 0 \in 0..l
    BY <1>1
  <2>2. \A q \in 0..Len(keyword) : f[p[q] + 2] = OccursFrom(text, keyword, q)
    BY <1>2, <1>3, <1>4, <1>6, RowsOccur
  <2> QED
    BY <2>1, <2>2
<1>8. p[0] + 2 = 2
  BY <1>2 DEF Laid
<1>9. f[1] = MatchesFrom(text, pattern, 1, f[2], f[3])
  <2>1. /\ 1 \in 1..(Len(pattern) + 2) /\ ~(1 > Len(pattern))
        /\ 1 + 1 = 2 /\ 1 + 2 = 3
    BY <1>5
  <2> QED
    BY <1>6, <2>1 DEF LikeRows
<1>10. f[1] = {i \in 1..(n + 1) : \E k \in i..(n + 1) : k \in f[2]}
  BY <1>5, <1>9 DEF MatchesFrom
<1>11. 1 \in f[1] <=> \E k \in 1..(n + 1) : k \in OccursFrom(text, keyword, 0)
  <2>1. 1 \in 1..(n + 1)
    BY <1>1
  <2> QED
    BY <1>7, <1>8, <1>10, <2>1
<1>12. \A k \in 1..(n + 1) :
          k \in OccursFrom(text, keyword, 0) <=>
              /\ k + l - 0 <= n + 1
              /\ \A t \in (0 + 1)..l : Lower(text[k + t - 0 - 1]) = Lower(keyword[t])
  BY DEF OccursFrom
<1>13. \A k \in 1..(n + 1) :
          k \in OccursFrom(text, keyword, 0) <=>
              /\ k - 1 \in 0..(n - l)
              /\ \A t \in 1..l : Lower(text[(k - 1) + t]) = Lower(keyword[t])
  <2> SUFFICES ASSUME NEW k \in 1..(n + 1)
               PROVE  k \in OccursFrom(text, keyword, 0) <=>
                        /\ k - 1 \in 0..(n - l)
                        /\ \A t \in 1..l :
                              Lower(text[(k - 1) + t]) = Lower(keyword[t])
    OBVIOUS
  <2>1. (k + l - 0 <= n + 1) <=> k - 1 \in 0..(n - l)
    BY <1>1
  <2>2. 0 + 1 = 1 /\ \A t \in 1..l : k + t - 0 - 1 = (k - 1) + t
    BY <1>1
  <2>3. (\A t \in (0 + 1)..l : Lower(text[k + t - 0 - 1]) = Lower(keyword[t]))
          <=> \A t \in 1..l : Lower(text[(k - 1) + t]) = Lower(keyword[t])
    BY <2>2
  <2> QED
    BY <1>12, <2>1, <2>3
<1> DEFINE At(k) == \A t \in 1..l : Lower(text[k + t]) = Lower(keyword[t])
           Occurs == OccursFrom(text, keyword, 0)
<1>14. \A k \in 0..(n - l) : k + 1 \in 1..(n + 1) /\ (k + 1) - 1 = k
  BY <1>1
<1>17. \A k \in 1..(n + 1) : k \in Occurs <=> k - 1 \in 0..(n - l) /\ At(k - 1)
  BY <1>13
<1>15. (\E k \in 1..(n + 1) : k \in Occurs) <=> \E k \in 0..(n - l) : At(k)
  <2> HIDE DEF At, Occurs
  <2>1. ASSUME NEW k \in 0..(n - l), At(k) PROVE k + 1 \in Occurs
    BY <1>14, <1>17, <2>1
  <2> QED
    BY <1>14, <1>17, <2>1
<1>16. ContainsText(text, keyword) <=>
          \E k \in 0..(n - l) :
             \A t \in 1..l : Lower(text[k + t]) = Lower(keyword[t])
  BY DEF ContainsText
<1> QED
  BY <1>6, <1>11, <1>15, <1>16 DEF pattern, out

(***************************************************************************)
(* The newest rows.                                                        *)
(***************************************************************************)

\* No two rows share an id.
Numbered(rows) ==
    /\ IsFiniteSet(rows)
    /\ \A r \in rows : r.id \in Nat
    /\ \A r, s \in rows : r.id = s.id => r = s

Newer(rows, r) == {s \in rows : s.id > r.id}

Rank(rows, r) == Cardinality(Newer(rows, r))

\* Fewer rows are newer than a row than there are.
LEMMA RankInRange ==
    ASSUME NEW rows, Numbered(rows), NEW r \in rows
    PROVE  Rank(rows, r) \in 0..(Cardinality(rows) - 1)
<1>1. Newer(rows, r) \subseteq rows \ {r}
  BY DEF Newer, Numbered
<1>2. /\ IsFiniteSet(rows \ {r})
      /\ Cardinality(rows \ {r}) = Cardinality(rows) - 1
  BY FS_RemoveElement DEF Numbered
<1>3. IsFiniteSet(Newer(rows, r)) /\ Rank(rows, r) <= Cardinality(rows \ {r})
  BY <1>1, <1>2, FS_Subset DEF Rank
<1>4. Rank(rows, r) \in Nat
  BY <1>3, FS_CardinalityType DEF Rank
<1>5. Cardinality(rows) \in Nat
  BY FS_CardinalityType DEF Numbered
<1> QED
  BY <1>2, <1>3, <1>4, <1>5

\* Fewer rows are newer than the newer one of two.
LEMMA RankFollowsAge ==
    ASSUME NEW rows, Numbered(rows), NEW r \in rows, NEW s \in rows, r.id > s.id
    PROVE  Rank(rows, r) < Rank(rows, s)
<1>1. r.id \in Nat /\ s.id \in Nat /\ \A t \in rows : t.id \in Nat
  BY DEF Numbered
<1>2. Newer(rows, r) \subseteq Newer(rows, s)
  BY <1>1 DEF Newer
<1>3. r \in Newer(rows, s) /\ r \notin Newer(rows, r)
  BY <1>1 DEF Newer
<1>4. IsFiniteSet(Newer(rows, s)) /\ IsFiniteSet(Newer(rows, r))
  BY FS_Subset DEF Newer, Numbered
<1>5. /\ Rank(rows, r) <= Rank(rows, s)
      /\ Rank(rows, s) = Rank(rows, r) => Newer(rows, s) = Newer(rows, r)
  BY <1>2, <1>4, FS_Subset DEF Rank
<1>6. Rank(rows, r) \in Nat /\ Rank(rows, s) \in Nat
  BY <1>4, FS_CardinalityType DEF Rank
<1>7. Rank(rows, s) # Rank(rows, r)
  BY <1>3, <1>5
<1> QED
  BY <1>5, <1>6, <1>7

\* Two rows with as many newer ones are the same row.
LEMMA RankUnique ==
    ASSUME NEW rows, Numbered(rows), NEW r \in rows, NEW s \in rows,
           Rank(rows, r) = Rank(rows, s)
    PROVE  r = s
<1>1. /\ r.id \in Nat /\ s.id \in Nat
      /\ Rank(rows, r) \in Int /\ Rank(rows, s) \in Int
  BY RankInRange DEF Numbered
<1>2. ~(r.id > s.id)
  BY <1>1, RankFollowsAge
<1>3. ~(s.id > r.id)
  BY <1>1, RankFollowsAge
<1>4. r.id = s.id
  BY <1>1, <1>2, <1>3
<1> QED
  BY <1>4 DEF Numbered

\* There is a row with any number of newer ones, from none to all the others.
LEMMA RankOnto ==
    ASSUME NEW rows, Numbered(rows), NEW k \in 0..(Cardinality(rows) - 1)
    PROVE  \E r \in rows : Rank(rows, r) = k
<1> DEFINE size == Cardinality(rows)
           Ranks == 0..(size - 1)
           rank == [r \in rows |-> Rank(rows, r)]
<1>1. size \in Nat /\ IsFiniteSet(rows)
  BY FS_CardinalityType DEF Numbered
<1>2. IsFiniteSet(Ranks) /\ Cardinality(Ranks) = size
  <2>1. 0 \in Int /\ size - 1 \in Int
    BY <1>1
  <2>2. /\ IsFiniteSet(Ranks)
        /\ Cardinality(Ranks) = IF 0 > size - 1 THEN 0 ELSE (size - 1) - 0 + 1
    BY <2>1, FS_Interval
  <2> QED
    BY <1>1, <2>2
<1>3. rank \in Injection(rows, Ranks)
  <2>1. rank \in [rows -> Ranks]
    BY RankInRange
  <2>2. \A r, s \in rows : rank[r] = rank[s] => r = s
    BY RankUnique
  <2> HIDE DEF rank, Ranks
  <2> QED
    BY <2>1, <2>2 DEF Injection, IsInjective
<1>4. rank \in Surjection(rows, Ranks)
  <2> HIDE DEF rank, Ranks, size
  <2> QED
    BY <1>2, <1>3, FS_Injection DEF size
<1>5. \A x \in Ranks : \E r \in rows : rank[r] = x
  <2> HIDE DEF rank, Ranks
  <2> QED
    BY <1>4 DEF Surjection
<1> QED
  BY <1>5

\* seq is rows, the newest first.
Descending(seq, rows) ==
    /\ seq \in [1..Cardinality(rows) -> rows]
    /\ \A i, j \in 1..Cardinality(rows) : i < j => seq[i].id > seq[j].id

\* Rows can be put in that order.
LEMMA DescendingExists ==
    ASSUME NEW rows, Numbered(rows)
    PROVE  \E seq : Descending(seq, rows)
<1> DEFINE size == Cardinality(rows)
           seq == [i \in 1..size |-> CHOOSE r \in rows : Rank(rows, r) = i - 1]
<1>1. size \in Nat
  BY FS_CardinalityType DEF Numbered
<1>2. ASSUME NEW i \in 1..size
      PROVE  seq[i] \in rows /\ Rank(rows, seq[i]) = i - 1
  <2>1. i - 1 \in 0..(size - 1)
    BY <1>1
  <2>2. \E r \in rows : Rank(rows, r) = i - 1
    BY <2>1, RankOnto
  <2> QED
    BY <2>2
<1>3. seq \in [1..size -> rows]
  BY <1>2
<1> HIDE DEF seq, size
<1>4. ASSUME NEW i \in 1..size, NEW j \in 1..size, i < j
      PROVE  seq[i].id > seq[j].id
  <2>1. Rank(rows, seq[i]) < Rank(rows, seq[j])
    BY <1>1, <1>2, <1>4
  <2>2. seq[i] \in rows /\ seq[j] \in rows
    BY <1>2
  <2>3. seq[i].id \in Nat /\ seq[j].id \in Nat
    BY <2>2 DEF Numbered
  <2>4. Rank(rows, seq[i]) = i - 1 /\ Rank(rows, seq[j]) = j - 1
    BY <1>2
  <2>5. ~(seq[j].id > seq[i].id)
    <3> SUFFICES ASSUME seq[j].id > seq[i].id PROVE FALSE
      OBVIOUS
    <3>1. Rank(rows, seq[j]) < Rank(rows, seq[i])
      BY <2>2, RankFollowsAge
    <3> QED
      BY <1>1, <1>4, <2>4, <3>1
  <2>6. seq[j].id # seq[i].id
    <3> SUFFICES ASSUME seq[j].id = seq[i].id PROVE FALSE
      OBVIOUS
    <3>1. seq[j] = seq[i]
      BY <2>2 DEF Numbered
    <3> QED
      BY <1>1, <1>4, <2>4, <3>1
  <2> QED
    BY <2>3, <2>5, <2>6
<1> QED
  BY <1>3, <1>4 DEF Descending, size

\* A row's place in that order is the number of newer rows.
LEMMA DescendingRank ==
    ASSUME NEW rows, Numbered(rows), NEW seq, Descending(seq, rows),
           NEW i \in 1..Cardinality(rows)
    PROVE  Rank(rows, seq[i]) = i - 1
<1> DEFINE size == Cardinality(rows)
           g(k) == Rank(rows, seq[k])
           Low == {k \in 1..size : g(k) < k - 1}
           High == {d \in 0..(size - 1) : g(size - d) > size - d - 1}
<1>1. size \in Nat
  BY FS_CardinalityType DEF Numbered
<1>2. \A k \in 1..size : seq[k] \in rows
  BY DEF Descending
<1>3. \A k \in 1..size : g(k) \in 0..(size - 1)
  BY <1>2, RankInRange
<1>4. ASSUME NEW k \in 1..size, k - 1 \in 1..size PROVE g(k - 1) < g(k)
  <2>1. k - 1 < k
    BY <1>1
  <2>2. seq[k - 1].id > seq[k].id
    BY <1>4, <2>1 DEF Descending
  <2> QED
    BY <1>2, <1>4, <2>2, RankFollowsAge
<1> HIDE DEF g, size
<1>5. Low = {}
  <2> SUFFICES ASSUME Low # {} PROVE FALSE
    OBVIOUS
  <2>1. PICK m \in Low : \A k \in Low : m <= k
    <3>1. Low \subseteq Nat
      OBVIOUS
    <3> HIDE DEF Low
    <3> QED
      BY <3>1, LeastNumber
  <2>2. m \in 1..size /\ g(m) < m - 1
    OBVIOUS
  <2>3. m - 1 \in 1..size
    BY <1>1, <1>3, <2>2
  <2>4. ~(g(m - 1) < (m - 1) - 1)
    BY <1>1, <2>1, <2>3
  <2>5. g(m - 1) < g(m) /\ g(m) \in Int /\ g(m - 1) \in Int
    BY <1>3, <1>4, <2>2, <2>3
  <2> QED
    BY <1>1, <2>2, <2>4, <2>5
<1>6. High = {}
  <2> SUFFICES ASSUME High # {} PROVE FALSE
    OBVIOUS
  <2>1. PICK d \in High : \A k \in High : d <= k
    <3>1. High \subseteq Nat
      OBVIOUS
    <3> HIDE DEF High
    <3> QED
      BY <3>1, LeastNumber
  <2>2. d \in 0..(size - 1) /\ g(size - d) > size - d - 1
    OBVIOUS
  <2>3. size - d \in 1..size /\ g(size - d) \in 0..(size - 1)
    BY <1>1, <1>3, <2>2
  <2>4. d # 0
    BY <1>1, <2>2, <2>3
  <2>5. /\ d - 1 \in 0..(size - 1) /\ size - (d - 1) \in 1..size
        /\ (size - (d - 1)) - 1 = size - d /\ ~(d <= d - 1)
    BY <1>1, <2>2, <2>4
  <2>6. ~(g(size - (d - 1)) > size - (d - 1) - 1)
    BY <2>1, <2>5
  <2>7. /\ g(size - d) < g(size - (d - 1))
        /\ g(size - (d - 1)) \in 0..(size - 1)
    BY <1>3, <1>4, <2>3, <2>5
  <2> QED
    BY <1>1, <2>2, <2>3, <2>6, <2>7
<1>7. i \in 1..size
  BY DEF size
<1>8. size - i \in 0..(size - 1) /\ size - (size - i) = i
  BY <1>1, <1>7
<1>9. ~(g(i) < i - 1)
  BY <1>5, <1>7
<1>10. ~(g(i) > i - 1)
  BY <1>6, <1>8
<1>11. g(i) \in Int
  BY <1>3, <1>7
<1> QED
  BY <1>7, <1>9, <1>10, <1>11 DEF g

\* Newest is the rows with fewer than n newer ones, the newest first.
LEMMA NewestIs ==
    ASSUME NEW rows, Numbered(rows), NEW n \in Nat
    PROVE  /\ ToSet(Newest(rows, n)) = {r \in rows : Rank(rows, r) < n}
           /\ Newest(rows, n) \in Seq(rows)
           /\ \A i, j \in 1..Len(Newest(rows, n)) :
                 i < j => Newest(rows, n)[i].id > Newest(rows, n)[j].id
<1> DEFINE size == Cardinality(rows)
           Sorted(seq) == /\ seq \in [1..size -> rows]
                          /\ \A i, j \in 1..size : i < j => seq[i].id > seq[j].id
           sorted == CHOOSE seq \in [1..size -> rows] :
                        \A i, j \in 1..size : i < j => seq[i].id > seq[j].id
           k == IF n < size THEN n ELSE size
           found == SubSeq(sorted, 1, k)
<1>1. size \in Nat
  BY FS_CardinalityType DEF Numbered
<1>2. Descending(sorted, rows)
  <2>1. \E seq \in [1..size -> rows] :
            \A i, j \in 1..size : i < j => seq[i].id > seq[j].id
    BY DescendingExists DEF Descending
  <2> QED
    BY <2>1 DEF Descending
<1>3. Newest(rows, n) = found
  BY DEF Newest
<1> HIDE DEF sorted
<1>4. \A i \in 1..size : sorted[i] \in rows /\ Rank(rows, sorted[i]) = i - 1
  BY <1>2, DescendingRank DEF Descending
<1>5. sorted \in Seq(rows) /\ Len(sorted) = size
  BY <1>1, <1>2 DEF Descending
<1>6. k \in 0..size /\ k <= n
  BY <1>1
<1>7. /\ found \in Seq(rows) /\ Len(found) = k
      /\ \A i \in 1..k : found[i] = sorted[i]
  <2> HIDE DEF k, size
  <2> QED
    BY <1>1, <1>5, <1>6
<1> HIDE DEF found
<1>8. ToSet(found) = {sorted[i] : i \in 1..k}
  <2>1. DOMAIN found = 1..k
    BY <1>7
  <2> HIDE DEF k
  <2> QED
    BY <1>7, <2>1 DEF ToSet
<1>9. ASSUME NEW i \in 1..k
      PROVE  sorted[i] \in rows /\ Rank(rows, sorted[i]) < n
  <2>1. i \in 1..size /\ i - 1 < n
    BY <1>1, <1>6
  <2> QED
    BY <1>4, <2>1
<1>10. ASSUME NEW r \in rows, Rank(rows, r) < n
       PROVE  \E i \in 1..k : sorted[i] = r
  <2> DEFINE i == Rank(rows, r) + 1
  <2>1. Rank(rows, r) \in 0..(size - 1)
    BY RankInRange
  <2>2. i \in 1..k /\ i \in 1..size /\ i - 1 = Rank(rows, r)
    BY <1>1, <1>10, <2>1
  <2>3. Rank(rows, sorted[i]) = Rank(rows, r) /\ sorted[i] \in rows
    BY <1>4, <2>2
  <2>4. sorted[i] = r
    BY <2>3, RankUnique
  <2> QED
    BY <2>2, <2>4
<1>11. ToSet(found) = {r \in rows : Rank(rows, r) < n}
  BY <1>8, <1>9, <1>10
<1>12. \A i, j \in 1..Len(found) : i < j => found[i].id > found[j].id
  <2>1. \A i \in 1..k : i \in 1..size
    BY <1>1, <1>6
  <2> HIDE DEF k
  <2> QED
    BY <1>2, <1>7, <2>1 DEF Descending
<1> QED
  BY <1>3, <1>7, <1>11, <1>12

(***************************************************************************)
(* What a read answers.                                                    *)
(***************************************************************************)

\* The rows of episodes, each written once, and those of the log as it writes
\* them.
EpisodesOK ==
    /\ IsFiniteSet(episodes)
    /\ \A r \in episodes : r.id \in 1..inserted /\ r.goal \in Goals
    /\ \A r, s \in episodes : r.id = s.id => r = s
    /\ \A r \in episodes : ~r.foreign => Readable(r)

\* A row with the next id keeps the rows so.
LEMMA RowAdded ==
    ASSUME EpisodesOK, inserted \in Nat, NEW row,
           row.id = inserted + 1, row.goal \in Goals,
           ~row.foreign => Readable(row),
           inserted' = inserted + 1, episodes' = episodes \cup {row}
    PROVE  EpisodesOK'
<1>1. IsFiniteSet(episodes')
  BY FS_AddElement DEF EpisodesOK
<1>2. \A r \in episodes : r.id \in 1..inserted /\ r.id # row.id
  BY DEF EpisodesOK
<1>3. 1..inserted \subseteq 1..inserted' /\ row.id \in 1..inserted'
  OBVIOUS
<1>4. \A r \in episodes' : r.id \in 1..inserted' /\ r.goal \in Goals
  BY <1>2, <1>3 DEF EpisodesOK
<1>5. \A r, s \in episodes' : r.id = s.id => r = s
  BY <1>2 DEF EpisodesOK
<1>6. \A r \in episodes' : ~r.foreign => Readable(r)
  BY DEF EpisodesOK
<1>7. \A r \in episodes' : Readable(r) => Readable(r)'
  BY DEF Readable
<1> QED
  BY <1>1, <1>4, <1>5, <1>6 DEF EpisodesOK, Readable

\* Every step of the stores keeps them so.
LEMMA EpisodesStep ==
    StoresInv /\ EpisodesOK /\ [StoresNext]_storesVars => EpisodesOK'
<1> SUFFICES ASSUME StoresInv, EpisodesOK, [StoresNext]_storesVars
             PROVE  EpisodesOK'
  OBVIOUS
<1>1. inserted \in Nat
  BY StoresAssumption DEF StoresInv, RowsOK
<1>2. CASE UNCHANGED <<episodes, inserted>>
  BY <1>2 DEF EpisodesOK, Readable
<1>3. ASSUME NEW c \in Clients, InsertRow(c) PROVE EpisodesOK'
  <2> DEFINE row == [id |-> inserted + 1, goal |-> op[c].arg.goal,
                     outcome |-> AsStr(op[c].arg.outcome), foreign |-> FALSE]
  <2>1. op[c].kind = "insert" /\ op[c].at = "statement" /\ OpOK(op[c])
    BY <1>3 DEF InsertRow, Runs, StoresInv, OpsOK
  <2>2. op[c].arg.goal \in Goals
    BY <2>1 DEF OpOK, Rows
  <2>3. row.outcome \in {"success", "failure"}
    BY DEF AsStr
  <2>4. row.id = inserted + 1 /\ row.goal \in Goals /\ Readable(row)
    BY <2>2, <2>3 DEF Readable
  <2>5. inserted' = inserted + 1 /\ episodes' = episodes \cup {row}
    BY <1>3 DEF InsertRow
  <2> HIDE DEF row
  <2> QED
    BY <1>1, <2>4, <2>5, RowAdded
<1>4. ASSUME NEW c \in Clients, StoreRow(c) PROVE EpisodesOK'
  <2>1. inserted' = inserted + 1 /\ episodes' = episodes
    BY <1>4 DEF StoreRow
  <2>2. 1..inserted \subseteq 1..inserted'
    BY <1>1, <2>1
  <2> QED
    BY <2>1, <2>2 DEF EpisodesOK, Readable
<1>5. ASSUME NEW c \in Clients, DeleteRow(c) PROVE EpisodesOK'
  <2>1. inserted' = inserted /\ episodes' \subseteq episodes
    BY <1>5 DEF DeleteRow
  <2>2. IsFiniteSet(episodes')
    BY <2>1, FS_Subset DEF EpisodesOK
  <2> QED
    BY <2>1, <2>2 DEF EpisodesOK, Readable
<1>6. ASSUME NEW goal \in Goals, ForeignInsert(goal) PROVE EpisodesOK'
  <2> DEFINE row == [id |-> inserted + 1, goal |-> goal,
                     outcome |-> "partial", foreign |-> TRUE]
  <2>1. inserted' = inserted + 1 /\ episodes' = episodes \cup {row}
    BY <1>6 DEF ForeignInsert
  <2>2. row.id = inserted + 1 /\ row.goal \in Goals /\ row.foreign
    OBVIOUS
  <2> HIDE DEF row
  <2> QED
    BY <1>1, <2>1, <2>2, RowAdded
<1>7. ASSUME NEW c \in Clients,
             Operation(c) \/ Acquire(c) \/ SetProbes(c) \/ ReadRows(c)
                 \/ GiveUpOperation(c)
      PROVE  UNCHANGED <<episodes, inserted>>
  BY <1>7 DEF Operation, Insert, Read, Delete, Store, Query, Forget, Begins,
              Acquire, SetProbes, ReadRows, GiveUpOperation
<1>8. CASE UNCHANGED storesVars
  BY <1>2, <1>8 DEF storesVars
<1> QED
  BY <1>2, <1>3, <1>4, <1>5, <1>6, <1>7, <1>8 DEF StoresNext

\* The answer of a read of such rows.
LEMMA ReadExact ==
    ASSUME EpisodesOK, inserted \in Nat, NEW keyword \in Keywords, NEW limit \in Limits
    PROVE  LET answer == EpisodesFound(episodes, keyword, limit)
               matching == {r \in episodes : ContainsText(r.goal, keyword)}
               best == {r \in matching :
                           Cardinality({s \in matching : s.id > r.id}) < limit}
           IN  /\ answer.reply = "Ok" =>
                     /\ ToSet(answer.found) = best
                     /\ \A i, j \in 1..Len(answer.found) :
                           i < j => answer.found[i].id > answer.found[j].id
               /\ answer.reply = "InvalidOutcome" => \E r \in best : r.foreign
<1> DEFINE pattern == <<"%">> \o Escaped(keyword) \o <<"%">>
           n == AsI64(limit)
           matching == {r \in episodes : ContainsText(r.goal, keyword)}
           found == Newest(matching, n)
           best == {r \in matching : Rank(matching, r) < limit}
           answer == EpisodesFound(episodes, keyword, limit)
<1>1. Goals \subseteq Text /\ Keywords \subseteq Text
  <2>1. Seq(STRING) \subseteq Text
    <3>1. STRING \subseteq Chars
      BY DEF Chars
    <3> SUFFICES ASSUME NEW s \in Seq(STRING) PROVE s \in Seq(Chars)
      BY DEF Text
    <3>2. /\ Len(s) \in Nat /\ s = [i \in 1..Len(s) |-> s[i]]
          /\ \A i \in 1..Len(s) : s[i] \in STRING
      OBVIOUS
    <3>3. \A i \in 1..Len(s) : s[i] \in Chars
      BY <3>1, <3>2
    <3>4. s \in [1..Len(s) -> Chars]
      BY <3>2, <3>3
    <3> QED
      BY <3>2, <3>4
  <2> QED
    BY <2>1, StoresAssumption
<1>2. {r \in episodes : ILike(r.goal, pattern)} = matching
  <2>1. \A r \in episodes : ILike(r.goal, pattern) <=> ContainsText(r.goal, keyword)
    BY <1>1, LikeIsContains DEF EpisodesOK
  <2> HIDE DEF pattern
  <2> QED
    BY <2>1
<1>3. Numbered(matching)
  <2>1. matching \subseteq episodes
    OBVIOUS
  <2>2. IsFiniteSet(matching)
    BY <2>1, FS_Subset DEF EpisodesOK
  <2>3. \A r \in episodes : r.id \in Nat
    BY DEF EpisodesOK
  <2> HIDE DEF matching
  <2> QED
    BY <2>1, <2>2, <2>3 DEF Numbered, EpisodesOK
<1>4. limit \in Nat /\ MaxI64 \in Nat /\ limit <= 2 * MaxI64 + 1
  BY StoresAssumption
<1>5. n < 0 \/ (n = limit /\ n \in Nat)
  BY <1>4 DEF AsI64
<1>6. answer = IF n < 0 THEN [reply |-> "Database", found |-> <<>>]
               ELSE IF \E i \in 1..Len(found) : ~Readable(found[i])
               THEN [reply |-> "InvalidOutcome", found |-> <<>>]
               ELSE [reply |-> "Ok", found |-> found]
  <2> HIDE DEF matching
  <2> QED
    BY <1>2 DEF EpisodesFound
<1> HIDE DEF answer
<1>7. CASE n < 0
  <2>1. answer.reply = "Database"
    BY <1>6, <1>7
  <2>2. answer.reply # "Ok" /\ answer.reply # "InvalidOutcome"
    BY <2>1
  <2> HIDE DEF n, matching, best, found
  <2> QED
    BY <2>2 DEF answer
<1>8. CASE ~(n < 0)
  <2>1. n = limit /\ n \in Nat
    BY <1>5, <1>8
  <2> HIDE DEF n, matching
  <2>2. /\ ToSet(found) = {r \in matching : Rank(matching, r) < n}
        /\ found \in Seq(matching)
        /\ \A i, j \in 1..Len(found) : i < j => found[i].id > found[j].id
    BY <1>3, <2>1, NewestIs
  <2> HIDE DEF found
  <2>3. ToSet(found) = best
    BY <2>1, <2>2
  <2>4. answer.reply = "Ok" => answer.found = found
    BY <1>6, <1>8
  <2>5. answer.reply = "InvalidOutcome" =>
            \E i \in 1..Len(found) : ~Readable(found[i])
    BY <1>6, <1>8
  <2>6. \A i \in 1..Len(found) : found[i] \in ToSet(found)
    BY <2>2 DEF ToSet
  <2>7. \A r \in best : ~Readable(r) => r.foreign
    BY DEF EpisodesOK, matching
  <2>8. answer.reply = "InvalidOutcome" => \E r \in best : r.foreign
    <3> HIDE DEF best
    <3> QED
      BY <2>3, <2>5, <2>6, <2>7
  <2> HIDE DEF best
  <2>9. answer.reply = "Ok" =>
           /\ ToSet(answer.found) = best
           /\ \A i, j \in 1..Len(answer.found) :
                 i < j => answer.found[i].id > answer.found[j].id
    BY <2>2, <2>3, <2>4
  <2> QED
    BY <2>8, <2>9 DEF answer, best, matching, Rank, Newer
<1> QED
  BY <1>7, <1>8

\* Whatever has been written, lost, deleted or written by others, a read answers
\* the newest rows whose goal contains the keyword literally, for every goal,
\* every keyword and every limit; only another program's row makes it fail.
THEOREM ReadsAreExactHolds == StoresSpec => []ReadsAreExact
<1>1. StoresInit => EpisodesOK
  BY FS_EmptySet DEF StoresInit, EpisodesOK
<1>2. StoresInv /\ EpisodesOK => ReadsAreExact
  <2>1. StoresInv => inserted \in Nat
    BY StoresAssumption DEF StoresInv, RowsOK
  <2> QED
    BY <2>1, ReadExact DEF ReadsAreExact
<1> QED
  BY <1>1, <1>2, StoresInvariant, EpisodesStep, PTL DEF StoresSpec

-----------------------------------------------------------------------------

(***************************************************************************)
(* The three modules side by side.                                         *)
(***************************************************************************)

\* The window and every call recorded since the last clear.
DetectorWindow == IsWindowOf(window, calls)

\* The window stays the latest calls through every step of the three parts.
LEMMA DetectorWindowStep ==
    DetectorWindow /\ [MCNext]_vars => DetectorWindow'
<1> SUFFICES ASSUME DetectorWindow, [MCNext]_vars PROVE DetectorWindow'
  OBVIOUS
<1>1. CASE MCRecord
  BY <1>1, RecordedWindow DEF MCRecord, Record, DetectorWindow
<1>2. CASE ClearWindow /\ calls' = <<>>
  <2>1. <<>> \in Seq(Calls) /\ Len(<<>>) = 0
    BY EmptySeq
  <2> QED
    BY <1>2, <2>1, CapacityPositive DEF ClearWindow, DetectorWindow, IsWindowOf
<1>3. CASE UNCHANGED detectorVars
  BY <1>3 DEF detectorVars, DetectorWindow
<1> QED
  BY <1>1, <1>2, <1>3 DEF MCNext, vars

\* The window never loses one of the latest calls, nor keeps an older one.
THEOREM WindowFollowsCalls == MCSpec => []DetectorWindow
<1>1. MCInit => DetectorWindow
  <2>1. <<>> \in Seq(Calls) /\ Len(<<>>) = 0
    BY EmptySeq
  <2> QED
    BY <2>1, CapacityPositive DEF MCInit, DetectorInit, DetectorWindow, IsWindowOf
<1> QED
  BY <1>1, DetectorWindowStep, PTL DEF MCSpec

\* A loop is reported exactly when a call was made often enough among the latest
\* ones, for every size of the window and every threshold.
THEOREM DetectsExactlyLoopsHolds == MCSpec => []DetectsExactlyLoops
<1>1. DetectorWindow => DetectsExactlyLoops
  BY WindowDetects DEF DetectorWindow, DetectsExactlyLoops, Recent, RecentCount
<1> QED
  BY <1>1, WindowFollowsCalls, PTL

\* The modules side by side: each takes its own steps or none.
LEMMA SideBySide == MCSpec => DetectorSpec /\ MemorySpec /\ StoresSpec
<1>1. MCInit => DetectorInit /\ MemoryInit /\ StoresInit
  BY DEF MCInit
<1>2. [MCNext]_vars => /\ [DetectorNext]_window
                       /\ [MemoryNext]_stm
                       /\ [StoresNext]_storesVars
  BY DEF MCNext, MCRecord, DetectorNext, vars, detectorVars, storesVars
<1> QED
  BY <1>1, <1>2, PTL DEF MCSpec, DetectorSpec, MemorySpec, StoresSpec

\* All of them have their types in every run of the three, as MCMemory.cfg checks.
THEOREM TypesHold == MCSpec => []TypeOK
  BY SideBySide, DetectorTypesHold, MemoryTypesHold, StoresTypesHold, PTL DEF TypeOK

=============================================================================
