----------------------------- MODULE Datasources -----------------------------
(****************************************************************************)
(* The datasources of one database server, and the queries on it:           *)
(*   - backend/src/datasource/datasource.service.ts creates, updates and    *)
(*     deletes datasources: a row, the rows of its tables, and a data       *)
(*     dictionary directory named after it, with the config.ini that agents *)
(*     read;                                                                *)
(*   - backend/src/infrastructure/datasources/ keeps one BridgeDatasource   *)
(*     per type, host, port, database and user, made of the configuration   *)
(*     of its first query;                                                  *)
(*   - the JDBC bridge keeps a pool per connection id, in memory.           *)
(*                                                                          *)
(* All datasources here have the same type, host, port and database, so     *)
(* their names are the same but for the suffix (0 for none), and all their  *)
(* queries share one connection.  They differ in their schema.  A datasource*)
(* has one table.  The requests of the bridge that work on a pool run one   *)
(* after the other (executeBlocking is ordered by default), so each is a    *)
(* step.                                                                    *)
(****************************************************************************)
EXTENDS Naturals, FiniteSets

CONSTANTS
    Call,         \* calls of the service, each made once
    Query,        \* who queries, again and again
    Schema,       \* schemas, with NoSchema
    NoSchema,
    MaxRows,      \* bound: datasource rows ever inserted
    MaxNames,     \* MAX_DATASOURCE_RETRY_ATTEMPTS
    MaxPassword,  \* bound: passwords the database user has had
    MaxRestarts   \* bound: restarts of the bridge or the backend

ASSUME DatasourcesAssumption ==
    /\ NoSchema \in Schema
    /\ MaxRows \in Nat \ {0} /\ MaxNames \in Nat \ {0} /\ MaxPassword \in Nat \ {0}
    /\ MaxRestarts \in Nat

Id       == 1..MaxRows
Name     == 0..(MaxNames - 1)
Password == 1..MaxPassword

Mask == 0   \* the password of a configuration that leaves it as it is

VARIABLES
    row,        \* row[i]: the datasource row
    inserted,   \* rows inserted so far
    dict,       \* dict[n]: directory n: id and password of config.ini, table files
    call,       \* call[c]: where a call is, and its locals
    temp,       \* calls whose temporary connection the bridge has
    pool,       \* the bridge's pool of the shared connection: its password, 0 for none
    cached,     \* the BridgeDatasource: its password (0: not made yet), isConnected
    truth,      \* the password the database accepts
    query,      \* query[q]: the request a query waits for; "failed" if nothing
                \* excuses its failure
    restarts,   \* restarts so far
    whole,      \* rows whose creation went through
    crossed,    \* names of rows that two calls worked on at once
    left,       \* directories whose removal failed
    stripped,   \* rows whose removal stopped after that of their directory
    kept,       \* calls whose temporary connection was not given back
    cut         \* queries a restart under their last request excuses

rows    == <<row, inserted>>
bridge  == <<temp, pool>>
queries == <<cached, query, cut>>
ghosts  == <<whole, crossed, left, stripped, kept>>
vars    == <<rows, dict, call, bridge, queries, truth, restarts, ghosts>>

NoRow  == [name |-> 0, schema |-> NoSchema, password |-> 0, table |-> "none"]
NoDict == [id |-> 0, password |-> 0, files |-> {}]
NoCall == [pc |-> "ready", kind |-> "none", target |-> 0, schema |-> NoSchema,
           password |-> Mask, name |-> 0, new |-> 0]

Stored(i) == row[i] # NoRow

\* One datasource is there, made with the password of the time.
Init ==
    /\ row = [i \in Id |-> IF i = 1 THEN [NoRow EXCEPT !.password = 1, !.table = "described"]
                           ELSE NoRow]
    /\ inserted = 1
    /\ dict = [n \in Name |-> IF n = 0 THEN [id |-> 1, password |-> 1, files |-> {1}] ELSE NoDict]
    /\ call = [c \in Call |-> NoCall]
    /\ temp = {} /\ pool = 0 /\ cached = [password |-> 0, isConnected |-> FALSE]
    /\ truth = 1 /\ query = [q \in Query |-> "ready"] /\ restarts = 0
    /\ whole = {1} /\ crossed = {} /\ left = {} /\ stripped = {} /\ kept = {} /\ cut = {}

----------------------------------------------------------------------------
(* The service. *)

At(c, pc)   == call[c].pc = pc
Goto(c, pc) == call' = [call EXCEPT ![c].pc = pc]
Done(c)     == call' = [call EXCEPT ![c] = [NoCall EXCEPT !.pc = "done"]]
IsActive(c) == call[c].pc \notin {"ready", "done"}

ServiceOnly == UNCHANGED <<queries, pool, truth, restarts>>

AskCreate(c) ==
    /\ At(c, "ready")
    /\ \E s \in Schema, p \in Password :
          call' = [call EXCEPT ![c] = [NoCall EXCEPT !.pc = "duplicate", !.kind = "create",
                                                     !.schema = s, !.password = p]]
    /\ ServiceOnly /\ UNCHANGED <<rows, dict, temp, ghosts>>

AskUpdate(c) ==
    /\ At(c, "ready")
    /\ \E i \in 1..inserted, s \in Schema, p \in Password \cup {Mask} :
          call' = [call EXCEPT ![c] = [NoCall EXCEPT !.pc = "find", !.kind = "update",
                                           !.target = i, !.schema = s, !.password = p]]
    /\ ServiceOnly /\ UNCHANGED <<rows, dict, temp, ghosts>>

AskDelete(c) ==
    /\ At(c, "ready")
    /\ \E i \in 1..inserted :
          call' = [call EXCEPT ![c] = [NoCall EXCEPT !.pc = "find", !.kind = "delete", !.target = i]]
    /\ ServiceOnly /\ UNCHANGED <<rows, dict, temp, ghosts>>

WorksOn(c, i) == IsActive(c) /\ ~At(c, "find") /\ i \in {call[c].target, call[c].new}

\* findDatasourceById; an update tests its connection before it destroys
\* anything, a deletion goes on at once.
FindTarget(c) ==
    /\ At(c, "find")
    /\ LET i == call[c].target
       IN  IF ~Stored(i)
           THEN Done(c) /\ UNCHANGED crossed
           ELSE /\ call' = [call EXCEPT ![c].name = row[i].name,
                               ![c].pc = IF call[c].kind = "delete" THEN "remove"
                                         ELSE IF call[c].password = Mask THEN "unmask" ELSE "test"]
                /\ crossed' = IF \E d \in Call \ {c} : WorksOn(d, i)
                              THEN crossed \cup {row[i].name} ELSE crossed
    /\ ServiceOnly /\ UNCHANGED <<rows, dict, temp, whole, left, stripped, kept>>

\* getDatasourceRawPassword in place of the mask.
Unmask(c) ==
    /\ At(c, "unmask")
    /\ LET i == call[c].target
       IN  IF Stored(i) THEN call' = [call EXCEPT ![c].password = row[i].password, ![c].pc = "test"]
           ELSE Done(c)
    /\ ServiceOnly /\ UNCHANGED <<rows, dict, temp, ghosts>>

\* testConnection of the bridge, in a pool of its own.
Test(c) ==
    /\ At(c, "test") \/ At(c, "probe")
    /\ IF call[c].password # truth THEN Done(c)
       ELSE Goto(c, IF At(c, "test") THEN "remove" ELSE "register")
    /\ ServiceOnly /\ UNCHANGED <<rows, dict, temp, ghosts>>

\* Mutant: the row goes first, and frees its name.
RemoveRowFirst(c) ==
    \/ /\ At(c, "remove")
       /\ row' = [row EXCEPT ![call[c].target] = NoRow]
       /\ whole' = whole \ {call[c].target}
       /\ Goto(c, "removeLate")
       /\ ServiceOnly /\ UNCHANGED <<inserted, dict, temp, crossed, left, stripped, kept>>
    \/ /\ At(c, "removeLate")
       /\ dict' = [dict EXCEPT ![call[c].name] = NoDict]
       /\ Goto(c, "delete")
       /\ ServiceOnly /\ UNCHANGED <<rows, temp, ghosts>>

\* deleteDatabaseDictionary, whose errors are only logged.
RemoveDictionary(c) ==
    /\ At(c, "remove")
    /\ \/ dict' = [dict EXCEPT ![call[c].name] = NoDict] /\ UNCHANGED left
       \/ left' = left \cup {call[c].name} /\ UNCHANGED dict
    /\ Goto(c, "delete")
    /\ ServiceOnly /\ UNCHANGED <<rows, temp, whole, crossed, stripped, kept>>

\* deleteDatasource: a row that is gone already is no error.
DeleteRow(c) ==
    /\ At(c, "delete")
    /\ row' = [row EXCEPT ![call[c].target] = NoRow]
    /\ IF call[c].kind = "delete" THEN Done(c)
       ELSE call' = [call EXCEPT ![c].pc = "duplicate", ![c].name = 0]
    /\ whole' = whole \ {call[c].target}
    /\ ServiceOnly /\ UNCHANGED <<inserted, dict, temp, crossed, left, stripped, kept>>

\* findDatasourceByConnection.
FindDuplicate(c) ==
    /\ At(c, "duplicate")
    /\ IF \E i \in Id : Stored(i) /\ row[i].schema = call[c].schema THEN Done(c)
       ELSE Goto(c, "probe")
    /\ ServiceOnly /\ UNCHANGED <<rows, dict, temp, ghosts>>

\* registerConnection of the temporary id; the answer may not arrive.
Register(c) ==
    /\ At(c, "register") /\ call[c].password = truth
    /\ temp' = temp \cup {c}
    /\ \/ Goto(c, "tables") /\ UNCHANGED kept
       \/ Done(c) /\ kept' = kept \cup {c}
    /\ ServiceOnly /\ UNCHANGED <<rows, dict, whole, crossed, left, stripped>>

GetTables(c) ==
    /\ At(c, "tables") /\ c \in temp
    /\ Goto(c, "insert")
    /\ ServiceOnly /\ UNCHANGED <<rows, dict, temp, ghosts>>

IsTaken(n) == \E i \in Id : Stored(i) /\ row[i].name = n

\* createDatasource: a taken name gets the next suffix, a number of times.
TryNextName(c) ==
    /\ At(c, "insert") /\ IsTaken(call[c].name)
    /\ IF call[c].name + 1 \in Name THEN call' = [call EXCEPT ![c].name = @ + 1]
       ELSE Goto(c, "cleanup")
    /\ ServiceOnly /\ UNCHANGED <<rows, dict, temp, ghosts>>

\* The index of connections keeps rows with the same schema apart, and does
\* not see rows without one.
IsRefused(s) == s # NoSchema /\ \E i \in Id : Stored(i) /\ row[i].schema = s

InsertRow(c) ==
    /\ At(c, "insert") /\ ~IsTaken(call[c].name)
    /\ IF IsRefused(call[c].schema)
       THEN Goto(c, "cleanup") /\ UNCHANGED rows
       ELSE /\ inserted < MaxRows
            /\ inserted' = inserted + 1
            /\ row' = [row EXCEPT ![inserted'] = [name |-> call[c].name, schema |-> call[c].schema,
                                                  password |-> call[c].password, table |-> "none"]]
            /\ call' = [call EXCEPT ![c].new = inserted', ![c].pc = "ini"]
    /\ ServiceOnly /\ UNCHANGED <<dict, temp, ghosts>>

\* saveDatabaseConfigIni.
SaveIni(c) ==
    /\ At(c, "ini")
    /\ dict' = [dict EXCEPT ![call[c].name].id = call[c].new,
                            ![call[c].name].password = call[c].password]
    /\ Goto(c, "columns")
    /\ ServiceOnly /\ UNCHANGED <<rows, temp, ghosts>>

\* getColumns, then createTable, whose foreign key needs the row.
CreateTable(c) ==
    /\ At(c, "columns") /\ c \in temp /\ Stored(call[c].new)
    /\ row' = [row EXCEPT ![call[c].new].table = "created"]
    /\ Goto(c, "file")
    /\ ServiceOnly /\ UNCHANGED <<inserted, dict, temp, ghosts>>

\* saveDatabaseDictionaryFile.
SaveFile(c) ==
    /\ At(c, "file")
    /\ dict' = [dict EXCEPT ![call[c].name].files = @ \cup {call[c].new}]
    /\ Goto(c, "path")
    /\ ServiceOnly /\ UNCHANGED <<rows, temp, ghosts>>

\* updateTableDictionaryPath.
SavePath(c) ==
    /\ At(c, "path") /\ Stored(call[c].new)
    /\ row' = [row EXCEPT ![call[c].new].table = "described"]
    /\ whole' = whole \cup {call[c].new}
    /\ Goto(c, "cleanup")
    /\ ServiceOnly /\ UNCHANGED <<inserted, dict, temp, crossed, left, stripped, kept>>

\* The finally: destroyConnection, whose errors are dropped.
Cleanup(c) ==
    /\ At(c, "cleanup")
    /\ \/ temp' = temp \ {c} /\ UNCHANGED kept
       \/ kept' = kept \cup (temp \cap {c}) /\ UNCHANGED temp
    /\ Done(c)
    /\ ServiceOnly /\ UNCHANGED <<rows, dict, whole, crossed, left, stripped>>

InTry == {"tables", "insert", "ini", "columns", "file", "path"}

\* Calls between deleteDatabaseDictionary and deleteDatasource; if they stop
\* there, the row stays without its directory.
Removing       == {c \in Call : At(c, "delete")}
StopsBetween(C) == stripped' = stripped \cup {call[c].target : c \in C \cap Removing}

\* Mutant: the temporary connection is given back at the end only.
FailsBare(c) ==
    /\ call[c].pc \in {"find", "unmask", "test", "delete", "duplicate", "probe", "register"} \cup InTry
    /\ Done(c)
    /\ StopsBetween({c})
    /\ ServiceOnly /\ UNCHANGED <<rows, dict, temp, whole, crossed, left, kept>>

\* An await throws: a statement, a file, or a request of the bridge (which may
\* have lost the temporary connection, or found no table).  Nothing that was
\* written is taken back.
Fails(c) ==
    /\ call[c].pc \in {"find", "unmask", "test", "delete", "duplicate", "probe", "register"} \cup InTry
    /\ IF call[c].pc \in InTry THEN Goto(c, "cleanup") ELSE Done(c)
    /\ StopsBetween({c})
    /\ ServiceOnly /\ UNCHANGED <<rows, dict, temp, whole, crossed, left, kept>>

----------------------------------------------------------------------------
(* Queries: the SQL node and the preview of a table read the row, the SQL    *)
(* tool of the agents reads config.ini.                                     *)

QueryOnly == UNCHANGED <<rows, dict, call, temp, truth, restarts, ghosts>>

Ends(q, how) == query' = [query EXCEPT ![q] = how]

Passwords == {row[i].password : i \in {j \in Id : Stored(j)}}
                 \cup {dict[n].password : n \in {m \in Name : dict[m].id # 0}}

\* getOrCreateDatasource: the first configuration stays.
Prepare(q) ==
    /\ query[q] = "ready"
    /\ \E p \in Passwords :
          cached' = IF cached.password = 0 THEN [cached EXCEPT !.password = p] ELSE cached
    /\ Ends(q, IF cached.isConnected THEN "post" ELSE "connect")
    /\ QueryOnly /\ UNCHANGED <<pool, cut>>

\* A query that fails is excused by a restart, or by a password that changed
\* since the BridgeDatasource was made.
QueryFails(q) ==
    /\ Ends(q, IF q \in cut \/ cached.password # truth THEN "ready" ELSE "failed")
    /\ cut' = cut \ {q}

\* ConnectionPoolManager.register: the old pool is closed before the new one
\* tries to connect.
RegisterPool(q, next) ==
    IF cached.password = truth
    THEN pool' = cached.password /\ Ends(q, next) /\ UNCHANGED cut
    ELSE pool' = 0 /\ QueryFails(q)

\* connect.
Connect(q) ==
    /\ query[q] = "connect"
    /\ RegisterPool(q, "post")
    /\ cached' = [cached EXCEPT !.isConnected = @ \/ cached.password = truth]
    /\ QueryOnly

\* The database may have the connections of an old pool still open.
Executes(q) ==
    \/ Ends(q, "ready") /\ cut' = cut \ {q}
    \/ pool # truth /\ QueryFails(q)

\* Mutant: CONNECTION_NOT_FOUND is an error like others.
PostOnce(q) ==
    /\ query[q] = "post"
    /\ IF pool = 0 THEN QueryFails(q) ELSE Executes(q)
    /\ QueryOnly /\ UNCHANGED <<cached, pool>>

\* executeQuery; CONNECTION_NOT_FOUND is answered with a registration.
Post(q) ==
    /\ query[q] = "post"
    /\ IF pool = 0 THEN Ends(q, "reregister") /\ UNCHANGED cut ELSE Executes(q)
    /\ QueryOnly /\ UNCHANGED <<cached, pool>>

Reregister(q) ==
    /\ query[q] = "reregister"
    /\ RegisterPool(q, "again")
    /\ QueryOnly /\ UNCHANGED cached

\* The second attempt is the last.
PostAgain(q) ==
    /\ query[q] = "again"
    /\ IF pool = 0 THEN QueryFails(q) ELSE Executes(q)
    /\ QueryOnly /\ UNCHANGED <<cached, pool>>

----------------------------------------------------------------------------
(* What happens around them. *)

ChangePassword ==
    /\ truth < MaxPassword
    /\ truth' = truth + 1
    /\ UNCHANGED <<rows, dict, call, bridge, queries, restarts, ghosts>>

Requesting == {q \in Query : query[q] \in {"connect", "post", "reregister", "again"}}

\* The bridge loses its pools; the requests it was working on fail, others
\* reach it afterwards.
RestartBridge ==
    /\ restarts < MaxRestarts
    /\ restarts' = restarts + 1
    /\ temp' = {} /\ kept' = {} /\ pool' = 0
    /\ \E lost \in SUBSET Requesting :
          /\ query' = [q \in Query |-> IF q \in lost THEN "ready" ELSE query[q]]
          /\ cut' = (cut \ lost) \cup {q \in Query \ lost : query[q] = "again"}
    /\ UNCHANGED <<rows, dict, call, cached, truth, whole, crossed, left, stripped>>

\* The backend loses its calls, queries and BridgeDatasource; rows, files
\* and pools stay.
RestartBackend ==
    /\ restarts < MaxRestarts
    /\ restarts' = restarts + 1
    /\ call' = [c \in Call |-> IF IsActive(c) THEN [NoCall EXCEPT !.pc = "done"] ELSE call[c]]
    /\ StopsBetween(Call)
    /\ kept' = kept \cup {c \in temp : IsActive(c)}
    /\ query' = [q \in Query |-> IF q \in Requesting THEN "ready" ELSE query[q]]
    /\ cut' = {}
    /\ cached' = [password |-> 0, isConnected |-> FALSE]
    /\ UNCHANGED <<rows, dict, bridge, truth, whole, crossed, left>>

----------------------------------------------------------------------------

Service(c) ==
    \/ AskCreate(c) \/ AskUpdate(c) \/ AskDelete(c)
    \/ FindTarget(c) \/ Unmask(c) \/ Test(c) \/ RemoveDictionary(c) \/ DeleteRow(c)
    \/ FindDuplicate(c) \/ Register(c) \/ GetTables(c) \/ TryNextName(c) \/ InsertRow(c)
    \/ SaveIni(c) \/ CreateTable(c) \/ SaveFile(c) \/ SavePath(c) \/ Cleanup(c) \/ Fails(c)

Ask(q) == Prepare(q) \/ Connect(q) \/ Post(q) \/ Reregister(q) \/ PostAgain(q)

Next ==
    \/ \E c \in Call : Service(c)
    \/ \E q \in Query : Ask(q)
    \/ ChangePassword \/ RestartBridge \/ RestartBackend

Spec == Init /\ [][Next]_vars

----------------------------------------------------------------------------
(* Properties. *)

IsRemoving(i) == \E c \in Removing : call[c].target = i

\* Agents find in each dictionary directory the datasource it is named after:
\* a stored datasource whose creation went through has its directory, with its
\* config.ini and the file of its table, and a config.ini names a stored
\* datasource, although names are handed out again as soon as a row is gone,
\* calls fail at every step, and processes restart.  Excused are
\*   - a name two calls worked on at once (the older one may remove what the
\*     other has made);
\*   - a row whose update or deletion is between the removal of the directory
\*     and that of the row, or failed or was cut off by a restart there: the
\*     row is still stored, its directory is gone;
\*   - a config.ini in a directory whose removal failed.
DictionariesFit ==
    /\ \A i \in whole \ stripped : row[i].name \notin crossed /\ ~IsRemoving(i) =>
          /\ dict[row[i].name].id = i /\ dict[row[i].name].password = row[i].password
          /\ i \in dict[row[i].name].files
    /\ \A n \in Name \ (crossed \cup left) :
          dict[n].id # 0 => Stored(dict[n].id) /\ row[dict[n].id].name = n

\* Configurations are tested before they are stored and a pool the bridge
\* forgot is registered again: a query fails only if the bridge restarted
\* under a request of it, or restarted again before its second attempt, or if
\* the password changed since the BridgeDatasource was made (which keeps its
\* first configuration, whatever is saved later).
QueriesSurvive == \A q \in Query : query[q] # "failed"

\* A call that is over has given its temporary connection back, unless the
\* bridge did not answer or the backend restarted.
NothingKept == \A c \in temp \ kept : IsActive(c)
=============================================================================
